----------------------- MODULE DeploymentSearchProofs ------------------------
(***************************************************************************)
(* The binary search finds the block of the contract's creation, whatever  *)
(* the height of the chain.                                                *)
(***************************************************************************)
EXTENDS DeploymentSearch, TLAPS

\* The middle of a range that is not empty lies in it.
LEMMA Middle ==
    ASSUME NEW l \in Int, NEW r \in Int, l <= r
    PROVE  LET mid == (l + r) \div 2 IN mid \in Int /\ l <= mid /\ mid <= r
  OBVIOUS

\* The loop invariant holds when the search begins.
LEMMA SearchInitInv == SearchInit => SearchInv
  BY DeploymentSearchAssumption
     DEF SearchInit, SearchInv, SearchTypeOK, FindsDeployment, HasCode

\* One answer of getCode keeps it: the block of the creation stays between left
\* and right + 1, and the smallest block known to have code is remembered.
LEMMA ProbeKeepsInv ==
    ASSUME SearchInv, Probe
    PROVE  SearchInv'
  <1> DEFINE mid == (left + right) \div 2
  <1>1. left \in Int /\ right \in Int /\ left <= right
    BY DeploymentSearchAssumption DEF SearchInv, SearchTypeOK, Probe
  <1>2. mid \in Int /\ left <= mid /\ mid <= right
    BY <1>1, Middle
  <1>3. Narrow(mid) /\ UNCHANGED <<deployed, searchPc>> /\ searchPc = "searching"
    BY DEF Probe
  <1> HIDE DEF mid
  <1>4. CASE HasCode(mid)
    <2>1. deploymentBlock' = mid /\ right' = mid - 1 /\ left' = left
      BY <1>3, <1>4 DEF Narrow
    <2>2. SearchTypeOK'
      BY <1>2, <1>3, <2>1, DeploymentSearchAssumption DEF SearchInv, SearchTypeOK
    <2> QED
      BY <1>2, <1>3, <1>4, <2>1, <2>2, DeploymentSearchAssumption
         DEF SearchInv, SearchTypeOK, FindsDeployment, HasCode
  <1>5. CASE ~HasCode(mid)
    <2>1. left' = mid + 1 /\ UNCHANGED <<right, deploymentBlock>>
      BY <1>3, <1>5 DEF Narrow
    <2>2. SearchTypeOK'
      BY <1>2, <1>3, <2>1, DeploymentSearchAssumption DEF SearchInv, SearchTypeOK
    <2> QED
      BY <1>2, <1>3, <1>5, <2>1, <2>2, DeploymentSearchAssumption
         DEF SearchInv, SearchTypeOK, FindsDeployment, HasCode
  <1> QED
    BY <1>4, <1>5

\* When the range is empty, left is right + 1, and the creation cannot be before
\* it nor after it: what the script then says is true.
LEMMA ReportKeepsInv ==
    ASSUME SearchInv, Report
    PROVE  SearchInv'
  <1>1. left = right + 1 /\ UNCHANGED <<deployed, left, right, deploymentBlock>>
    BY DeploymentSearchAssumption DEF SearchInv, SearchTypeOK, Report
  <1>2. deployed = None => deploymentBlock = None
    BY DEF SearchInv
  <1>3. deployed # None => deployed = (IF right = Height THEN None ELSE right + 1)
                           \/ deployed = Height + 1
    BY <1>1, DeploymentSearchAssumption DEF SearchInv, SearchTypeOK, HasCode
  <1>4. deployed # None => deploymentBlock = deployed
    BY <1>1, <1>3, DeploymentSearchAssumption DEF SearchInv, SearchTypeOK
  <1>5. FindsDeployment'
    BY <1>1, <1>2, <1>4 DEF Report, FindsDeployment
  <1> QED
    BY <1>1, <1>5 DEF Report, SearchInv, SearchTypeOK, HasCode

\* Every step of the search keeps the loop invariant.
LEMMA SearchStepInv == SearchInv /\ [SearchNext]_searchVars => SearchInv'
  <1> SUFFICES ASSUME SearchInv, [SearchNext]_searchVars PROVE SearchInv'
    OBVIOUS
  <1>1. CASE SearchBegins
    BY <1>1 DEF SearchBegins, SearchInv, SearchTypeOK, FindsDeployment, HasCode
  <1>2. CASE Probe
    BY <1>2, ProbeKeepsInv
  <1>3. CASE Report
    BY <1>3, ReportKeepsInv
  <1>4. CASE SearchFails
    BY <1>4 DEF SearchFails, SearchInv, SearchTypeOK, FindsDeployment, HasCode
  <1>5. CASE UNCHANGED searchVars
    BY <1>5 DEF searchVars, SearchInv, SearchTypeOK, FindsDeployment, HasCode
  <1> QED
    BY <1>1, <1>2, <1>3, <1>4, <1>5 DEF SearchNext

\* The search keeps its loop invariant, for every height of the chain and
\* wherever the contract was created.
THEOREM SearchInvariance == SearchSpec => []SearchInv
  BY SearchInitInv, SearchStepInv, PTL DEF SearchSpec

\* Whatever block the script reports is the one of the contract's creation.
THEOREM SearchIsExact == SearchSpec => []FindsDeployment
  <1>1. SearchInv => FindsDeployment
    BY DEF SearchInv
  <1> QED
    BY SearchInvariance, <1>1, PTL
=============================================================================
