--------------------------- MODULE BootstrapProofs ---------------------------
(***************************************************************************)
(* Proofs about Bootstrap, for any environment, chain and bounds: the      *)
(* script finds the deployment block however the service is set up next to *)
(* it, the first scan leaves no block out wherever its numbers are         *)
(* numbers, and the recommendation of the script fits it, unless NETWORK   *)
(* is written in a way in which the two take it for two networks.          *)
(***************************************************************************)
EXTENDS Bootstrap, DeploymentSearchProofs, EnvironmentProofs

\* Every step of the composition is one of the search, or leaves it alone.
LEMMA BootstrapSearches == [BootstrapNext]_bootstrapVars => [SearchNext]_searchVars
  <1> SUFFICES ASSUME [BootstrapNext]_bootstrapVars PROVE [SearchNext]_searchVars
    OBVIOUS
  <1>1. CASE SearchStep
    BY <1>1 DEF SearchStep
  <1>2. CASE FollowRecommendation
    BY <1>2 DEF FollowRecommendation
  <1>3. CASE ServiceStep
    BY <1>3 DEF ServiceStep
  <1>4. CASE UNCHANGED bootstrapVars
    BY <1>4 DEF bootstrapVars
  <1> QED
    BY <1>1, <1>2, <1>3, <1>4 DEF BootstrapNext

\* Setting up the service does not disturb the search.
THEOREM BootstrapFindsDeployment == BootstrapSpec => []FindsDeployment
  <1>1. BootstrapSpec => SearchSpec
    BY BootstrapSearches, PTL DEF BootstrapSpec, BootstrapInit, SearchSpec
  <1> QED
    BY <1>1, SearchIsExact, PTL

-----------------------------------------------------------------------------
\* The invariant of script, environment and first scan

\* The line the script prints names a variable that is read as a number.
LEMMA RecommendationNames ==
    Recommendation \in {StartBlockName[n] : n \in Network}
  BY DEF Recommendation, Network

\* It is the one the service will read, in an environment that validate() lets
\* through and that does not write the network in capitals.
LEMMA RecommendationRead ==
    ASSUME Valid, env["NETWORK"] # "MAINNET"
    PROVE  Recommendation = StartBlockName[ChosenNetwork]
  <1>1. Or("NETWORK", "sepolia") \in {"sepolia", "mainnet"}
    BY ValidNetwork
  <1> QED
    BY <1>1 DEF Recommendation, ChosenNetwork

\* The invariant speaks of the variables of the service alone.
LEMMA SameService ==
    ASSUME ServiceInv, UNCHANGED environmentVars
    PROVE  ServiceInv' /\ Recommendation' = Recommendation
  <1>1. UNCHANGED <<env, bootPc, routes, listening, networkConfig, lastSyncedBlock,
                    fromBlock, outerToBlock, innerFrom, queried, widest>>
    BY DEF environmentVars, scanVars
  <1> QED
    BY <1>1, SameEnvironment DEF ServiceInv, EnvironmentTypeOK, Recommendation, Or

\* A step of the script keeps the invariant.
LEMMA SearchStepBootInv ==
    ASSUME BootInv, SearchStep
    PROVE  BootInv'
  <1>1. SearchInv'
    BY SearchStepInv DEF BootInv, SearchStep
  <1>2. ServiceInv' /\ Recommendation' = Recommendation
    BY SameService DEF BootInv, SearchStep
  <1>3. searchPc # "found"
    BY DEF SearchStep, SearchNext, SearchBegins, Probe, Report, SearchFails
  <1>4. recommended' = IF searchPc' = "found" THEN Recommendation ELSE recommended
    BY DEF SearchStep
  <1>5. searchPc' = "found" => deploymentBlock' # None
    BY <1>3 DEF SearchStep, SearchNext, SearchBegins, Probe, Report, SearchFails
  <1> QED
    BY <1>1, <1>2, <1>3, <1>4, <1>5 DEF BootInv

\* The line is copied: the environment stays one, of the same network, and nothing
\* has been done with it yet.
LEMMA FollowKeepsBootInv ==
    ASSUME BootInv, FollowRecommendation
    PROVE  BootInv'
  <1>1. /\ recommended = Recommendation /\ IsEnvironment(env) /\ ServiceInv
        /\ deploymentBlock # None /\ bootPc = "validate"
    BY DEF BootInv, ServiceInv, EnvironmentTypeOK, FollowRecommendation
  <1>2. deploymentBlock \in Nat
    BY <1>1, DeploymentSearchAssumption DEF BootInv, SearchInv, SearchTypeOK
  <1>3. /\ recommended \in {StartBlockName[n] : n \in Network}
        /\ recommended \in AppConfig /\ recommended # "NETWORK"
    BY <1>1, RecommendationNames DEF StartBlockName, AppConfig, Network
  <1>4. env' = [env EXCEPT ![recommended] = deploymentBlock]
    BY DEF FollowRecommendation
  <1>5. \A n \in AppConfig :
           env'[n] = IF n = recommended THEN deploymentBlock ELSE env[n]
    BY <1>1, <1>4 DEF IsEnvironment
  <1>6. env' = [n \in AppConfig |-> env'[n]]
    BY <1>1, <1>4 DEF IsEnvironment
  <1>7. Numeric \subseteq AppConfig
    BY DEF Numeric, AppConfig
  <1>8. IsEnvironment(env)'
    BY <1>1, <1>2, <1>5, <1>6, <1>7 DEF IsEnvironment
  <1>9. env'["NETWORK"] = env["NETWORK"]
    BY <1>3, <1>5 DEF AppConfig
  <1>10. Recommendation' = Recommendation
    BY <1>9 DEF Recommendation, Or
  <1>11. UNCHANGED <<searchVars, recommended, bootPc, routes, listening,
                     networkConfig, scanVars>>
    BY DEF FollowRecommendation
  <1>12. EnvironmentTypeOK'
    BY <1>1, <1>8, <1>11 DEF ServiceInv, EnvironmentTypeOK, scanVars
  <1>13. ValidatedNetwork' = ValidatedNetwork
    BY <1>9 DEF ValidatedNetwork, Or
  <1>14. ServiceInv'
    BY <1>1, <1>9, <1>11, <1>12, <1>13 DEF ServiceInv, scanVars
  <1>15. SearchInv'
    BY <1>11, SearchStepInv DEF BootInv
  <1> QED
    BY <1>10, <1>11, <1>14, <1>15 DEF BootInv, searchVars

\* Every step of the composition keeps the invariant.
LEMMA BootStepInv ==
    ASSUME BootInv, [BootstrapNext]_bootstrapVars
    PROVE  BootInv'
  <1>1. CASE UNCHANGED bootstrapVars
    <2>1. UNCHANGED <<searchVars, environmentVars, recommended>>
      BY <1>1 DEF bootstrapVars
    <2>2. SearchInv' /\ ServiceInv' /\ Recommendation' = Recommendation
      BY <2>1, SearchStepInv, SameService DEF BootInv
    <2> QED
      BY <2>1, <2>2 DEF BootInv, searchVars
  <1>2. CASE ServiceStep
    <2>1. UNCHANGED <<searchVars, recommended>> /\ EnvironmentNext
      BY <1>2 DEF ServiceStep
    <2>2. SearchInv' /\ ServiceInv'
      BY <2>1, SearchStepInv, ServiceStepInv DEF BootInv
    <2>3. Recommendation' = Recommendation
      BY <2>1 DEF EnvironmentNext, Refuse, Create, Connect, BeginScan, QueryChunk,
                  NextOuter, Recommendation, Or
    <2> QED
      BY <2>1, <2>2, <2>3 DEF BootInv, searchVars
  <1> QED
    BY <1>1, <1>2, SearchStepBootInv, FollowKeepsBootInv DEF BootstrapNext

\* The invariant of script, environment and first scan, for any environments, any
\* chain and any block of creation.
THEOREM BootInvariance == BootstrapSpec => []BootInv
  <1>1. BootstrapInit => BootInv
    BY ServiceInit, SearchInitInv DEF BootstrapInit, BootInv, SearchInit
  <1>2. BootInv /\ [BootstrapNext]_bootstrapVars => BootInv'
    BY BootStepInv
  <1> QED
    BY <1>1, <1>2, PTL DEF BootstrapSpec

-----------------------------------------------------------------------------
\* What follows from it

\* Every state of the script and the service is well typed, whatever environment
\* the service was given: numbers stay in the chain, or are NaN where the
\* environment's were.
THEOREM BootstrapTypes == BootstrapSpec => []BootstrapTypeOK
  <1>1. BootInv => BootstrapTypeOK
    BY RecommendationNames DEF BootInv, SearchInv, ServiceInv, BootstrapTypeOK
  <1> QED
    BY BootInvariance, <1>1, PTL

\* The first scan queries every block after the start block before it moves the
\* mark to the head, whatever the batch size, the range and the height, and none
\* where the start block or the batch size is no number; and it asks an Alchemy
\* provider for ten blocks at most unless it is told otherwise.
THEOREM FirstScanIsComplete == BootstrapSpec => []FirstScanComplete
  <1>1. BootInv => FirstScanComplete
    BY ScannedCompletely DEF BootInv
  <1> QED
    BY BootInvariance, <1>1, PTL

\* Who follows the script's recommendation scans exactly the blocks after the
\* contract's deployment, on either network, unless NETWORK is MAINNET or the
\* batch size is no number.
THEOREM RecommendationIsFit == BootstrapSpec => []RecommendationFits
  <1>1. BootInv => RecommendationFits
    <2> SUFFICES ASSUME BootInv, recommended # Unset, env[recommended] = deployed,
                        bootPc = "synced", env["NETWORK"] # "MAINNET",
                        Number(BatchSize)
                 PROVE  queried = deployed + 1 .. Head
      BY DEF RecommendationFits
    <2>1. /\ IsEnvironment(env) /\ Valid /\ recommended = Recommendation
          /\ queried = IF ScanNumbers THEN FirstBlock + 1 .. Head ELSE {}
      BY DEF BootInv, ServiceInv, EnvironmentTypeOK
    <2>2. deployed \in Nat
      BY DeploymentSearchAssumption
         DEF BootInv, SearchInv, SearchTypeOK, FindsDeployment
    <2>3. StartBlock = deployed
      <3>1. env[StartBlockName[ChosenNetwork]] = deployed /\ deployed # Unset
        BY <2>1, <2>2, RecommendationRead, EnvironmentAssumption
      <3> QED
        BY <3>1 DEF StartBlock, Or
    <2>4. Number(StartBlock) /\ FirstBlock = deployed
      BY <2>1, <2>2, <2>3, ValidNumbers, EnvironmentAssumption DEF Number
    <2> QED
      BY <2>1, <2>4 DEF ScanNumbers
  <1> QED
    BY BootInvariance, <1>1, PTL
=============================================================================
