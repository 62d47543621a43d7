-------------------------- MODULE DeploymentSearch ---------------------------
(***************************************************************************)
(* scripts/find-contract-deployment-block.js: the binary search for the    *)
(* block from which on the contract has code, whose result the operator is *)
(* told to put into the environment as the start block.                    *)
(***************************************************************************)
EXTENDS Integers

CONSTANTS
    Height,           \* the block number with which the search begins
    None              \* null; also: the contract is not deployed

ASSUME DeploymentSearchAssumption == Height \in Nat /\ None \notin Int

VARIABLES
    deployed,         \* the block of the contract's creation (external)
    left, right, deploymentBlock,
    searchPc          \* where findDeploymentBlock() stands

searchVars == <<deployed, left, right, deploymentBlock, searchPc>>

SearchTypeOK ==
    /\ deployed \in 0 .. Height \cup {None}
    /\ left \in 0 .. Height + 1
    /\ right \in -1 .. Height
    /\ deploymentBlock \in 0 .. Height \cup {None}
    /\ searchPc \in {"off", "searching", "found", "notFound", "failed"}

\* The contract has code at block b, and keeps it: it cannot destroy itself.
HasCode(b) == deployed # None /\ deployed <= b

\* Faulty variant: one block too many is cut off below a block with code.
FaultyNarrow(mid) ==
    IF HasCode(mid) THEN deploymentBlock' = mid /\ right' = mid - 2 /\ left' = left
    ELSE left' = mid + 1 /\ UNCHANGED <<right, deploymentBlock>>

\* The answer for block mid: the creation is at mid or before it, or after it.
Narrow(mid) ==
    IF HasCode(mid) THEN deploymentBlock' = mid /\ right' = mid - 1 /\ left' = left
    ELSE left' = mid + 1 /\ UNCHANGED <<right, deploymentBlock>>

SearchInit ==
    /\ deployed \in 0 .. Height \cup {None}
    /\ left = 0 /\ right = Height
    /\ deploymentBlock = None
    /\ searchPc = "off"

\* getBlockNumber answers.
SearchBegins ==
    /\ searchPc = "off"
    /\ searchPc' = "searching"
    /\ UNCHANGED <<deployed, left, right, deploymentBlock>>

\* getCode answers for the block in the middle.
Probe ==
    /\ searchPc = "searching"
    /\ left <= right
    /\ Narrow((left + right) \div 2)
    /\ UNCHANGED <<deployed, searchPc>>

\* The range is empty.  The result is tested for truth, and block 0 is not true.
Report ==
    /\ searchPc = "searching"
    /\ left > right
    /\ searchPc' = IF deploymentBlock \in {None, 0} THEN "notFound" ELSE "found"
    /\ UNCHANGED <<deployed, left, right, deploymentBlock>>

\* An RPC call fails, or the environment has no URL or address: exit(1).
SearchFails ==
    /\ searchPc \in {"off", "searching"}
    /\ searchPc' = "failed"
    /\ UNCHANGED <<deployed, left, right, deploymentBlock>>

SearchNext == SearchBegins \/ Probe \/ Report \/ SearchFails

SearchSpec == SearchInit /\ [][SearchNext]_searchVars

-----------------------------------------------------------------------------
\* Properties

\* A block the script recommends is the block of the contract's creation, and it
\* only says that there is none of a contract that has none, or is as old as the
\* chain.
FindsDeployment ==
    /\ searchPc = "found" => deploymentBlock = deployed
    /\ searchPc = "notFound" => deployed \in {None, 0}

\* The loop invariant behind it: no code before left, code from right + 1 on,
\* and that is the block remembered.
SearchInv ==
    /\ SearchTypeOK
    /\ left <= right + 1
    /\ deployed # None => left <= deployed
    /\ deployed = None => right = Height
    /\ right = Height => deploymentBlock = None
    /\ right # Height => deploymentBlock = right + 1 /\ HasCode(right + 1)
    /\ FindsDeployment
=============================================================================
