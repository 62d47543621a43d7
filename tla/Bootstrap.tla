------------------------------ MODULE Bootstrap ------------------------------
(***************************************************************************)
(* Setting up a lock: the operator looks for the contract's deployment     *)
(* block, puts the recommended line into the environment and starts the    *)
(* service, which scans from there on.                                     *)
(***************************************************************************)
EXTENDS DeploymentSearch, Environment

VARIABLE recommended   \* the line the script prints: the variable it names

bootstrapVars == <<searchVars, environmentVars, recommended>>

BootstrapInit ==
    SearchInit /\ EnvironmentInit /\ recommended = Unset

\* The network the script asks.
SearchedNetwork == ChosenNetwork

\* Faulty variant: the words are compared the other way round.
FaultyRecommendation ==
    IF Or("NETWORK", "sepolia") = "sepolia" THEN StartBlockName["mainnet"]
    ELSE StartBlockName["sepolia"]

\* The variable it recommends to set: any word but sepolia is the mainnet's.
Recommendation ==
    IF Or("NETWORK", "sepolia") = "sepolia" THEN StartBlockName["sepolia"]
    ELSE StartBlockName["mainnet"]

\* The operator runs the script before the service.
SearchStep ==
    /\ bootPc = "validate"
    /\ SearchNext
    /\ searchPc = "off" /\ searchPc' = "searching" =>
          Unset \notin {env[RpcUrl[SearchedNetwork]], env[Address[SearchedNetwork]]}
    /\ recommended' = IF searchPc' = "found" THEN Recommendation ELSE recommended
    /\ UNCHANGED environmentVars

\* The operator copies the line into the environment.
FollowRecommendation ==
    /\ bootPc = "validate" /\ searchPc = "found"
    /\ env[recommended] # deploymentBlock
    /\ env' = [env EXCEPT ![recommended] = deploymentBlock]
    /\ UNCHANGED <<searchVars, recommended, bootPc, routes, listening,
                   networkConfig, scanVars>>

\* The service starts when the script is done or was never run.
ServiceStep ==
    /\ EnvironmentNext
    /\ searchPc # "searching"
    /\ UNCHANGED <<searchVars, recommended>>

BootstrapNext == SearchStep \/ FollowRecommendation \/ ServiceStep

BootstrapSpec == BootstrapInit /\ [][BootstrapNext]_bootstrapVars

-----------------------------------------------------------------------------
\* Properties

\* Every state of the composition is well typed.
BootstrapTypeOK ==
    /\ SearchTypeOK /\ EnvironmentTypeOK
    /\ recommended \in {Unset} \cup {StartBlockName[n] : n \in Network}

\* An operator who followed the recommendation misses nothing of the contract
\* (the script says it is there "to avoid scanning unnecessary blocks before
\* contract deployment"), and scans nothing before it; unless NETWORK is written
\* in capitals, for which the script and the service read different variables, or
\* the batch size is no number.
RecommendationFits ==
    recommended # Unset /\ env[recommended] = deployed /\ bootPc = "synced"
        => \/ queried = deployed + 1 .. Head
           \/ env["NETWORK"] = "MAINNET"
           \/ ~Number(BatchSize)

\* Behind it: a line that is printed is that of the network the script was asked
\* for, and the block the script found is one, and the contract's.
BootInv ==
    /\ SearchInv /\ ServiceInv
    /\ searchPc = "found" => recommended = Recommendation /\ deploymentBlock # None
    /\ recommended # Unset => searchPc = "found"
=============================================================================
