SPECIFICATION FairHealthSpec
CONSTANTS
    h1 = h1
    s1 = s1
    Hash = {h1}
    Sync = {s1}
    StartBlock = 0
    BatchSize = 2
    LogsMaxRange = 1
    MaxBlock = 2
    MaxHandlers = 1
    RpcFailures = 0
    DbFailures = 0
    Crashes = 1
    ForcedSyncs = 1
    Budget <- MCBudget
    MaxRare = 2
    HealthyLag = 1
    MaxLosses = 1
INVARIANTS HealthyMeansSettled
PROPERTY HealthRecovers
CHECK_DEADLOCK FALSE
