SPECIFICATION FairHealthSpec
CONSTANTS
    h1 = h1
    s1 = s1
    Hash = {h1}
    Sync = {s1}
    StartBlock = 0
    BatchSize = 2
    LogsMaxRange = 1
    MaxBlock = 2
    MaxHandlers = 1
    RpcFailures = 0
    DbFailures = 0
    Crashes = 0
    ForcedSyncs = 0
    Budget <- MCBudget
    MaxRare = 0
    HealthyLag = 1
    MaxLosses = 1
PROPERTY LagIsReported
CHECK_DEADLOCK FALSE
