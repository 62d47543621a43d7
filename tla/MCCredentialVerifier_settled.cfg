SPECIFICATION FairVerifierSpec
CONSTANTS
    h1 = h1
    s1 = s1
    Hash = {h1}
    Sync = {s1}
    StartBlock = 0
    BatchSize = 2
    LogsMaxRange = 1
    MaxBlock = 2
    MaxHandlers = 1
    RpcFailures = 1
    DbFailures = 1
    Crashes = 1
    ForcedSyncs = 0
    Budget <- MCBudget
    MaxRare = 3
INVARIANT SettledIsRefused
PROPERTIES RevocationTakesEffect EventuallyHandled MarkConverges
