SPECIFICATION Spec
CONSTANTS
    h1 = h1
    s1 = s1
    s2 = s2
    Hash = {h1}
    Sync = {s1,s2}
    StartBlock = 0
    BatchSize = 2
    LogsMaxRange = 1
    MaxBlock = 2
    MaxHandlers = 2
    RpcFailures = 1
    DbFailures = 1
    Crashes = 1
    ForcedSyncs = 1
    Budget <- MCBudget
    MaxRare = 1
SYMMETRY Symmetry
INVARIANTS TypeOK NoGapBelowMark SkipIsSafe IInv
PROPERTY CacheSpec
