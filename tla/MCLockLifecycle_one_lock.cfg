SPECIFICATION Spec
CONSTANTS
    l1 = l1
    r1 = r1
    s1 = s1
    s2 = s2
    NoLock = NoLock
    Boot = Boot
    Lock = {l1}
    Malformed = {}
    Request = {r1}
    Sync = {s1,s2}
    WebSocket = FALSE
    Patient = FALSE
    MaxBlock = 2
    MaxProviders = 2
    MaxRestarts = 1
SYMMETRY Symmetry
INVARIANT MarkMeansScanned MarkInv
