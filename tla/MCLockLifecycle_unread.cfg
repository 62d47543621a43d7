SPECIFICATION Spec
CONSTANTS
    l1 = l1
    l2 = l2
    r1 = r1
    s1 = s1
    NoLock = NoLock
    Boot = Boot
    Lock = {l1,l2}
    Malformed = {}
    Request = {r1}
    Sync = {s1}
    WebSocket = FALSE
    Patient = TRUE
    MaxBlock = 1
    MaxProviders = 2
    MaxRestarts = 1
PROPERTY GuardsHold
