SPECIFICATION Spec
CONSTANTS
    l1 = l1
    l2 = l2
    bad = bad
    r1 = r1
    s1 = s1
    NoLock = NoLock
    Boot = Boot
    Lock = {l1,l2,bad}
    Malformed = {bad}
    Request = {r1}
    Sync = {s1}
    WebSocket = TRUE
    Patient = TRUE
    MaxBlock = 2
    MaxProviders = 2
    MaxRestarts = 2
SYMMETRY Symmetry
INVARIANTS TypeOK ServesConfiguredLock SilentWhenReset SeqInv
PROPERTIES GuardsHoldUnlessUnread PromiseSpec
