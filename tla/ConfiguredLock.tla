--------------------------- MODULE ConfiguredLock ---------------------------
(***************************************************************************)
(* What the service promises an administrator who waits for every answer,  *)
(* with no connection, no timers and no awaits: one lock at most is        *)
(* configured, it is the stored one, and its revocations and no others are *)
(* listened for.  A reset forgets it; so does an init of a service that    *)
(* could not read, as it started, what was stored, and nothing else.       *)
(* LockLifecycle is shown to implement this specification.                 *)
(***************************************************************************)
CONSTANTS Lock, NoLock

VARIABLES
    up,                \* the process runs
    stored,            \* the lock in the database, or NoLock
    configured,        \* the lock GET /config/status names, or NoLock
    served,            \* the locks whose revocations are listened for
    unread             \* the service does not know that a lock is stored

vars == <<up, stored, configured, served, unread>>

Init ==
    /\ up = FALSE
    /\ stored = NoLock /\ configured = NoLock
    /\ served = {} /\ unread = FALSE

\* The process starts, and knows nothing yet.
Start ==
    /\ ~up /\ up' = TRUE
    /\ UNCHANGED <<stored, configured, served, unread>>

\* A service with no lock takes one, and keeps it.
Configure(l) ==
    /\ up /\ configured = NoLock /\ stored = NoLock /\ served = {}
    /\ configured' = l /\ stored' = l
    /\ UNCHANGED <<up, served, unread>>

\* A service that starts takes over the lock it was configured with.
Restore ==
    /\ up /\ configured = NoLock /\ served = {}
    /\ stored # NoLock /\ ~unread
    /\ configured' = stored
    /\ UNCHANGED <<up, stored, served, unread>>

\* A service that starts does not find the lock it was configured with,
Overlook ==
    /\ up /\ configured = NoLock /\ served = {}
    /\ stored # NoLock /\ ~unread
    /\ unread' = TRUE
    /\ UNCHANGED <<up, stored, configured, served>>

\* and forgets it for the next one it is given, without a reset.
Replace(l) ==
    /\ up /\ unread
    /\ configured = NoLock /\ served = {}
    /\ configured' = l /\ stored' = l /\ unread' = FALSE
    /\ UNCHANGED <<up, served>>

\* The configured lock is listened for, and no other.
Serve ==
    /\ up /\ configured # NoLock /\ served = {}
    /\ served' = {configured}
    /\ UNCHANGED <<up, stored, configured, unread>>

\* The lock is forgotten, in memory and in the database, and listened for no
\* longer.
Reset ==
    /\ up /\ configured # NoLock
    /\ configured' = NoLock /\ stored' = NoLock /\ served' = {}
    /\ UNCHANGED <<up, unread>>

\* The process ends, and forgets what is not stored.
Stop ==
    /\ up /\ up' = FALSE
    /\ configured' = NoLock /\ served' = {} /\ unread' = FALSE
    /\ UNCHANGED stored

Next ==
    \/ \E l \in Lock : Configure(l) \/ Replace(l)
    \/ Start \/ Restore \/ Overlook \/ Serve \/ Reset \/ Stop

Spec == Init /\ [][Next]_vars
=============================================================================
