---------------------------- MODULE LockLifecycle ----------------------------
(***************************************************************************)
(* Configuring, resetting and restarting: LockConfigService, the handlers  *)
(* of ConfigController with their guards, and the start and stop of        *)
(* BlockchainListenerService, whose initialize(), stopHybridSync() and     *)
(* performBatchSync() read this.lockId, this.provider and this.contract    *)
(* anew after every await.  An action is what runs between two awaits.     *)
(*                                                                         *)
(* HybridSync has the detail of a scan; here a chunk is one block, and the *)
(* question is for which lock it is scanned.                               *)
(***************************************************************************)
EXTENDS Naturals, FiniteSets

CONSTANTS
    Lock,            \* ids of locks that configure() accepts
    Malformed,       \* those that the contract cannot filter by, such as 1.5:
                     \* configure() only refuses what is falsy or negative
    NoLock,          \* lockId = null
    Request,         \* HTTP requests to /config served at a time
    Boot,            \* onModuleInit of LockConfigService
    Sync,            \* invocations of performBatchSync that may overlap
    WebSocket,       \* the RPC URL is ws:// or wss://, not http(s)://
    Patient,         \* nobody sends a request to /config while the boot or
                     \* another request is still under way (external)
    MaxBlock,        \* bound: height at which the chain stops growing
    MaxProviders,    \* bound: calls of initialize() in one process
    MaxRestarts      \* bound: how often the process may end

ASSUME LockLifecycleAssumption ==
    /\ NoLock \notin Lock /\ Malformed \subseteq Lock
    /\ Boot \notin Request
    /\ WebSocket \in BOOLEAN /\ Patient \in BOOLEAN
    /\ MaxBlock \in Nat /\ MaxProviders \in Nat /\ MaxRestarts \in Nat

VARIABLES
    head,              \* number of the latest block (external)
    \* SQLite: survives a restart
    dbLock,            \* the singleton row of lock_config
    rows, mark,        \* locks with a sync_state row, and its lastSyncedBlock
    \* the process
    running, booted,   \* it runs; it answers HTTP requests
    restarts,          \* how often it has ended
    call,              \* where each request (or the boot) is waiting
    \* LockConfigService
    cfgLock,           \* lockId; isConfigured and publicKey go with it
    \* BlockchainListenerService
    lockId,            \* this.lockId
    provider,          \* this.provider: the number of the initialize() call
    contract,          \* this.contract: the provider it is connected to
    closed,            \* providers that were destroyed
    isListening,
    subs,              \* attached CredentialRevoked listeners <<provider, lock>>
    batchSyncInterval, \* the handle of an interval is set
    intervals,         \* intervals that are running
    timeouts,          \* initial batch syncs that are scheduled
    lastSyncedBlock,
    sync,              \* where each performBatchSync invocation stands
    confirming,        \* BATCH_SYNC_COMPLETE events being handled
    \* auxiliary
    scanned,           \* blocks whose logs were queried for each lock
    initFailed,        \* a call of initialize() failed since the last init
    unread             \* this process could not read the row that is stored

disk == <<dbLock, rows, mark>>
process == <<running, booted, restarts, unread>>
timers == <<batchSyncInterval, intervals, timeouts>>
connection == <<lockId, provider, contract, closed>>
scan == <<lastSyncedBlock, sync, confirming, scanned>>
vars == <<head, disk, process, call, cfgLock, connection, isListening, subs,
          timers, scan, initFailed>>

-----------------------------------------------------------------------------
Actor == Request \cup {Boot}
MaybeLock == Lock \cup {NoLock}
Block == 0 .. MaxBlock
Provider == 0 .. MaxProviders         \* 0 is undefined

InitializePc == {"network", "blockNumber", "row"}

CallState ==
    [pc : {"idle", "finding", "saving", "authorising", "deleting", "detaching",
           "destroying"} \cup InitializePc,
     lock : MaybeLock,        \* the lockId the call was made with
     provider : Provider,     \* the provider its pending RPC call is made on
     rowLock : MaybeLock,     \* the lock whose row it reads
     key : MaybeLock]         \* the lock whose public key authorises it

NoCall == [pc |-> "idle", lock |-> NoLock, provider |-> 0, rowLock |-> NoLock,
           key |-> NoLock]

SyncState ==
    [pc : {"idle", "asked", "querying", "pausing"},
     provider : Provider, currentBlock : Block, next : 0 .. MaxBlock + 1,
     lock : MaybeLock]        \* the lock of the filter of the pending query

NoSync == [pc |-> "idle", provider |-> 0, currentBlock |-> 0, next |-> 0,
           lock |-> NoLock]

\* A provider still answers: it exists and was not destroyed.
Alive(p) == p > 0 /\ p \notin closed

\* initialize(l) up to its first await: another lock id, another provider.
BeginInitialize(a, l) ==
    /\ provider < MaxProviders
    /\ lockId' = l
    /\ provider' = provider + 1
    /\ call' = [call EXCEPT ![a] = [NoCall EXCEPT !.pc = "network", !.lock = l,
                                                  !.provider = provider + 1]]
    /\ UNCHANGED <<contract, closed>>

\* stopRealtimeListening(): removeAllListeners('CredentialRevoked') may or may
\* not detach a listener registered under the lock's filter.
Detached == {subs} \cup
    (IF contract = 0 THEN {} ELSE {{x \in subs : x[1] # contract}})

\* Faulty variant: the catch counts the service as listening.
FaultyNotStarted ==
    /\ subs' \in Detached
    /\ isListening' = TRUE
    /\ UNCHANGED timers

\* The filter of the lock throws after the old listeners are gone.  The catch of
\* startHybridSync() only reports it: initialize() ends as if all were well.
NotStarted ==
    /\ subs' \in Detached
    /\ UNCHANGED <<isListening, timers>>

\* startHybridSync(), which does nothing while isListening.
StartHybridSync ==
    \/ isListening /\ UNCHANGED <<isListening, subs, timers>>
    \/ ~isListening /\ lockId \in Malformed /\ NotStarted
    \/ /\ ~isListening /\ lockId \notin Malformed
       /\ \E rest \in Detached : subs' = rest \cup {<<contract, lockId>>}
       /\ timeouts' = timeouts + 1
       /\ intervals' = intervals + 1
       /\ batchSyncInterval' = TRUE
       /\ isListening' = TRUE

\* Faulty variants: an interval is cleared that is not there; it is not cleared.
FaultyClearInterval == intervals - 1
FaultyKeepInterval == intervals

\* The intervals that run on when the one with the handle is cleared.
ClearInterval == IF batchSyncInterval THEN intervals - 1 ELSE intervals

\* stopHybridSync() up to its first await, called by r: detach the listeners,
\* clear the interval and, if there is a provider, what is registered on it.
StopHybridSync(r) ==
    /\ batchSyncInterval' = FALSE
    /\ intervals' = ClearInterval
    /\ \E rest \in Detached :
          subs' = {x \in rest : provider = 0 \/ x[1] # provider}
    /\ \/ /\ provider = 0
          /\ isListening' = FALSE
          /\ call' = [call EXCEPT ![r] = NoCall]
       \/ /\ provider # 0
          /\ isListening' = isListening
          /\ call' = [call EXCEPT ![r].pc = "detaching"]

\* getOrCreate answers with the row of lock l, which exists from now on.
GetOrCreate(l) ==
    /\ rows' = rows \cup {l}
    /\ lastSyncedBlock' = mark[l]

\* Faulty variant: the row stays.
FaultyDeleteConfig == dbLock' = dbLock

\* The singleton row of lock_config.
FindConfig == dbLock
SaveConfig(l) == dbLock' = l
DeleteConfig == dbLock' = NoLock

\* Faulty variant: a lock is never ready.
FaultyIsReady == FALSE

\* isReady(), and what getPublicKey() and getLockId() throw without: isConfigured,
\* lockId and publicKey are set and cleared together.
IsReady == cfgLock # NoLock

\* ConfigGuard: /init is refused while a lock is configured.
ConfigGuard == ~IsReady

\* The checks of configure() up to its await: an id is neither falsy nor negative.
Configurable(l) == ~IsReady /\ l \in Lock

\* What GET /config/status answers, and the listener's own getStatus().
ConfigDetails == [configured |-> IsReady, lockId |-> cfgLock]
Status == [lockId |-> lockId, isListening |-> isListening,
           batchSyncActive |-> batchSyncInterval,
           connected |-> provider # 0]

TypeOK ==
    /\ head \in Block
    /\ dbLock \in MaybeLock /\ rows \subseteq Lock /\ mark \in [Lock -> Block]
    /\ running \in BOOLEAN /\ booted \in BOOLEAN /\ restarts \in Nat
    /\ call \in [Actor -> CallState]
    /\ cfgLock \in MaybeLock
    /\ lockId \in MaybeLock /\ provider \in Provider /\ contract \in Provider
    /\ closed \subseteq Provider
    /\ isListening \in BOOLEAN
    /\ subs \subseteq (Provider \X MaybeLock)
    /\ batchSyncInterval \in BOOLEAN /\ intervals \in Nat /\ timeouts \in Nat
    /\ lastSyncedBlock \in Block
    /\ sync \in [Sync -> SyncState]
    /\ confirming \subseteq (MaybeLock \X Block)
    /\ scanned \in [Lock -> SUBSET Block]
    /\ initFailed \in BOOLEAN /\ unread \in BOOLEAN

Init ==
    /\ head = 0
    /\ dbLock = NoLock /\ rows = {} /\ mark = [l \in Lock |-> 0]
    /\ scanned = [l \in Lock |-> {}]
    /\ running = FALSE /\ booted = FALSE /\ restarts = 0
    /\ call = [a \in Actor |-> NoCall]
    /\ cfgLock = NoLock
    /\ lockId = NoLock /\ provider = 0 /\ contract = 0 /\ closed = {}
    /\ isListening = FALSE /\ subs = {}
    /\ batchSyncInterval = FALSE /\ intervals = 0 /\ timeouts = 0
    /\ lastSyncedBlock = 0 /\ sync = [s \in Sync |-> NoSync] /\ confirming = {}
    /\ initFailed = FALSE /\ unread = FALSE

-----------------------------------------------------------------------------
\* The chain and the process

MineBlock ==
    /\ head < MaxBlock
    /\ head' = head + 1
    /\ UNCHANGED <<disk, process, call, cfgLock, connection, isListening, subs,
                   timers, scan, initFailed>>

\* The process starts: onModuleInit of LockConfigService reads the row.
Start ==
    /\ ~running
    /\ running' = TRUE
    /\ call' = [call EXCEPT ![Boot].pc = "finding"]
    /\ UNCHANGED <<head, disk, booted, restarts, unread, cfgLock, connection,
                   isListening, subs, timers, scan, initFailed>>

\* findConfig answers.  initialize() is called but not awaited: the HTTP server
\* goes up while the boot's initialize() waits for the network.
ConfigFound ==
    /\ call[Boot].pc = "finding"
    /\ booted' = TRUE
    /\ cfgLock' = FindConfig
    /\ IF FindConfig = NoLock
       THEN /\ call' = [call EXCEPT ![Boot] = NoCall]
            /\ UNCHANGED connection
       ELSE BeginInitialize(Boot, FindConfig)
    /\ UNCHANGED <<head, disk, running, restarts, unread, isListening, subs,
                   timers, scan, initFailed>>

\* findConfig fails: logged, and the service goes on unconfigured, whatever is
\* stored.
ConfigNotRead ==
    /\ call[Boot].pc = "finding"
    /\ booted' = TRUE
    /\ unread' = (dbLock # NoLock)
    /\ call' = [call EXCEPT ![Boot] = NoCall]
    /\ UNCHANGED <<head, disk, running, restarts, cfgLock, connection,
                   isListening, subs, timers, scan, initFailed>>

\* The process ends: killed, stopped, or by the rejection nobody handles when
\* the boot's initialize() fails.
Exit ==
    /\ running
    /\ restarts < MaxRestarts
    /\ restarts' = restarts + 1
    /\ running' = FALSE /\ booted' = FALSE
    /\ call' = [a \in Actor |-> NoCall]
    /\ cfgLock' = NoLock
    /\ lockId' = NoLock /\ provider' = 0 /\ contract' = 0 /\ closed' = {}
    /\ isListening' = FALSE /\ subs' = {}
    /\ batchSyncInterval' = FALSE /\ intervals' = 0 /\ timeouts' = 0
    /\ lastSyncedBlock' = 0 /\ sync' = [s \in Sync |-> NoSync] /\ confirming' = {}
    /\ initFailed' = FALSE /\ unread' = FALSE
    /\ UNCHANGED <<head, disk, scanned>>

-----------------------------------------------------------------------------
\* The process runs, and nobody is configuring it.
Quiet == running /\ \A a \in Actor : call[a].pc = "idle"

\* A request to /config may come: the service itself has no say in it.
MayRequest == Patient => Quiet

\* POST /config/init

\* ConfigGuard and the check at the top of configure() pass; saveConfig is
\* called.
InitRequest(r, l) ==
    /\ booted /\ MayRequest
    /\ call[r].pc = "idle"
    /\ ConfigGuard
    /\ Configurable(l)
    /\ call' = [call EXCEPT ![r] = [NoCall EXCEPT !.pc = "saving", !.lock = l]]
    /\ UNCHANGED <<head, disk, process, cfgLock, connection, isListening, subs,
                   timers, scan, initFailed>>

\* saveConfig answers: configure() returns and initialize() begins.
ConfigSaved(r) ==
    /\ call[r].pc = "saving"
    /\ SaveConfig(call[r].lock)
    /\ cfgLock' = call[r].lock
    /\ initFailed' = FALSE /\ unread' = FALSE
    /\ BeginInitialize(r, call[r].lock)
    /\ UNCHANGED <<head, rows, mark, running, booted, restarts, isListening, subs,
                   timers, scan>>

-----------------------------------------------------------------------------
\* initialize(), for a request or for the boot

\* getNetwork answers: the contract is connected to the provider of the moment.
NetworkKnown(a) ==
    /\ call[a].pc = "network"
    /\ Alive(call[a].provider)
    /\ contract' = provider
    /\ call' = [call EXCEPT ![a].pc = "blockNumber", ![a].provider = provider]
    /\ UNCHANGED <<head, disk, process, cfgLock, lockId, provider, closed,
                   isListening, subs, timers, scan, initFailed>>

\* getBlockNumber answers: getOrCreate is called for the lock of the moment.
BlockNumberKnown(a) ==
    /\ call[a].pc = "blockNumber"
    /\ Alive(call[a].provider)
    /\ call' = [call EXCEPT ![a].pc = "row", ![a].rowLock = lockId]
    /\ UNCHANGED <<head, disk, process, cfgLock, connection, isListening, subs,
                   timers, scan, initFailed>>

\* getOrCreate answers: resume after the mark and start the hybrid sync.
RowRead(a) ==
    /\ call[a].pc = "row"
    /\ GetOrCreate(call[a].rowLock)
    /\ StartHybridSync
    /\ call' = [call EXCEPT ![a] = NoCall]
    /\ UNCHANGED <<head, dbLock, mark, process, cfgLock, connection, sync,
                   confirming, scanned, initFailed>>

\* A call of initialize() or configure() fails.  The request reports it and
\* nothing is undone; the boot's rejection ends the process (see Exit).
InitFails(r) ==
    /\ call[r].pc \in {"saving"} \cup InitializePc
    /\ call' = [call EXCEPT ![r] = NoCall]
    /\ initFailed' = TRUE
    /\ UNCHANGED <<head, disk, process, cfgLock, connection, isListening, subs,
                   timers, scan>>

-----------------------------------------------------------------------------
\* POST /config/reset

\* VcAuthGuard has a public key to verify the credential with.
ResetRequest(r) ==
    /\ booted /\ MayRequest
    /\ call[r].pc = "idle"
    /\ IsReady
    /\ call' = [call EXCEPT ![r].pc = "authorising", ![r].key = cfgLock]
    /\ UNCHANGED <<head, disk, process, cfgLock, connection, isListening, subs,
                   timers, scan, initFailed>>

\* The credential is good: deleteConfig is called.
Authorised(r) ==
    /\ call[r].pc = "authorising"
    /\ call' = [call EXCEPT ![r].pc = "deleting"]
    /\ UNCHANGED <<head, disk, process, cfgLock, connection, isListening, subs,
                   timers, scan, initFailed>>

\* The credential is refused, or deleteConfig fails.
ResetFails(r) ==
    /\ call[r].pc \in {"authorising", "deleting"}
    /\ call' = [call EXCEPT ![r] = NoCall]
    /\ UNCHANGED <<head, disk, process, cfgLock, connection, isListening, subs,
                   timers, scan, initFailed>>

\* deleteConfig answers: the configuration is cleared, and stopHybridSync()
\* runs up to its first await.
ConfigDeleted(r) ==
    /\ call[r].pc = "deleting"
    /\ DeleteConfig
    /\ cfgLock' = NoLock
    /\ StopHybridSync(r)
    /\ UNCHANGED <<head, rows, mark, process, connection, timeouts, scan,
                   initFailed>>

\* The await of removeAllListeners returns: a WebSocket is destroyed.
ProviderDetached(r) ==
    /\ call[r].pc = "detaching"
    /\ IF WebSocket
       THEN /\ closed' = closed \cup {provider}
            /\ call' = [call EXCEPT ![r].pc = "destroying"]
            /\ UNCHANGED isListening
       ELSE /\ isListening' = FALSE
            /\ call' = [call EXCEPT ![r] = NoCall]
            /\ UNCHANGED closed
    /\ UNCHANGED <<head, disk, process, cfgLock, lockId, provider, contract,
                   subs, timers, scan, initFailed>>

\* Faulty variant: the listener still counts as running.
FaultyProviderDestroyed(r) ==
    /\ call[r].pc = "destroying"
    /\ call' = [call EXCEPT ![r] = NoCall]
    /\ UNCHANGED <<head, disk, process, cfgLock, connection, isListening, subs,
                   timers, scan, initFailed>>

\* destroy() returns.
ProviderDestroyed(r) ==
    /\ call[r].pc = "destroying"
    /\ isListening' = FALSE
    /\ call' = [call EXCEPT ![r] = NoCall]
    /\ UNCHANGED <<head, disk, process, cfgLock, connection, subs, timers, scan,
                   initFailed>>

-----------------------------------------------------------------------------
\* performBatchSync

\* A timer fires: the initial timeout, which nothing cancels, or an interval.
BatchTimer(s) ==
    /\ sync[s].pc = "idle"
    /\ \/ timeouts > 0 /\ timeouts' = timeouts - 1
       \/ intervals > 0 /\ UNCHANGED timeouts
    /\ sync' = [sync EXCEPT ![s] = [NoSync EXCEPT !.pc = "asked",
                                                  !.provider = provider,
                                                  !.currentBlock = head]]
    /\ UNCHANGED <<head, disk, process, call, cfgLock, connection, isListening,
                   subs, batchSyncInterval, intervals, lastSyncedBlock,
                   confirming, scanned, initFailed>>

\* Faulty variant: the block after the mark is left out.
FaultyQuery(q, n) == [q EXCEPT !.pc = "querying", !.provider = contract,
                               !.next = n + 1, !.lock = lockId]

\* The query of block n, through the contract and for the lock of the moment.
Query(q, n) == [q EXCEPT !.pc = "querying", !.provider = contract,
                         !.next = n, !.lock = lockId]

\* getBlockNumber answers and the first block is queried.
StartScan(s) ==
    /\ sync[s].pc = "asked"
    /\ Alive(sync[s].provider)
    /\ lastSyncedBlock < sync[s].currentBlock
    /\ lockId \notin Malformed
    /\ sync' = [sync EXCEPT ![s] = Query(@, lastSyncedBlock + 1)]
    /\ UNCHANGED <<head, disk, process, call, cfgLock, connection, isListening,
                   subs, timers, lastSyncedBlock, confirming, scanned, initFailed>>

\* queryFilter answers: the logs are handed over, and the scan sleeps.
QueryDone(s) ==
    /\ sync[s].pc = "querying"
    /\ Alive(sync[s].provider)
    /\ scanned' = [scanned EXCEPT ![sync[s].lock] = @ \cup {sync[s].next}]
    /\ sync' = [sync EXCEPT ![s].pc = "pausing", ![s].next = @ + 1]
    /\ UNCHANGED <<head, disk, process, call, cfgLock, connection, isListening,
                   subs, timers, lastSyncedBlock, confirming, initFailed>>

\* The pause is over and there is another block.
NextQuery(s) ==
    /\ sync[s].pc = "pausing"
    /\ sync[s].next <= sync[s].currentBlock
    /\ lockId \notin Malformed
    /\ sync' = [sync EXCEPT ![s] = Query(@, sync[s].next)]
    /\ UNCHANGED <<head, disk, process, call, cfgLock, connection, isListening,
                   subs, timers, lastSyncedBlock, confirming, scanned, initFailed>>

\* All blocks are done: the mark moves, and BATCH_SYNC_COMPLETE carries the
\* lock id of the moment.  (Bound: equal completions wait one at a time.)
FinishSync(s) ==
    /\ \/ /\ sync[s].pc = "asked"
          /\ Alive(sync[s].provider)
          /\ lastSyncedBlock >= sync[s].currentBlock
       \/ /\ sync[s].pc = "pausing"
          /\ sync[s].next > sync[s].currentBlock
    /\ <<lockId, sync[s].currentBlock>> \notin confirming
    /\ lastSyncedBlock' = sync[s].currentBlock
    /\ confirming' = confirming \cup {<<lockId, sync[s].currentBlock>>}
    /\ sync' = [sync EXCEPT ![s] = NoSync]
    /\ UNCHANGED <<head, disk, process, call, cfgLock, connection, isListening,
                   subs, timers, scanned, initFailed>>

\* An RPC call fails, on a destroyed provider for certain; or the filter of the
\* next query throws.
SyncFails(s) ==
    /\ \/ sync[s].pc \in {"asked", "querying"}
       \/ /\ sync[s].pc = "pausing" /\ sync[s].next <= sync[s].currentBlock
          /\ lockId \in Malformed
    /\ sync' = [sync EXCEPT ![s] = NoSync]
    /\ UNCHANGED <<head, disk, process, call, cfgLock, connection, isListening,
                   subs, timers, lastSyncedBlock, confirming, scanned, initFailed>>

\* updateLastSyncedBlock: an UPDATE, without effect where there is no row.
ConfirmDone(c) ==
    /\ confirming' = confirming \ {c}
    /\ mark' = IF c[1] \in rows THEN [mark EXCEPT ![c[1]] = c[2]] ELSE mark
    /\ UNCHANGED <<head, dbLock, rows, process, call, cfgLock, connection,
                   isListening, subs, timers, lastSyncedBlock, sync, scanned,
                   initFailed>>

-----------------------------------------------------------------------------
Next ==
    \/ MineBlock \/ Start \/ ConfigFound \/ ConfigNotRead \/ Exit
    \/ \E r \in Request, l \in Lock : InitRequest(r, l)
    \/ \E r \in Request : ConfigSaved(r)
    \/ \E a \in Actor : NetworkKnown(a)
    \/ \E a \in Actor : BlockNumberKnown(a)
    \/ \E a \in Actor : RowRead(a)
    \/ \E r \in Request : InitFails(r)
    \/ \E r \in Request : ResetRequest(r)
    \/ \E r \in Request : Authorised(r)
    \/ \E r \in Request : ResetFails(r)
    \/ \E r \in Request : ConfigDeleted(r)
    \/ \E r \in Request : ProviderDetached(r)
    \/ \E r \in Request : ProviderDestroyed(r)
    \/ \E s \in Sync : BatchTimer(s)
    \/ \E s \in Sync : StartScan(s)
    \/ \E s \in Sync : QueryDone(s)
    \/ \E s \in Sync : NextQuery(s)
    \/ \E s \in Sync : FinishSync(s)
    \/ \E s \in Sync : SyncFails(s)
    \/ \E c \in confirming : ConfirmDone(c)

Spec == Init /\ [][Next]_vars

-----------------------------------------------------------------------------
\* Properties

LiveSubs == {x \in subs : Alive(x[1])}

\* When nobody is configuring, the lock that /config/status names is the one
\* that is stored and listened to: one subscription, on the current connection
\* and for this lock, and one running interval that a later reset will find.
\* An initialize() that failed leaves it unserved, and so does an id that the
\* contract cannot filter by, although /config/init answers "Lock initialized
\* successfully" for it: then the service is silent, and its status says so.
ServesConfiguredLock ==
    Quiet /\ ConfigDetails.configured /\ ~initFailed
        => /\ cfgLock = dbLock
           /\ LET listens == cfgLock \notin Malformed
              IN  /\ Status = [lockId |-> ConfigDetails.lockId,
                               isListening |-> listens,
                               batchSyncActive |-> listens, connected |-> TRUE]
                  /\ LiveSubs = IF listens THEN {<<provider, cfgLock>>} ELSE {}
                  /\ intervals = IF listens THEN 1 ELSE 0

\* When nobody is configuring and no lock is configured, nothing of an earlier
\* configuration still listens or will sync periodically.
SilentWhenReset ==
    Quiet /\ cfgLock = NoLock
        => ~isListening /\ LiveSubs = {} /\ intervals = 0

\* What sync-state.entity.ts:26 says of the mark, "inclusive: we have scanned
\* up to and including this block": every block up to the persisted mark of a
\* lock has been queried for that lock.
MarkMeansScanned == \A l \in Lock : 1 .. mark[l] \subseteq scanned[l]

\* Before the first initialize() of a process nothing is connected, and no scan
\* gets past its question for the block number.
Unconnected ==
    /\ lockId = NoLock /\ provider = 0 /\ contract = 0
    /\ \A a \in Actor : call[a].pc \notin InitializePc
    /\ \A s \in Sync : sync[s].pc \in {"idle", "asked"} /\ sync[s].provider = 0

\* What the types rest on: from the first initialize() on there is a lock id, a
\* reset forgets none; a call that writes a row knows of which lock; a handle
\* belongs to a running interval; a scan stays within the blocks it asked for.
LInv ==
    /\ TypeOK
    /\ lockId \in Lock \/ Unconnected
    /\ \A a \in Actor :
          /\ call[a].pc = "saving" => call[a].lock \in Lock
          /\ call[a].pc = "row" => call[a].rowLock \in Lock
    /\ batchSyncInterval => intervals > 0
    /\ \A s \in Sync :
          /\ sync[s].pc = "querying" =>
                sync[s].next \in 1 .. sync[s].currentBlock /\ sync[s].lock \in Lock
          /\ sync[s].pc = "pausing" => sync[s].next > 0

\* Whatever carries a block number that may become the mark of the one lock there
\* is carries one up to which that lock has been scanned.
MarkInv ==
    /\ LInv
    /\ MarkMeansScanned
    /\ \A l \in Lock :
          /\ 1 .. lastSyncedBlock \subseteq scanned[l]
          /\ \A c \in confirming : 1 .. c[2] \subseteq scanned[l]
          /\ \A s \in Sync : sync[s].pc \in {"querying", "pausing"} =>
                1 .. sync[s].next - 1 \subseteq scanned[l]

\* What README.md:343 says of /config/init, "Can only be called once until
\* reset", and config.controller.ts:78 of /config/reset, "Requires admin-level
\* Verifiable Credential for authorization": configure() never replaces a
\* configuration, in memory or in the database, and a reset deletes only the
\* configuration of the lock whose key verified the credential.
GuardsHold ==
    [][\A r \in Request :
          /\ call[r].pc = "saving" /\ call'[r].pc = "network"
                => cfgLock = NoLock /\ dbLock = NoLock
          /\ call[r].pc = "deleting" /\ call'[r] # call[r]
                => dbLock' = dbLock \/ dbLock = call[r].key]_vars

\* What remains of it: configure() replaces a configuration that is stored only
\* in a process that could not read it when it started, and none in memory.
GuardsHoldUnlessUnread ==
    [][\A r \in Request :
          /\ call[r].pc = "saving" /\ call'[r].pc = "network"
                => cfgLock = NoLock /\ (dbLock = NoLock \/ unread)
          /\ call[r].pc = "deleting" /\ call'[r] # call[r]
                => dbLock' = dbLock \/ dbLock = call[r].key]_vars

\* The locks whose revocations reach this process as they happen.
ServedLocks == {x[2] : x \in LiveSubs}

\* One administrator at a time, the service implements ConfiguredLock.
Promise == INSTANCE ConfiguredLock
           WITH up <- running, stored <- dbLock, configured <- cfgLock,
                served <- ServedLocks

\* README.md:343 and :736: a lock is configured once until it is reset, the
\* configuration outlives the process, and the listener follows it.  A process
\* that could not read the row is unread's case in ConfiguredLock.
PromiseSpec == Promise!Spec

\* At most one request is being served.
OneRequest ==
    \A q, r \in Request : call[q].pc # "idle" /\ call[r].pc # "idle" => q = r

\* At most one request is being served, or the boot is.
OneActor ==
    \A a, b \in Actor : call[a].pc # "idle" /\ call[b].pc # "idle" => a = b

\* What the guards of /config rest on, where requests come one at a time: the
\* lock in memory is the stored one, one is stored that is not in memory only if
\* it could not be read, and a request that passed a guard finds after its await
\* what the guard read before it.
GuardInv ==
    /\ LInv
    /\ OneRequest
    /\ call[Boot].pc \in {"idle", "finding"} \cup InitializePc
    /\ ~running => ~booted /\ call[Boot].pc = "idle"
    /\ ~booted => /\ cfgLock = NoLock /\ call[Boot].pc \in {"idle", "finding"}
                  /\ \A r \in Request : call[r].pc = "idle"
    /\ booted => call[Boot].pc # "finding"
    /\ cfgLock # NoLock => dbLock = cfgLock
    /\ booted /\ cfgLock = NoLock => dbLock = NoLock \/ unread
    /\ unread => booted /\ cfgLock = NoLock /\ dbLock # NoLock
    /\ \A r \in Request :
          /\ call[r].pc = "saving" => cfgLock = NoLock
          /\ call[r].pc \in {"authorising", "deleting"} =>
                call[r].key = cfgLock /\ cfgLock # NoLock

\* The listener serves the configured lock, on a connection that works.
Serving ==
    /\ isListening /\ batchSyncInterval /\ intervals = 1
    /\ cfgLock # NoLock /\ lockId = cfgLock
    /\ cfgLock \notin Malformed
    /\ Alive(provider) /\ contract = provider
    /\ subs = {<<provider, cfgLock>>}

\* Nothing is attached and nothing ticks.
Silent == subs = {} /\ intervals = 0 /\ ~batchSyncInterval

\* One administrator at a time: the listener serves the configured lock, or is
\* silent; it is silent while it is being started or stopped, and a lock that
\* is configured and not served is one whose initialize() is under way or failed,
\* or one whose filter startHybridSync() could not make, an error nobody is told.
SeqInv ==
    /\ GuardInv
    /\ OneActor
    /\ closed \subseteq 0 .. provider
    /\ Serving \/ Silent
    /\ Serving => \A a \in Actor : call[a].pc \in {"idle", "authorising", "deleting"}
    /\ isListening /\ ~Serving =>
          \E a \in Actor : call[a].pc \in {"detaching", "destroying"}
    /\ cfgLock # NoLock /\ ~Serving /\ ~initFailed =>
          \/ \E a \in Actor : call[a].pc \in InitializePc
          \/ cfgLock \in Malformed /\ lockId = cfgLock /\ provider # 0
    /\ \A a \in Actor :
          /\ call[a].pc \in InitializePc =>
                /\ cfgLock # NoLock /\ lockId = cfgLock
                /\ Alive(provider) /\ call[a].provider = provider
          /\ call[a].pc \in {"blockNumber", "row"} => contract = provider
          /\ call[a].pc = "row" => call[a].rowLock = cfgLock
          /\ call[a].pc \in {"detaching", "destroying"} => cfgLock = NoLock
=============================================================================
