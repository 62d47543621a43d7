----------------------------- MODULE HybridSync -----------------------------
(***************************************************************************)
(* The revocation cache of one configured lock: the contract's log, the    *)
(* hybrid (real-time + batch) synchronisation of BlockchainListenerService,*)
(* the asynchronous handlers of EventProcessorService and the two SQLite   *)
(* tables they write.                                                      *)
(*                                                                         *)
(* Node runs one callback at a time, so an action is what one callback     *)
(* does between two awaits.  Timers, RPC answers and database answers come *)
(* in any order.                                                           *)
(***************************************************************************)
EXTENDS Naturals, FiniteSets

CONSTANTS
    Hash,            \* credential hashes (vcHash) of the configured lock
    Sync,            \* invocations of performBatchSync that may overlap
    StartBlock,      \* SEPOLIA_START_BLOCK / MAINNET_START_BLOCK
    BatchSize,       \* BATCH_SYNC_SIZE
    LogsMaxRange,    \* the logsMaxRange performBatchSync settles on
    MaxBlock,        \* bound: height at which the chain stops growing
    MaxHandlers,     \* bound: invocations of a handler waiting at once, per
                     \* hash (revocations) or per block (completed syncs)
    Budget,          \* bound: how often each rare event may happen
    MaxRare          \* bound: how many rare events may happen in all

Rare == {"rpc", "db", "crash", "force"}

ASSUME HybridSyncAssumption ==
    /\ StartBlock \in Nat
    /\ BatchSize \in Nat \ {0}
    /\ LogsMaxRange \in Nat \ {0}
    /\ MaxBlock \in Nat
    /\ MaxHandlers \in Nat
    /\ Budget \in [Rare -> Nat]
    /\ MaxRare \in Nat

VARIABLES
    \* the chain (external)
    head,              \* number of the latest block
    minedAt,           \* block of each hash's CredentialRevoked log, 0 = none
    \* SQLite: survives a crash
    revoked,           \* primary keys of revoked_credentials
    persisted,         \* lastSyncedBlock of the lock's sync_state row
    \* BlockchainListenerService: in memory
    up,                \* initialize() has completed in this process
    subscribed,        \* the CredentialRevoked listener is attached
    subscribedAt,      \* height from which that subscription reports logs
    lastSyncedBlock,
    pendingUpdates,
    processingEvents,
    sync,              \* where each performBatchSync invocation stands
    \* EventProcessorService: invocations waiting for the database
    checking,          \* handleCredentialRevoked, awaiting isVcHashRevoked
    saving,            \* handleCredentialRevoked, awaiting save
    confirming,        \* handleBatchSyncComplete, by the toBlock it carries
    \* auxiliary
    failed,            \* hashes of which some handling ended without a row
    spent              \* how often each rare event has happened

chain == <<head, minedAt>>
database == <<revoked, persisted>>
subscription == <<subscribed, subscribedAt>>
dedup == <<pendingUpdates, processingEvents>>
listener == <<up, subscription, lastSyncedBlock, dedup, sync>>
handlers == <<checking, saving, confirming>>
vars == <<chain, database, listener, handlers, failed, spent>>

-----------------------------------------------------------------------------
\* Operators

Min2(a, b) == IF a <= b THEN a ELSE b
Max2(a, b) == IF a >= b THEN a ELSE b

\* Last block of the outer range that starts at from, and of the chunk that
\* starts at innerFrom inside the outer range ending at outerTo.
OuterTo(from, currentBlock) == Min2(from + BatchSize - 1, currentBlock)
InnerTo(innerFrom, outerTo) == Min2(innerFrom + LogsMaxRange - 1, outerTo)

\* Faulty variant: the block after a chunk is left out.
FaultyNextChunk(r, innerTo) ==
    [r EXCEPT !.innerFrom = innerTo + 2,
              !.outerTo = IF innerTo < @ THEN @
                          ELSE OuterTo(innerTo + 2, r.currentBlock)]

\* An inner loop that has queried up to innerTo goes on with the next chunk, of
\* the same outer range or of the next one.
NextChunk(r, innerTo) ==
    [r EXCEPT !.innerFrom = innerTo + 1,
              !.outerTo = IF innerTo < @ THEN @
                          ELSE OuterTo(innerTo + 1, r.currentBlock)]

Idle == [pc |-> "idle", innerFrom |-> 0, outerTo |-> 0, currentBlock |-> 0,
         forced |-> FALSE]

Block == 0 .. MaxBlock

SyncState == [pc : {"idle", "asked", "scanning"}, innerFrom : Nat,
              outerTo : Nat, currentBlock : Block, forced : BOOLEAN]

\* What the tables answer and how they are written: one row per revoked hash,
\* and the lock's sync_state row, updated in place.
IsVcHashRevoked(h) == h \in revoked
SaveRevocation(h) == revoked' = revoked \cup {h}
UpdateLastSyncedBlock(toBlock) == persisted' = toBlock

\* A handler for h is waiting for the database.
InFlight(h) == checking[h] > 0 \/ saving[h] > 0

\* Faulty variants: nobody listens to the event; the filter matches every hash.
FaultyEmit(H) == UNCHANGED checking
FaultyFilter(H) ==
    /\ \A h \in Hash : checking[h] + saving[h] < MaxHandlers
    /\ checking' = [h \in Hash |-> checking[h] + 1]

\* The listener emits CREDENTIAL_REVOKED for every hash of H.  emit() calls
\* handleCredentialRevoked synchronously, up to its first await.
Emit(H) ==
    /\ \A h \in H : checking[h] + saving[h] < MaxHandlers
    /\ checking' = [h \in Hash |-> checking[h] + (IF h \in H THEN 1 ELSE 0)]

\* One more occurrence of a rare event.
Spend(kind) ==
    /\ spent[kind] < Budget[kind]
    /\ spent["rpc"] + spent["db"] + spent["crash"] + spent["force"] < MaxRare
    /\ spent' = [spent EXCEPT ![kind] = @ + 1]

\* forceFullSync attaches the listener again when its batch sync returns.
Resubscribe(s) ==
    IF sync[s].forced /\ ~subscribed
    THEN subscribed' = TRUE /\ subscribedAt' = head
    ELSE UNCHANGED subscription

TypeOK ==
    /\ head \in Block
    /\ minedAt \in [Hash -> Nat]
    /\ revoked \subseteq Hash
    /\ persisted \in Nat
    /\ up \in BOOLEAN
    /\ subscribed \in BOOLEAN
    /\ subscribedAt \in Nat
    /\ lastSyncedBlock \in Nat
    /\ pendingUpdates \subseteq Hash
    /\ processingEvents \subseteq Hash
    /\ sync \in [Sync -> SyncState]
    /\ checking \in [Hash -> Nat]
    /\ saving \in [Hash -> Nat]
    /\ confirming \in [Block -> Nat]
    /\ failed \subseteq Hash
    /\ spent \in [Rare -> Nat]

Init ==
    /\ head = 0
    /\ minedAt = [h \in Hash |-> 0]
    /\ revoked = {}
    /\ persisted = 0
    /\ up = FALSE
    /\ subscribed = FALSE
    /\ subscribedAt = 0
    /\ lastSyncedBlock = 0
    /\ pendingUpdates = {}
    /\ processingEvents = {}
    /\ sync = [s \in Sync |-> Idle]
    /\ checking = [h \in Hash |-> 0]
    /\ saving = [h \in Hash |-> 0]
    /\ confirming = [b \in Block |-> 0]
    /\ failed = {}
    /\ spent = [k \in Rare |-> 0]

-----------------------------------------------------------------------------
\* The chain

\* A block is mined.  The contract rejects a second revocation of a hash
\* (CredentialAlreadyRevoked), so each hash has at most one log.
MineBlock(H) ==
    /\ head < MaxBlock
    /\ \A h \in H : minedAt[h] = 0
    /\ head' = head + 1
    /\ minedAt' = [h \in Hash |-> IF h \in H THEN head + 1 ELSE minedAt[h]]
    /\ UNCHANGED <<database, listener, handlers, failed, spent>>

-----------------------------------------------------------------------------
\* Start and stop of the process

\* initialize() and startHybridSync(): resume after the persisted mark, or
\* after the configured start block if that is higher, and subscribe.
Initialize ==
    /\ ~up
    /\ up' = TRUE
    /\ lastSyncedBlock' = Max2(persisted, StartBlock)
    /\ subscribed' = TRUE
    /\ subscribedAt' = head
    /\ UNCHANGED <<chain, database, dedup, sync, handlers, failed, spent>>

\* The process ends.  SIGTERM ends it the same way: app.close() detaches the
\* listeners and process.exit(0) does not wait for handlers in flight.
Crash ==
    /\ up
    /\ Spend("crash")
    /\ up' = FALSE
    /\ subscribed' = FALSE
    /\ subscribedAt' = 0
    /\ lastSyncedBlock' = 0
    /\ pendingUpdates' = {}
    /\ processingEvents' = {}
    /\ sync' = [s \in Sync |-> Idle]
    /\ checking' = [h \in Hash |-> 0]
    /\ saving' = [h \in Hash |-> 0]
    /\ confirming' = [b \in Block |-> 0]
    /\ failed' = failed \cup {h \in Hash : InFlight(h) /\ h \notin revoked}
    /\ UNCHANGED <<chain, database>>

-----------------------------------------------------------------------------
\* Real-time events

\* The listener callback.  The subscription may deliver a log late, more than
\* once or never; a delivery whose hash is in either set changes nothing.
RealtimeEvent(h) ==
    /\ up /\ subscribed
    /\ minedAt[h] > subscribedAt
    /\ h \notin processingEvents \cup pendingUpdates
    /\ processingEvents' = processingEvents \cup {h}
    /\ pendingUpdates' = pendingUpdates \cup {h}
    /\ Emit({h})
    /\ UNCHANGED <<chain, database, up, subscription, lastSyncedBlock, sync,
                   saving, confirming, failed, spent>>

\* The 5 s timer of a real-time event; it does not look at the handler.
ReleaseProcessing(h) ==
    /\ h \in processingEvents
    /\ processingEvents' = processingEvents \ {h}
    /\ UNCHANGED <<chain, database, up, subscription, lastSyncedBlock,
                   pendingUpdates, sync, handlers, failed, spent>>

-----------------------------------------------------------------------------
\* Batch sync

\* The start-up timeout or the interval fires; getBlockNumber is answered.
\* Nothing prevents it while an earlier invocation is still scanning.
BatchTimer(s) ==
    /\ up
    /\ sync[s].pc = "idle"
    /\ sync' = [sync EXCEPT ![s] = [Idle EXCEPT !.pc = "asked",
                                                !.currentBlock = head]]
    /\ UNCHANGED <<chain, database, up, subscription, lastSyncedBlock, dedup,
                   handlers, failed, spent>>

\* forceFullSync(): rewind and call performBatchSync.  Whether
\* removeAllListeners('CredentialRevoked') also detaches a listener that was
\* registered under the lock's filter is up to the library: both are allowed.
ForceFullSync(s) ==
    /\ up
    /\ sync[s].pc = "idle"
    /\ Spend("force")
    /\ subscribed' \in {FALSE, subscribed}
    /\ lastSyncedBlock' = StartBlock
    /\ pendingUpdates' = {}
    /\ sync' = [sync EXCEPT ![s] = [Idle EXCEPT !.pc = "asked",
                                                !.currentBlock = head,
                                                !.forced = TRUE]]
    /\ UNCHANGED <<chain, database, up, subscribedAt, processingEvents,
                   handlers, failed>>

\* The await of getBlockNumber returns; only now is lastSyncedBlock read.
StartScan(s) ==
    /\ sync[s].pc = "asked"
    /\ lastSyncedBlock < sync[s].currentBlock
    /\ LET from == lastSyncedBlock + 1 IN
       sync' = [sync EXCEPT ![s] = [@ EXCEPT
                  !.pc = "scanning",
                  !.innerFrom = from,
                  !.outerTo = OuterTo(from, sync[s].currentBlock)]]
    /\ UNCHANGED <<chain, database, up, subscription, lastSyncedBlock, dedup,
                   handlers, failed, spent>>

\* queryFilter answers for one chunk: the logs found are emitted, except
\* those a real-time event has already handed over, and the loops advance.
ScanChunk(s) ==
    /\ sync[s].pc = "scanning"
    /\ sync[s].innerFrom <= sync[s].currentBlock
    /\ LET innerTo == InnerTo(sync[s].innerFrom, sync[s].outerTo)
           events == {h \in Hash : minedAt[h] \in sync[s].innerFrom .. innerTo}
       IN  /\ Emit(events \ pendingUpdates)
           /\ sync' = [sync EXCEPT ![s] = NextChunk(sync[s], innerTo)]
    /\ UNCHANGED <<chain, database, up, subscription, lastSyncedBlock, dedup,
                   saving, confirming, failed, spent>>

\* Both loops are done, or there was no block to scan: the mark moves to the
\* block number read at the start, pendingUpdates is emptied and
\* BATCH_SYNC_COMPLETE is emitted.
FinishSync(s) ==
    /\ \/ sync[s].pc = "asked" /\ lastSyncedBlock >= sync[s].currentBlock
       \/ sync[s].pc = "scanning" /\ sync[s].innerFrom > sync[s].currentBlock
    /\ confirming[sync[s].currentBlock] < MaxHandlers
    /\ lastSyncedBlock' = sync[s].currentBlock
    /\ pendingUpdates' = {}
    /\ confirming' = [confirming EXCEPT ![sync[s].currentBlock] = @ + 1]
    /\ Resubscribe(s)
    /\ sync' = [sync EXCEPT ![s] = Idle]
    /\ UNCHANGED <<chain, database, up, processingEvents, checking, saving,
                   failed, spent>>

\* getBlockNumber or a chunk's query fails: performBatchSync gives up, the
\* mark and pendingUpdates stay, and the next timer starts over.
SyncFails(s) ==
    /\ \/ sync[s].pc = "asked"
       \/ /\ sync[s].pc = "scanning"
          /\ sync[s].innerFrom <= sync[s].currentBlock
    /\ Spend("rpc")
    /\ Resubscribe(s)
    /\ sync' = [sync EXCEPT ![s] = Idle]
    /\ UNCHANGED <<chain, database, up, lastSyncedBlock, dedup, handlers,
                   failed>>

-----------------------------------------------------------------------------
\* The event processor

\* Faulty variant: a check is answered twice.
FaultyCheckDone(h) ==
    /\ checking[h] + saving[h] > 0
    /\ checking' = [checking EXCEPT ![h] = @ - 1]
    /\ saving' = IF h \in revoked THEN saving
                 ELSE [saving EXCEPT ![h] = @ + 1]
    /\ UNCHANGED <<chain, database, listener, confirming, failed, spent>>

\* isVcHashRevoked answers: return if the row exists, else call save.
CheckDone(h) ==
    /\ checking[h] > 0
    /\ checking' = [checking EXCEPT ![h] = @ - 1]
    /\ saving' = IF IsVcHashRevoked(h) THEN saving
                 ELSE [saving EXCEPT ![h] = @ + 1]
    /\ UNCHANGED <<chain, database, listener, confirming, failed, spent>>

\* save succeeds, or meets the row of another handler (UNIQUE constraint or
\* update in place): the row is there either way.
SaveDone(h) ==
    /\ saving[h] > 0
    /\ saving' = [saving EXCEPT ![h] = @ - 1]
    /\ SaveRevocation(h)
    /\ UNCHANGED <<chain, persisted, listener, checking, confirming, failed,
                   spent>>

\* A database call of the handler fails: the error is logged, nobody retries.
HandlerFails(h) ==
    /\ Spend("db")
    /\ \/ /\ checking[h] > 0
          /\ checking' = [checking EXCEPT ![h] = @ - 1]
          /\ UNCHANGED saving
       \/ /\ saving[h] > 0
          /\ saving' = [saving EXCEPT ![h] = @ - 1]
          /\ UNCHANGED checking
    /\ failed' = failed \cup ({h} \ revoked)
    /\ UNCHANGED <<chain, database, listener, confirming>>

\* Faulty variant: a completed sync is counted, but its block is not written.
FaultyConfirmDone(toBlock) ==
    /\ confirming[toBlock] > 0
    /\ confirming' = [confirming EXCEPT ![toBlock] = @ - 1]
    /\ UNCHANGED <<chain, database, listener, checking, saving, failed, spent>>

\* handleBatchSyncComplete reaches updateLastSyncedBlock(toBlock).
ConfirmDone(toBlock) ==
    /\ confirming[toBlock] > 0
    /\ confirming' = [confirming EXCEPT ![toBlock] = @ - 1]
    /\ UpdateLastSyncedBlock(toBlock)
    /\ UNCHANGED <<chain, revoked, listener, checking, saving, failed, spent>>

\* A count or the update fails: logged, the persisted mark stays behind.
ConfirmFails(toBlock) ==
    /\ confirming[toBlock] > 0
    /\ Spend("db")
    /\ confirming' = [confirming EXCEPT ![toBlock] = @ - 1]
    /\ UNCHANGED <<chain, database, listener, checking, saving, failed>>

-----------------------------------------------------------------------------
SyncStep(s) == StartScan(s) \/ ScanChunk(s) \/ FinishSync(s)

Next ==
    \/ \E H \in SUBSET Hash : MineBlock(H)
    \/ Initialize
    \/ Crash
    \/ \E h \in Hash : RealtimeEvent(h)
    \/ \E h \in Hash : ReleaseProcessing(h)
    \/ \E s \in Sync : BatchTimer(s)
    \/ \E s \in Sync : ForceFullSync(s)
    \/ \E s \in Sync : StartScan(s)
    \/ \E s \in Sync : ScanChunk(s)
    \/ \E s \in Sync : FinishSync(s)
    \/ \E s \in Sync : SyncFails(s)
    \/ \E h \in Hash : CheckDone(h)
    \/ \E h \in Hash : SaveDone(h)
    \/ \E h \in Hash : HandlerFails(h)
    \/ \E b \in Block : ConfirmDone(b)
    \/ \E b \in Block : ConfirmFails(b)

Spec == Init /\ [][Next]_vars

\* What Node and the operating system schedule: the process is restarted, the
\* interval keeps firing, an answered call continues, the database answers.
\* Real-time delivery is not fair: a log may never arrive that way.
Fairness ==
    /\ WF_vars(Initialize)
    /\ WF_vars(\E s \in Sync : BatchTimer(s))
    /\ \A s \in Sync : WF_vars(SyncStep(s))
    /\ \A h \in Hash : WF_vars(CheckDone(h))
    /\ \A h \in Hash : WF_vars(SaveDone(h))
    /\ \A b \in Block : WF_vars(ConfirmDone(b))

FairSpec == Spec /\ Fairness
-----------------------------------------------------------------------------
\* Properties

\* The revocation of h has been handed to EventProcessorService and is cached
\* or on its way, unless the process or the database failed while handling it.
Accounted(h) == h \in revoked \cup failed \/ InFlight(h)

\* Block b is on the chain (or below the configured start), and every
\* revocation after the start block and up to b is accounted for.
Settled(b) ==
    /\ b <= Max2(head, StartBlock)
    /\ \A h \in Hash : minedAt[h] \in StartBlock + 1 .. b => Accounted(h)

\* The mark in memory and the persisted mark never pass a revocation nobody
\* has been told of, however scans overlap, time out, rewind or are confirmed
\* out of order: performBatchSync and initialize never look below them again.
NoGapBelowMark == Settled(lastSyncedBlock) /\ Settled(persisted)

\* A hash in pendingUpdates makes a batch sync skip its log, and no later one
\* comes back to that block: the log must already be with a handler.
SkipIsSafe == \A h \in pendingUpdates : Accounted(h)

\* What a running scan relies on: it looks at blocks that exist, and everything
\* before its next chunk is settled.
ScanInv(s) ==
    /\ sync[s].currentBlock <= head
    /\ sync[s].pc = "scanning" => /\ sync[s].innerFrom > 0
                                  /\ sync[s].outerTo <= sync[s].currentBlock
                                  /\ Settled(sync[s].innerFrom - 1)

\* The inductive invariant behind NoGapBelowMark, SkipIsSafe and CacheSpec:
\* besides both marks, every position a scan or a confirmation still carries is
\* settled, and a handler only ever works on a hash revoked on the chain.
IInv ==
    /\ TypeOK
    /\ NoGapBelowMark
    /\ SkipIsSafe
    /\ \A b \in Block : confirming[b] > 0 => Settled(b)
    /\ \A s \in Sync : ScanInv(s)
    /\ \A h \in Hash : minedAt[h] <= head
    /\ \A h \in Hash : InFlight(h) => minedAt[h] > 0

\* The cache implements the abstract one: rows appear one at a time, only for
\* credentials revoked on the chain, and neither a restart nor a failure nor a
\* forced resynchronisation withdraws one.
Cache == INSTANCE RevocationCache WITH
            onChain <- {h \in Hash : minedAt[h] > 0}, cached <- revoked

CacheSpec == Cache!Spec

\* Every revocation after the start block is eventually cached (README.md:685,
\* "Always eventually consistent"), whether or not it is ever reported in real
\* time, or its handling was cut short by a crash or a database failure, the
\* only two ways to lose one.
EventuallyHandled ==
    \A h \in Hash : minedAt[h] > StartBlock ~> h \in revoked \cup failed

\* Overlapping syncs and late confirmations may move both marks backwards,
\* but once the chain rests both come to rest at its height.
MarkConverges == <>[](lastSyncedBlock = head /\ persisted = head)

\* What the guide promises of a row (HOW_TO_RUN.md:651, "real-time + batch
\* ensures no missed events"): below the mark, a revocation is cached or is
\* about to be.
NoMissedEvents ==
    \A h \in Hash : minedAt[h] \in StartBlock + 1 .. lastSyncedBlock
                     => h \in revoked \/ InFlight(h)
=============================================================================
