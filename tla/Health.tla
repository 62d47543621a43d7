------------------------------- MODULE Health --------------------------------
(***************************************************************************)
(* What the service says of itself while it synchronises: the block number *)
(* that the provider's 'block' subscription keeps, and the reports of      *)
(* getStats(), getStatus(), healthCheck() and GET /health.                 *)
(*                                                                         *)
(* A report reads the state and changes nothing, and but for healthCheck() *)
(* it is made within one callback: it is an operator, and what is said of  *)
(* it in a state is said of every request that arrives then.               *)
(***************************************************************************)
EXTENDS HybridSync

CONSTANTS
    HealthyLag,      \* the literal 100 of check() and healthCheck()
    MaxLosses        \* bound: how often the connection may be lost

ASSUME HealthAssumption == HealthyLag \in Nat \ {0} /\ MaxLosses \in Nat

VARIABLES
    currentBlock,    \* this.currentBlock
    connected,       \* the provider's connection answers (external)
    losses           \* how often it was lost

report == <<currentBlock, connected, losses>>
healthVars == <<vars, report>>

HealthTypeOK == currentBlock \in Block /\ connected \in BOOLEAN /\ losses \in Nat

HealthInit == currentBlock = 0 /\ connected = TRUE /\ losses = 0

-----------------------------------------------------------------------------
\* The reports

\* Faulty variant: the difference is taken the other way round.
FaultyGetStats ==
    [lastSyncedBlock |-> lastSyncedBlock, currentBlock |-> currentBlock,
     blocksBehind |-> IF lastSyncedBlock > currentBlock
                      THEN lastSyncedBlock - currentBlock ELSE 0]

\* getStats(), without the counters that only it reads.
GetStats ==
    [lastSyncedBlock |-> lastSyncedBlock, currentBlock |-> currentBlock,
     blocksBehind |-> IF currentBlock > lastSyncedBlock
                      THEN currentBlock - lastSyncedBlock ELSE 0]

\* getStatus(): the interval runs as long as the service listens.
GetStatus == [isListening |-> up, batchSyncActive |-> up]

\* GET /health.
Check == IF GetStatus.isListening /\ GetStats.blocksBehind < HealthyLag
         THEN "healthy" ELSE "degraded"

\* healthCheck(), when getBlockNumber has answered b: the mark is read after
\* the await, and may have passed b meanwhile.
HealthCheck(b) == b < lastSyncedBlock + HealthyLag

-----------------------------------------------------------------------------
\* The provider reports a new block.  Blocks come in order, late or never.
BlockEvent ==
    /\ up /\ connected
    /\ currentBlock < head
    /\ currentBlock' = currentBlock + 1
    /\ UNCHANGED <<vars, connected, losses>>

\* The connection is gone without a word: a WebSocket that closes is neither
\* noticed nor replaced, until the process is started anew.
ConnectionLost ==
    /\ up /\ connected
    /\ losses < MaxLosses
    /\ connected' = FALSE
    /\ losses' = losses + 1
    /\ UNCHANGED <<vars, currentBlock>>

\* Steps that need an answer, or a log, from the provider.
RpcStep ==
    \/ \E h \in Hash : RealtimeEvent(h)
    \/ \E s \in Sync : BatchTimer(s) \/ ForceFullSync(s) \/ ScanChunk(s)

\* A step of the cache.  initialize() asks for the block number on a new
\* provider; the end of the process forgets both.
CacheStep ==
    /\ Next
    /\ RpcStep => connected
    /\ currentBlock' = IF up = up' THEN currentBlock ELSE IF up' THEN head ELSE 0
    /\ connected' = (connected \/ up # up')
    /\ UNCHANGED losses

HealthNext == CacheStep \/ BlockEvent \/ ConnectionLost

HealthSpec == Init /\ HealthInit /\ [][HealthNext]_healthVars

\* The fairness of HybridSync, as far as the connection answers; a 'block'
\* event is no more certain than a real-time log.
HealthFairness ==
    /\ WF_healthVars(Initialize /\ CacheStep)
    /\ WF_healthVars((\E s \in Sync : BatchTimer(s)) /\ CacheStep)
    /\ \A s \in Sync : WF_healthVars(SyncStep(s) /\ CacheStep)
    /\ \A h \in Hash : WF_healthVars(CheckDone(h) /\ CacheStep)
    /\ \A h \in Hash : WF_healthVars(SaveDone(h) /\ CacheStep)
    /\ \A b \in Block : WF_healthVars(ConfirmDone(b) /\ CacheStep)

FairHealthSpec == HealthSpec /\ HealthFairness

-----------------------------------------------------------------------------
\* Properties

\* A report that says healthy vouches for the cache: whoever asks, and whatever
\* block number the answer rests on, every revocation up to less than HealthyLag
\* blocks below that number is cached or on its way, unless its handling was cut
\* short.
HealthyMeansSettled ==
    \A b \in {c \in Block : \/ c = currentBlock /\ Check = "healthy"
                            \/ c <= head /\ HealthCheck(c)} :
        \A h \in Hash :
            minedAt[h] > StartBlock /\ minedAt[h] + HealthyLag <= b + 1
                => Accounted(h)

\* While the connection lasts, the service does not stay degraded: once the
\* chain rests, and even if no 'block' event ever arrives, every later report
\* is healthy, with a mark at the height of the chain.
HealthRecovers ==
    <>[]connected => <>[](Check = "healthy" /\ lastSyncedBlock = head)

\* What HYBRID_SYNC.md:341 says of the report, "`healthy: true` means system is
\* synced (< 100 blocks behind)": a lag of HealthyLag blocks does not stay
\* reported as healthy.
LagIsReported ==
    head >= lastSyncedBlock + HealthyLag
        ~> (head < lastSyncedBlock + HealthyLag \/ Check # "healthy")
=============================================================================
