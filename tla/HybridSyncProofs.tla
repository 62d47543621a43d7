-------------------------- MODULE HybridSyncProofs --------------------------
(***************************************************************************)
(* Proofs about HybridSync, for any hashes, any number of overlapping      *)
(* batch syncs, any block ranges and any failures:                         *)
(*   TypeCorrect    Spec => []TypeOK                                       *)
(*   Invariance     Spec => []IInv                                         *)
(*   NoGap          Spec => []NoGapBelowMark                               *)
(*   SkipSafety     Spec => []SkipIsSafe                                   *)
(*   Refinement     Spec => CacheSpec                                      *)
(***************************************************************************)
EXTENDS HybridSync, TLAPS

USE HybridSyncAssumption

-----------------------------------------------------------------------------
\* Types

\* The empty position of an idle sync is well typed.
LEMMA IdleType == Idle \in SyncState
  BY DEF Idle, SyncState, Block

\* Emit keeps the handler counters natural numbers and starts a handler for
\* every hash emitted.
LEMMA EmitEffect ==
  ASSUME TypeOK, NEW H \in SUBSET Hash, Emit(H)
  PROVE  /\ checking' \in [Hash -> Nat]
         /\ \A h \in H : checking'[h] > 0
         /\ \A h \in Hash : checking'[h] >= checking[h]
         /\ \A h \in Hash \ H : checking'[h] = checking[h]
  BY DEF TypeOK, Emit

\* Spending from a budget keeps the tally a tally.
LEMMA SpendType ==
  ASSUME TypeOK, NEW k \in Rare, Spend(k)
  PROVE  spent' \in [Rare -> Nat]
  BY DEF TypeOK, Spend

\* Resubscribing keeps the types of the subscription.
LEMMA ResubscribeType ==
  ASSUME TypeOK, NEW s \in Sync, Resubscribe(s)
  PROVE  subscribed' \in BOOLEAN /\ subscribedAt' \in Nat
<1>1. subscribed' \in {TRUE, subscribed} /\ subscribedAt' \in {head, subscribedAt}
  BY Zenon DEF Resubscribe, subscription
<1>2. head \in Nat /\ subscribedAt \in Nat
  BY DEF TypeOK, Block
<1>3. subscribed \in BOOLEAN
  BY DEF TypeOK
<1>4. QED
  BY <1>1, <1>2, <1>3, Zenon

\* The chunk and the outer range after a queried chunk are block numbers.
LEMMA ChunkType ==
  ASSUME TypeOK, NEW s \in Sync
  PROVE  NextChunk(sync[s], InnerTo(sync[s].innerFrom, sync[s].outerTo))
           \in SyncState
<1> DEFINE innerTo == InnerTo(sync[s].innerFrom, sync[s].outerTo)
<1>1. sync[s] \in SyncState
  BY DEF TypeOK
<1>2. innerTo \in Nat
  BY <1>1 DEF InnerTo, Min2, SyncState
<1>3. OuterTo(innerTo + 1, sync[s].currentBlock) \in Nat
  BY <1>1, <1>2 DEF OuterTo, Min2, SyncState, Block
<1> HIDE DEF innerTo
<1> DEFINE outerTo == IF innerTo < sync[s].outerTo THEN sync[s].outerTo
                       ELSE OuterTo(innerTo + 1, sync[s].currentBlock)
<1>4. outerTo \in Nat /\ innerTo + 1 \in Nat
  BY <1>1, <1>2, <1>3 DEF SyncState
<1>5. NextChunk(sync[s], innerTo)
        = [sync[s] EXCEPT !.innerFrom = innerTo + 1, !.outerTo = outerTo]
  BY DEF NextChunk
<1> HIDE DEF outerTo
<1>6. NextChunk(sync[s], innerTo) \in SyncState
  BY <1>1, <1>4, <1>5 DEF SyncState
<1>7. QED
  BY <1>6 DEF innerTo

\* Every initial state is well typed and every step preserves the types.
LEMMA InitType == Init => TypeOK
<1> SUFFICES ASSUME Init PROVE TypeOK
  OBVIOUS
<1>1. /\ head \in Block
      /\ persisted \in Nat /\ subscribedAt \in Nat /\ lastSyncedBlock \in Nat
  BY DEF Init, Block
<1>2. up \in BOOLEAN /\ subscribed \in BOOLEAN
  BY DEF Init
<1>3. /\ revoked \subseteq Hash /\ failed \subseteq Hash
      /\ pendingUpdates \subseteq Hash /\ processingEvents \subseteq Hash
  BY DEF Init
<1>4. /\ minedAt \in [Hash -> Nat] /\ spent \in [Rare -> Nat]
      /\ checking \in [Hash -> Nat] /\ saving \in [Hash -> Nat]
      /\ confirming \in [Block -> Nat]
  BY DEF Init
<1>5. sync \in [Sync -> SyncState]
  BY IdleType DEF Init
<1>6. QED
  BY <1>1, <1>2, <1>3, <1>4, <1>5 DEF TypeOK

LEMMA StepType == TypeOK /\ [Next]_vars => TypeOK'
<1> SUFFICES ASSUME TypeOK, [Next]_vars PROVE TypeOK'
  OBVIOUS
<1> USE DEF TypeOK, chain, database, subscription, dedup, listener, handlers, vars
<1>1. ASSUME NEW H \in SUBSET Hash, MineBlock(H) PROVE TypeOK'
  BY <1>1 DEF MineBlock, Block
<1>2. CASE Initialize
  BY <1>2 DEF Initialize, Max2, Block
<1>3. CASE Crash
  BY <1>3, IdleType, SpendType DEF Crash, Rare, Block
<1>4. ASSUME NEW h \in Hash, RealtimeEvent(h) PROVE TypeOK'
  BY <1>4, EmitEffect DEF RealtimeEvent
<1>5. ASSUME NEW h \in Hash, ReleaseProcessing(h) PROVE TypeOK'
  BY <1>5 DEF ReleaseProcessing
<1>6. ASSUME NEW s \in Sync, BatchTimer(s) PROVE TypeOK'
  BY <1>6 DEF BatchTimer, Idle, SyncState
<1>7. ASSUME NEW s \in Sync, ForceFullSync(s) PROVE TypeOK'
  BY <1>7, SpendType DEF ForceFullSync, Idle, SyncState, Rare
<1>8. ASSUME NEW s \in Sync, StartScan(s) PROVE TypeOK'
  <2> DEFINE outerTo == OuterTo(lastSyncedBlock + 1, sync[s].currentBlock)
             r == [sync[s] EXCEPT !.pc = "scanning",
                                  !.innerFrom = lastSyncedBlock + 1,
                                  !.outerTo = outerTo]
  <2>1. sync[s] \in SyncState /\ lastSyncedBlock + 1 \in Nat
    OBVIOUS
  <2>2. outerTo \in Nat
    BY <2>1 DEF OuterTo, Min2, SyncState, Block
  <2>3. sync' = [sync EXCEPT ![s] = r]
    BY <1>8 DEF StartScan
  <2> HIDE DEF outerTo
  <2>4. r \in SyncState
    BY <2>1, <2>2 DEF SyncState
  <2> HIDE DEF r
  <2>5. QED
    BY <1>8, <2>3, <2>4 DEF StartScan
<1>9. ASSUME NEW s \in Sync, ScanChunk(s) PROVE TypeOK'
  <2>1. PICK H \in SUBSET Hash : Emit(H)
    BY <1>9 DEF ScanChunk
  <2>2. checking' \in [Hash -> Nat]
    BY <2>1, EmitEffect
  <2>3. sync' \in [Sync -> SyncState]
    BY <1>9, ChunkType DEF ScanChunk
  <2>4. QED
    BY <1>9, <2>2, <2>3 DEF ScanChunk
<1>10. ASSUME NEW s \in Sync, FinishSync(s) PROVE TypeOK'
  <2>1. sync[s].currentBlock \in Block /\ sync[s].currentBlock \in Nat
    BY DEF SyncState, Block
  <2>2. sync' \in [Sync -> SyncState]
    BY <1>10, IdleType DEF FinishSync
  <2>3. confirming' \in [Block -> Nat]
    BY <1>10, <2>1 DEF FinishSync
  <2>4. subscribed' \in BOOLEAN /\ subscribedAt' \in Nat
    BY <1>10, ResubscribeType DEF FinishSync
  <2>5. QED
    BY <1>10, <2>1, <2>2, <2>3, <2>4 DEF FinishSync
<1>11. ASSUME NEW s \in Sync, SyncFails(s) PROVE TypeOK'
  <2>1. subscribed' \in BOOLEAN /\ subscribedAt' \in Nat
    BY <1>11, ResubscribeType DEF SyncFails
  <2>2. spent' \in [Rare -> Nat]
    BY <1>11, SpendType DEF SyncFails, Rare
  <2>3. sync' \in [Sync -> SyncState]
    BY <1>11, IdleType DEF SyncFails
  <2>4. QED
    BY <1>11, <2>1, <2>2, <2>3 DEF SyncFails
<1>12. ASSUME NEW h \in Hash, CheckDone(h) PROVE TypeOK'
  BY <1>12 DEF CheckDone, IsVcHashRevoked
<1>13. ASSUME NEW h \in Hash, SaveDone(h) PROVE TypeOK'
  BY <1>13 DEF SaveDone, SaveRevocation
<1>14. ASSUME NEW h \in Hash, HandlerFails(h) PROVE TypeOK'
  BY <1>14, SpendType DEF HandlerFails, Rare
<1>15. ASSUME NEW b \in Block, ConfirmDone(b) PROVE TypeOK'
  BY <1>15 DEF ConfirmDone, UpdateLastSyncedBlock, Block
<1>16. ASSUME NEW b \in Block, ConfirmFails(b) PROVE TypeOK'
  BY <1>16, SpendType DEF ConfirmFails, Rare
<1>17. CASE UNCHANGED vars
  BY <1>17
<1>18. QED
  BY <1>1, <1>2, <1>3, <1>4, <1>5, <1>6, <1>7, <1>8, <1>9, <1>10, <1>11,
     <1>12, <1>13, <1>14, <1>15, <1>16, <1>17 DEF Next

\* Every variable keeps its type in every behaviour.
THEOREM TypeCorrect == Spec => []TypeOK
  BY InitType, StepType, PTL DEF Spec

-----------------------------------------------------------------------------
\* The inductive invariant

\* Accounted, Settled and ScanInv in the state a step leads to, for a fixed
\* hash, block or sync.
AccountedNext(h) ==
    h \in revoked' \cup failed' \/ checking'[h] > 0 \/ saving'[h] > 0

SettledNext(b) ==
    /\ b <= Max2(head', StartBlock)
    /\ \A h \in Hash : minedAt'[h] \in StartBlock + 1 .. b => AccountedNext(h)

ScanInvNext(s) ==
    /\ sync'[s].currentBlock <= head'
    /\ sync'[s].pc = "scanning" => /\ sync'[s].innerFrom > 0
                                   /\ sync'[s].outerTo <= sync'[s].currentBlock
                                   /\ SettledNext(sync'[s].innerFrom - 1)

\* A step leaves the chain alone or mines a block.
LEMMA ChainStep ==
  ASSUME TypeOK, [Next]_vars
  PROVE  \/ head' = head /\ minedAt' = minedAt
         \/ /\ head' = head + 1
            /\ \A h \in Hash : minedAt'[h] \in {minedAt[h], head + 1}
            /\ \A h \in Hash : minedAt[h] > 0 => minedAt'[h] = minedAt[h]
<1> USE DEF chain, vars
<1>1. ASSUME NEW H \in SUBSET Hash, MineBlock(H)
      PROVE  /\ head' = head + 1
             /\ \A h \in Hash : minedAt'[h] \in {minedAt[h], head + 1}
             /\ \A h \in Hash : minedAt[h] > 0 => minedAt'[h] = minedAt[h]
  BY <1>1 DEF MineBlock
<1>2. (\E H \in SUBSET Hash : MineBlock(H)) \/ (head' = head /\ minedAt' = minedAt)
  BY DEF Next, Initialize, Crash, RealtimeEvent, ReleaseProcessing, BatchTimer,
         ForceFullSync, StartScan, ScanChunk, FinishSync, SyncFails, CheckDone,
         IsVcHashRevoked,
         SaveDone, SaveRevocation, HandlerFails, ConfirmDone,
         UpdateLastSyncedBlock, ConfirmFails
<1>3. QED
  BY <1>1, <1>2

\* No step loses sight of a revocation that is accounted for: a handler that
\* ends leaves a row, or a mark in failed.
LEMMA AccountedStable ==
  ASSUME TypeOK, [Next]_vars, NEW h \in Hash, Accounted(h)
  PROVE  AccountedNext(h)
<1> USE DEF Accounted, AccountedNext, InFlight
<1> USE DEF TypeOK, database, handlers, vars
<1>1. ASSUME NEW H \in SUBSET Hash, Emit(H), saving' = saving, revoked' = revoked,
             failed' = failed
      PROVE  AccountedNext(h)
  BY <1>1, EmitEffect
<1>2. CASE Crash
  BY <1>2 DEF Crash
<1>3. ASSUME NEW g \in Hash, RealtimeEvent(g) PROVE AccountedNext(h)
  BY <1>1, <1>3 DEF RealtimeEvent
<1>4. ASSUME NEW s \in Sync, ScanChunk(s) PROVE AccountedNext(h)
  <2>1. PICK H \in SUBSET Hash : Emit(H)
    BY <1>4 DEF ScanChunk
  <2>2. QED
    BY <1>1, <1>4, <2>1 DEF ScanChunk
<1>5. ASSUME NEW g \in Hash, CheckDone(g) PROVE AccountedNext(h)
  BY <1>5 DEF CheckDone, IsVcHashRevoked
<1>6. ASSUME NEW g \in Hash, SaveDone(g) PROVE AccountedNext(h)
  BY <1>6 DEF SaveDone, SaveRevocation
<1>7. ASSUME NEW g \in Hash, HandlerFails(g) PROVE AccountedNext(h)
  BY <1>7 DEF HandlerFails
<1>8. CASE UNCHANGED <<revoked, failed, checking, saving>>
  BY <1>8
<1>9. QED
  BY <1>2, <1>3, <1>4, <1>5, <1>6, <1>7, <1>8
     DEF Next, MineBlock, Initialize, ReleaseProcessing, BatchTimer,
         ForceFullSync, StartScan, FinishSync, SyncFails, ConfirmDone,
         UpdateLastSyncedBlock,
         ConfirmFails

\* What is settled stays settled: a new block lies above it or below the
\* configured start.
LEMMA SettledStable ==
  ASSUME TypeOK, [Next]_vars, NEW b \in Nat, Settled(b)
  PROVE  SettledNext(b)
<1>1. head \in Nat /\ StartBlock \in Nat /\ minedAt \in [Hash -> Nat]
  BY DEF TypeOK, Block
<1>2. b <= Max2(head', StartBlock)
  BY <1>1, ChainStep DEF Settled, Max2
<1>3. ASSUME NEW h \in Hash, minedAt'[h] \in StartBlock + 1 .. b
      PROVE  minedAt[h] \in StartBlock + 1 .. b
  BY <1>1, <1>3, ChainStep DEF Settled, Max2
<1>4. QED
  BY <1>2, <1>3, AccountedStable DEF Settled, SettledNext

\* A step preserves the invariant if whatever it moves, adds or starts is fit
\* for the next state; the rest is stable.
LEMMA Preserve ==
  ASSUME IInv, [Next]_vars,
         lastSyncedBlock' = lastSyncedBlock \/ SettledNext(lastSyncedBlock'),
         persisted' = persisted \/ SettledNext(persisted'),
         \A h \in pendingUpdates' : h \in pendingUpdates \/ AccountedNext(h),
         \A b \in Block : confirming'[b] > 0 => confirming[b] > 0 \/ SettledNext(b),
         \A s \in Sync : sync'[s] = sync[s] \/ ScanInvNext(s),
         \A h \in Hash : checking'[h] > 0 \/ saving'[h] > 0
                           => InFlight(h) \/ minedAt[h] > 0
  PROVE  IInv'
<1>1. TypeOK /\ TypeOK'
  BY StepType DEF IInv
<1>2. /\ head \in Nat /\ head' \in Nat /\ head <= head'
      /\ minedAt \in [Hash -> Nat] /\ minedAt' \in [Hash -> Nat]
  <2>1. head \in Nat /\ minedAt \in [Hash -> Nat]
    BY <1>1 DEF TypeOK, Block
  <2>2. head' \in Nat /\ minedAt' \in [Hash -> Nat]
    BY <1>1 DEF TypeOK, Block
  <2>3. head <= head'
    BY <1>1, <2>1, ChainStep
  <2>4. QED
    BY <2>1, <2>2, <2>3
<1>3. SettledNext(lastSyncedBlock') /\ SettledNext(persisted')
  BY <1>1, SettledStable DEF IInv, NoGapBelowMark, TypeOK
<1>4. \A h \in pendingUpdates' : AccountedNext(h)
  BY <1>1, AccountedStable DEF IInv, SkipIsSafe, TypeOK
<1>5. \A b \in Block : confirming'[b] > 0 => SettledNext(b)
  BY <1>1, SettledStable DEF IInv, Block
<1>6. ASSUME NEW s \in Sync PROVE ScanInvNext(s)
  <2>1. CASE sync'[s] = sync[s]
    <3>1. sync[s] \in SyncState /\ ScanInv(s)
      BY <1>1 DEF TypeOK, IInv
    <3>2. sync[s].currentBlock <= head'
      BY <1>2, <3>1 DEF ScanInv, SyncState, Block
    <3>3. sync[s].pc = "scanning" => SettledNext(sync[s].innerFrom - 1)
      BY <1>1, <3>1, SettledStable DEF ScanInv, SyncState
    <3>4. QED
      BY <2>1, <3>1, <3>2, <3>3 DEF ScanInv, ScanInvNext
  <2>2. QED
    BY <2>1
<1>7. \A h \in Hash : minedAt'[h] <= head'
  BY <1>2, ChainStep, <1>1 DEF IInv
<1>8. \A h \in Hash : checking'[h] > 0 \/ saving'[h] > 0 => minedAt'[h] > 0
  BY <1>1, <1>2, ChainStep DEF IInv, InFlight
<1>9. NoGapBelowMark'
  BY <1>3 DEF NoGapBelowMark, Settled, SettledNext, Accounted, AccountedNext,
       InFlight
<1>10. SkipIsSafe'
  BY <1>4 DEF SkipIsSafe, Accounted, AccountedNext, InFlight
<1>11. (\A b \in Block : confirming[b] > 0 => Settled(b))'
  BY <1>5 DEF Settled, SettledNext, Accounted, AccountedNext, InFlight
<1>12. (\A s \in Sync : ScanInv(s))'
  BY <1>6 DEF ScanInv, ScanInvNext, Settled, SettledNext, Accounted,
              AccountedNext, InFlight
<1>13. (\A h \in Hash : InFlight(h) => minedAt[h] > 0)'
  BY <1>8 DEF InFlight
<1>14. QED
  BY <1>1, <1>7, <1>9, <1>10, <1>11, <1>12, <1>13 DEF IInv

\* The invariant holds initially: nothing is mined, scanned or handled yet.
LEMMA InitInv == Init => IInv
<1> SUFFICES ASSUME Init PROVE IInv
  OBVIOUS
<1>1. TypeOK
  BY InitType
<1>2. NoGapBelowMark /\ SkipIsSafe
  BY DEF Init, NoGapBelowMark, SkipIsSafe, Settled, Max2
<1>3. \A s \in Sync : ScanInv(s)
  BY DEF Init, ScanInv, Idle
<1>4. \A b \in Block : ~ (confirming[b] > 0)
  BY DEF Init
<1>5. \A h \in Hash : ~ InFlight(h) /\ minedAt[h] <= head
  BY DEF Init, InFlight
<1>6. QED
  BY <1>1, <1>2, <1>3, <1>4, <1>5 DEF IInv

\* A sync that is idle, or has only asked for the current block, is fit for the
\* next state.
LEMMA IdleScanInv ==
  ASSUME IInv, [Next]_vars, NEW s \in Sync,
         \/ sync'[s] = Idle
         \/ sync'[s].pc = "asked" /\ sync'[s].currentBlock = head
  PROVE  ScanInvNext(s)
<1>1. head \in Nat /\ head <= head'
  <2>1. TypeOK /\ head \in Nat
    BY DEF IInv, TypeOK, Block
  <2>2. QED
    BY <2>1, ChainStep
<1>2. head' \in Nat
  BY StepType DEF IInv, TypeOK, Block
<1>3. QED
  BY <1>1, <1>2 DEF ScanInvNext, Idle

\* Handing over a set of hashes: each is accounted for in the next state, and
\* handlers run for them and for whom they ran before.
LEMMA EmitAccounts ==
  ASSUME TypeOK, NEW H \in SUBSET Hash, Emit(H), saving' = saving
  PROVE  /\ \A h \in H : AccountedNext(h)
         /\ \A h \in Hash \ H : checking'[h] > 0 \/ saving'[h] > 0 => InFlight(h)
  BY EmitEffect DEF AccountedNext, InFlight

\* A queried chunk settles its blocks: each log in it is emitted, unless
\* pendingUpdates says that a real-time event was there first.
LEMMA ScanChunkInv ==
  ASSUME IInv, [Next]_vars, NEW s \in Sync, ScanChunk(s)
  PROVE  IInv'
<1> DEFINE from == sync[s].innerFrom
           innerTo == InnerTo(from, sync[s].outerTo)
           events == {h \in Hash : minedAt[h] \in from .. innerTo}
<1>1. TypeOK /\ sync[s] \in SyncState /\ sync[s].currentBlock <= head
  BY DEF IInv, TypeOK, ScanInv
<1>2. /\ from > 0 /\ sync[s].outerTo <= sync[s].currentBlock
      /\ Settled(from - 1) /\ from - 1 \in Nat
  BY <1>1 DEF ScanChunk, IInv, ScanInv, SyncState
<1>3. Emit(events \ pendingUpdates) /\ saving' = saving
  BY DEF ScanChunk
<1>4. /\ innerTo \in Nat /\ innerTo <= sync[s].outerTo
      /\ head' = head /\ minedAt' = minedAt /\ pendingUpdates' = pendingUpdates
  BY <1>1 DEF ScanChunk, InnerTo, Min2, SyncState, chain, dedup
<1>5. \A h \in events : AccountedNext(h)
  <2>1. \A h \in events \ pendingUpdates : AccountedNext(h)
    BY <1>1, <1>3, EmitAccounts
  <2>2. \A h \in pendingUpdates \cap Hash : AccountedNext(h)
    BY <1>1, AccountedStable DEF IInv, SkipIsSafe
  <2>3. QED
    BY <2>1, <2>2
<1>6. SettledNext(innerTo)
  <2>1. innerTo <= Max2(head', StartBlock)
    BY <1>1, <1>2, <1>4 DEF Max2, SyncState, TypeOK, Block
  <2>2. ASSUME NEW h \in Hash, minedAt'[h] \in StartBlock + 1 .. innerTo
        PROVE  AccountedNext(h)
    <3> minedAt[h] \in Nat /\ from \in Nat /\ minedAt'[h] = minedAt[h]
      BY <1>1, <1>2, <1>4 DEF TypeOK, SyncState
    <3> HIDE DEF from, innerTo
    <3>1. CASE minedAt[h] < from
      <4>1. SettledNext(from - 1)
        BY <1>1, <1>2, SettledStable
      <4>2. minedAt'[h] \in StartBlock + 1 .. from - 1
        BY <1>2, <2>2, <3>1
      <4>3. QED
        BY <4>1, <4>2 DEF SettledNext
    <3>2. CASE minedAt[h] >= from
      <4>1. h \in events
        BY <1>4, <2>2, <3>2
      <4>2. QED
        BY <1>5, <4>1
    <3>3. QED
      BY <3>1, <3>2
  <2>3. QED
    BY <2>1, <2>2 DEF SettledNext
<1>7. ScanInvNext(s)
  <2>1. sync'[s] = NextChunk(sync[s], innerTo)
    BY <1>1 DEF ScanChunk, TypeOK
  <2>2. /\ sync'[s].currentBlock = sync[s].currentBlock
        /\ sync'[s].innerFrom = innerTo + 1
        /\ sync'[s].outerTo \in {sync[s].outerTo,
                                 OuterTo(innerTo + 1, sync[s].currentBlock)}
    BY <1>1, <2>1 DEF NextChunk, SyncState
  <2>3. OuterTo(innerTo + 1, sync[s].currentBlock) <= sync[s].currentBlock
    BY <1>1, <1>4 DEF OuterTo, Min2, SyncState, Block
  <2>4. sync'[s].innerFrom - 1 = innerTo /\ sync'[s].innerFrom > 0
    BY <1>4, <2>2
  <2>5. QED
    BY <1>1, <1>2, <1>4, <1>6, <2>2, <2>3, <2>4 DEF ScanInvNext
<1>8. \A r \in Sync : sync'[r] = sync[r] \/ ScanInvNext(r)
  BY <1>1, <1>7 DEF ScanChunk, TypeOK
<1>9. \A h \in Hash : checking'[h] > 0 \/ saving'[h] > 0
                        => InFlight(h) \/ minedAt[h] > 0
  <2>1. \A h \in events : minedAt[h] > 0
    BY <1>1, <1>2 DEF SyncState, TypeOK
  <2>2. QED
    BY <1>1, <1>3, <2>1, EmitAccounts
<1>10. /\ lastSyncedBlock' = lastSyncedBlock /\ persisted' = persisted
       /\ confirming' = confirming
  BY DEF ScanChunk, database
<1>11. QED
  BY <1>4, <1>8, <1>9, <1>10, Preserve

\* A batch sync that finishes moves the mark to the block number it read at the
\* start, which its last chunk or the mark it read has settled.
LEMMA FinishSyncInv ==
  ASSUME IInv, [Next]_vars, NEW s \in Sync, FinishSync(s)
  PROVE  IInv'
<1> DEFINE b == sync[s].currentBlock
<1>1. /\ TypeOK /\ sync[s] \in SyncState /\ ScanInv(s) /\ b \in Block /\ b \in Nat
      /\ lastSyncedBlock \in Nat
  BY DEF IInv, TypeOK, SyncState, Block
<1>2. Settled(b)
  <2>1. b <= Max2(head, StartBlock)
    BY <1>1 DEF ScanInv, Max2, TypeOK, Block
  <2>2. PICK c \in Nat : Settled(c) /\ b <= c
    <3>1. CASE sync[s].pc = "asked"
      BY <1>1, <3>1 DEF FinishSync, IInv, NoGapBelowMark
    <3>2. CASE sync[s].pc = "scanning"
      <4>1. /\ sync[s].innerFrom - 1 \in Nat /\ Settled(sync[s].innerFrom - 1)
            /\ b <= sync[s].innerFrom - 1
        BY <1>1, <3>2 DEF FinishSync, ScanInv, SyncState
      <4>2. QED
        BY <4>1
    <3>3. QED
      BY <3>1, <3>2 DEF FinishSync
  <2>3. \A h \in Hash : minedAt[h] \in StartBlock + 1 .. b
                          => minedAt[h] \in StartBlock + 1 .. c
    BY <1>1, <2>2 DEF TypeOK
  <2>4. QED
    BY <2>1, <2>2, <2>3 DEF Settled
<1>3. SettledNext(b)
  BY <1>1, <1>2, SettledStable
<1>4. lastSyncedBlock' = b /\ persisted' = persisted /\ pendingUpdates' = {}
  BY DEF FinishSync, database
<1>5. \A c \in Block : confirming'[c] > 0 => confirming[c] > 0 \/ SettledNext(c)
  <2>1. \A c \in Block : confirming'[c] = confirming[c] \/ c = b
    BY <1>1 DEF FinishSync, TypeOK
  <2>2. QED
    BY <1>3, <2>1
<1>6. \A r \in Sync : sync'[r] = sync[r] \/ sync'[r] = Idle
  BY DEF FinishSync, IInv, TypeOK
<1>7. \A r \in Sync : sync'[r] = sync[r] \/ ScanInvNext(r)
  BY <1>6, IdleScanInv
<1>8. \A h \in Hash : checking'[h] > 0 \/ saving'[h] > 0 => InFlight(h)
  BY DEF FinishSync, InFlight
<1>9. QED
  BY <1>3, <1>4, <1>5, <1>7, <1>8, Preserve

\* Every step preserves the invariant.
LEMMA StepInv == IInv /\ [Next]_vars => IInv'
<1> SUFFICES ASSUME IInv, [Next]_vars PROVE IInv'
  OBVIOUS
<1> TypeOK /\ lastSyncedBlock \in Nat /\ persisted \in Nat
  BY DEF IInv, TypeOK
<1> USE DEF chain, database, subscription, dedup, listener, handlers
<1>1. ASSUME NEW H \in SUBSET Hash, MineBlock(H) PROVE IInv'
  BY <1>1, Preserve DEF MineBlock, InFlight
<1>2. CASE Initialize
  \* Above the persisted mark nothing is claimed; below the start block nothing
  \* is owed.
  <2>1. Settled(StartBlock)
    <3>1. StartBlock <= Max2(head, StartBlock)
      BY DEF Max2, TypeOK, Block
    <3>2. QED
      BY <3>1 DEF Settled
  <2>2. Settled(lastSyncedBlock')
    BY <1>2, <2>1 DEF Initialize, Max2, IInv, NoGapBelowMark
  <2>3. lastSyncedBlock' \in Nat
    BY <1>2 DEF Initialize, Max2
  <2>4. SettledNext(lastSyncedBlock')
    BY <2>2, <2>3, SettledStable
  <2>5. QED
    BY <1>2, <2>4, Preserve DEF Initialize, InFlight
<1>3. CASE Crash
  <2>1. Settled(0)
    BY DEF Settled, Max2, TypeOK, Block
  <2>2. SettledNext(lastSyncedBlock')
    BY <1>3, <2>1, SettledStable DEF Crash
  <2>3. \A s \in Sync : ScanInvNext(s)
    BY <1>3, IdleScanInv DEF Crash
  <2>4. QED
    BY <1>3, <2>2, <2>3, Preserve DEF Crash
<1>4. ASSUME NEW h \in Hash, RealtimeEvent(h) PROVE IInv'
  <2>1. /\ AccountedNext(h)
        /\ \A g \in Hash \ {h} : checking'[g] > 0 \/ saving'[g] > 0 => InFlight(g)
    BY <1>4, EmitAccounts DEF RealtimeEvent
  <2>2. minedAt[h] > 0
    BY <1>4 DEF RealtimeEvent, TypeOK
  <2>3. QED
    BY <1>4, <2>1, <2>2, Preserve DEF RealtimeEvent
<1>5. ASSUME NEW h \in Hash, ReleaseProcessing(h) PROVE IInv'
  BY <1>5, Preserve DEF ReleaseProcessing, InFlight
<1>6. ASSUME NEW s \in Sync, BatchTimer(s) PROVE IInv'
  <2>1. ScanInvNext(s)
    BY <1>6, IdleScanInv DEF BatchTimer, TypeOK, Idle
  <2>2. \A r \in Sync : sync'[r] = sync[r] \/ ScanInvNext(r)
    BY <1>6, <2>1 DEF BatchTimer, TypeOK
  <2>3. QED
    BY <1>6, <2>2, Preserve DEF BatchTimer, InFlight
<1>7. ASSUME NEW s \in Sync, ForceFullSync(s) PROVE IInv'
  <2>1. ScanInvNext(s)
    BY <1>7, IdleScanInv DEF ForceFullSync, TypeOK, Idle
  <2>2. \A r \in Sync : sync'[r] = sync[r] \/ ScanInvNext(r)
    BY <1>7, <2>1 DEF ForceFullSync, TypeOK
  <2>3. Settled(StartBlock) /\ StartBlock \in Nat
    BY DEF Settled, Max2, TypeOK, Block
  <2>4. SettledNext(lastSyncedBlock')
    BY <1>7, <2>3, SettledStable DEF ForceFullSync
  <2>5. QED
    BY <1>7, <2>2, <2>4, Preserve DEF ForceFullSync, InFlight
<1>8. ASSUME NEW s \in Sync, StartScan(s) PROVE IInv'
  <2>1. ScanInvNext(s)
    <3>1. /\ sync[s] \in SyncState /\ sync[s].currentBlock <= head
          /\ head' = head /\ head \in Nat
      BY <1>8 DEF StartScan, IInv, ScanInv, TypeOK, Block
    <3>2. /\ sync'[s].currentBlock = sync[s].currentBlock
          /\ sync'[s].innerFrom = lastSyncedBlock + 1
          /\ sync'[s].outerTo = OuterTo(lastSyncedBlock + 1, sync[s].currentBlock)
      BY <1>8, <3>1 DEF StartScan, TypeOK, SyncState
    <3>3. OuterTo(lastSyncedBlock + 1, sync[s].currentBlock) <= sync[s].currentBlock
      BY <3>1 DEF OuterTo, Min2, SyncState, Block
    <3>4. SettledNext(sync'[s].innerFrom - 1)
      BY <3>2, SettledStable DEF IInv, NoGapBelowMark
    <3>5. QED
      BY <3>1, <3>2, <3>3, <3>4 DEF ScanInvNext
  <2>2. \A r \in Sync : sync'[r] = sync[r] \/ ScanInvNext(r)
    BY <1>8, <2>1 DEF StartScan, TypeOK
  <2>3. QED
    BY <1>8, <2>2, Preserve DEF StartScan, InFlight
<1>9. ASSUME NEW s \in Sync, ScanChunk(s) PROVE IInv'
  BY <1>9, ScanChunkInv
<1>10. ASSUME NEW s \in Sync, FinishSync(s) PROVE IInv'
  BY <1>10, FinishSyncInv
<1>11. ASSUME NEW s \in Sync, SyncFails(s) PROVE IInv'
  <2>1. \A r \in Sync : sync'[r] = sync[r] \/ ScanInvNext(r)
    BY <1>11, IdleScanInv DEF SyncFails, TypeOK
  <2>2. QED
    BY <1>11, <2>1, Preserve DEF SyncFails, InFlight
<1>12. ASSUME NEW h \in Hash, CheckDone(h) PROVE IInv'
  BY <1>12, Preserve DEF CheckDone, IsVcHashRevoked, InFlight, TypeOK
<1>13. ASSUME NEW h \in Hash, SaveDone(h) PROVE IInv'
  BY <1>13, Preserve DEF SaveDone, SaveRevocation, InFlight, TypeOK
<1>14. ASSUME NEW h \in Hash, HandlerFails(h) PROVE IInv'
  BY <1>14, Preserve DEF HandlerFails, InFlight, TypeOK
<1>15. ASSUME NEW b \in Block, ConfirmDone(b) PROVE IInv'
  \* The mark that is persisted is one a finished sync has settled.
  <2>1. SettledNext(persisted')
    BY <1>15, SettledStable DEF ConfirmDone, UpdateLastSyncedBlock, IInv, Block
  <2>2. \A c \in Block : confirming'[c] > 0 => confirming[c] > 0
    BY <1>15 DEF ConfirmDone, UpdateLastSyncedBlock, TypeOK
  <2>3. QED
    BY <1>15, <2>1, <2>2, Preserve DEF ConfirmDone, UpdateLastSyncedBlock, InFlight
<1>16. ASSUME NEW b \in Block, ConfirmFails(b) PROVE IInv'
  <2>1. \A c \in Block : confirming'[c] > 0 => confirming[c] > 0
    BY <1>16 DEF ConfirmFails, TypeOK
  <2>2. QED
    BY <1>16, <2>1, Preserve DEF ConfirmFails, InFlight
<1>17. CASE UNCHANGED vars
  BY <1>17, Preserve DEF vars, InFlight
<1>18. QED
  BY <1>1, <1>2, <1>3, <1>4, <1>5, <1>6, <1>7, <1>8, <1>9, <1>10, <1>11,
     <1>12, <1>13, <1>14, <1>15, <1>16, <1>17 DEF Next

\* The inductive invariant holds in every behaviour.
THEOREM Invariance == Spec => []IInv
  BY InitInv, StepInv, PTL DEF Spec

\* Neither mark ever passes a revocation that nobody has been told of.
THEOREM NoGap == Spec => []NoGapBelowMark
<1>1. IInv => NoGapBelowMark
  BY DEF IInv
<1>2. QED
  BY <1>1, Invariance, PTL

\* What a batch sync skips because of pendingUpdates is with a handler already.
THEOREM SkipSafety == Spec => []SkipIsSafe
<1>1. IInv => SkipIsSafe
  BY DEF IInv
<1>2. QED
  BY <1>1, Invariance, PTL

-----------------------------------------------------------------------------
\* The refinement

\* HybridSync implements RevocationCache: mining a block maps to Revoke, the end
\* of a save to Learn, and every other step to a stutter.
THEOREM Refinement == Spec => CacheSpec
<1> DEFINE onChain == {h \in Hash : minedAt[h] > 0}
<1>1. Init => Cache!Init
  BY DEF Init, Cache!Init
<1>2. IInv /\ [Next]_vars => [Cache!Next]_Cache!vars
  <2> SUFFICES ASSUME IInv, [Next]_vars
               PROVE  Cache!Next \/ (onChain' = onChain /\ revoked' = revoked)
    BY DEF Cache!vars
  <2> TypeOK
    BY DEF IInv
  <2> USE DEF chain, database, handlers, vars
  <2>1. ASSUME NEW H \in SUBSET Hash, MineBlock(H)
        PROVE  Cache!Next \/ (onChain' = onChain /\ revoked' = revoked)
    <3>1. onChain \cap H = {} /\ revoked' = revoked
      BY <2>1 DEF MineBlock
    <3>2. onChain' = onChain \cup H
      BY <2>1 DEF MineBlock, TypeOK, Block
    <3>3. QED
      BY <3>1, <3>2 DEF Cache!Next, Cache!Revoke
  <2>2. ASSUME NEW h \in Hash, SaveDone(h)
        PROVE  Cache!Next \/ (onChain' = onChain /\ revoked' = revoked)
    <3>1. h \in onChain
      BY <2>2 DEF SaveDone, SaveRevocation, IInv, InFlight
    <3>2. onChain' = onChain /\ revoked' = revoked \cup {h}
      BY <2>2 DEF SaveDone, SaveRevocation
    <3>3. QED
      BY <3>1, <3>2 DEF Cache!Next, Cache!Learn
  <2>3. CASE minedAt' = minedAt /\ revoked' = revoked
    BY <2>3
  <2>4. QED
    BY <2>1, <2>2, <2>3
       DEF Next, Initialize, Crash, RealtimeEvent, ReleaseProcessing,
           BatchTimer, ForceFullSync, StartScan, ScanChunk, FinishSync,
           SyncFails, CheckDone, IsVcHashRevoked, HandlerFails, ConfirmDone,
           UpdateLastSyncedBlock, ConfirmFails
<1>3. QED
  BY <1>1, <1>2, Invariance, PTL DEF Spec, CacheSpec, Cache!Spec
=============================================================================
