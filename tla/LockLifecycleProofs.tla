------------------------- MODULE LockLifecycleProofs -------------------------
(***************************************************************************)
(* Proofs about LockLifecycle, for any locks, requests, overlapping scans, *)
(* kinds of connection, failures and restarts:                             *)
(*   TypeCorrect    Spec => []TypeOK                                       *)
(*   LInvariance    Spec => []LInv                                         *)
(*   MarkInvariance with one lock, Spec => []MarkInv                       *)
(*   MarkHonest     with one lock, Spec => []MarkMeansScanned              *)
(* SequentialProofs has what holds when requests do not overlap.           *)
(***************************************************************************)
EXTENDS LockLifecycle, TLAPS

USE LockLifecycleAssumption

-----------------------------------------------------------------------------
\* Calls and scans as records

CallPc == {"idle", "finding", "saving", "authorising", "deleting", "detaching",
           "destroying", "network", "blockNumber", "row"}

\* The states of a call, with the steps of initialize() written out.
LEMMA CallStateType ==
  CallState = [pc : CallPc, lock : MaybeLock, provider : Provider,
               rowLock : MaybeLock, key : MaybeLock]
  BY DEF CallState, CallPc, InitializePc

\* A call that waits for nothing is well typed.
LEMMA NoCallType == NoCall \in CallState
<1>1. NoLock \in MaybeLock /\ 0 \in Provider /\ "idle" \in CallPc
  BY DEF MaybeLock, Provider, CallPc
<1>2. QED
  BY <1>1, CallStateType DEF NoCall

\* A call that goes on waiting elsewhere keeps what it carries.
LEMMA PcType ==
  ASSUME NEW c \in CallState, NEW p \in CallPc
  PROVE  /\ [c EXCEPT !.pc = p] \in CallState
         /\ [c EXCEPT !.pc = p].pc = p
         /\ [c EXCEPT !.pc = p].lock = c.lock
         /\ [c EXCEPT !.pc = p].rowLock = c.rowLock
  BY CallStateType

\* What LInv says of the calls.
CallsOK ==
    /\ call \in [Actor -> CallState]
    /\ \A a \in Actor : /\ call[a].pc = "saving" => call[a].lock \in Lock
                        /\ call[a].pc = "row" => call[a].rowLock \in Lock

\* It is kept by a step after which one call waits for something else, if that
\* one call is as it should be.
LEMMA CallUpdate ==
  ASSUME CallsOK, NEW a \in Actor, NEW c \in CallState,
         call' = [call EXCEPT ![a] = c],
         c.pc = "saving" => c.lock \in Lock,
         c.pc = "row" => c.rowLock \in Lock
  PROVE  /\ CallsOK'
         /\ call'[a] = c
         /\ \A b \in Actor \ {a} : call'[b] = call[b]
<1>1. call \in [Actor -> CallState]
  BY DEF CallsOK
<1>2. /\ call' \in [Actor -> CallState] /\ call'[a] = c
      /\ \A b \in Actor \ {a} : call'[b] = call[b]
  BY <1>1
<1>3. QED
  BY <1>2 DEF CallsOK

\* It is kept by the end of a call.
LEMMA CallEnds ==
  ASSUME CallsOK, NEW a \in Actor, call' = [call EXCEPT ![a] = NoCall]
  PROVE  /\ CallsOK'
         /\ \A b \in Actor : call'[b].pc \in {"idle", call[b].pc}
<1>1. NoCall.pc = "idle"
  BY DEF NoCall
<1>2. CallsOK' /\ call'[a] = NoCall /\ \A b \in Actor \ {a} : call'[b] = call[b]
  BY <1>1, NoCallType, CallUpdate
<1>3. QED
  BY <1>1, <1>2

\* It is kept by a call that goes on to an answer of another kind.
LEMMA CallGoesOn ==
  ASSUME CallsOK, NEW a \in Actor, NEW p \in CallPc \ {"saving", "row"},
         call' = [call EXCEPT ![a].pc = p]
  PROVE  /\ CallsOK'
         /\ \A b \in Actor : call'[b].pc \in {p, call[b].pc}
<1> DEFINE c == [call[a] EXCEPT !.pc = p]
<1>1. call[a] \in CallState /\ call' = [call EXCEPT ![a] = c]
  BY DEF CallsOK
<1>2. c \in CallState /\ c.pc = p /\ p \notin {"saving", "row"}
  BY <1>1, PcType
<1> HIDE DEF c
<1>3. CallsOK' /\ call'[a] = c /\ \A b \in Actor \ {a} : call'[b] = call[b]
  BY <1>1, <1>2, CallUpdate
<1>4. QED
  BY <1>2, <1>3

\* initialize() begins with a lock id and a provider of its own.
LEMMA InitializeBegins ==
  ASSUME CallsOK, provider \in Provider, NEW a \in Actor, NEW l \in Lock,
         BeginInitialize(a, l)
  PROVE  CallsOK' /\ lockId' \in Lock /\ provider' \in Provider
<1> DEFINE c == [NoCall EXCEPT !.pc = "network", !.lock = l,
                               !.provider = provider + 1]
<1>1. provider' = provider + 1 /\ provider + 1 \in Provider
  BY DEF BeginInitialize, Provider
<1>2. c \in CallState /\ c.pc = "network"
  <2>1. "network" \in CallPc /\ l \in MaybeLock
    BY DEF CallPc, MaybeLock
  <2>2. QED
    BY <1>1, <2>1, NoCallType, CallStateType DEF NoCall
<1>3. call' = [call EXCEPT ![a] = c] /\ lockId' = l
  BY DEF BeginInitialize
<1> HIDE DEF c
<1>4. CallsOK'
  BY <1>2, <1>3, CallUpdate
<1>5. QED
  BY <1>1, <1>3, <1>4

\* A query is for the lock of the moment, and for a block within the scan.
LEMMA QueryType ==
  ASSUME NEW q \in SyncState, NEW n \in 1 .. q.currentBlock,
         contract \in Provider, lockId \in Lock, lockId \in MaybeLock
  PROVE  /\ Query(q, n) \in SyncState
         /\ Query(q, n).pc = "querying"
         /\ Query(q, n).next \in 1 .. Query(q, n).currentBlock
         /\ Query(q, n).next = n
         /\ Query(q, n).lock = lockId
<1>1. n \in 0 .. MaxBlock + 1 /\ q.currentBlock \in Block
  BY DEF SyncState, Block
<1>2. Query(q, n) \in SyncState
  BY <1>1 DEF Query, SyncState
<1>3. /\ Query(q, n).pc = "querying" /\ Query(q, n).next = n
      /\ Query(q, n).currentBlock = q.currentBlock /\ Query(q, n).lock = lockId
  BY DEF Query, SyncState
<1>4. QED
  BY <1>2, <1>3

-----------------------------------------------------------------------------
\* Types

\* The service starts with nothing connected.
LEMMA InitLInv == Init => LInv
<1> SUFFICES ASSUME Init PROVE LInv
  OBVIOUS
<1>1. call \in [Actor -> CallState] /\ \A a \in Actor : call[a].pc = "idle"
  BY NoCallType DEF Init, NoCall
<1>2. sync \in [Sync -> SyncState]
      /\ \A s \in Sync : sync[s].pc = "idle" /\ sync[s].provider = 0
  BY DEF Init, NoSync, SyncState, MaybeLock, Provider, Block
<1>3. /\ running \in BOOLEAN /\ booted \in BOOLEAN /\ isListening \in BOOLEAN
      /\ batchSyncInterval \in BOOLEAN /\ initFailed \in BOOLEAN
      /\ unread \in BOOLEAN
  BY Zenon DEF Init
<1>4. TypeOK
  BY <1>1, <1>2, <1>3 DEF Init, TypeOK, MaybeLock, Provider, Block
<1>5. QED
  BY <1>1, <1>2, <1>4 DEF Init, LInv, Unconnected, InitializePc

\* Every step keeps the types and what they rest on.
LEMMA StepLInv == LInv /\ [Next]_vars => LInv'
<1> SUFFICES ASSUME LInv, [Next]_vars PROVE LInv'
  OBVIOUS
<1> USE DEF LInv, TypeOK, Unconnected, CallsOK, disk, process, timers, connection,
            scan
<1>0. CallsOK /\ provider \in Provider /\ Boot \in Actor
      /\ \A r \in Request : r \in Actor
  BY DEF Actor
<1>1. CASE MineBlock
  BY <1>1 DEF MineBlock, Block
<1>2. CASE Start
  <2>1. CallsOK' /\ \A b \in Actor : call'[b].pc \in {"finding", call[b].pc}
    BY <1>0, <1>2, CallGoesOn DEF Start, CallPc
  <2>2. QED
    BY <1>2, <2>1 DEF Start, InitializePc
<1>3. CASE ConfigFound
  <2>1. CASE FindConfig = NoLock
    <3>1. CallsOK' /\ \A b \in Actor : call'[b].pc \in {"idle", call[b].pc}
      BY <1>0, <1>3, <2>1, CallEnds DEF ConfigFound
    <3>2. QED
      BY <1>3, <2>1, <3>1 DEF ConfigFound, FindConfig, InitializePc
  <2>2. CASE FindConfig # NoLock
    <3>1. FindConfig \in Lock /\ BeginInitialize(Boot, FindConfig)
      BY <1>3, <2>2 DEF ConfigFound, FindConfig, MaybeLock
    <3>2. CallsOK' /\ lockId' \in Lock /\ provider' \in Provider
      BY <1>0, <3>1, InitializeBegins
    <3>3. QED
      BY <1>3, <3>1, <3>2
         DEF ConfigFound, FindConfig, MaybeLock, BeginInitialize
  <2>3. QED
    BY <2>1, <2>2
<1>4. CASE ConfigNotRead
  <2>1. CallsOK' /\ \A b \in Actor : call'[b].pc \in {"idle", call[b].pc}
    BY <1>0, <1>4, CallEnds DEF ConfigNotRead
  <2>2. booted' \in BOOLEAN /\ unread' \in BOOLEAN
    BY <1>4, Zenon DEF ConfigNotRead
  <2>3. QED
    BY <1>4, <2>1, <2>2 DEF ConfigNotRead, InitializePc
<1>5. CASE Exit
  <2>1. CallsOK' /\ \A a \in Actor : call'[a].pc = "idle"
    BY <1>5, NoCallType DEF Exit, NoCall
  <2>2. sync' \in [Sync -> SyncState]
        /\ \A s \in Sync : sync'[s].pc = "idle" /\ sync'[s].provider = 0
    BY <1>5 DEF Exit, NoSync, SyncState, MaybeLock, Provider, Block
  <2>3. /\ running' \in BOOLEAN /\ booted' \in BOOLEAN /\ isListening' \in BOOLEAN
        /\ batchSyncInterval' \in BOOLEAN /\ initFailed' \in BOOLEAN
        /\ unread' \in BOOLEAN
    BY <1>5, Zenon DEF Exit
  <2>4. QED
    BY <1>5, <2>1, <2>2, <2>3 DEF Exit, MaybeLock, Provider, Block, InitializePc
<1>6. ASSUME NEW r \in Request, NEW l \in Lock, InitRequest(r, l) PROVE LInv'
  <2> DEFINE c == [NoCall EXCEPT !.pc = "saving", !.lock = l]
  <2>1. "saving" \in CallPc /\ l \in MaybeLock
    BY DEF CallPc, MaybeLock
  <2>2. c \in CallState /\ c.pc = "saving" /\ c.lock \in Lock
    BY <2>1, NoCallType, CallStateType DEF NoCall
  <2>3. call' = [call EXCEPT ![r] = c]
    BY <1>6 DEF InitRequest
  <2> HIDE DEF c
  <2>4. CallsOK' /\ call'[r] = c /\ \A b \in Actor \ {r} : call'[b] = call[b]
    BY <1>0, <2>2, <2>3, CallUpdate
  <2>5. QED
    BY <1>6, <2>2, <2>4 DEF InitRequest, InitializePc
<1>7. ASSUME NEW r \in Request, ConfigSaved(r) PROVE LInv'
  <2>1. call[r].lock \in Lock /\ BeginInitialize(r, call[r].lock)
    BY <1>0, <1>7 DEF ConfigSaved
  <2>2. CallsOK' /\ lockId' \in Lock /\ provider' \in Provider
    BY <1>0, <2>1, InitializeBegins
  <2>3. QED
    BY <1>7, <2>1, <2>2 DEF ConfigSaved, SaveConfig, MaybeLock, BeginInitialize
<1>8. ASSUME NEW a \in Actor, NetworkKnown(a) PROVE LInv'
  <2> DEFINE c == [call[a] EXCEPT !.pc = "blockNumber", !.provider = provider]
  <2>1. c \in CallState /\ c.pc = "blockNumber"
    <3>1. "blockNumber" \in CallPc /\ call[a] \in CallState
      BY DEF CallPc
    <3>2. QED
      BY <1>0, <3>1, CallStateType
  <2>2. call' = [call EXCEPT ![a] = c]
    BY <1>8 DEF NetworkKnown
  <2> HIDE DEF c
  <2>3. CallsOK'
    BY <1>0, <2>1, <2>2, CallUpdate
  <2>4. QED
    BY <1>8, <2>3 DEF NetworkKnown, InitializePc
<1>9. ASSUME NEW a \in Actor, BlockNumberKnown(a) PROVE LInv'
  <2> DEFINE c == [call[a] EXCEPT !.pc = "row", !.rowLock = lockId]
  <2>1. lockId \in Lock
    BY <1>9 DEF BlockNumberKnown, InitializePc
  <2>2. c \in CallState /\ c.pc = "row" /\ c.rowLock \in Lock
    <3>1. "row" \in CallPc /\ call[a] \in CallState /\ lockId \in MaybeLock
      BY DEF CallPc
    <3>2. QED
      BY <2>1, <3>1, CallStateType
  <2>3. call' = [call EXCEPT ![a] = c]
    BY <1>9 DEF BlockNumberKnown
  <2> HIDE DEF c
  <2>4. CallsOK'
    BY <1>0, <2>2, <2>3, CallUpdate
  <2>5. QED
    BY <1>9, <2>1, <2>4 DEF BlockNumberKnown
<1>10. ASSUME NEW a \in Actor, RowRead(a) PROVE LInv'
  <2>1. CallsOK' /\ \A b \in Actor : call'[b].pc \in {"idle", call[b].pc}
    BY <1>0, <1>10, CallEnds DEF RowRead
  <2>2. lockId \in Lock /\ call[a].rowLock \in Lock
    BY <1>10 DEF RowRead, InitializePc
  <2>3. \/ UNCHANGED <<isListening, timers>>
        \/ /\ isListening' = TRUE /\ batchSyncInterval' = TRUE
           /\ intervals' = intervals + 1 /\ timeouts' = timeouts + 1
    BY <1>10 DEF RowRead, StartHybridSync, NotStarted
  <2>4. isListening' \in BOOLEAN /\ batchSyncInterval' \in BOOLEAN
    BY <2>3, Zenon
  <2>5. /\ intervals' \in Nat /\ timeouts' \in Nat
        /\ batchSyncInterval' => intervals' > 0
    BY <2>3
  <2>6. subs' \subseteq Provider \X MaybeLock
    BY <1>10 DEF RowRead, StartHybridSync, NotStarted, Detached
  <2>7. QED
    BY <1>10, <2>1, <2>2, <2>4, <2>5, <2>6 DEF RowRead, GetOrCreate
<1>11. ASSUME NEW r \in Request, InitFails(r) PROVE LInv'
  <2>1. CallsOK' /\ \A b \in Actor : call'[b].pc \in {"idle", call[b].pc}
    BY <1>0, <1>11, CallEnds DEF InitFails
  <2>2. QED
    BY <1>11, <2>1 DEF InitFails, InitializePc
<1>12. ASSUME NEW r \in Request, ResetRequest(r) PROVE LInv'
  <2> DEFINE c == [call[r] EXCEPT !.pc = "authorising", !.key = cfgLock]
  <2>1. c \in CallState /\ c.pc = "authorising"
    <3>1. "authorising" \in CallPc /\ call[r] \in CallState
      BY <1>0 DEF CallPc
    <3>2. QED
      BY <3>1, CallStateType
  <2>2. call' = [call EXCEPT ![r] = c]
    BY <1>12 DEF ResetRequest
  <2> HIDE DEF c
  <2>3. CallsOK' /\ call'[r] = c /\ \A b \in Actor \ {r} : call'[b] = call[b]
    BY <1>0, <2>1, <2>2, CallUpdate
  <2>4. QED
    BY <1>12, <2>1, <2>3 DEF ResetRequest, InitializePc
<1>13. ASSUME NEW r \in Request, Authorised(r) PROVE LInv'
  <2>1. CallsOK' /\ \A b \in Actor : call'[b].pc \in {"deleting", call[b].pc}
    BY <1>0, <1>13, CallGoesOn DEF Authorised, CallPc
  <2>2. QED
    BY <1>13, <2>1 DEF Authorised, InitializePc
<1>14. ASSUME NEW r \in Request, ResetFails(r) PROVE LInv'
  <2>1. CallsOK' /\ \A b \in Actor : call'[b].pc \in {"idle", call[b].pc}
    BY <1>0, <1>14, CallEnds DEF ResetFails
  <2>2. QED
    BY <1>14, <2>1 DEF ResetFails, InitializePc
<1>15. ASSUME NEW r \in Request, ConfigDeleted(r) PROVE LInv'
  <2>1. CallsOK' /\ \A b \in Actor :
                      call'[b].pc \in {"idle", "detaching", call[b].pc}
    <3>1. CASE call' = [call EXCEPT ![r] = NoCall]
      BY <1>0, <3>1, CallEnds
    <3>2. CASE call' = [call EXCEPT ![r].pc = "detaching"]
      BY <1>0, <3>2, CallGoesOn DEF CallPc
    <3>3. QED
      BY <1>15, <3>1, <3>2 DEF ConfigDeleted, StopHybridSync
  <2>2. isListening' \in BOOLEAN /\ batchSyncInterval' \in BOOLEAN
    BY <1>15, Zenon DEF ConfigDeleted, StopHybridSync
  <2>3. batchSyncInterval' = FALSE /\ intervals' \in Nat
    BY <1>15 DEF ConfigDeleted, StopHybridSync, ClearInterval
  <2>4. subs' \subseteq Provider \X MaybeLock
    BY <1>15 DEF ConfigDeleted, StopHybridSync, Detached
  <2>5. QED
    BY <1>15, <2>1, <2>2, <2>3, <2>4
       DEF ConfigDeleted, DeleteConfig, MaybeLock, InitializePc
<1>16. ASSUME NEW r \in Request, ProviderDetached(r) PROVE LInv'
  <2>1. CallsOK' /\ \A b \in Actor :
                      call'[b].pc \in {"idle", "destroying", call[b].pc}
    <3>1. CASE call' = [call EXCEPT ![r] = NoCall]
      BY <1>0, <3>1, CallEnds
    <3>2. CASE call' = [call EXCEPT ![r].pc = "destroying"]
      BY <1>0, <3>2, CallGoesOn DEF CallPc
    <3>3. QED
      BY <1>16, <3>1, <3>2 DEF ProviderDetached
  <2>2. QED
    BY <1>16, <2>1 DEF ProviderDetached, InitializePc
<1>17. ASSUME NEW r \in Request, ProviderDestroyed(r) PROVE LInv'
  <2>1. CallsOK' /\ \A b \in Actor : call'[b].pc \in {"idle", call[b].pc}
    BY <1>0, <1>17, CallEnds DEF ProviderDestroyed
  <2>2. QED
    BY <1>17, <2>1 DEF ProviderDestroyed, InitializePc
<1>18. ASSUME NEW s \in Sync, BatchTimer(s) PROVE LInv'
  <2> DEFINE q == [NoSync EXCEPT !.pc = "asked", !.provider = provider,
                                 !.currentBlock = head]
  <2>1. q \in SyncState /\ q.pc = "asked" /\ q.provider = provider
    <3>1. NoLock \in MaybeLock /\ 0 \in 0 .. MaxBlock + 1
      BY DEF MaybeLock
    <3>2. QED
      BY <3>1 DEF NoSync, SyncState
  <2>2. sync' = [sync EXCEPT ![s] = q] /\ timeouts' \in Nat
    BY <1>18 DEF BatchTimer
  <2> HIDE DEF q
  <2>3. QED
    BY <1>18, <2>1, <2>2 DEF BatchTimer
<1>19. ASSUME NEW s \in Sync, StartScan(s) PROVE LInv'
  <2> DEFINE q == Query(sync[s], lastSyncedBlock + 1)
  <2>1. lockId \in Lock /\ lockId \in MaybeLock
    BY <1>19 DEF StartScan, Alive, MaybeLock
  <2>2. sync[s] \in SyncState /\ lastSyncedBlock + 1 \in 1 .. sync[s].currentBlock
    BY <1>19 DEF StartScan, SyncState, Block
  <2>3. q \in SyncState /\ q.pc = "querying" /\ q.next \in 1 .. q.currentBlock
        /\ q.lock \in Lock
    BY <2>1, <2>2, QueryType
  <2>4. sync' = [sync EXCEPT ![s] = q]
    BY <1>19 DEF StartScan
  <2> HIDE DEF q
  <2>5. QED
    BY <1>19, <2>1, <2>3, <2>4 DEF StartScan
<1>20. ASSUME NEW s \in Sync, QueryDone(s) PROVE LInv'
  BY <1>20 DEF QueryDone, SyncState, Block
<1>21. ASSUME NEW s \in Sync, NextQuery(s) PROVE LInv'
  <2> DEFINE q == Query(sync[s], sync[s].next)
  <2>1. lockId \in Lock /\ lockId \in MaybeLock
    BY <1>21 DEF NextQuery, MaybeLock
  <2>2. sync[s] \in SyncState /\ sync[s].next \in 1 .. sync[s].currentBlock
    BY <1>21 DEF NextQuery, SyncState, Block
  <2>3. q \in SyncState /\ q.pc = "querying" /\ q.next \in 1 .. q.currentBlock
        /\ q.lock \in Lock
    BY <2>1, <2>2, QueryType
  <2>4. sync' = [sync EXCEPT ![s] = q]
    BY <1>21 DEF NextQuery
  <2> HIDE DEF q
  <2>5. QED
    BY <1>21, <2>1, <2>3, <2>4 DEF NextQuery
<1>22. ASSUME NEW s \in Sync, FinishSync(s) PROVE LInv'
  BY <1>22 DEF FinishSync, NoSync, SyncState, MaybeLock, Provider, Block
<1>23. ASSUME NEW s \in Sync, SyncFails(s) PROVE LInv'
  BY <1>23 DEF SyncFails, NoSync, SyncState, MaybeLock, Provider, Block
<1>24. ASSUME NEW c \in confirming, ConfirmDone(c) PROVE LInv'
  BY <1>24 DEF ConfirmDone
<1>25. CASE UNCHANGED vars
  BY <1>25 DEF vars
<1>26. QED
  BY <1>1, <1>2, <1>3, <1>4, <1>5, <1>6, <1>7, <1>8, <1>9, <1>10, <1>11, <1>12,
     <1>13, <1>14, <1>15, <1>16, <1>17, <1>18, <1>19, <1>20, <1>21, <1>22, <1>23,
     <1>24, <1>25 DEF Next

\* The invariant that the types rest on.
THEOREM LInvariance == Spec => []LInv
  BY InitLInv, StepLInv, PTL DEF Spec

\* Every state of LockLifecycle is well typed, whoever configures, resets and
\* restarts it, and whatever fails.
THEOREM TypeCorrect == Spec => []TypeOK
<1>1. LInv => TypeOK
  BY DEF LInv
<1>2. QED
  BY <1>1, LInvariance, PTL

-----------------------------------------------------------------------------
\* The mark of the only lock

\* Where there is one lock, every step keeps what MarkInv says of it: whatever
\* overlaps, fails or is restarted, a number reaches the mark only after the
\* blocks up to it have been queried.
LEMMA StepMarkInv ==
  ASSUME NEW l, Lock = {l}, MarkInv, [Next]_vars
  PROVE  MarkInv'
<1>1. LInv /\ LInv' /\ TypeOK /\ TypeOK'
  BY StepLInv DEF MarkInv, LInv
<1>2. /\ mark[l] \in Nat /\ 1 .. mark[l] \subseteq scanned[l]
      /\ lastSyncedBlock \in Nat /\ 1 .. lastSyncedBlock \subseteq scanned[l]
      /\ \A c \in confirming : 1 .. c[2] \subseteq scanned[l]
      /\ \A s \in Sync : sync[s].pc \in {"querying", "pausing"} =>
            1 .. sync[s].next - 1 \subseteq scanned[l]
      /\ mark \in [{l} -> Block] /\ rows \subseteq {l}
      /\ scanned \in [{l} -> SUBSET Block]
      /\ sync \in [Sync -> SyncState]
  BY <1>1 DEF MarkInv, MarkMeansScanned, TypeOK, Block
<1> DEFINE Covered ==
             /\ 1 .. mark'[l] \subseteq scanned'[l]
             /\ 1 .. lastSyncedBlock' \subseteq scanned'[l]
             /\ \A c \in confirming' : 1 .. c[2] \subseteq scanned'[l]
             /\ \A s \in Sync : sync'[s].pc \in {"querying", "pausing"} =>
                   1 .. sync'[s].next - 1 \subseteq scanned'[l]
<1>3. SUFFICES Covered
  BY <1>1 DEF MarkInv, MarkMeansScanned
<1>4. CASE UNCHANGED <<mark, scan>>
  BY <1>2, <1>4 DEF scan
<1>5. CASE Exit
  BY <1>2, <1>5 DEF Exit, NoSync, disk
<1>6. ASSUME NEW a \in Actor, RowRead(a) PROVE Covered
  <2>1. call[a].rowLock = l
    BY <1>1, <1>6 DEF RowRead, LInv
  <2>2. lastSyncedBlock' = mark[l] /\ UNCHANGED <<mark, sync, confirming, scanned>>
    BY <1>6, <2>1 DEF RowRead, GetOrCreate
  <2>3. QED
    BY <1>2, <2>2
<1>7. ASSUME NEW s \in Sync, BatchTimer(s) PROVE Covered
  <2>1. \A t \in Sync : sync'[t] = sync[t] \/ sync'[t].pc = "asked"
    BY <1>2, <1>7 DEF BatchTimer, NoSync
  <2>2. UNCHANGED <<mark, lastSyncedBlock, confirming, scanned>>
    BY <1>7 DEF BatchTimer, disk
  <2>3. QED
    BY <1>2, <2>1, <2>2
<1>8. ASSUME NEW s \in Sync, StartScan(s) PROVE Covered
  <2>1. /\ sync'[s].next - 1 = lastSyncedBlock
        /\ \A t \in Sync \ {s} : sync'[t] = sync[t]
    <3>1. sync[s] \in SyncState /\ sync' = [sync EXCEPT ![s] =
                                         Query(sync[s], lastSyncedBlock + 1)]
      BY <1>2, <1>8 DEF StartScan
    <3>2. Query(sync[s], lastSyncedBlock + 1).next = lastSyncedBlock + 1
      BY <3>1 DEF Query, SyncState
    <3>3. QED
      BY <1>2, <3>1, <3>2
  <2>2. UNCHANGED <<mark, lastSyncedBlock, confirming, scanned>>
    BY <1>8 DEF StartScan, disk
  <2>3. QED
    BY <1>2, <2>1, <2>2
<1>9. ASSUME NEW s \in Sync, QueryDone(s) PROVE Covered
  <2>1. sync[s].lock = l /\ sync[s].next \in Nat /\ sync[s].pc = "querying"
    BY <1>1, <1>9 DEF QueryDone, LInv, TypeOK, SyncState
  <2>2. scanned'[l] = scanned[l] \cup {sync[s].next}
    BY <1>2, <1>9, <2>1 DEF QueryDone
  <2>3. /\ sync'[s].next = sync[s].next + 1
        /\ \A t \in Sync \ {s} : sync'[t] = sync[t]
    BY <1>2, <1>9 DEF QueryDone, SyncState
  <2>4. 1 .. sync'[s].next - 1 \subseteq scanned'[l]
    BY <1>2, <2>1, <2>2, <2>3
  <2>5. UNCHANGED <<mark, lastSyncedBlock, confirming>>
    BY <1>9 DEF QueryDone, disk
  <2>6. QED
    BY <1>2, <2>2, <2>3, <2>4, <2>5
<1>10. ASSUME NEW s \in Sync, NextQuery(s) PROVE Covered
  <2>1. /\ sync'[s].next = sync[s].next /\ sync[s].pc = "pausing"
        /\ \A t \in Sync \ {s} : sync'[t] = sync[t]
    <3>1. sync[s] \in SyncState /\ sync' = [sync EXCEPT ![s] =
                                         Query(sync[s], sync[s].next)]
      BY <1>2, <1>10 DEF NextQuery
    <3>2. Query(sync[s], sync[s].next).next = sync[s].next
      BY <3>1 DEF Query, SyncState
    <3>3. QED
      BY <1>2, <1>10, <3>1, <3>2 DEF NextQuery
  <2>2. UNCHANGED <<mark, lastSyncedBlock, confirming, scanned>>
    BY <1>10 DEF NextQuery, disk
  <2>3. QED
    BY <1>2, <2>1, <2>2
<1>11. ASSUME NEW s \in Sync, FinishSync(s) PROVE Covered
  <2>1. /\ sync[s] \in SyncState
        /\ sync[s].currentBlock \in Nat /\ sync[s].next \in Nat
    BY <1>2 DEF SyncState, Block
  <2>2. 1 .. sync[s].currentBlock \subseteq scanned[l]
    <3>1. CASE lastSyncedBlock >= sync[s].currentBlock
      BY <1>2, <2>1, <3>1
    <3>2. CASE sync[s].pc = "pausing" /\ sync[s].next > sync[s].currentBlock
      BY <1>2, <2>1, <3>2
    <3>3. QED
      BY <1>11, <3>1, <3>2 DEF FinishSync
  <2>3. /\ lastSyncedBlock' = sync[s].currentBlock
        /\ confirming' = confirming \cup {<<lockId, sync[s].currentBlock>>}
        /\ UNCHANGED <<mark, scanned>>
    BY <1>11 DEF FinishSync, disk
  <2>4. \A t \in Sync : sync'[t] = sync[t] \/ sync'[t].pc = "idle"
    BY <1>2, <1>11 DEF FinishSync, NoSync
  <2>5. QED
    BY <1>2, <2>2, <2>3, <2>4
<1>12. ASSUME NEW s \in Sync, SyncFails(s) PROVE Covered
  <2>1. \A t \in Sync : sync'[t] = sync[t] \/ sync'[t].pc = "idle"
    BY <1>2, <1>12 DEF SyncFails, NoSync
  <2>2. UNCHANGED <<mark, lastSyncedBlock, confirming, scanned>>
    BY <1>12 DEF SyncFails, disk
  <2>3. QED
    BY <1>2, <2>1, <2>2
<1>13. ASSUME NEW c \in confirming, ConfirmDone(c) PROVE Covered
  <2>1. mark'[l] \in {mark[l], c[2]}
    BY <1>2, <1>13 DEF ConfirmDone
  <2>2. confirming' \subseteq confirming
        /\ UNCHANGED <<lastSyncedBlock, sync, scanned>>
    BY <1>13 DEF ConfirmDone
  <2>3. QED
    BY <1>2, <2>1, <2>2
<1>14. QED
  <2>1. ASSUME Next, ~Exit,
               \A a \in Actor : ~RowRead(a),
               \A s \in Sync : /\ ~BatchTimer(s) /\ ~StartScan(s) /\ ~QueryDone(s)
                               /\ ~NextQuery(s) /\ ~FinishSync(s) /\ ~SyncFails(s),
               \A c \in confirming : ~ConfirmDone(c)
        PROVE  UNCHANGED <<mark, scan>>
    BY <2>1 DEF Next, MineBlock, Start, ConfigFound, ConfigNotRead, InitRequest,
                ConfigSaved, NetworkKnown, BlockNumberKnown, InitFails,
                ResetRequest, Authorised, ResetFails, ConfigDeleted,
                ProviderDetached, ProviderDestroyed, disk
  <2>2. UNCHANGED vars => UNCHANGED <<mark, scan>>
    BY DEF vars, disk
  <2>3. QED
    BY <1>4, <1>5, <1>6, <1>7, <1>8, <1>9, <1>10, <1>11, <1>12, <1>13, <2>1, <2>2,
       Zenon

\* The invariant of the marks of a service that knows one lock.
THEOREM MarkInvariance == (\E l : Lock = {l}) => (Spec => []MarkInv)
<1> SUFFICES ASSUME NEW l, Lock = {l} PROVE Spec => []MarkInv
  OBVIOUS
<1>1. Init => MarkInv
  <2>1. Init => LInv
    BY InitLInv
  <2>2. QED
    BY <2>1 DEF Init, MarkInv, MarkMeansScanned, NoSync
<1>2. MarkInv /\ [Next]_vars => MarkInv'
  BY StepMarkInv
<1>3. QED
  BY <1>1, <1>2, PTL DEF Spec

\* With a single lock the persisted mark never covers a block that was not
\* queried for it, for any number of overlapping scans, requests and restarts:
\* only another lock's scan can break that (see the run stale_scan).
THEOREM MarkHonest == (\E l : Lock = {l}) => (Spec => []MarkMeansScanned)
<1> SUFFICES ASSUME \E l : Lock = {l} PROVE Spec => []MarkMeansScanned
  OBVIOUS
<1>1. MarkInv => MarkMeansScanned
  BY DEF MarkInv
<1>2. Spec => []MarkInv
  BY MarkInvariance
<1>3. QED
  BY <1>1, <1>2, PTL
=============================================================================
