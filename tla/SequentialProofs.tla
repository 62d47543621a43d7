-------------------------- MODULE SequentialProofs --------------------------
(***************************************************************************)
(* Proofs about LockLifecycle when requests to /config come one at a time, *)
(* for any locks, any number of requests, kinds of connection, overlapping *)
(* scans, failures and restarts.  Where requests do not overlap:           *)
(*   GuardInvariance     Spec => []GuardInv                                *)
(*   GuardsHonoured      Spec => GuardsHoldUnlessUnread                    *)
(* and where administrators also wait for the boot:                        *)
(*   SeqInvariance       Spec => []SeqInv                                  *)
(*   ServesConfigured    Spec => []ServesConfiguredLock                    *)
(*   SilentAfterReset    Spec => []SilentWhenReset                         *)
(*   KeepsPromise        Spec => PromiseSpec, the spec of ConfiguredLock   *)
(***************************************************************************)
EXTENDS LockLifecycleProofs

USE LockLifecycleAssumption

-----------------------------------------------------------------------------
\* The calls after a step of one of them

\* Every other call stays what it is.
Others(a) == \A b \in Actor \ {a} : call'[b] = call[b]

\* A call ends.
LEMMA CallStops ==
  ASSUME CallsOK, NEW a \in Actor, call' = [call EXCEPT ![a] = NoCall]
  PROVE  call'[a].pc = "idle" /\ Others(a)
<1>1. NoCall.pc = "idle"
  BY DEF NoCall
<1>2. QED
  BY <1>1 DEF CallsOK, Others

\* A call waits for something else, and keeps what it carries.
LEMMA CallMoves ==
  ASSUME CallsOK, NEW a \in Actor, NEW p \in CallPc,
         call' = [call EXCEPT ![a].pc = p]
  PROVE  /\ call'[a].pc = p
         /\ call'[a].lock = call[a].lock /\ call'[a].key = call[a].key
         /\ call'[a].provider = call[a].provider
         /\ Others(a)
<1>1. call[a] \in CallState
  BY DEF CallsOK
<1>2. call'[a] = [call[a] EXCEPT !.pc = p] /\ Others(a)
  BY DEF CallsOK, Others
<1>3. QED
  BY <1>1, <1>2, CallStateType

\* initialize() begins.
LEMMA CallInitializes ==
  ASSUME CallsOK, NEW a \in Actor, NEW l, BeginInitialize(a, l)
  PROVE  /\ call'[a].pc = "network" /\ call'[a].provider = provider'
         /\ Others(a)
<1> DEFINE c == [NoCall EXCEPT !.pc = "network", !.lock = l,
                               !.provider = provider + 1]
<1>1. c.pc = "network" /\ c.provider = provider + 1
  BY DEF NoCall
<1>2. call'[a] = c /\ Others(a) /\ provider' = provider + 1
  BY DEF BeginInitialize, CallsOK, Others
<1>3. QED
  BY <1>1, <1>2

\* The steps of initialize() that follow.
LEMMA CallOfInitialize ==
  ASSUME CallsOK, NEW a \in Actor
  PROVE  /\ NetworkKnown(a) => call'[a].pc = "blockNumber"
                               /\ call'[a].provider = provider /\ Others(a)
         /\ BlockNumberKnown(a) => call'[a].pc = "row"
                                   /\ call'[a].rowLock = lockId
                                   /\ call'[a].provider = call[a].provider
                                   /\ Others(a)
<1>1. call \in [Actor -> CallState] /\ call[a] \in CallState
  BY DEF CallsOK
<1>2. NetworkKnown(a) => call'[a].pc = "blockNumber"
                         /\ call'[a].provider = provider /\ Others(a)
  <2>1. [call[a] EXCEPT !.pc = "blockNumber", !.provider = provider].pc
             = "blockNumber"
        /\ [call[a] EXCEPT !.pc = "blockNumber", !.provider = provider].provider
             = provider
    BY <1>1, CallStateType
  <2>2. NetworkKnown(a) => call'[a] = [call[a] EXCEPT !.pc = "blockNumber",
                                                      !.provider = provider]
                           /\ Others(a)
    BY <1>1 DEF NetworkKnown, Others
  <2>3. QED
    BY <2>1, <2>2
<1>3. BlockNumberKnown(a) => call'[a].pc = "row"
                             /\ call'[a].rowLock = lockId
                             /\ call'[a].provider = call[a].provider
                             /\ Others(a)
  <2> DEFINE c == [call[a] EXCEPT !.pc = "row", !.rowLock = lockId]
  <2>1. c.pc = "row" /\ c.rowLock = lockId /\ c.provider = call[a].provider
    BY <1>1, CallStateType
  <2>2. BlockNumberKnown(a) => call'[a] = c /\ Others(a)
    BY <1>1 DEF BlockNumberKnown, Others
  <2>3. QED
    BY <2>1, <2>2
<1>4. QED
  BY <1>2, <1>3

\* A request arrives.
LEMMA CallArrives ==
  ASSUME CallsOK, NEW r \in Request
  PROVE  /\ \A l \in Lock : InitRequest(r, l) =>
               call'[r].pc = "saving" /\ call'[r].lock = l /\ Others(r)
         /\ ResetRequest(r) =>
               call'[r].pc = "authorising" /\ call'[r].key = cfgLock /\ Others(r)
<1>1. call \in [Actor -> CallState] /\ r \in Actor /\ call[r] \in CallState
  BY DEF CallsOK, Actor
<1>2. ASSUME NEW l \in Lock, InitRequest(r, l)
      PROVE  call'[r].pc = "saving" /\ call'[r].lock = l /\ Others(r)
  <2>1. call'[r] = [NoCall EXCEPT !.pc = "saving", !.lock = l] /\ Others(r)
    BY <1>1, <1>2 DEF InitRequest, Others
  <2>2. QED
    BY <2>1 DEF NoCall
<1>3. ASSUME ResetRequest(r)
      PROVE  call'[r].pc = "authorising" /\ call'[r].key = cfgLock /\ Others(r)
  <2>1. call'[r] = [call[r] EXCEPT !.pc = "authorising", !.key = cfgLock]
        /\ Others(r)
    BY <1>1, <1>3 DEF ResetRequest, Others
  <2>2. QED
    BY <1>1, <2>1, CallStateType
<1>4. QED
  BY <1>2, <1>3

-----------------------------------------------------------------------------
\* The guards of /config

\* Requests do not overlap: the administrators wait for every answer, or the
\* server serves one request at a time.
OneAtATime == Patient \/ \A q, r \in Request : q = r

\* GuardInv survives a step of one call that is under way, to a wait of which
\* GuardInv says nothing.
LEMMA GuardedCall ==
  ASSUME GuardInv, LInv', NEW a \in Actor, Others(a), call[a].pc # "idle",
         call'[a].pc \in {"idle", "detaching", "destroying"} \cup InitializePc,
         a = Boot => call'[a].pc \in {"idle"} \cup InitializePc,
         booted, UNCHANGED <<cfgLock, dbLock, running, booted, unread>>
  PROVE  GuardInv'
<1>1. CASE a = Boot
  BY <1>1 DEF GuardInv, OneRequest, Others, Actor, InitializePc
<1>2. CASE a # Boot
  BY <1>2 DEF GuardInv, OneRequest, Others, Actor, InitializePc
<1>3. QED
  BY <1>1, <1>2

\* What GuardInv knows of the calls.
LEMMA GuardInvCalls ==
  GuardInv => /\ CallsOK /\ LInv
              /\ Boot \in Actor /\ Boot \notin Request
              /\ \A r \in Request : r \in Actor /\ r # Boot
  BY DEF GuardInv, LInv, TypeOK, CallsOK, Actor

\* No lock is configured and nothing runs at the start.
LEMMA InitGuardInv == Init => GuardInv
<1> SUFFICES ASSUME Init PROVE GuardInv
  OBVIOUS
<1>1. \A a \in Actor : call[a].pc = "idle"
  BY DEF Init, NoCall
<1>2. LInv
  BY InitLInv
<1>3. QED
  BY <1>1, <1>2 DEF Init, GuardInv, OneRequest, Actor

\* Where requests do not overlap, every step keeps what the guards rest on, the
\* boot's steps and the end of the process included.
LEMMA StepGuardInv ==
  ASSUME OneAtATime, GuardInv, [Next]_vars
  PROVE  GuardInv'
<1> USE DEF disk, process
<1>0. CallsOK /\ LInv /\ Boot \in Actor /\ Boot \notin Request
      /\ \A r \in Request : r \in Actor /\ r # Boot
  BY GuardInvCalls
<1>1. LInv'
  BY <1>0, StepLInv
<1>2. CASE UNCHANGED <<call, cfgLock, dbLock, running, booted, unread>>
  BY <1>1, <1>2 DEF GuardInv, OneRequest
<1>3. CASE Start
  <2>1. call'[Boot].pc = "finding" /\ Others(Boot)
    BY <1>0, <1>3, CallMoves DEF Start, CallPc
  <2>2. QED
    BY <1>0, <1>1, <1>3, <2>1 DEF Start, GuardInv, OneRequest, Others
<1>4. CASE ConfigFound
  <2>1. CASE FindConfig = NoLock
    <3>1. call'[Boot].pc = "idle" /\ Others(Boot)
      BY <1>0, <1>4, <2>1, CallStops DEF ConfigFound
    <3>2. QED
      BY <1>0, <1>1, <1>4, <3>1
         DEF ConfigFound, FindConfig, GuardInv, OneRequest, Others
  <2>2. CASE FindConfig # NoLock
    <3>1. call'[Boot].pc = "network" /\ Others(Boot)
      BY <1>0, <1>4, <2>2, CallInitializes DEF ConfigFound
    <3>2. QED
      BY <1>0, <1>1, <1>4, <3>1
         DEF ConfigFound, FindConfig, GuardInv, OneRequest, Others, InitializePc
  <2>3. QED
    BY <2>1, <2>2
<1>5. CASE ConfigNotRead
  <2>1. call'[Boot].pc = "idle" /\ Others(Boot)
    BY <1>0, <1>5, CallStops DEF ConfigNotRead
  <2>2. QED
    BY <1>0, <1>1, <1>5, <2>1 DEF ConfigNotRead, GuardInv, OneRequest, Others
<1>6. CASE Exit
  <2>1. \A a \in Actor : call'[a].pc = "idle"
    BY <1>6 DEF Exit, NoCall
  <2>2. QED
    BY <1>0, <1>1, <1>6, <2>1 DEF Exit, GuardInv, OneRequest
<1>7. ASSUME NEW r \in Request, NEW l \in Lock, InitRequest(r, l) PROVE GuardInv'
  <2>1. call'[r].pc = "saving" /\ Others(r)
    BY <1>0, <1>7, CallArrives
  <2>2. \A q \in Request \ {r} : call[q].pc = "idle"
    BY <1>0, <1>7 DEF InitRequest, MayRequest, Quiet, OneAtATime
  <2>3. cfgLock = NoLock /\ booted
        /\ UNCHANGED <<cfgLock, dbLock, running, booted, unread>>
    BY <1>7 DEF InitRequest, ConfigGuard, IsReady
  <2>4. QED
    BY <1>0, <1>1, <2>1, <2>2, <2>3 DEF GuardInv, OneRequest, Others
<1>8. ASSUME NEW r \in Request, ConfigSaved(r) PROVE GuardInv'
  <2>1. call'[r].pc = "network" /\ Others(r)
    BY <1>0, <1>8, CallInitializes DEF ConfigSaved
  <2>2. dbLock' = cfgLock' /\ UNCHANGED <<running, booted>> /\ ~unread'
        /\ call[r].pc = "saving" /\ cfgLock' \in Lock
    BY <1>0, <1>8 DEF ConfigSaved, SaveConfig, CallsOK
  <2>3. QED
    BY <1>0, <1>1, <2>1, <2>2 DEF GuardInv, OneRequest, Others, InitializePc
<1>9. ASSUME NEW a \in Actor, NetworkKnown(a) PROVE GuardInv'
  <2>1. call'[a].pc = "blockNumber" /\ Others(a)
    BY <1>0, <1>9, CallOfInitialize
  <2>2. UNCHANGED <<cfgLock, dbLock, running, booted, unread>> /\ call[a].pc = "network"
    BY <1>9 DEF NetworkKnown
  <2>3. booted
    BY <1>0, <2>2 DEF GuardInv, Actor
  <2>4. QED
    BY <1>0, <1>1, <2>1, <2>2, <2>3, GuardedCall DEF GuardInv, InitializePc
<1>10. ASSUME NEW a \in Actor, BlockNumberKnown(a) PROVE GuardInv'
  <2>1. call'[a].pc = "row" /\ Others(a)
    BY <1>0, <1>10, CallOfInitialize
  <2>2. UNCHANGED <<cfgLock, dbLock, running, booted, unread>>
        /\ call[a].pc = "blockNumber"
    BY <1>10 DEF BlockNumberKnown
  <2>3. booted
    BY <1>0, <2>2 DEF GuardInv, Actor
  <2>4. QED
    BY <1>0, <1>1, <2>1, <2>2, <2>3, GuardedCall DEF GuardInv, InitializePc
<1>11. ASSUME NEW a \in Actor, RowRead(a) PROVE GuardInv'
  <2>1. call'[a].pc = "idle" /\ Others(a)
    BY <1>0, <1>11, CallStops DEF RowRead
  <2>2. UNCHANGED <<cfgLock, dbLock, running, booted, unread>> /\ call[a].pc = "row"
    BY <1>11 DEF RowRead
  <2>3. booted
    BY <1>0, <2>2 DEF GuardInv, Actor
  <2>4. QED
    BY <1>0, <1>1, <2>1, <2>2, <2>3, GuardedCall DEF GuardInv, InitializePc
<1>12. ASSUME NEW r \in Request, InitFails(r) \/ ResetFails(r) \/ ProviderDestroyed(r)
       PROVE  GuardInv'
  <2>1. call'[r].pc = "idle" /\ Others(r)
    BY <1>0, <1>12, CallStops DEF InitFails, ResetFails, ProviderDestroyed
  <2>2. UNCHANGED <<cfgLock, dbLock, running, booted, unread>> /\ call[r].pc # "idle"
    BY <1>12 DEF InitFails, ResetFails, ProviderDestroyed, InitializePc
  <2>3. booted
    BY <1>0, <2>2 DEF GuardInv
  <2>4. QED
    BY <1>0, <1>1, <2>1, <2>2, <2>3, GuardedCall DEF GuardInv
<1>13. ASSUME NEW r \in Request, ResetRequest(r) PROVE GuardInv'
  <2>1. call'[r].pc = "authorising" /\ call'[r].key = cfgLock /\ Others(r)
    BY <1>0, <1>13, CallArrives
  <2>2. \A q \in Request \ {r} : call[q].pc = "idle"
    BY <1>0, <1>13 DEF ResetRequest, MayRequest, Quiet, OneAtATime
  <2>3. cfgLock # NoLock /\ booted
        /\ UNCHANGED <<cfgLock, dbLock, running, booted, unread>>
    BY <1>13 DEF ResetRequest, IsReady
  <2>4. QED
    BY <1>0, <1>1, <2>1, <2>2, <2>3 DEF GuardInv, OneRequest, Others
<1>14. ASSUME NEW r \in Request, Authorised(r) PROVE GuardInv'
  <2>1. call'[r].pc = "deleting" /\ call'[r].key = call[r].key /\ Others(r)
    BY <1>0, <1>14, CallMoves DEF Authorised, CallPc
  <2>2. UNCHANGED <<cfgLock, dbLock, running, booted, unread>>
        /\ call[r].pc = "authorising"
    BY <1>14 DEF Authorised
  <2>3. QED
    BY <1>0, <1>1, <2>1, <2>2 DEF GuardInv, OneRequest, Others
<1>15. ASSUME NEW r \in Request, ConfigDeleted(r) PROVE GuardInv'
  <2>1. call'[r].pc \in {"idle", "detaching"} /\ Others(r)
    <3>1. CASE call' = [call EXCEPT ![r] = NoCall]
      BY <1>0, <3>1, CallStops
    <3>2. CASE call' = [call EXCEPT ![r].pc = "detaching"]
      BY <1>0, <3>2, CallMoves DEF CallPc
    <3>3. QED
      BY <1>15, <3>1, <3>2 DEF ConfigDeleted, StopHybridSync
  <2>2. cfgLock' = NoLock /\ dbLock' = NoLock /\ call[r].pc = "deleting"
        /\ UNCHANGED <<running, booted, unread>>
    BY <1>15 DEF ConfigDeleted, DeleteConfig
  <2>3. \A q \in Request \ {r} : call'[q].pc = "idle"
    BY <1>0, <2>1, <2>2 DEF GuardInv, OneRequest, Others
  <2>4. QED
    BY <1>0, <1>1, <2>1, <2>2, <2>3 DEF GuardInv, OneRequest, Others
<1>16. ASSUME NEW r \in Request, ProviderDetached(r) PROVE GuardInv'
  <2>1. call'[r].pc \in {"idle", "destroying"} /\ Others(r)
    <3>1. CASE call' = [call EXCEPT ![r] = NoCall]
      BY <1>0, <3>1, CallStops
    <3>2. CASE call' = [call EXCEPT ![r].pc = "destroying"]
      BY <1>0, <3>2, CallMoves DEF CallPc
    <3>3. QED
      BY <1>16, <3>1, <3>2 DEF ProviderDetached
  <2>2. UNCHANGED <<cfgLock, dbLock, running, booted, unread>>
        /\ call[r].pc = "detaching"
    BY <1>16 DEF ProviderDetached
  <2>3. booted
    BY <1>0, <2>2 DEF GuardInv
  <2>4. QED
    BY <1>0, <1>1, <2>1, <2>2, <2>3, GuardedCall DEF GuardInv
<1>17. QED
  <2>1. ASSUME \/ MineBlock
               \/ \E s \in Sync : \/ BatchTimer(s) \/ StartScan(s) \/ QueryDone(s)
                                 \/ NextQuery(s) \/ FinishSync(s) \/ SyncFails(s)
               \/ \E c \in confirming : ConfirmDone(c)
               \/ UNCHANGED vars
        PROVE  UNCHANGED <<call, cfgLock, dbLock, running, booted, unread>>
    BY <2>1 DEF MineBlock, BatchTimer, StartScan, QueryDone, NextQuery, FinishSync,
                SyncFails, ConfirmDone, vars
  <2>2. QED
    BY <1>2, <1>3, <1>4, <1>5, <1>6, <1>7, <1>8, <1>9, <1>10, <1>11, <1>12, <1>13,
       <1>14, <1>15, <1>16, <2>1 DEF Next

\* The invariant of the guards.
THEOREM GuardInvariance == OneAtATime => (Spec => []GuardInv)
<1> SUFFICES ASSUME OneAtATime PROVE Spec => []GuardInv
  OBVIOUS
<1>1. GuardInv /\ [Next]_vars => GuardInv'
  BY StepGuardInv
<1>2. QED
  BY InitGuardInv, <1>1, PTL DEF Spec

\* Where requests do not overlap, configure() replaces no configuration, neither
\* the one in memory nor the one in the database, unless the process could not
\* read the latter when it started (see the run unread); and a reset deletes only
\* the configuration of the lock whose key authorised it, across restarts and
\* although the boot's initialize() is not awaited.  Overlapping requests break
\* both (see the run two_inits).
THEOREM GuardsHonoured == OneAtATime => (Spec => GuardsHoldUnlessUnread)
<1> SUFFICES ASSUME OneAtATime PROVE Spec => GuardsHoldUnlessUnread
  OBVIOUS
<1> DEFINE Honoured ==
             \A r \in Request :
               /\ call[r].pc = "saving" /\ call'[r].pc = "network"
                     => cfgLock = NoLock /\ (dbLock = NoLock \/ unread)
               /\ call[r].pc = "deleting" /\ call'[r] # call[r]
                     => dbLock' = dbLock \/ dbLock = call[r].key
<1>1. GuardInv => Honoured
  BY DEF GuardInv
<1>2. Spec => []GuardInv
  BY GuardInvariance
<1>3. GuardInv /\ [Next]_vars => [Honoured]_vars
  BY <1>1
<1>4. QED
  BY <1>2, <1>3, PTL DEF Spec, GuardsHoldUnlessUnread

-----------------------------------------------------------------------------
\* The listener of a patient administrator

\* What SeqInv says of the listener depends on these.
listener == <<connection, isListening, subs, batchSyncInterval, intervals>>

\* The listener was started for a lock that the contract cannot filter by, and
\* keeps still about it.
Unservable == cfgLock \in Malformed /\ lockId = cfgLock /\ provider # 0

\* The waits in which nobody starts or stops the listener.
HandsOff == {"idle", "finding", "saving", "authorising", "deleting"}

\* A step of one call leaves every other one idle.
LEMMA OneActs ==
  ASSUME OneActor, NEW a \in Actor, Others(a), call[a].pc # "idle" \/ Quiet
  PROVE  /\ \A b \in Actor \ {a} : call[b].pc = "idle" /\ call'[b].pc = "idle"
         /\ OneActor'
  BY DEF OneActor, Others, Quiet

\* While a lock is found, saved or initialised, nothing is attached or ticks.
LEMMA StartsSilent ==
  ASSUME SeqInv, NEW a \in Actor,
         call[a].pc \in {"finding", "saving"} \cup InitializePc
  PROVE  ~Serving /\ Silent /\ ~isListening
<1>1. \A b \in Actor : call[b].pc \notin {"detaching", "destroying"}
  BY DEF SeqInv, OneActor, InitializePc
<1>2. ~Serving
  BY DEF SeqInv, InitializePc
<1>3. QED
  BY <1>1, <1>2 DEF SeqInv

\* SeqInv survives a step of a call that leaves the listener alone.
LEMMA ListenerLeftAlone ==
  ASSUME SeqInv, GuardInv', NEW a \in Actor, Others(a),
         call[a].pc # "idle" \/ Quiet,
         call[a].pc \in HandsOff, call'[a].pc \in HandsOff,
         call'[a].pc \in {"finding", "saving"} => cfgLock = NoLock,
         UNCHANGED <<cfgLock, initFailed, listener>>
  PROVE  SeqInv'
<1>1. /\ \A b \in Actor \ {a} : call[b].pc = "idle" /\ call'[b].pc = "idle"
      /\ OneActor'
  BY OneActs DEF SeqInv
<1>2. /\ (Serving \/ Silent) /\ Serving' = Serving /\ Silent' = Silent
      /\ Serving => cfgLock # NoLock
      /\ (closed \subseteq 0 .. provider)'
      /\ UNCHANGED <<cfgLock, initFailed, isListening>>
  BY DEF SeqInv, Serving, Silent, Alive, listener, connection
<1>3. /\ isListening => Serving
      /\ cfgLock # NoLock /\ ~Serving => initFailed \/ Unservable
  BY <1>1 DEF SeqInv, Unservable, HandsOff, InitializePc
<1>4. Unservable' = Unservable
  BY DEF Unservable, listener, connection
<1>5. QED
  BY <1>1, <1>2, <1>3, <1>4 DEF SeqInv, Unservable, HandsOff, InitializePc

\* SeqInv survives the beginning of an initialize().
LEMMA InitializeSilently ==
  ASSUME SeqInv, GuardInv', NEW a \in Actor, NEW l \in Lock,
         call[a].pc \in {"finding", "saving"},
         BeginInitialize(a, l), cfgLock' = l,
         UNCHANGED <<isListening, subs, timers>>
  PROVE  SeqInv'
<1>1. CallsOK /\ provider \in Nat /\ closed \subseteq 0 .. provider
  BY GuardInvCalls DEF SeqInv, LInv, TypeOK, Provider
<1>2. call'[a].pc = "network" /\ call'[a].provider = provider' /\ Others(a)
  BY <1>1, CallInitializes
<1>3. /\ \A b \in Actor \ {a} : call'[b].pc = "idle"
      /\ OneActor'
  BY <1>2, OneActs DEF SeqInv
<1>4. Silent' /\ ~isListening' /\ ~Serving'
  BY StartsSilent DEF Silent, Serving, timers
<1>5. lockId' = cfgLock' /\ cfgLock' # NoLock /\ Alive(provider)'
      /\ (closed \subseteq 0 .. provider)'
  BY <1>1 DEF BeginInitialize, Alive
<1>6. QED
  BY <1>2, <1>3, <1>4, <1>5 DEF SeqInv, InitializePc

\* SeqInv survives the later steps of an initialize().
LEMMA InitializeGoesOn ==
  ASSUME SeqInv, GuardInv', NEW a \in Actor,
         NetworkKnown(a) \/ BlockNumberKnown(a)
  PROVE  SeqInv'
<1>1. CallsOK
  BY GuardInvCalls DEF SeqInv
<1>2. call[a].pc \in InitializePc
  BY DEF NetworkKnown, BlockNumberKnown, InitializePc
<1>3. /\ Others(a) /\ call'[a].pc \in {"blockNumber", "row"}
      /\ call'[a].provider = provider' /\ contract' = provider'
      /\ call'[a].pc = "row" => call'[a].rowLock = cfgLock'
  BY <1>1, <1>2, CallOfInitialize
     DEF SeqInv, NetworkKnown, BlockNumberKnown, connection
<1>4. /\ \A b \in Actor \ {a} : call'[b].pc = "idle"
      /\ OneActor'
  BY <1>2, <1>3, OneActs DEF SeqInv, InitializePc
<1>5. UNCHANGED <<isListening, subs, timers, cfgLock, lockId, provider, closed>>
  BY DEF NetworkKnown, BlockNumberKnown, connection
<1>6. Silent' /\ ~isListening' /\ ~Serving'
  BY <1>2, <1>5, StartsSilent DEF Silent, Serving, timers
<1>7. cfgLock' # NoLock /\ lockId' = cfgLock' /\ Alive(provider)'
      /\ (closed \subseteq 0 .. provider)'
  BY <1>2, <1>5 DEF SeqInv, Alive
<1>8. QED
  BY <1>3, <1>4, <1>6, <1>7 DEF SeqInv, InitializePc

\* At the end of an initialize() the configured lock is served, if its filter can
\* be made; if not, the listener stays silent.
LEMMA InitializeEnds ==
  ASSUME SeqInv, GuardInv', NEW a \in Actor, RowRead(a)
  PROVE  SeqInv' /\ IF cfgLock \in Malformed THEN Silent' ELSE Serving'
<1>1. CallsOK
  BY GuardInvCalls DEF SeqInv
<1>2. call[a].pc = "row" /\ call[a].pc \in InitializePc
  BY DEF RowRead, InitializePc
<1>3. Silent /\ ~isListening
  BY <1>2, StartsSilent
<1>4. UNCHANGED <<cfgLock, lockId, provider, contract, closed>>
  BY DEF RowRead, connection
<1>5. /\ cfgLock # NoLock /\ lockId = cfgLock /\ contract = provider
      /\ Alive(provider) /\ closed \subseteq 0 .. provider
  BY <1>2 DEF SeqInv
<1>6. call'[a].pc = "idle" /\ Others(a)
  BY <1>1, CallStops DEF RowRead
<1>7. OneActor' /\ \A b \in Actor : call'[b].pc = "idle"
  BY <1>2, <1>6, OneActs DEF SeqInv
<1>8. CASE cfgLock \notin Malformed
  <2>1. /\ subs' = {<<contract, lockId>>}
        /\ intervals' = 1 /\ batchSyncInterval' /\ isListening'
    BY <1>3, <1>5, <1>8 DEF RowRead, StartHybridSync, Silent, Detached
  <2>2. Serving'
    BY <1>4, <1>5, <1>8, <2>1 DEF Serving, Alive
  <2>3. SeqInv'
    BY <1>4, <1>5, <1>7, <2>2 DEF SeqInv, InitializePc
  <2>4. QED
    BY <1>8, <2>2, <2>3
<1>9. CASE cfgLock \in Malformed
  <2>1. subs' \in Detached /\ UNCHANGED <<isListening, timers>>
    BY <1>3, <1>5, <1>9 DEF RowRead, StartHybridSync, NotStarted
  <2>2. Silent' /\ ~isListening' /\ ~Serving'
    BY <1>3, <2>1 DEF Silent, Serving, Detached, timers
  <2>3. Unservable'
    BY <1>4, <1>5, <1>9 DEF Unservable, Alive
  <2>4. SeqInv'
    BY <1>4, <1>5, <1>7, <2>2, <2>3 DEF SeqInv, Unservable, InitializePc
  <2>5. QED
    BY <1>9, <2>2, <2>4
<1>10. QED
  BY <1>8, <1>9

\* The reset of a configured lock silences the listener.
LEMMA ResetSilences ==
  ASSUME SeqInv, GuardInv', NEW r \in Request, ConfigDeleted(r)
  PROVE  SeqInv' /\ Silent'
<1>1. CallsOK /\ r \in Actor /\ provider \in Nat
  BY GuardInvCalls DEF SeqInv, LInv, TypeOK, Provider
<1>2. \/ call'[r].pc = "idle" /\ isListening' = FALSE
      \/ call'[r].pc = "detaching"
  BY <1>1, CallStops, CallMoves DEF ConfigDeleted, StopHybridSync, CallPc
<1>3. Others(r)
  BY <1>1, CallStops, CallMoves DEF ConfigDeleted, StopHybridSync, CallPc
<1>4. call[r].pc = "deleting" /\ cfgLock' = NoLock /\ UNCHANGED connection
  BY DEF ConfigDeleted
<1>5. OneActor' /\ \A b \in Actor \ {r} : call'[b].pc = "idle"
  BY <1>1, <1>3, <1>4, OneActs DEF SeqInv
<1>6. Silent'
  <2>1. batchSyncInterval' = FALSE /\ intervals' = ClearInterval
    BY DEF ConfigDeleted, StopHybridSync
  <2>2. intervals' = 0
    BY <2>1 DEF SeqInv, Serving, Silent, ClearInterval
  <2>3. subs' = {}
    <3>1. PICK rest \in Detached :
                 subs' = {x \in rest : provider = 0 \/ x[1] # provider}
      BY DEF ConfigDeleted, StopHybridSync
    <3>2. rest \subseteq subs
      BY DEF Detached
    <3>3. \A x \in subs : provider # 0 /\ x[1] = provider
      BY DEF SeqInv, Serving, Silent, Alive
    <3>4. QED
      BY <3>1, <3>2, <3>3
  <2>4. QED
    BY <2>1, <2>2, <2>3 DEF Silent
<1>7. (closed \subseteq 0 .. provider)' /\ ~Serving'
  BY <1>4 DEF SeqInv, Serving, connection
<1>8. SeqInv'
  BY <1>1, <1>2, <1>4, <1>5, <1>6, <1>7 DEF SeqInv, InitializePc
<1>9. QED
  BY <1>6, <1>8

\* SeqInv survives the rest of stopHybridSync().
LEMMA StopGoesOn ==
  ASSUME SeqInv, GuardInv', NEW r \in Request,
         ProviderDetached(r) \/ ProviderDestroyed(r)
  PROVE  SeqInv'
<1>1. CallsOK /\ r \in Actor /\ provider \in Nat
  BY GuardInvCalls DEF SeqInv, LInv, TypeOK, Provider
<1>2. call[r].pc \in {"detaching", "destroying"}
  BY DEF ProviderDetached, ProviderDestroyed
<1>3. \/ call'[r].pc = "idle" /\ isListening' = FALSE
      \/ call'[r].pc = "destroying"
  BY <1>1, CallStops, CallMoves DEF ProviderDetached, ProviderDestroyed, CallPc
<1>4. Others(r)
  BY <1>1, CallStops, CallMoves DEF ProviderDetached, ProviderDestroyed, CallPc
<1>5. OneActor' /\ \A b \in Actor \ {r} : call'[b].pc = "idle"
  BY <1>1, <1>2, <1>4, OneActs DEF SeqInv
<1>6. UNCHANGED <<subs, timers, cfgLock>> /\ cfgLock = NoLock
  BY <1>1, <1>2 DEF SeqInv, ProviderDetached, ProviderDestroyed
<1>7. Silent' /\ ~Serving'
  BY <1>6 DEF SeqInv, Silent, Serving, timers
<1>8. (closed \subseteq 0 .. provider)'
  BY <1>1 DEF SeqInv, ProviderDetached, ProviderDestroyed, connection
<1>9. QED
  BY <1>1, <1>3, <1>5, <1>6, <1>7, <1>8 DEF SeqInv, InitializePc

\* Nothing listens at the start.
LEMMA InitSeqInv == Init => SeqInv
<1> SUFFICES ASSUME Init PROVE SeqInv
  OBVIOUS
<1>1. \A a \in Actor : call[a].pc = "idle"
  BY DEF Init, NoCall
<1>2. GuardInv
  BY InitGuardInv
<1>3. QED
  BY <1>1, <1>2 DEF Init, SeqInv, OneActor, Serving, Silent, InitializePc

\* A scan, a block or a stutter leaves calls and listener alone.
LEMMA ScanSteps ==
  ASSUME \/ MineBlock
         \/ \E s \in Sync : \/ BatchTimer(s) \/ StartScan(s) \/ QueryDone(s)
                           \/ NextQuery(s) \/ FinishSync(s) \/ SyncFails(s)
         \/ \E c \in confirming : ConfirmDone(c)
         \/ UNCHANGED vars
  PROVE  UNCHANGED <<call, cfgLock, dbLock, running, unread, initFailed, listener>>
  BY DEF MineBlock, process, BatchTimer, StartScan, QueryDone, NextQuery, FinishSync,
         SyncFails, ConfirmDone, vars, disk, timers, connection, listener

\* Where administrators wait for the boot and for every answer, every step keeps
\* SeqInv, whatever fails and whenever the process ends.
LEMMA StepSeqInv ==
  ASSUME Patient, SeqInv, [Next]_vars
  PROVE  SeqInv'
<1> USE DEF disk, process, timers, listener
<1>0. CallsOK /\ GuardInv /\ Boot \in Actor /\ \A r \in Request : r \in Actor
  BY GuardInvCalls DEF SeqInv
<1>1. GuardInv'
  BY <1>0, StepGuardInv DEF OneAtATime
<1>2. CASE UNCHANGED <<call, cfgLock, initFailed, listener>>
  BY <1>1, <1>2 DEF SeqInv, OneActor, Serving, Silent, Alive, connection
<1>3. CASE Start
  <2>1. call'[Boot].pc = "finding" /\ Others(Boot)
    BY <1>0, <1>3, CallMoves DEF Start, CallPc
  <2>2. cfgLock = NoLock /\ call[Boot].pc = "idle"
        /\ \A b \in Actor \ {Boot} : call[b].pc = "idle"
    BY <1>0, <1>3 DEF Start, GuardInv, Actor
  <2>3. Silent /\ ~Serving /\ ~isListening
    BY <2>2 DEF SeqInv, Serving
  <2>4. Silent' /\ ~Serving' /\ ~isListening' /\ cfgLock' = NoLock
        /\ (closed \subseteq 0 .. provider)'
    BY <1>3, <2>2, <2>3 DEF Start, SeqInv, Silent, Serving, connection
  <2>5. QED
    BY <1>1, <2>1, <2>2, <2>4 DEF SeqInv, OneActor, Others, InitializePc
<1>4. CASE ConfigFound
  <2>1. CASE FindConfig = NoLock
    <3>1. call'[Boot].pc = "idle" /\ Others(Boot) /\ call[Boot].pc = "finding"
      BY <1>0, <1>4, <2>1, CallStops DEF ConfigFound
    <3>2. UNCHANGED <<cfgLock, initFailed, listener>>
      BY <1>0, <1>4, <2>1, <3>1 DEF ConfigFound, GuardInv
    <3>3. QED
      BY <1>0, <1>1, <3>1, <3>2, ListenerLeftAlone DEF HandsOff
  <2>2. CASE FindConfig # NoLock
    <3>1. FindConfig \in Lock
      BY <1>0, <2>2 DEF FindConfig, GuardInv, LInv, TypeOK, MaybeLock
    <3>2. QED
      BY <1>0, <1>1, <1>4, <2>2, <3>1, InitializeSilently DEF ConfigFound
  <2>3. QED
    BY <2>1, <2>2
<1>5. CASE ConfigNotRead
  <2>1. call'[Boot].pc = "idle" /\ Others(Boot)
    BY <1>0, <1>5, CallStops DEF ConfigNotRead
  <2>2. QED
    BY <1>0, <1>1, <1>5, <2>1, ListenerLeftAlone DEF ConfigNotRead, HandsOff
<1>6. CASE Exit
  <2>1. \A a \in Actor : call'[a].pc = "idle"
    BY <1>6 DEF Exit, NoCall
  <2>2. QED
    BY <1>1, <1>6, <2>1
       DEF Exit, SeqInv, OneActor, Serving, Silent, InitializePc
<1>7. ASSUME NEW r \in Request, NEW l \in Lock, InitRequest(r, l) PROVE SeqInv'
  <2>1. call'[r].pc = "saving" /\ Others(r)
    BY <1>0, <1>7, CallArrives
  <2>2. /\ call[r].pc = "idle" /\ Quiet /\ cfgLock = NoLock
        /\ UNCHANGED <<cfgLock, initFailed, listener>>
    BY <1>7 DEF InitRequest, MayRequest, ConfigGuard, IsReady
  <2>3. QED
    BY <1>0, <1>1, <2>1, <2>2, ListenerLeftAlone DEF HandsOff
<1>8. ASSUME NEW r \in Request, ConfigSaved(r) PROVE SeqInv'
  <2>1. call[r].lock \in Lock
    BY <1>0, <1>8 DEF ConfigSaved, CallsOK
  <2>2. QED
    BY <1>0, <1>1, <1>8, <2>1, InitializeSilently DEF ConfigSaved
<1>9. ASSUME NEW a \in Actor, NetworkKnown(a) \/ BlockNumberKnown(a) PROVE SeqInv'
  BY <1>1, <1>9, InitializeGoesOn
<1>10. ASSUME NEW a \in Actor, RowRead(a) PROVE SeqInv'
  BY <1>1, <1>10, InitializeEnds
<1>11. ASSUME NEW r \in Request, InitFails(r) PROVE SeqInv'
  <2>1. call'[r].pc = "idle" /\ Others(r)
        /\ call[r].pc \in {"saving"} \cup InitializePc
    BY <1>0, <1>11, CallStops DEF InitFails
  <2>2. OneActor' /\ \A b \in Actor : call'[b].pc = "idle"
    BY <1>0, <2>1, OneActs DEF SeqInv, InitializePc
  <2>3. Silent /\ ~isListening
    BY <1>0, <2>1, StartsSilent
  <2>4. Silent' /\ ~isListening' /\ ~Serving' /\ initFailed'
        /\ (closed \subseteq 0 .. provider)'
    BY <1>11, <2>3 DEF InitFails, SeqInv, Silent, Serving, connection
  <2>5. QED
    BY <1>1, <2>2, <2>4 DEF SeqInv, InitializePc
<1>12. ASSUME NEW r \in Request, ResetRequest(r) PROVE SeqInv'
  <2>1. call'[r].pc = "authorising" /\ Others(r)
    BY <1>0, <1>12, CallArrives
  <2>2. /\ call[r].pc = "idle" /\ Quiet
        /\ UNCHANGED <<cfgLock, initFailed, listener>>
    BY <1>12 DEF ResetRequest, MayRequest
  <2>3. QED
    BY <1>0, <1>1, <2>1, <2>2, ListenerLeftAlone DEF HandsOff
<1>13. ASSUME NEW r \in Request, Authorised(r) PROVE SeqInv'
  <2>1. call'[r].pc = "deleting" /\ Others(r)
    BY <1>0, <1>13, CallMoves DEF Authorised, CallPc
  <2>2. QED
    BY <1>0, <1>1, <1>13, <2>1, ListenerLeftAlone DEF Authorised, HandsOff
<1>14. ASSUME NEW r \in Request, ResetFails(r) PROVE SeqInv'
  <2>1. call'[r].pc = "idle" /\ Others(r)
    BY <1>0, <1>14, CallStops DEF ResetFails
  <2>2. QED
    BY <1>0, <1>1, <1>14, <2>1, ListenerLeftAlone DEF ResetFails, HandsOff
<1>15. ASSUME NEW r \in Request, ConfigDeleted(r) PROVE SeqInv'
  BY <1>1, <1>15, ResetSilences
<1>16. ASSUME NEW r \in Request, ProviderDetached(r) \/ ProviderDestroyed(r)
       PROVE  SeqInv'
  BY <1>1, <1>16, StopGoesOn
<1>17. QED
  BY <1>2, <1>3, <1>4, <1>5, <1>6, <1>7, <1>8, <1>9, <1>10, <1>11, <1>12, <1>13,
     <1>14, <1>15, <1>16, ScanSteps DEF Next

\* The invariant of the patient administrator.
THEOREM SeqInvariance == Patient => (Spec => []SeqInv)
<1> SUFFICES ASSUME Patient PROVE Spec => []SeqInv
  OBVIOUS
<1>1. SeqInv /\ [Next]_vars => SeqInv'
  BY StepSeqInv
<1>2. QED
  BY InitSeqInv, <1>1, PTL DEF Spec

\* The locks that are listened for, as the invariant knows them.
LEMMA ServedWhen ==
  /\ Serving => LiveSubs = subs /\ ServedLocks = {cfgLock}
  /\ Silent => LiveSubs = {} /\ ServedLocks = {}
<1>1. ASSUME Serving PROVE LiveSubs = subs /\ ServedLocks = {cfgLock}
  <2>1. LiveSubs = subs /\ subs = {<<provider, cfgLock>>}
    BY <1>1 DEF Serving, LiveSubs
  <2>2. QED
    BY <2>1 DEF ServedLocks
<1>2. ASSUME Silent PROVE LiveSubs = {} /\ ServedLocks = {}
  BY <1>2 DEF Silent, LiveSubs, ServedLocks
<1>3. QED
  BY <1>1, <1>2

\* An administrator who waits for every answer finds, as soon as the service is
\* quiet and unless initialize() failed, that the configured lock is the stored
\* one and is served: on one working connection, with one listener and one
\* interval, whatever was configured, reset or restarted before.  A lock that the
\* contract cannot filter by is found unserved instead, with nothing left of the
\* lock before it, and its status says so.
THEOREM ServesConfigured == Patient => (Spec => []ServesConfiguredLock)
<1> SUFFICES ASSUME Patient PROVE Spec => []ServesConfiguredLock
  OBVIOUS
<1>1. SeqInv => ServesConfiguredLock
  <2> DEFINE listens == cfgLock \notin Malformed
  <2> SUFFICES ASSUME SeqInv, Quiet, ConfigDetails.configured, ~initFailed
               PROVE  /\ cfgLock = dbLock
                      /\ Status = [lockId |-> ConfigDetails.lockId,
                                   isListening |-> listens,
                                   batchSyncActive |-> listens,
                                   connected |-> TRUE]
                      /\ LiveSubs = IF listens THEN {<<provider, cfgLock>>} ELSE {}
                      /\ intervals = IF listens THEN 1 ELSE 0
    BY DEF ServesConfiguredLock
  <2>1. cfgLock # NoLock
    BY DEF ConfigDetails, IsReady
  <2>2. \/ Serving /\ listens = TRUE
        \/ Silent /\ ~isListening /\ Unservable /\ listens = FALSE
    BY <2>1 DEF SeqInv, Quiet, InitializePc, Serving, Unservable
  <2>3. cfgLock = dbLock
    BY <2>1 DEF SeqInv, GuardInv
  <2>4. isListening \in BOOLEAN /\ batchSyncInterval \in BOOLEAN
    BY DEF SeqInv, GuardInv, LInv, TypeOK
  <2>5. isListening = listens /\ batchSyncInterval = listens
    BY <2>2, <2>4, Zenon DEF Serving, Silent
  <2>6. lockId = ConfigDetails.lockId /\ (provider # 0) = TRUE
    BY <2>2 DEF Serving, Alive, Unservable, ConfigDetails
  <2>7. Status = [lockId |-> ConfigDetails.lockId, isListening |-> listens,
                  batchSyncActive |-> listens, connected |-> TRUE]
    BY <2>5, <2>6, Zenon DEF Status
  <2>8. /\ LiveSubs = IF listens THEN {<<provider, cfgLock>>} ELSE {}
        /\ intervals = IF listens THEN 1 ELSE 0
    BY <2>2, ServedWhen DEF Serving, Silent
  <2>9. QED
    BY <2>3, <2>7, <2>8
<1>2. QED
  BY SeqInvariance, <1>1, PTL

\* After a reset nothing of the old configuration listens or ticks: no live
\* listener, no interval, and isListening is false, so that the next lock is
\* started.
THEOREM SilentAfterReset == Patient => (Spec => []SilentWhenReset)
<1> SUFFICES ASSUME Patient PROVE Spec => []SilentWhenReset
  OBVIOUS
<1>1. SeqInv => SilentWhenReset
  <2> SUFFICES ASSUME SeqInv, Quiet, cfgLock = NoLock
               PROVE  ~isListening /\ LiveSubs = {} /\ intervals = 0
    BY DEF SilentWhenReset
  <2>1. ~Serving /\ Silent /\ ~isListening
    BY DEF SeqInv, Quiet, Serving
  <2>2. QED
    BY <2>1, ServedWhen DEF Silent
<1>2. QED
  BY SeqInvariance, <1>1, PTL

-----------------------------------------------------------------------------
\* The promise

\* The same of the locks that are listened for after a step.
LEMMA ServedNext ==
  /\ Serving' => ServedLocks' = {cfgLock'}
  /\ Silent' => ServedLocks' = {}
<1>1. ASSUME Serving' PROVE ServedLocks' = {cfgLock'}
  <2>1. LiveSubs' = {<<provider', cfgLock'>>}
    BY <1>1 DEF Serving, LiveSubs
  <2>2. QED
    BY <2>1 DEF ServedLocks
<1>2. ASSUME Silent' PROVE ServedLocks' = {}
  BY <1>2 DEF Silent, LiveSubs, ServedLocks
<1>3. QED
  BY <1>1, <1>2

\* Where administrators wait, every step is one of ConfiguredLock's or changes
\* nothing that ConfiguredLock speaks of.
LEMMA StepPromise ==
  ASSUME Patient, SeqInv, [Next]_vars
  PROVE  [Promise!Next]_(Promise!vars)
<1> USE DEF disk
<1>0. GuardInv /\ Boot \in Actor /\ \A r \in Request : r \in Actor
  BY GuardInvCalls DEF SeqInv
<1>1. SeqInv' /\ GuardInv'
  BY StepSeqInv DEF SeqInv
<1>2. CASE UNCHANGED <<running, unread, dbLock, cfgLock, subs, closed>>
  BY <1>2 DEF Promise!vars, ServedLocks, LiveSubs, Alive
<1>1a. ASSUME NEW a \in Actor, call[a].pc # "idle" PROVE running
  BY <1>0, <1>1a DEF GuardInv, Actor
<1>3. ASSUME NEW a \in Actor, NEW l \in Lock, call[a].pc \in {"finding", "saving"},
             BeginInitialize(a, l), UNCHANGED <<isListening, subs, timers>>
      PROVE  ServedLocks = {} /\ ServedLocks' = {}
  <2>1. Silent
    BY <1>3, StartsSilent
  <2>2. Silent'
    BY <1>3, <2>1 DEF Silent, timers
  <2>3. QED
    BY <2>1, <2>2, ServedWhen, ServedNext
<1>4. CASE ConfigFound
  <2>1. CASE FindConfig = NoLock
    <3>1. cfgLock = NoLock
      BY <1>0, <1>4 DEF ConfigFound, GuardInv
    <3>2. QED
      BY <1>2, <1>4, <2>1, <3>1 DEF ConfigFound, connection
  <2>2. CASE FindConfig # NoLock
    <3>1. FindConfig \in Lock /\ FindConfig = dbLock
      BY <1>0, <2>2 DEF FindConfig, GuardInv, LInv, TypeOK, MaybeLock
    <3>2. ServedLocks = {} /\ ServedLocks' = {}
      BY <1>0, <1>3, <1>4, <2>2, <3>1 DEF ConfigFound
    <3>3. cfgLock = NoLock /\ dbLock # NoLock /\ cfgLock' = dbLock
          /\ running /\ ~unread /\ UNCHANGED <<running, unread, dbLock>>
      BY <1>0, <1>1a, <1>4, <2>2, <3>1 DEF ConfigFound, GuardInv
    <3>4. Promise!Restore
      BY <3>2, <3>3 DEF Promise!Restore
    <3>5. QED
      BY <3>4 DEF Promise!Next
  <2>3. QED
    BY <2>1, <2>2
<1>5. CASE Exit
  <2>1. /\ running /\ running' = FALSE
        /\ cfgLock' = NoLock /\ unread' = FALSE /\ subs' = {}
        /\ UNCHANGED dbLock
    BY <1>5 DEF Exit
  <2>2. ServedLocks' = {}
    BY <2>1 DEF ServedLocks, LiveSubs
  <2>3. QED
    BY <2>1, <2>2 DEF Promise!Stop, Promise!Next
<1>6. ASSUME NEW r \in Request, ConfigSaved(r)
      PROVE  [Promise!Next]_(Promise!vars)
  <2>1. call[r].lock \in Lock /\ call[r].pc = "saving"
    BY <1>0, <1>6 DEF ConfigSaved, GuardInv, LInv
  <2>2. ServedLocks = {} /\ ServedLocks' = {}
    BY <1>0, <1>3, <1>6, <2>1 DEF ConfigSaved
  <2>3. cfgLock = NoLock /\ cfgLock' = call[r].lock /\ dbLock' = call[r].lock
        /\ running /\ UNCHANGED running /\ unread' = FALSE
    BY <1>0, <1>1a, <1>6, <2>1 DEF ConfigSaved, SaveConfig, GuardInv, process
  <2>4. CASE unread
    BY <2>1, <2>2, <2>3, <2>4 DEF Promise!Replace, Promise!Next
  <2>5. CASE ~unread
    <3>1. dbLock = NoLock /\ unread = FALSE
      <4>1. unread \in BOOLEAN
        BY <1>0 DEF GuardInv, LInv, TypeOK
      <4>2. unread = FALSE
        BY <2>5, <4>1, Zenon
      <4>3. booted
        BY <1>0, <2>1 DEF GuardInv
      <4>4. QED
        BY <1>0, <2>3, <2>5, <4>2, <4>3 DEF GuardInv
    <3>2. Promise!Configure(call[r].lock)
      BY <2>2, <2>3, <3>1 DEF Promise!Configure
    <3>3. QED
      BY <2>1, <3>2 DEF Promise!Next
  <2>6. QED
    BY <2>4, <2>5
<1>7. ASSUME NEW a \in Actor, RowRead(a)
      PROVE  [Promise!Next]_(Promise!vars)
  <2>1. /\ Silent /\ cfgLock # NoLock
        /\ IF cfgLock \in Malformed THEN Silent' ELSE Serving'
    BY <1>1, <1>7, StartsSilent, InitializeEnds
       DEF RowRead, SeqInv, InitializePc
  <2>2. running /\ UNCHANGED <<running, unread, cfgLock, dbLock>>
    BY <1>1a, <1>7 DEF RowRead, process
  <2>3. CASE cfgLock \in Malformed
    <3>1. ServedLocks = {} /\ ServedLocks' = {}
      BY <2>1, <2>3, ServedWhen, ServedNext
    <3>2. QED
      BY <2>2, <3>1 DEF Promise!vars
  <2>4. CASE cfgLock \notin Malformed
    <3>1. ServedLocks = {} /\ ServedLocks' = {cfgLock'}
      BY <2>1, <2>4, ServedWhen, ServedNext
    <3>2. Promise!Serve
      BY <2>1, <2>2, <3>1 DEF Promise!Serve
    <3>3. QED
      BY <3>2 DEF Promise!Next
  <2>5. QED
    BY <2>3, <2>4
<1>8. ASSUME NEW r \in Request, ConfigDeleted(r)
      PROVE  [Promise!Next]_(Promise!vars)
  <2>1. cfgLock # NoLock /\ running /\ UNCHANGED <<running, unread>>
    BY <1>0, <1>1a, <1>8 DEF ConfigDeleted, GuardInv, process
  <2>2. ServedLocks' = {} /\ cfgLock' = NoLock /\ dbLock' = NoLock
    BY <1>1, <1>8, ResetSilences, ServedNext DEF ConfigDeleted, DeleteConfig
  <2>3. Promise!Reset
    BY <2>1, <2>2 DEF Promise!Reset
  <2>4. QED
    BY <2>3 DEF Promise!Next
<1>9. ASSUME NEW r \in Request, ProviderDetached(r)
      PROVE  [Promise!Next]_(Promise!vars)
  <2>1. Silent
    BY <1>0, <1>9 DEF ProviderDetached, SeqInv, Serving
  <2>2. Silent' /\ UNCHANGED <<running, unread, cfgLock, dbLock>>
    BY <1>9, <2>1 DEF ProviderDetached, Silent, timers, process
  <2>3. ServedLocks = {} /\ ServedLocks' = {}
    BY <2>1, <2>2, ServedWhen, ServedNext
  <2>4. QED
    BY <2>2, <2>3 DEF Promise!vars
<1>10. CASE \/ MineBlock
            \/ \E r \in Request, l \in Lock : InitRequest(r, l)
            \/ \E a \in Actor : NetworkKnown(a) \/ BlockNumberKnown(a)
            \/ \E r \in Request : \/ InitFails(r) \/ ResetRequest(r) \/ Authorised(r)
                                 \/ ResetFails(r) \/ ProviderDestroyed(r)
  <2>1. UNCHANGED <<running, unread, dbLock, cfgLock, subs, closed>>
    BY <1>10 DEF MineBlock, process, InitRequest, NetworkKnown,
                 BlockNumberKnown, InitFails, ResetRequest, Authorised,
                 ResetFails, ProviderDestroyed, connection
  <2>2. QED
    BY <1>2, <2>1
<1>11. ASSUME UNCHANGED <<call, cfgLock, dbLock, running, unread, initFailed,
                          listener>>
       PROVE  [Promise!Next]_(Promise!vars)
  BY <1>2, <1>11 DEF listener, connection
<1>12. CASE Start
  <2>1. Promise!Start
    BY <1>12 DEF Start, Promise!Start, ServedLocks, LiveSubs, Alive, connection
  <2>2. QED
    BY <2>1 DEF Promise!Next
<1>13. CASE ConfigNotRead
  <2>1. /\ ~booted /\ cfgLock = NoLock /\ running
        /\ UNCHANGED <<running, dbLock, cfgLock, subs, closed>>
        /\ unread' = (dbLock # NoLock)
    BY <1>0, <1>1a, <1>13 DEF ConfigNotRead, GuardInv, connection
  <2>2. unread = FALSE
    <3>1. unread \in BOOLEAN /\ ~unread
      BY <1>0, <2>1 DEF GuardInv, LInv, TypeOK
    <3>2. QED
      BY <3>1, Zenon
  <2>3. CASE dbLock = NoLock
    <3>1. unread' = FALSE
      BY <2>1, <2>3
    <3>2. QED
      BY <1>2, <2>1, <2>2, <3>1
  <2>4. CASE dbLock # NoLock
    <3>1. unread' = TRUE
      BY <2>1, <2>4
    <3>2. Silent
      BY <1>0, <1>13, StartsSilent DEF ConfigNotRead
    <3>3. ServedLocks = {} /\ UNCHANGED ServedLocks
      BY <2>1, <3>2, ServedWhen DEF ServedLocks, LiveSubs, Alive
    <3>4. Promise!Overlook
      BY <2>1, <2>2, <2>4, <3>1, <3>3 DEF Promise!Overlook
    <3>5. QED
      BY <3>4 DEF Promise!Next
  <2>5. QED
    BY <2>3, <2>4
<1>14. QED
  BY <1>4, <1>5, <1>6, <1>7, <1>8, <1>9, <1>10, <1>11, <1>12, <1>13, ScanSteps
     DEF Next

\* The service implements ConfiguredLock where administrators wait for every
\* answer: awaits, connections and timers do not show, whatever fails and
\* whenever the process ends.
THEOREM KeepsPromise == Patient => (Spec => PromiseSpec)
<1> SUFFICES ASSUME Patient PROVE Spec => PromiseSpec
  OBVIOUS
<1>1. Init => Promise!Init
  BY DEF Init, Promise!Init, ServedLocks, LiveSubs
<1>2. SeqInv /\ [Next]_vars => [Promise!Next]_(Promise!vars)
  BY StepPromise
<1>3. Spec => []SeqInv
  BY SeqInvariance
<1>4. QED
  BY <1>1, <1>2, <1>3, PTL DEF Spec, PromiseSpec, Promise!Spec
=============================================================================
