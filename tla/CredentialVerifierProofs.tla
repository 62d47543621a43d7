----------------------- MODULE CredentialVerifierProofs -----------------------
(***************************************************************************)
(* Proofs about CredentialVerifier, on top of those about HybridSync:      *)
(*   VerifierInvariance   VerifierSpec => []VerifierInv                    *)
(*   SettledRefusal       VerifierSpec => []SettledIsRefused               *)
(*   VerifierImplementsSync, VerifierPromise: verifying changes nothing of *)
(*   the cache, which keeps every property of HybridSync                   *)
(***************************************************************************)
EXTENDS CredentialVerifier, HybridSyncProofs

\* A row that is there stays there, whatever the cache does.
LEMMA RowsStay ==
  ASSUME [Next]_vars
  PROVE  revoked \subseteq revoked'
  BY DEF Next, vars, database, MineBlock, Initialize, Crash, RealtimeEvent,
         ReleaseProcessing, BatchTimer, ForceFullSync, StartScan, ScanChunk,
         FinishSync, SyncFails, CheckDone, IsVcHashRevoked, SaveDone,
         SaveRevocation, HandlerFails, ConfirmDone, UpdateLastSyncedBlock,
         ConfirmFails

\* A revocation below a mark whose handling went through has its row: the mark
\* promises that somebody was told, and nobody is still at work.
LEMMA SettledHasRow ==
  ASSUME IInv, NEW h \in Hash, RevocationSettled(h)
  PROVE  h \in revoked
<1>1. /\ minedAt[h] \in StartBlock + 1 .. lastSyncedBlock
         \/ minedAt[h] \in StartBlock + 1 .. persisted
  BY DEF RevocationSettled, Max2, IInv, TypeOK
<1>2. Accounted(h)
  BY <1>1 DEF IInv, NoGapBelowMark, Settled
<1>3. QED
  BY <1>2 DEF Accounted, RevocationSettled

\* The invariant holds initially: nothing is being verified.
LEMMA VerifierInitInv == Init /\ VerifierInit => VerifierInv
  BY InitInv DEF VerifierInit, VerifierInv, VerifierTypeOK, SettledIsRefused,
                 NoVerification, VerificationState

\* A step of a verification preserves the invariant: it becomes late only with
\* its row in place, and a lookup that finds the row refuses.
LEMMA VerifierStepInv ==
  ASSUME VerifierInv, NEW h \in Hash, VerifierStep(h), UNCHANGED vars
  PROVE  VerifierInv'
<1> USE DEF VerifierInv, VerifierTypeOK, SettledIsRefused, VerificationState
<1>1. IInv'
  BY StepInv
<1>2. revoked' = revoked
  BY DEF vars, database
<1>3. CASE VerifyRequest(h)
  BY <1>1, <1>2, <1>3, SettledHasRow DEF VerifyRequest
<1>4. CASE LookupDone(h)
  BY <1>1, <1>2, <1>4 DEF LookupDone, IsRevoked, IsVcHashRevoked
<1>5. CASE SignatureDone(h)
  BY <1>1, <1>2, <1>5 DEF SignatureDone
<1>6. CASE VerificationFails(h)
  BY <1>1, <1>2, <1>6 DEF VerificationFails
<1>7. CASE Answered(h)
  BY <1>1, <1>2, <1>7 DEF Answered
<1>8. QED
  BY <1>3, <1>4, <1>5, <1>6, <1>7 DEF VerifierStep

\* A step of the cache preserves it: rows stay.
LEMMA CacheStepInv ==
  ASSUME VerifierInv, [CacheStep]_allVars
  PROVE  VerifierInv'
<1> USE DEF VerifierInv, VerifierTypeOK, SettledIsRefused, VerificationState
<1>1. [Next]_vars
  BY DEF CacheStep, allVars
<1>2. IInv' /\ revoked \subseteq revoked'
  BY <1>1, StepInv, RowsStay
<1>3. UNCHANGED verifier \/ (verification' = NoVerification /\ late' = {})
  BY DEF CacheStep, allVars
<1>4. CASE UNCHANGED verifier
  BY <1>2, <1>4 DEF verifier
<1>5. CASE verification' = NoVerification /\ late' = {}
  BY <1>2, <1>5 DEF NoVerification
<1>6. QED
  BY <1>3, <1>4, <1>5

\* The inductive invariant holds in every behaviour.
THEOREM VerifierInvariance == VerifierSpec => []VerifierInv
<1>1. VerifierInv /\ [VerifierNext]_allVars => VerifierInv'
  BY VerifierStepInv, CacheStepInv DEF VerifierNext
<1>2. QED
  BY <1>1, VerifierInitInv, PTL DEF VerifierSpec

\* A credential presented after its revocation was settled is never accepted.
THEOREM SettledRefusal == VerifierSpec => []SettledIsRefused
<1>1. VerifierInv => SettledIsRefused
  BY DEF VerifierInv
<1>2. QED
  BY <1>1, VerifierInvariance, PTL

\* Every step of the composition is one of the cache, or leaves it alone.
LEMMA VerifierStutters == [VerifierNext]_allVars => [Next]_vars
<1> SUFFICES ASSUME [VerifierNext]_allVars PROVE [Next]_vars
  OBVIOUS
<1>1. CASE CacheStep
  BY <1>1, Zenon DEF CacheStep
<1>2. CASE \E h \in Hash : VerifierStep(h) /\ UNCHANGED vars
  BY <1>2, Zenon
<1>3. CASE UNCHANGED allVars
  BY <1>3 DEF allVars
<1>4. QED
  BY <1>1, <1>2, <1>3 DEF VerifierNext

\* Verifying credentials leaves the cache as it is: the service with its
\* verifier has only behaviours of HybridSync.
THEOREM VerifierImplementsSync == VerifierSpec => Spec
  BY VerifierStutters, PTL DEF VerifierSpec, Spec

\* Its table therefore is still the abstract RevocationCache.
THEOREM VerifierPromise == VerifierSpec => CacheSpec
  BY VerifierImplementsSync, Refinement
=============================================================================
