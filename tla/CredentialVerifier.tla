-------------------------- MODULE CredentialVerifier --------------------------
(***************************************************************************)
(* Verifying a credential while the revocation cache is being filled:      *)
(* CredentialVerifierService, as VerifyController (POST /verify) and       *)
(* VcAuthGuard (POST /config/reset) use it, composed with HybridSync.      *)
(*                                                                         *)
(* A verification reads revoked_credentials and changes nothing, so two of *)
(* them never meet: one at a time per credential shows all there is.       *)
(***************************************************************************)
EXTENDS HybridSync

VARIABLES
    verification,      \* where the verification of each credential stands
    late               \* auxiliary: it began when the revocation was settled

verifier == <<verification, late>>
allVars == <<vars, verifier>>

VerificationState == {"none", "lookup", "signature", "accepted", "refused"}

NoVerification == [h \in Hash |-> "none"]

\* The revocation of h is below a mark, and its handling went through.
RevocationSettled(h) ==
    /\ minedAt[h] \in StartBlock + 1 .. Max2(lastSyncedBlock, persisted)
    /\ ~InFlight(h) /\ h \notin failed

VerifierTypeOK ==
    /\ verification \in [Hash -> VerificationState]
    /\ late \subseteq Hash

VerifierInit == verification = NoVerification /\ late = {}

-----------------------------------------------------------------------------
\* The credential of hash h arrives and isVcHashRevoked is called.  The public
\* key is there: HybridSync has a configured lock.
VerifyRequest(h) ==
    /\ verification[h] = "none"
    /\ verification' = [verification EXCEPT ![h] = "lookup"]
    /\ late' = IF RevocationSettled(h) THEN late \cup {h} ELSE late \ {h}

\* isRevoked(): the table is asked for the hash of the credential.
IsRevoked(h) == IsVcHashRevoked(h)

\* Faulty variant: the row is looked for with count > 1, and there is only one.
FaultyLookupDone(h) ==
    /\ verification[h] = "lookup"
    /\ verification' = [verification EXCEPT ![h] = "signature"]
    /\ UNCHANGED late

\* isVcHashRevoked answers: refuse, or go on to the signature.
LookupDone(h) ==
    /\ verification[h] = "lookup"
    /\ verification' = [verification EXCEPT ![h] =
                           IF IsRevoked(h) THEN "refused" ELSE "signature"]
    /\ UNCHANGED late

\* verifyOffChainCredential answers with a verdict on signature and expiry (and
\* VcAuthGuard looks at the access level): the table is not read again.
SignatureDone(h) ==
    /\ verification[h] = "signature"
    /\ \E verdict \in {"accepted", "refused"} :
          verification' = [verification EXCEPT ![h] = verdict]
    /\ UNCHANGED late

\* Either call fails: an error is a refusal.
VerificationFails(h) ==
    /\ verification[h] \in {"lookup", "signature"}
    /\ verification' = [verification EXCEPT ![h] = "refused"]
    /\ UNCHANGED late

\* The answer is sent.
Answered(h) ==
    /\ verification[h] \in {"accepted", "refused"}
    /\ verification' = [verification EXCEPT ![h] = "none"]
    /\ UNCHANGED late

VerifierStep(h) ==
    \/ VerifyRequest(h)
    \/ LookupDone(h)
    \/ SignatureDone(h)
    \/ VerificationFails(h)
    \/ Answered(h)

\* A step of the cache; requests are lost when it is the end of the process.
CacheStep ==
    /\ Next
    /\ IF up /\ ~up' THEN verification' = NoVerification /\ late' = {}
                     ELSE UNCHANGED verifier

VerifierNext == CacheStep \/ \E h \in Hash : VerifierStep(h) /\ UNCHANGED vars

VerifierSpec == Init /\ VerifierInit /\ [][VerifierNext]_allVars

\* A verification that has begun ends; requests need never come.
VerifierFairness ==
    \A h \in Hash :
        /\ WF_allVars(LookupDone(h) /\ UNCHANGED vars)
        /\ WF_allVars(SignatureDone(h) /\ UNCHANGED vars)
        /\ WF_allVars(Answered(h) /\ UNCHANGED vars)

FairVerifierSpec == VerifierSpec /\ Fairness /\ VerifierFairness

-----------------------------------------------------------------------------
\* Properties

\* A credential presented when its revocation is below a mark, with no handler
\* still at work on it and none cut short, is refused.  This is what the marks
\* are for: they tell which revocations the answers of the service know about.
SettledIsRefused ==
    \A h \in late : verification[h] \notin {"signature", "accepted"}

\* From some moment after the revocation on, the credential is never accepted
\* again, not even by a verification that overlapped its handling, unless that
\* handling was cut short.
RevocationTakesEffect ==
    \A h \in Hash :
        minedAt[h] > StartBlock
            ~> (h \in failed \/ [](verification[h] # "accepted"))

\* The inductive invariant behind SettledIsRefused: what is late has its row.
VerifierInv ==
    /\ IInv
    /\ VerifierTypeOK
    /\ SettledIsRefused
    /\ late \subseteq revoked
=============================================================================
