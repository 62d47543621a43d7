--------------------------- MODULE RevocationCache ---------------------------
(***************************************************************************)
(* What the service promises about revocations, with no listener, no       *)
(* blocks and no database: the contract revokes credentials of the         *)
(* monitored lock, and the local cache learns of them, one at a time, in   *)
(* any order.  HybridSync is shown to implement this specification.        *)
(***************************************************************************)
CONSTANT Hash          \* the credential hashes of the lock

VARIABLES
    onChain,           \* hashes whose CredentialRevoked log is on the chain
    cached             \* hashes with a row in revoked_credentials

vars == <<onChain, cached>>

Init ==
    /\ onChain = {}
    /\ cached = {}

\* A block revokes some credentials.
Revoke(H) ==
    /\ H # {}
    /\ onChain \cap H = {}
    /\ onChain' = onChain \cup H
    /\ UNCHANGED cached

\* A row is written for a credential that is revoked on the chain.
Learn(h) ==
    /\ h \in onChain \ cached
    /\ cached' = cached \cup {h}
    /\ UNCHANGED onChain

Next ==
    \/ \E H \in SUBSET Hash : Revoke(H)
    \/ \E h \in Hash : Learn(h)

\* Safety only: a row is never written for a credential the contract has not
\* revoked, and a row once written is never withdrawn.
Spec == Init /\ [][Next]_vars
=============================================================================
