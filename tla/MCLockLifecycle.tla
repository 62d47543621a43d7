--------------------------- MODULE MCLockLifecycle ---------------------------
(***************************************************************************)
(* Instances of LockLifecycle for TLC.                                     *)
(***************************************************************************)
EXTENDS LockLifecycle, TLC

\* Lock ids of a kind, requests and invocations of performBatchSync are
\* interchangeable.
Symmetry == Permutations(Lock \ Malformed) \cup Permutations(Request) \cup Permutations(Sync)
=============================================================================
