---------------------------- MODULE MCHybridSync ----------------------------
(***************************************************************************)
(* Instances of HybridSync for TLC.                                        *)
(***************************************************************************)
EXTENDS HybridSync, TLC

\* How often each rare event may happen, given separately in each .cfg.
CONSTANTS RpcFailures, DbFailures, Crashes, ForcedSyncs

MCBudget == [rpc |-> RpcFailures, db |-> DbFailures,
             crash |-> Crashes, force |-> ForcedSyncs]

\* Hashes are interchangeable, and so are invocations of performBatchSync.
Symmetry == Permutations(Hash) \cup Permutations(Sync)
=============================================================================
