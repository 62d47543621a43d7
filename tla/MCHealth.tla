------------------------------ MODULE MCHealth -------------------------------
(***************************************************************************)
(* Instances of Health for TLC; the bounds on rare events are those of     *)
(* MCHybridSync.                                                           *)
(***************************************************************************)
EXTENDS Health, MCHybridSync
=============================================================================
