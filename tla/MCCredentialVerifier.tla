------------------------ MODULE MCCredentialVerifier ------------------------
(***************************************************************************)
(* Instances of CredentialVerifier for TLC; the bounds on rare events are  *)
(* those of MCHybridSync.                                                  *)
(***************************************************************************)
EXTENDS CredentialVerifier, MCHybridSync
=============================================================================
