-------------------------- MODULE MCLockFreeReader --------------------------
(* Small instances of LockFreeReader.  The background thread and one manual  *)
(* caller are two refreshes that overlap; liveness rules out symmetry.       *)
EXTENDS LockFreeReader
=============================================================================
