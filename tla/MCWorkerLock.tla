---------------------------- MODULE MCWorkerLock ----------------------------
(* WorkerLock for TLC. *)
EXTENDS WorkerLock, TLC
=============================================================================
