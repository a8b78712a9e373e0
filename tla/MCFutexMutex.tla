---------------------------- MODULE MCFutexMutex ----------------------------
(* FutexMutex instantiated for TLC. *)
EXTENDS FutexMutex
=============================================================================
