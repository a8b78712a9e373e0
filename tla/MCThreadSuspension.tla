------------------------ MODULE MCThreadSuspension ------------------------
(* ThreadSuspension instantiated for TLC. *)
EXTENDS ThreadSuspension

============================================================================
