------------------------------- MODULE Threads -------------------------------
(***************************************************************************)
(* The threads that the components which run beside each other in one      *)
(* process have in common.                                                 *)
(***************************************************************************)
EXTENDS FiniteSets

CONSTANTS
    Thread,     \* native threads, attached to the runtime or not
    NoThread

ASSUME ThreadAssumption == NoThread \notin Thread /\ IsFiniteSet(Thread)
=============================================================================
