----------------------- MODULE MCConcurrentMarkSweep -----------------------
(***************************************************************************)
(* ConcurrentMarkSweep from heaps that already hold objects, with a bound  *)
(* on what the mutators do from there on: the collector runs any number of *)
(* cycles next to at most MaxWork operations.                              *)
(***************************************************************************)
EXTENDS ConcurrentMarkSweep

CONSTANT MaxWork   \* operations of all mutators together

VARIABLE work

\* Object 3 is a Reference; 1 and 2 are strings, each with a field.
Objects == 1..3
References == {3}
Strings == {1, 2}
AddressOf == [o \in Object |-> o]

\* Either there is a Reference to an object that refers to another, or there is
\* one object, which may be an interned string.
HeapWithReference ==
  /\ allocated = Object
  /\ field = [o \in Object |-> IF o = 1 THEN 2 ELSE NoObject]
  /\ referent = [r \in Reference |-> 1]
  /\ kind \in [Reference -> ReferenceKinds]
  /\ root = [t \in Mutator |-> Reference]
  /\ strong_interns = {} /\ weak_interns = {}

HeapWithString ==
  /\ allocated = {1}
  /\ field = [o \in Object |-> NoObject]
  /\ referent = [r \in Reference |-> NoObject]
  /\ kind = [r \in Reference |-> "weak"]
  /\ root = [t \in Mutator |-> {1}]
  /\ strong_interns = {} /\ weak_interns \in {{}, {1}}

\* The objects are old, or new and what was stored to is on a dirty card.
MCInit ==
  /\ work = 0
  /\ HeapWithReference \/ HeapWithString
  /\ live_bitmap \in {{}, allocated} /\ allocation_stack = allocated \ live_bitmap
  /\ card = [o \in Object |-> IF o \in allocation_stack \ {2} THEN kCardDirty ELSE kCardClean]
  /\ mark_bitmap = {} /\ live_stack = {}
  /\ new_strong_intern_roots = {} /\ log_new_roots = FALSE
  /\ allow_new_weaks = TRUE
  /\ barrier = [t \in Mutator |-> NoObject]
  /\ getting = [t \in Mutator |-> NoGet]
  /\ step = "idle" /\ todo = {} /\ gc_type = "none"
  /\ is_concurrent = FALSE /\ clear_soft = FALSE /\ paused = FALSE
  /\ mark_stack = {} /\ enqueued = {} /\ cleared_references = {}
  /\ slow_path = FALSE /\ is_marked_callback = FALSE
  /\ preserving_references = FALSE
  /\ doomed = {}

\* A Reference that is new costs all the operations there are but one.
Cost == IF allocated' \cap Reference \subseteq allocated THEN 1 ELSE MaxWork - 1

MCNext ==
  \/ (StartCycle \/ CollectorStep) /\ UNCHANGED work
  \/ \E t \in Mutator : EndOperation(t) /\ UNCHANGED work
  \/ \E t \in Mutator : BeginOperation(t) /\ work' = work + Cost /\ work' =< MaxWork

MCvars == <<vars, work>>
MCSpec == MCInit /\ [][MCNext]_MCvars
MCFairSpec ==
  /\ MCSpec
  /\ WF_MCvars(CollectorStep /\ UNCHANGED work)
  /\ \A t \in Mutator : WF_MCvars(EndOperation(t) /\ UNCHANGED work)
=============================================================================
