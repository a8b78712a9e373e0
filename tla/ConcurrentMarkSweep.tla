------------------------- MODULE ConcurrentMarkSweep -------------------------
(***************************************************************************)
(* The mark-sweep collectors of gc/collector: full (MarkSweep) and sticky  *)
(* (StickyMarkSweep) cycles, concurrent or paused, next to the mutators    *)
(* they run with.  A cycle marks from the roots while the mutators write   *)
(* to the heap and dirty cards, re-marks in a pause, and then processes    *)
(* references, sweeps the system weaks and sweeps the heap while the       *)
(* mutators run again.                                                     *)
(*                                                                         *)
(* An object has one strong field (the zombie field in a Reference), every *)
(* object has a card of its own, and all members of String are equal       *)
(* strings.  The mark stack is a set: workers pop it in any order.  A      *)
(* mutator that is suspended or runs a checkpoint is between two of the    *)
(* operations below, never inside one.                                     *)
(***************************************************************************)
EXTENDS Naturals, FiniteSets

CONSTANTS Object, Reference, String, Mutator, NoObject,
          ReferenceKinds, \* classes of Reference that are allocated
          GcTypes,       \* the cycles Heap asks for: {"sticky", "full"}
          Concurrent,    \* values of is_concurrent_, a subset of BOOLEAN
          Address,       \* of an object: an injection into Nat
          PreemptedGet   \* may the collector overtake GetReferent between
                         \* its two unlocked loads?

Kinds == {"soft", "weak", "finalizer", "phantom"}

ASSUME HeapAssumption == /\ Reference \subseteq Object
                         /\ String \subseteq Object \ Reference
                         /\ NoObject \notin Object
                         /\ ReferenceKinds \subseteq Kinds

VARIABLES
  \* The heap.
  allocated,         \* objects whose memory is in use
  field, referent,   \* strong field, Reference::referent_
  kind,              \* class of a Reference
  card,              \* CardTable, one card for each object
  live_bitmap, mark_bitmap,
  allocation_stack, live_stack,
  \* Roots and system weaks.
  root,              \* references a mutator holds
  strong_interns, weak_interns, new_strong_intern_roots, log_new_roots,
  allow_new_weaks,   \* Runtime::AllowNewSystemWeaks
  \* Operations of a mutator that are under way.
  barrier,           \* object stored to whose card is not yet marked
  getting,           \* GetReferent call
  \* The collector.
  step, todo,        \* where RunPhases is, what the loop there has left
  gc_type, is_concurrent, clear_soft, paused,
  mark_stack,
  enqueued,          \* members of the queues of ReferenceProcessor
  cleared_references, \* members of its list of that name
  slow_path, is_marked_callback, preserving_references,
  doomed             \* garbage when the full cycle began (history variable)

heapVars == <<allocated, field, referent, kind, card>>
bitmapVars == <<live_bitmap, mark_bitmap, allocation_stack, live_stack>>
internVars == <<strong_interns, weak_interns, new_strong_intern_roots, log_new_roots>>
mutatorVars == <<root, barrier, getting>>
cycleVars == <<gc_type, is_concurrent, clear_soft, doomed>>
queueVars == <<enqueued, cleared_references>>
refVars == <<slow_path, is_marked_callback, preserving_references>>
stepVars == <<step, todo, paused>>
vars == <<heapVars, bitmapVars, internVars, allow_new_weaks, mutatorVars,
          stepVars, cycleVars, mark_stack, queueVars, refVars>>

kCardClean == 0
kCardAged == 1     \* kCardDirty - 1
kCardDirty == 2

NoGet == [at |-> "none", ref |-> NoObject, value |-> NoObject]
Gets == [at : {"none", "loaded", "slow"}, ref : Reference \cup {NoObject},
         value : Object \cup {NoObject}]

MarkingSteps == {"age1", "roots1", "interns1", "scan1", "trace1",
                 "age2", "roots2", "interns2", "scan2", "trace2", "pause"}
PausedSteps == {"remark", "scan3", "trace3", "swap"}
ReclaimSteps == {"refs", "forward", "trace4", "clear1", "finalize", "trace5",
                 "clear2", "refsDone", "weaks", "allow", "sweep", "free", "finish", "enqueue"}

\* Variables range over their types; the mark stack holds marked objects only
\* (MarkObjectNonNull pushes what it has just marked).
TypeOK ==
  /\ allocated \subseteq Object
  /\ field \in [Object -> Object \cup {NoObject}]
  /\ referent \in [Reference -> Object \cup {NoObject}]
  /\ kind \in [Reference -> Kinds]
  /\ card \in [Object -> {kCardClean, kCardAged, kCardDirty}]
  /\ live_bitmap \subseteq Object /\ mark_bitmap \subseteq Object
  /\ allocation_stack \subseteq Object /\ live_stack \subseteq Object
  /\ root \in [Mutator -> SUBSET Object]
  /\ strong_interns \subseteq String /\ weak_interns \subseteq String
  /\ new_strong_intern_roots \subseteq String
  /\ log_new_roots \in BOOLEAN /\ allow_new_weaks \in BOOLEAN
  /\ barrier \in [Mutator -> Object \cup {NoObject}]
  /\ getting \in [Mutator -> Gets]
  /\ step \in {"idle"} \cup MarkingSteps \cup PausedSteps \cup ReclaimSteps
  /\ todo \subseteq Object \cup Mutator
  /\ gc_type \in GcTypes \cup {"none"} /\ is_concurrent \in BOOLEAN
  /\ clear_soft \in BOOLEAN /\ paused \in BOOLEAN
  /\ mark_stack \subseteq mark_bitmap
  /\ enqueued \subseteq Reference /\ cleared_references \subseteq Reference
  /\ slow_path \in BOOLEAN /\ is_marked_callback \in BOOLEAN
  /\ preserving_references \in BOOLEAN
  /\ doomed \subseteq Object

Init ==
  /\ allocated = {} /\ field = [o \in Object |-> NoObject]
  /\ referent = [r \in Reference |-> NoObject]
  /\ kind = [r \in Reference |-> "weak"]
  /\ card = [o \in Object |-> kCardClean]
  /\ live_bitmap = {} /\ mark_bitmap = {}
  /\ allocation_stack = {} /\ live_stack = {}
  /\ root = [t \in Mutator |-> {}]
  /\ strong_interns = {} /\ weak_interns = {}
  /\ new_strong_intern_roots = {} /\ log_new_roots = FALSE
  /\ allow_new_weaks = TRUE
  /\ barrier = [t \in Mutator |-> NoObject]
  /\ getting = [t \in Mutator |-> NoGet]
  /\ step = "idle" /\ todo = {} /\ gc_type = "none"
  /\ is_concurrent = FALSE /\ clear_soft = FALSE /\ paused = FALSE
  /\ mark_stack = {} /\ enqueued = {} /\ cleared_references = {}
  /\ slow_path = FALSE /\ is_marked_callback = FALSE
  /\ preserving_references = FALSE
  /\ doomed = {}

-----------------------------------------------------------------------------
(* Mutators. *)

\* The mutator runs managed code and is between two operations.
Running(t) == ~paused /\ barrier[t] = NoObject /\ getting[t].at = "none"

\* The mutator can be suspended, or run a checkpoint, here.
AtSafepoint(t) == barrier[t] = NoObject /\ getting[t].at = "none"

\* Heap::AllocObjectWithAllocator and PushOnAllocationStack: no suspension
\* point lies between the two.
AllocObject(t, o) ==
  /\ Running(t) /\ o \in Object \ (allocated \cup Reference)
  /\ allocated' = allocated \cup {o}
  /\ field' = [field EXCEPT ![o] = NoObject]
  /\ allocation_stack' = allocation_stack \cup {o}
  /\ root' = [root EXCEPT ![t] = @ \cup {o}]
  /\ UNCHANGED <<referent, kind, card, live_bitmap, mark_bitmap, live_stack,
                 internVars, allow_new_weaks, barrier, getting, stepVars,
                 cycleVars, mark_stack, queueVars, refVars>>

\* The same for a Reference; its constructor then stores the referent.
AllocReference(t, r, o, k) ==
  /\ Running(t) /\ r \in Reference \ allocated /\ o \in root[t]
  /\ allocated' = allocated \cup {r}
  /\ field' = [field EXCEPT ![r] = NoObject]
  /\ referent' = [referent EXCEPT ![r] = o]
  /\ kind' = [kind EXCEPT ![r] = k]
  /\ allocation_stack' = allocation_stack \cup {r}
  /\ root' = [root EXCEPT ![t] = @ \cup {r}]
  /\ barrier' = [barrier EXCEPT ![t] = r]
  /\ UNCHANGED <<card, live_bitmap, mark_bitmap, live_stack, internVars,
                 allow_new_weaks, getting, stepVars, cycleVars, mark_stack,
                 queueVars, refVars>>

\* GetFieldObject.  Only the finalizer looks at a zombie, after the Reference
\* has come to it through its queue.
LoadField(t, o) ==
  /\ Running(t) /\ o \in root[t] \ cleared_references /\ field[o] # NoObject
  /\ root' = [root EXCEPT ![t] = @ \cup {field[o]}]
  /\ UNCHANGED <<heapVars, bitmapVars, internVars, allow_new_weaks, barrier,
                 getting, stepVars, cycleVars, mark_stack, queueVars, refVars>>

\* A local variable goes out of scope.
DropRoot(t, o) ==
  /\ Running(t) /\ o \in root[t]
  /\ root' = [root EXCEPT ![t] = @ \ {o}]
  /\ UNCHANGED <<heapVars, bitmapVars, internVars, allow_new_weaks, barrier,
                 getting, stepVars, cycleVars, mark_stack, queueVars, refVars>>

\* Mistaken variant: the store is not followed by a write barrier.
SetFieldObject_NoBarrier(t, o, new_value) ==
  /\ Running(t) /\ o \in root[t] \ Reference
  /\ new_value \in root[t] \cup {NoObject}
  /\ field' = [field EXCEPT ![o] = new_value]
  /\ UNCHANGED <<allocated, referent, kind, card, bitmapVars, internVars,
                 allow_new_weaks, mutatorVars, stepVars, cycleVars,
                 mark_stack, queueVars, refVars>>

\* Object::SetFieldObject writes the field first ...
SetFieldObject(t, o, new_value) ==
  /\ Running(t) /\ o \in root[t] \ Reference
  /\ new_value \in root[t] \cup {NoObject}
  /\ field' = [field EXCEPT ![o] = new_value]
  /\ barrier' = [barrier EXCEPT ![t] = IF new_value = NoObject THEN NoObject ELSE o]
  /\ UNCHANGED <<allocated, referent, kind, card, bitmapVars, internVars,
                 allow_new_weaks, root, getting, stepVars, cycleVars,
                 mark_stack, queueVars, refVars>>

\* ... and WriteBarrierField then dirties the card.
WriteBarrierField(t) ==
  /\ ~paused /\ barrier[t] # NoObject
  /\ card' = [card EXCEPT ![barrier[t]] = kCardDirty]
  /\ barrier' = [barrier EXCEPT ![t] = NoObject]
  /\ UNCHANGED <<allocated, field, referent, kind, bitmapVars, internVars,
                 allow_new_weaks, root, getting, stepVars, cycleVars,
                 mark_stack, queueVars, refVars>>

\* InternTable::Insert: all members of String are equal, so a table holds at
\* most one of them.  The caller waits while new system weaks are disallowed.
InternInsert(t, s, is_strong) ==
  LET strong == strong_interns
      weak == weak_interns
      log(S) == IF log_new_roots THEN new_strong_intern_roots \cup S
                ELSE new_strong_intern_roots
      result == IF strong # {} THEN strong ELSE IF weak # {} THEN weak ELSE {s}
  IN
  /\ Running(t) /\ allow_new_weaks /\ s \in root[t] \cap String
  /\ root' = [root EXCEPT ![t] = @ \cup result]
  /\ IF is_strong /\ strong = {}
     THEN /\ strong_interns' = result
          /\ weak_interns' = {}
          /\ new_strong_intern_roots' = log(result)
     ELSE /\ weak_interns' = IF strong = {} THEN result ELSE weak
          /\ UNCHANGED <<strong_interns, new_strong_intern_roots>>
  /\ UNCHANGED <<heapVars, bitmapVars, log_new_roots, allow_new_weaks, barrier,
                 getting, stepVars, cycleVars, mark_stack, queueVars, refVars>>

-----------------------------------------------------------------------------
(* ReferenceProcessor::GetReferent, called by a mutator. *)

Return(t, o) ==
  /\ root' = [root EXCEPT ![t] = @ \cup ({o} \ {NoObject})]
  /\ getting' = [getting EXCEPT ![t] = NoGet]

\* The first load, of the referent ...
GetReferent(t, r) ==
  /\ Running(t) /\ r \in root[t] \cap Reference /\ kind[r] # "phantom"
  /\ getting' = [getting EXCEPT ![t] =
                   [at |-> "loaded", ref |-> r, value |-> referent[r]]]
  /\ UNCHANGED <<heapVars, bitmapVars, internVars, allow_new_weaks, root, barrier,
                 stepVars, cycleVars, mark_stack, queueVars, refVars>>

\* ... and the second, of the slow path flag.
SlowPathEnabled(t) ==
  /\ ~paused /\ getting[t].at = "loaded"
  /\ IF ~slow_path \/ getting[t].value = NoObject
     THEN Return(t, getting[t].value)
     ELSE /\ getting' = [getting EXCEPT ![t].at = "slow", ![t].value = NoObject]
          /\ UNCHANGED root
  /\ UNCHANGED <<heapVars, bitmapVars, internVars, allow_new_weaks, barrier,
                 stepVars, cycleVars, mark_stack, queueVars, refVars>>

\* The referent may be given out while references are processed.
CanReturn(r) ==
  \/ referent[r] = NoObject
  \/ /\ is_marked_callback /\ referent[r] \in mark_bitmap
     /\ \/ ~preserving_references
        \/ kind[r] # "finalizer" /\ r \notin enqueued

\* The loop of the slow path under reference_processor_lock_; a caller that may
\* not return waits for a broadcast and looks again.
GetReferentSlow(t) ==
  /\ ~paused /\ getting[t].at = "slow"
  /\ ~slow_path \/ CanReturn(getting[t].ref)
  /\ Return(t, referent[getting[t].ref])
  /\ UNCHANGED <<heapVars, bitmapVars, internVars, allow_new_weaks, barrier,
                 stepVars, cycleVars, mark_stack, queueVars, refVars>>

-----------------------------------------------------------------------------
(* Marking. *)

\* Objects reachable from S along edge e: members of every closed superset.
Closure(S, e(_)) ==
  {o \in Object : \A C \in SUBSET Object :
      (S \subseteq C /\ \A p \in C : e(p) \subseteq C) => o \in C}

Fields(o) == {field[o]} \ {NoObject}
FieldsAndReferent(o) ==
  Fields(o) \cup IF o \in Reference THEN {referent[o]} \ {NoObject} ELSE {}

\* Stores that are under way hold what they store in a register: it is in root.
Roots == UNION {root[t] : t \in Mutator} \cup strong_interns
Reachable == Closure(Roots, Fields)
ReachableOrWeak == Closure(Roots \cup weak_interns, FieldsAndReferent)

\* MarkObjectNonNull and MarkObjectNonNullParallel for the members of S.
MarkObjects(S) ==
  /\ mark_bitmap' = mark_bitmap \cup S
  /\ mark_stack' = mark_stack \cup (S \ mark_bitmap)

\* DelayReferenceReferent: o is put on the queue of its class.
Delayed(o) ==
  IF /\ o \in Reference
     /\ referent[o] # NoObject
     /\ referent[o] \notin mark_bitmap
  THEN {o} ELSE {}

\* ScanObject for the members of S, which leave the mark stack.
ScanObjects(S) ==
  LET found == UNION {Fields(o) : o \in S}
  IN /\ mark_bitmap' = mark_bitmap \cup found
     /\ mark_stack' = (mark_stack \ S) \cup (found \ mark_bitmap)
     /\ enqueued' = enqueued \cup UNION {Delayed(o) : o \in S}
     /\ UNCHANGED cleared_references

\* The loop at this step has one item fewer; the last item ends the step.
LoopOver(item, next, items) ==
  IF todo = {item} THEN step' = next /\ todo' = items
                   ELSE step' = step /\ todo' = todo \ {item}

\* RunPhases: a cycle starts.  StickyMarkSweep::BindBitmaps makes the live
\* bitmap the mark bitmap, so that all old objects count as marked.
RunPhases(type, concurrent, clear) ==
  /\ step = "idle"
  /\ concurrent \/ \A t \in Mutator : AtSafepoint(t)
  /\ gc_type' = type /\ is_concurrent' = concurrent
  /\ clear_soft' = (clear \/ type # "sticky")
  /\ paused' = ~concurrent
  /\ mark_bitmap' = IF type = "sticky" THEN live_bitmap ELSE mark_bitmap
  /\ doomed' = IF type = "full" THEN allocated \ ReachableOrWeak ELSE {}
  /\ step' = "age1" /\ todo' = {}
  /\ UNCHANGED <<heapVars, live_bitmap, allocation_stack, live_stack, internVars,
                 allow_new_weaks, mutatorVars, mark_stack, queueVars, refVars>>

\* Heap::ProcessCards with AgeCardVisitor: ModifyCardsAtomic ages the cards of a
\* word with one compare-and-swap, and the model's cards are in one word.
ProcessCards ==
  /\ step \in {"age1", "age2"}
  /\ card' = [c \in Object |-> IF card[c] = kCardDirty THEN kCardAged ELSE kCardClean]
  /\ step' = IF step = "age1" THEN "roots1" ELSE "roots2"
  /\ todo' = IF is_concurrent THEN Mutator ELSE {}
  /\ UNCHANGED <<allocated, field, referent, kind, bitmapVars, internVars,
                 allow_new_weaks, mutatorVars, paused, cycleVars, mark_stack,
                 queueVars, refVars>>

\* CheckpointMarkThreadRoots::Run for one thread; the collector waits at
\* gc_barrier_ for all of them.
MarkThreadRoots(t) ==
  /\ step \in {"roots1", "roots2"} /\ is_concurrent
  /\ t \in todo /\ AtSafepoint(t)
  /\ MarkObjects(root[t])
  /\ LoopOver(t, IF step = "roots1" THEN "interns1" ELSE "interns2", {})
  /\ UNCHANGED <<heapVars, live_bitmap, allocation_stack, live_stack, internVars,
                 allow_new_weaks, mutatorVars, paused, cycleVars, queueVars, refVars>>

\* Where marking goes after the roots.  StickyMarkSweep::MarkReachableObjects
\* drops the mark stack and scans the aged and dirty cards instead.
AfterRoots ==
  IF gc_type = "sticky" THEN step' = "scan1" /\ todo' = Object
                        ELSE step' = "trace1" /\ todo' = {}

\* MarkConcurrentRoots of MarkRoots: all strong interns, and new ones are
\* logged from now on.
MarkConcurrentRoots ==
  /\ step = "interns1"
  /\ mark_bitmap' = mark_bitmap \cup strong_interns
  /\ mark_stack' = IF gc_type = "sticky" THEN {}
                   ELSE mark_stack \cup (strong_interns \ mark_bitmap)
  /\ log_new_roots' = TRUE
  /\ AfterRoots
  /\ UNCHANGED <<heapVars, live_bitmap, allocation_stack, live_stack,
                 strong_interns, weak_interns, new_strong_intern_roots,
                 allow_new_weaks, mutatorVars, paused, cycleVars, queueVars, refVars>>

\* MarkRoots when the mutator lock is held exclusively: Runtime::VisitRoots.
MarkRootsPaused ==
  /\ step = "roots1" /\ ~is_concurrent
  /\ mark_bitmap' = mark_bitmap \cup Roots
  /\ mark_stack' = IF gc_type = "sticky" THEN {} ELSE mark_stack \cup (Roots \ mark_bitmap)
  /\ AfterRoots
  /\ UNCHANGED <<heapVars, live_bitmap, allocation_stack, live_stack, internVars,
                 allow_new_weaks, mutatorVars, paused, cycleVars, queueVars, refVars>>

\* CardTable::Scan over one card: a marked object on a card of at least the
\* minimum age is scanned.  Concurrently from aged cards on, in the pause only
\* dirty ones.
ScanCard(c) ==
  LET minimum_age == IF step = "scan3" THEN kCardDirty ELSE kCardAged
  IN
  /\ step \in {"scan1", "scan2", "scan3"} /\ c \in todo
  /\ \A d \in todo : Address[c] =< Address[d]
  /\ ScanObjects(IF c \in mark_bitmap /\ card[c] >= minimum_age THEN {c} ELSE {})
  /\ LoopOver(c, CASE step = "scan1" -> "trace1" [] step = "scan2" -> "trace2"
                   [] OTHER -> "trace3", {})
  /\ UNCHANGED <<heapVars, live_bitmap, allocation_stack, live_stack, internVars,
                 allow_new_weaks, mutatorVars, paused, cycleVars, refVars>>

TraceSteps == {"trace1", "trace2", "trace3", "trace4", "trace5"}

\* ProcessMarkStack, one object.
ProcessMarkStack(o) ==
  /\ step \in TraceSteps /\ o \in mark_stack
  /\ ScanObjects({o})
  /\ UNCHANGED <<heapVars, live_bitmap, allocation_stack, live_stack, internVars,
                 allow_new_weaks, mutatorVars, stepVars, cycleVars, refVars>>

\* The mark stack is empty.  A paused cycle has no cards to pre-clean, and
\* tracing from preserved referents ends with StopPreservingReferences.
MarkStackEmpty ==
  /\ step \in TraceSteps /\ mark_stack = {}
  /\ step' = CASE step = "trace1" -> IF is_concurrent THEN "age2" ELSE "swap"
               [] step = "trace2" -> "pause"
               [] step = "trace3" -> "swap"
               [] step = "trace4" -> "clear1"
               [] OTHER -> "clear2"
  /\ preserving_references' = FALSE
  /\ UNCHANGED <<heapVars, bitmapVars, internVars, allow_new_weaks, mutatorVars,
                 todo, paused, cycleVars, mark_stack, queueVars, slow_path,
                 is_marked_callback>>

\* MarkConcurrentRoots of PreCleanCards: the logged interns, and the log is
\* cleared.
MarkNewRoots ==
  /\ step = "interns2"
  /\ MarkObjects(new_strong_intern_roots)
  /\ new_strong_intern_roots' = {}
  /\ step' = "scan2" /\ todo' = Object
  /\ UNCHANGED <<heapVars, live_bitmap, allocation_stack, live_stack,
                 strong_interns, weak_interns, log_new_roots, allow_new_weaks,
                 mutatorVars, paused, cycleVars, queueVars, refVars>>

-----------------------------------------------------------------------------
(* PausePhase. *)

\* ScopedPause: every mutator is suspended.
SuspendAll ==
  /\ step = "pause" /\ \A t \in Mutator : AtSafepoint(t)
  /\ paused' = TRUE /\ step' = "remark"
  /\ UNCHANGED <<heapVars, bitmapVars, internVars, allow_new_weaks, mutatorVars,
                 todo, cycleVars, mark_stack, queueVars, refVars>>

\* ReMarkRoots: the roots of the threads, the interns logged since, and logging
\* stops.
ReMarkRoots ==
  /\ step = "remark"
  /\ MarkObjects(UNION {root[t] : t \in Mutator} \cup new_strong_intern_roots)
  /\ new_strong_intern_roots' = {} /\ log_new_roots' = FALSE
  /\ step' = "scan3" /\ todo' = Object
  /\ UNCHANGED <<heapVars, live_bitmap, allocation_stack, live_stack,
                 strong_interns, weak_interns, allow_new_weaks, mutatorVars,
                 paused, cycleVars, queueVars, refVars>>

\* Heap::SwapStacks, DisallowNewSystemWeaks, EnableSlowPath, and the mutators
\* are resumed.
SwapStacks ==
  /\ step = "swap"
  /\ allocation_stack' = live_stack /\ live_stack' = allocation_stack
  /\ allow_new_weaks' = FALSE
  /\ slow_path' = TRUE
  /\ paused' = FALSE /\ step' = "refs"
  /\ UNCHANGED <<heapVars, live_bitmap, mark_bitmap, internVars, mutatorVars, todo,
                 cycleVars, mark_stack, queueVars, is_marked_callback,
                 preserving_references>>

-----------------------------------------------------------------------------
(* ReclaimPhase: ReferenceProcessor::ProcessReferences. *)

White(r) == referent[r] # NoObject /\ referent[r] \notin mark_bitmap
Queue(kinds) == {r \in enqueued : kind[r] \in kinds}

\* The callbacks are installed; soft referents are preserved unless they are to
\* be cleared.
ProcessReferences ==
  /\ step = "refs"
  /\ is_marked_callback' = TRUE
  /\ preserving_references' = ~clear_soft
  /\ step' = IF clear_soft THEN "clear1" ELSE "forward"
  /\ UNCHANGED <<heapVars, bitmapVars, internVars, allow_new_weaks, mutatorVars,
                 todo, paused, cycleVars, mark_stack, queueVars, slow_path>>

\* Mistaken variant: the walk along the circular queue does not end at its head.
ForwardSoftReferences_Endless ==
  /\ step = "forward"
  /\ MarkObjects({referent[r] : r \in Queue({"soft"})} \ {NoObject})
  /\ step' = IF Queue({"soft"}) = {} THEN "trace4" ELSE step
  /\ UNCHANGED <<heapVars, live_bitmap, allocation_stack, live_stack, internVars,
                 allow_new_weaks, mutatorVars, todo, paused, cycleVars, queueVars, refVars>>

\* ForwardSoftReferences marks the referents; the queue keeps its members.
ForwardSoftReferences ==
  /\ step = "forward"
  /\ MarkObjects({referent[r] : r \in Queue({"soft"})} \ {NoObject})
  /\ step' = "trace4"
  /\ UNCHANGED <<heapVars, live_bitmap, allocation_stack, live_stack, internVars,
                 allow_new_weaks, mutatorVars, todo, paused, cycleVars, queueVars, refVars>>

\* The queues that ClearWhiteReferences empties.
Clearing == IF step = "clear1" THEN {"soft", "weak"} ELSE {"soft", "weak", "phantom"}

\* Mistaken variant: the referent is not cleared.
ClearWhiteReference_Kept(r) ==
  /\ step \in {"clear1", "clear2"} /\ r \in Queue(Clearing)
  /\ enqueued' = enqueued \ {r}
  /\ cleared_references' = cleared_references \cup IF White(r) THEN {r} ELSE {}
  /\ UNCHANGED <<heapVars, bitmapVars, internVars, allow_new_weaks, mutatorVars,
                 stepVars, cycleVars, mark_stack, refVars>>

\* ClearWhiteReferences, one reference: a white referent is cleared.
ClearWhiteReference(r) ==
  /\ step \in {"clear1", "clear2"} /\ r \in Queue(Clearing)
  /\ enqueued' = enqueued \ {r}
  /\ IF White(r)
     THEN /\ referent' = [referent EXCEPT ![r] = NoObject]
          /\ cleared_references' = cleared_references \cup {r}
     ELSE UNCHANGED <<referent, cleared_references>>
  /\ UNCHANGED <<allocated, field, kind, card, bitmapVars, internVars,
                 allow_new_weaks, mutatorVars, stepVars, cycleVars, mark_stack, refVars>>

\* The queues are empty; after the first pass finalizable objects are preserved.
WhiteReferencesCleared ==
  /\ step \in {"clear1", "clear2"} /\ Queue(Clearing) = {}
  /\ step' = IF step = "clear1" THEN "finalize" ELSE "refsDone"
  /\ preserving_references' = (step = "clear1")
  /\ UNCHANGED <<heapVars, bitmapVars, internVars, allow_new_weaks, mutatorVars,
                 todo, paused, cycleVars, mark_stack, queueVars, slow_path,
                 is_marked_callback>>

\* EnqueueFinalizerReferences, one reference: a white referent is marked and
\* moves to the zombie field, which goes through the write barrier.
EnqueueFinalizerReference(r) ==
  /\ step = "finalize" /\ r \in Queue({"finalizer"})
  /\ enqueued' = enqueued \ {r}
  /\ IF White(r)
     THEN /\ MarkObjects({referent[r]})
          /\ field' = [field EXCEPT ![r] = referent[r]]
          /\ card' = [card EXCEPT ![r] = kCardDirty]
          /\ referent' = [referent EXCEPT ![r] = NoObject]
          /\ cleared_references' = cleared_references \cup {r}
     ELSE UNCHANGED <<mark_bitmap, mark_stack, field, card, referent, cleared_references>>
  /\ UNCHANGED <<allocated, kind, live_bitmap, allocation_stack, live_stack,
                 internVars, allow_new_weaks, mutatorVars, stepVars, cycleVars, refVars>>

FinalizerReferencesEnqueued ==
  /\ step = "finalize" /\ Queue({"finalizer"}) = {}
  /\ step' = "trace5"
  /\ UNCHANGED <<heapVars, bitmapVars, internVars, allow_new_weaks, mutatorVars,
                 todo, paused, cycleVars, mark_stack, queueVars, refVars>>

\* The callback is removed, and DisableSlowPath.
DisableSlowPath ==
  /\ step = "refsDone"
  /\ PreemptedGet \/ \A t \in Mutator : getting[t].at # "loaded"
  /\ is_marked_callback' = FALSE /\ slow_path' = FALSE
  /\ step' = "weaks"
  /\ UNCHANGED <<heapVars, bitmapVars, internVars, allow_new_weaks, mutatorVars,
                 todo, paused, cycleVars, mark_stack, queueVars, preserving_references>>

-----------------------------------------------------------------------------
(* ReclaimPhase: the sweeps. *)

\* SweepSystemWeaks: InternTable::SweepInternTableWeaks.
SweepSystemWeaks ==
  /\ step = "weaks"
  /\ weak_interns' = weak_interns \cap mark_bitmap
  /\ step' = "allow"
  /\ UNCHANGED <<heapVars, bitmapVars, strong_interns, new_strong_intern_roots,
                 log_new_roots, allow_new_weaks, mutatorVars, todo, paused,
                 cycleVars, mark_stack, queueVars, refVars>>

AllowNewSystemWeaks ==
  /\ step = "allow"
  /\ allow_new_weaks' = TRUE
  /\ step' = "sweep"
  /\ UNCHANGED <<heapVars, bitmapVars, internVars, mutatorVars, todo, paused,
                 cycleVars, mark_stack, queueVars, refVars>>

\* Mistaken variant: objects allocated since the last cycle are not swept.
Sweep_ForgetsLiveStack ==
  LET live == live_bitmap
  IN
  /\ step = "sweep"
  /\ live_stack' = {}
  /\ todo' = live \ mark_bitmap
  /\ step' = IF live \subseteq mark_bitmap THEN "finish" ELSE "free"
  /\ UNCHANGED <<heapVars, live_bitmap, mark_bitmap, allocation_stack, internVars,
                 allow_new_weaks, mutatorVars, paused, cycleVars, mark_stack,
                 queueVars, refVars>>

\* What is to be freed.  MarkSweep::Sweep marks the live stack as live and
\* frees what is live and not marked; StickyMarkSweep sweeps the live stack.
Sweep ==
  LET live == IF gc_type = "sticky" THEN live_stack ELSE live_bitmap \cup live_stack
  IN
  /\ step = "sweep"
  /\ live_bitmap' = IF gc_type = "sticky" THEN live_bitmap ELSE live
  /\ live_stack' = {}
  /\ todo' = live \ mark_bitmap
  /\ step' = IF live \subseteq mark_bitmap THEN "finish" ELSE "free"
  /\ UNCHANGED <<heapVars, mark_bitmap, allocation_stack, internVars,
                 allow_new_weaks, mutatorVars, paused, cycleVars, mark_stack,
                 queueVars, refVars>>

\* An object is returned to its space, and may be allocated again at once.
Free(o) ==
  /\ step = "free" /\ o \in todo
  /\ allocated' = allocated \ {o}
  /\ field' = [field EXCEPT ![o] = NoObject]
  /\ referent' = IF o \in Reference THEN [referent EXCEPT ![o] = NoObject] ELSE referent
  /\ kind' = IF o \in Reference THEN [kind EXCEPT ![o] = "weak"] ELSE kind
  /\ doomed' = doomed \ {o}
  /\ LoopOver(o, "finish", {})
  /\ UNCHANGED <<card, bitmapVars, internVars, allow_new_weaks, mutatorVars,
                 paused, gc_type, is_concurrent, clear_soft, mark_stack, queueVars,
                 refVars>>

\* SwapBitmaps, UnBindBitmaps and ClearMarkedObjects: what is marked is live,
\* and no object is marked.
FinishPhase ==
  /\ step = "finish"
  /\ live_bitmap' = mark_bitmap /\ mark_bitmap' = {}
  /\ step' = IF cleared_references = {} THEN "idle" ELSE "enqueue"
  /\ gc_type' = "none" /\ is_concurrent' = FALSE /\ clear_soft' = FALSE
  /\ doomed' = {}
  /\ UNCHANGED <<heapVars, allocation_stack, live_stack, internVars,
                 allow_new_weaks, mutatorVars, todo, paused, mark_stack, queueVars,
                 refVars>>

\* EnqueueClearedReferences: ReferenceQueue.add gets the list, and t takes from
\* the queues.
EnqueueClearedReferences(t) ==
  /\ step = "enqueue"
  /\ root' = [root EXCEPT ![t] = @ \cup cleared_references]
  /\ cleared_references' = {}
  /\ step' = "idle"
  /\ UNCHANGED <<heapVars, bitmapVars, internVars, allow_new_weaks, barrier, getting,
                 todo, paused, cycleVars, mark_stack, enqueued, refVars>>

-----------------------------------------------------------------------------
\* A mutator ends the operation it is in, or begins one.
EndOperation(t) == WriteBarrierField(t) \/ SlowPathEnabled(t) \/ GetReferentSlow(t)

BeginOperation(t) ==
  \/ \E o \in Object : AllocObject(t, o) \/ LoadField(t, o) \/ DropRoot(t, o)
  \/ \E o \in Object, v \in Object \cup {NoObject} : SetFieldObject(t, o, v)
  \/ \E r \in Reference, o \in Object, k \in ReferenceKinds : AllocReference(t, r, o, k)
  \/ \E s \in String, is_strong \in BOOLEAN : InternInsert(t, s, is_strong)
  \/ \E r \in Reference : GetReferent(t, r)

\* A cycle that has started goes on.
CollectorStep ==
  \/ \E t \in Mutator : MarkThreadRoots(t) \/ EnqueueClearedReferences(t)
  \/ \E o \in Object : ScanCard(o) \/ ProcessMarkStack(o) \/ Free(o)
  \/ \E r \in Reference : ClearWhiteReference(r) \/ EnqueueFinalizerReference(r)
  \/ ProcessCards \/ MarkConcurrentRoots \/ MarkRootsPaused \/ MarkStackEmpty \/ MarkNewRoots
  \/ SuspendAll \/ ReMarkRoots \/ SwapStacks
  \/ ProcessReferences \/ ForwardSoftReferences \/ WhiteReferencesCleared
  \/ FinalizerReferencesEnqueued \/ DisableSlowPath
  \/ SweepSystemWeaks \/ AllowNewSystemWeaks \/ Sweep \/ FinishPhase

StartCycle ==
  \E type \in GcTypes, concurrent \in Concurrent, clear \in BOOLEAN :
     RunPhases(type, concurrent, clear)

Next == StartCycle \/ CollectorStep \/ \E t \in Mutator : BeginOperation(t) \/ EndOperation(t)

Spec == Init /\ [][Next]_vars

\* A collector thread is never held up but by mutators, which reach the end of
\* the operation they are in.
FairSpec ==
  /\ Spec
  /\ WF_vars(CollectorStep)
  /\ \A t \in Mutator : WF_vars(EndOperation(t))

-----------------------------------------------------------------------------
(* Properties. *)

\* No object a mutator can reach is ever freed, whatever writes, allocations
\* and interning raced with the cycle that swept the heap.
ReachableIsAllocated == Reachable \subseteq allocated

\* A referent that GetReferent is about to return without taking the lock is an
\* object: the slow path is enabled while all mutators are paused "since there
\* is no lock in the GetReferent fast path".
FastPathIsSafe ==
  \A t \in Mutator :
     (getting[t].at = "loaded" /\ ~slow_path) => getting[t].value \in allocated \cup {NoObject}

\* What is reachable only weakly is not freed either before the way to it is
\* closed: no intern table entry, and no referent of a reachable Reference,
\* is a freed object.
WeaksAreValid ==
  /\ weak_interns \subseteq allocated
  /\ \A r \in Reference \cap Reachable : referent[r] \in allocated \cup {NoObject}

\* A full cycle frees all that was garbage when it began.
GarbageIsFreed == step = "finish" => doomed = {}

\* A GetReferent call that went to the slow path returns.
GetReferentReturns ==
  \A t \in Mutator : (getting[t].at = "slow") ~> (getting[t].at = "none")

=============================================================================
