------------------------------ MODULE MovingGc ------------------------------
(***************************************************************************)
(* Who may run a collection, and who may keep objects from moving.  Heap   *)
(* runs one collection at a time (collector_type_running_ under            *)
(* gc_complete_lock_); a thread that hands the address of an array to      *)
(* native code (GetPrimitiveArrayCritical, GetStringCritical) raises       *)
(* disable_moving_gc_count_, and the collections, compactions and          *)
(* transitions that move objects respect the count each in its own way:    *)
(* they are skipped, rejected, or tried again.                             *)
(*                                                                         *)
(* One movable array is modelled, by its address.  Entering and leaving    *)
(* kRunnable are single steps, as in DebuggerSuspension; the phases of the *)
(* collectors are ConcurrentMarkSweep's subject.                           *)
(***************************************************************************)
EXTENDS Integers, Threads

CONSTANTS
    MaxGcs  \* bound on the number of collections asked for

VARIABLES
    collector_type,           \* Heap::collector_type_
    collector_type_running,   \* Heap::collector_type_running_
    disable_moving_gc_count,  \* Heap::disable_moving_gc_count_
    last_gc_type,             \* Heap::last_gc_type_
    runtime_shutting_down,            \* Runtime::IsShuttingDown
    address,   \* where the array is
    elements,  \* the address a thread's native code uses
    runnable,  \* the threads in state kRunnable
    pauser,    \* the thread that has asked all others to suspend
    asked,     \* the collections asked for so far
    gc_pc         \* where each thread is

gcVars == <<collector_type, collector_type_running, disable_moving_gc_count,
            last_gc_type, runtime_shutting_down, asked>>
arrayVars == <<address, elements>>
threadVars == <<runnable, pauser>>
movingGcVars == <<gcVars, arrayVars, threadVars, gc_pc>>

\* Concurrent mark-sweep, which the foreground uses, and semi-space.
CollectorType == {"CMS", "SS"}

IsMovingGc(type) == type \in {"SS", "HomogeneousSpaceCompact"}

GcGoto(t, label) == gc_pc' = [gc_pc EXCEPT ![t] = label]

GcInit ==
    /\ collector_type \in CollectorType
    /\ collector_type_running = "none"
    /\ disable_moving_gc_count = 0
    /\ last_gc_type = "none"
    /\ runtime_shutting_down = FALSE
    /\ address = 0
    /\ elements = [t \in Thread |-> -1]
    /\ runnable = Thread
    /\ pauser = NoThread
    /\ asked = 0
    /\ gc_pc = [t \in Thread |-> "run"]

----------------------------------------------------------------------------
(* Critical sections of native code *)

LeaveRunnable(t) == runnable' = runnable \ {t} /\ UNCHANGED pauser

EnterRunnable(t) ==
    pauser = NoThread /\ runnable' = runnable \cup {t} /\ UNCHANGED pauser

\* GetPrimitiveArrayCritical finds the array movable and calls
\* IncrementDisableMovingGC, which leaves kRunnable.
GetPrimitiveArrayCritical(t) ==
    /\ gc_pc[t] = "run"
    /\ LeaveRunnable(t)
    /\ GcGoto(t, "increment")
    /\ UNCHANGED <<gcVars, arrayVars>>

\* Mistaken variant: a moving collection that is already running is not
\* waited for.
IncrementDisableMovingGC_NoWait(t) ==
    /\ gc_pc[t] = "increment"
    /\ disable_moving_gc_count' = disable_moving_gc_count + 1
    /\ GcGoto(t, "decode")
    /\ UNCHANGED <<collector_type, collector_type_running, last_gc_type,
                   runtime_shutting_down, asked, arrayVars, threadVars>>

\* IncrementDisableMovingGC: count, and wait for a moving collection that is
\* running.
IncrementDisableMovingGC(t) ==
    /\ gc_pc[t] = "increment"
    /\ disable_moving_gc_count' = disable_moving_gc_count + 1
    /\ GcGoto(t, IF IsMovingGc(collector_type_running) THEN "await" ELSE "decode")
    /\ UNCHANGED <<collector_type, collector_type_running, last_gc_type,
                   runtime_shutting_down, asked, arrayVars, threadVars>>

\* WaitForGcToCompleteLocked returns when no collection runs.
AwaitGc(t) ==
    /\ gc_pc[t] = "await"
    /\ collector_type_running = "none"
    /\ GcGoto(t, "decode")
    /\ UNCHANGED <<gcVars, arrayVars, threadVars>>

\* Back in kRunnable the array is decoded again, and native code gets its
\* address.
Decode(t) ==
    /\ gc_pc[t] = "decode"
    /\ EnterRunnable(t)
    /\ elements' = [elements EXCEPT ![t] = address]
    /\ GcGoto(t, "return")
    /\ UNCHANGED <<gcVars, address>>

ReturnToNative(t) ==
    /\ gc_pc[t] = "return"
    /\ LeaveRunnable(t)
    /\ GcGoto(t, "critical")
    /\ UNCHANGED <<gcVars, arrayVars>>

\* ReleasePrimitiveArrayCritical, ReleaseStringCritical: enter kRunnable and
\* call DecrementDisableMovingGC.
DecrementDisableMovingGC(t) ==
    /\ gc_pc[t] = "critical"
    /\ EnterRunnable(t)
    /\ elements' = [elements EXCEPT ![t] = -1]
    /\ disable_moving_gc_count' = disable_moving_gc_count - 1
    /\ GcGoto(t, "run")
    /\ UNCHANGED <<collector_type, collector_type_running, last_gc_type,
                   runtime_shutting_down, asked, address>>

----------------------------------------------------------------------------
(* Collections *)

\* A thread asks for a collection (CollectGarbage), a background collection
\* (ConcurrentGC), a homogeneous space compaction, or another collector than
\* the present one (TransitionCollector).
AskForGc(t, what) ==
    /\ gc_pc[t] = "run"
    /\ what = "toSS" => collector_type # "SS"
    /\ what = "toCMS" => collector_type # "CMS"
    /\ asked < MaxGcs
    /\ asked' = asked + 1
    /\ LeaveRunnable(t)
    /\ GcGoto(t, what)
    /\ UNCHANGED <<collector_type, collector_type_running,
                   disable_moving_gc_count, last_gc_type, runtime_shutting_down,
                   arrayVars>>

\* The collection is given up: the thread goes on.
GcReturn(t) == GcGoto(t, "back") /\ UNCHANGED collector_type_running

\* CollectGarbageInternal: when no collection runs, a moving one is skipped if
\* moving is disabled; a background collection may then try the next kind in
\* gc_plan_.
CollectGarbageInternal(t) ==
    /\ gc_pc[t] \in {"collect", "planned"}
    /\ collector_type_running = "none"
    /\ IF IsMovingGc(collector_type) /\ disable_moving_gc_count # 0
       THEN \/ GcReturn(t)
            \/ /\ gc_pc[t] = "planned"
               /\ GcGoto(t, "collect") /\ UNCHANGED collector_type_running
       ELSE collector_type_running' = collector_type /\ GcGoto(t, "gc")
    /\ UNCHANGED <<collector_type, disable_moving_gc_count, last_gc_type,
                   runtime_shutting_down, asked, arrayVars, threadVars>>

\* ConcurrentGC: nothing to do when the runtime shuts down; if a collection
\* was running, wait for it instead of running one.
ConcurrentGC(t) ==
    /\ gc_pc[t] = "background"
    /\ GcGoto(t, IF runtime_shutting_down THEN "back"
               ELSE IF collector_type_running = "none" THEN "planned"
               ELSE "backgroundWait")
    /\ UNCHANGED <<gcVars, arrayVars, threadVars>>

BackgroundWaited(t) ==
    /\ gc_pc[t] = "backgroundWait"
    /\ collector_type_running = "none"
    /\ GcGoto(t, IF last_gc_type = "none" THEN "planned" ELSE "back")
    /\ UNCHANGED <<gcVars, arrayVars, threadVars>>

\* PerformHomogeneousSpaceCompact is rejected if moving is disabled or the
\* collector is a moving one anyway.
PerformHomogeneousSpaceCompact(t) ==
    /\ gc_pc[t] = "compact"
    /\ collector_type_running = "none"
    /\ IF disable_moving_gc_count # 0 \/ IsMovingGc(collector_type)
       THEN GcReturn(t)
       ELSE /\ collector_type_running' = "HomogeneousSpaceCompact"
            /\ GcGoto(t, IF runtime_shutting_down THEN "finishNone" ELSE "gc")
    /\ UNCHANGED <<collector_type, disable_moving_gc_count, last_gc_type,
                   runtime_shutting_down, asked, arrayVars, threadVars>>

\* TransitionCollector to the collector that TransitionTo names, unless
\* somebody else has made the transition meanwhile.  One of the two collectors
\* moves objects, so this is a copying transition; it is tried again as long
\* as moving is disabled.
TransitionTo(t) == IF gc_pc[t] = "toSS" THEN "SS" ELSE "CMS"

TransitionCollector(t) ==
    /\ gc_pc[t] \in {"toSS", "toCMS"}
    /\ collector_type_running = "none"
    /\ \/ /\ TransitionTo(t) = collector_type
          /\ GcReturn(t)
       \/ /\ TransitionTo(t) # collector_type
          /\ disable_moving_gc_count = 0
          /\ collector_type_running' = "SS"
          /\ GcGoto(t, IF runtime_shutting_down THEN "finishNone"
                     ELSE IF TransitionTo(t) = "SS" THEN "gcToSS"
                     ELSE "gcToCMS")
    /\ UNCHANGED <<collector_type, disable_moving_gc_count, last_gc_type,
                   runtime_shutting_down, asked, arrayVars, threadVars>>

\* The collection asks all threads to suspend ...
SuspendAll(t) ==
    /\ gc_pc[t] \in {"gc", "gcToSS", "gcToCMS"}
    /\ pauser = NoThread
    /\ pauser' = t
    /\ UNCHANGED <<gcVars, arrayVars, runnable, gc_pc>>

\* ... and once they have, moves the objects if it is a moving one, installs the new collector
\* at a transition (ChangeCollector), and resumes them.
ResumeAll(t) ==
    /\ pauser = t /\ runnable = {}
    /\ pauser' = NoThread
    /\ address' = IF IsMovingGc(collector_type_running)
                  THEN 1 - address ELSE address
    /\ collector_type' = CASE gc_pc[t] = "gcToSS" -> "SS"
                           [] gc_pc[t] = "gcToCMS" -> "CMS"
                           [] OTHER -> collector_type
    /\ GcGoto(t, "finish")
    /\ UNCHANGED <<collector_type_running, disable_moving_gc_count,
                   last_gc_type, runtime_shutting_down, asked, elements, runnable>>

\* FinishGC: the next collection may run.
FinishGC(t) ==
    /\ gc_pc[t] \in {"finish", "finishNone"}
    /\ collector_type_running' = "none"
    /\ last_gc_type' = IF gc_pc[t] = "finish" THEN "full" ELSE last_gc_type
    /\ GcGoto(t, "back")
    /\ UNCHANGED <<collector_type, disable_moving_gc_count, runtime_shutting_down,
                   asked, arrayVars, threadVars>>

BackToRunnable(t) ==
    /\ gc_pc[t] = "back"
    /\ EnterRunnable(t)
    /\ GcGoto(t, "run")
    /\ UNCHANGED <<gcVars, arrayVars>>

\* A runnable thread reaches a suspend check and finds a request.
AnswerSuspendRequest(t) ==
    /\ gc_pc[t] = "run"
    /\ pauser # NoThread
    /\ LeaveRunnable(t)
    /\ GcGoto(t, "back")
    /\ UNCHANGED <<gcVars, arrayVars>>

RuntimeShutsDown ==
    /\ ~runtime_shutting_down
    /\ runtime_shutting_down' = TRUE
    /\ UNCHANGED <<collector_type, collector_type_running,
                   disable_moving_gc_count, last_gc_type, asked, arrayVars,
                   threadVars, gc_pc>>

----------------------------------------------------------------------------
GcThreadStep(t) ==
    \/ IncrementDisableMovingGC(t) \/ AwaitGc(t) \/ Decode(t)
    \/ ReturnToNative(t) \/ DecrementDisableMovingGC(t)
    \/ CollectGarbageInternal(t) \/ ConcurrentGC(t) \/ BackgroundWaited(t)
    \/ PerformHomogeneousSpaceCompact(t) \/ TransitionCollector(t)
    \/ SuspendAll(t) \/ ResumeAll(t) \/ FinishGC(t)
    \/ BackToRunnable(t) \/ AnswerSuspendRequest(t)

GcNext ==
    \/ \E t \in Thread :
          \/ GcThreadStep(t)
          \/ GetPrimitiveArrayCritical(t)
          \/ \E what \in {"collect", "background", "compact", "toSS", "toCMS"} :
                AskForGc(t, what)
    \/ RuntimeShutsDown

GcSpec == GcInit /\ [][GcNext]_movingGcVars

\* Threads go on with what they have begun, and leave critical sections.
GcFairness == \A t \in Thread : WF_movingGcVars(GcThreadStep(t))

GcFairSpec == GcSpec /\ GcFairness

----------------------------------------------------------------------------
MovingGcTypeOK ==
    /\ collector_type \in CollectorType
    /\ collector_type_running
          \in CollectorType \cup {"none", "HomogeneousSpaceCompact"}
    /\ disable_moving_gc_count \in Nat
    /\ last_gc_type \in {"none", "full"}
    /\ runtime_shutting_down \in BOOLEAN
    /\ address \in {0, 1} /\ elements \in [Thread -> {-1, 0, 1}]
    /\ runnable \subseteq Thread /\ pauser \in Thread \cup {NoThread}
    /\ asked \in 0..MaxGcs

\* The address that native code was given stays the array's address until it
\* is released: no collection, compaction or transition that was waiting,
\* beginning or running when the section was entered moves the array.
CriticalArrayStays ==
    \A t \in Thread : gc_pc[t] \in {"return", "critical"} => elements[t] = address

\* A thread waits for a collection to end, to enter a critical section or to
\* run a collection of its own.
AwaitsGc(t) ==
    gc_pc[t] \in {"await", "collect", "planned", "backgroundWait", "compact"}
=============================================================================
