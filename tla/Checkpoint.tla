------------------------------ MODULE Checkpoint ------------------------------
(***************************************************************************)
(* Checkpoints: running a closure once on behalf of every thread without   *)
(* stopping the world, and the barrier the requester waits at.             *)
(* ThreadList::RunCheckpoint and RunCheckpointOnRunnableThreads,           *)
(* Thread::RequestCheckpoint and RunCheckpointFunction, class Barrier and  *)
(* the closures of mark_sweep.cc, heap.cc, profiler.cc and                 *)
(* ThreadList::Dump.                                                       *)
(*                                                                         *)
(* The list of threads is fixed here.  A thread's state word changes       *)
(* without any lock, so the load and the compare-exchange of               *)
(* RequestCheckpoint are steps of their own; the slots, the flags and the  *)
(* counts change only under thread_suspend_count_lock_, which is explicit. *)
(* Shares of mutator_lock_ are the subject of ThreadSuspension.            *)
(***************************************************************************)
EXTENDS Integers, FiniteSets, Threads

CONSTANTS
    Requester,         \* threads that call RunCheckpoint...: GC or trim, signal catcher, profiler
    Dumper,            \* requesters whose closure becomes runnable to run (DumpCheckpoint)
    Sampler,           \* requesters that call RunCheckpointOnRunnableThreads (profiler)
    kMaxCheckpoints,
    MaxRounds          \* bound: checkpoints each requester asks for

\* There are slots enough for all requesters.
CheckpointConstants ==
    /\ NoThread \notin Thread /\ IsFiniteSet(Thread)
    /\ Requester \subseteq Thread /\ Dumper \subseteq Requester /\ Sampler \subseteq Requester \ Dumper
    /\ kMaxCheckpoints \in Nat /\ Cardinality(Requester) <= kMaxCheckpoints
    /\ MaxRounds \in Nat

ASSUME CheckpointAssumption == CheckpointConstants

VARIABLES
    cp_pc,
    count_lock,            \* who holds thread_suspend_count_lock_ over several steps
    suspend_count,
    checkpoint_request,    \* the flag kCheckpointRequest of each thread
    checkpoint_functions,  \* the requesters whose closures fill the thread's slots
    collected,             \* RunCheckpointFunction: closures copied and not run yet
    back,                  \* where the thread goes on after RunCheckpointFunction
    resume_waiters,        \* threads asleep on resume_cond_
    todo,                  \* RunCheckpoint: threads of list_ not visited yet
    subject,               \* RunCheckpoint: the thread being visited
    modified,              \* suspended_count_modified_threads
    count,                 \* RunCheckpoint: the result so far
    barrier,               \* Barrier::count_ of each requester
    barrier_waiters,       \* requesters asleep at their barrier
    rounds,
    ran                    \* how often each thread ran the requester's current closure

slotVars    == <<checkpoint_request, checkpoint_functions, collected, back>>
visitVars   == <<todo, subject, modified, count, rounds>>
barrierVars == <<barrier, barrier_waiters, ran>>
checkpointVars ==
    <<cp_pc, count_lock, suspend_count, resume_waiters, slotVars, visitVars, barrierVars>>

RunnablePcs == {"runnable", "running", "dump", "dumpExit"}
RequestPcs == {"visit", "retry", "cas", "failed", "raise", "runSelf", "others", "dumpEnter", "pass",
               "lower", "broadcast", "increment", "await"}
Pcs == {"native", "toRunnable"} \cup RunnablePcs \cup RequestPcs

CpAt(t, label) == cp_pc[t] = label
CpGoto(t, label) == cp_pc' = [cp_pc EXCEPT ![t] = label]
LockFree == count_lock = NoThread

IsRunnable(t) == cp_pc[t] \in RunnablePcs
IsSuspended(t) == ~IsRunnable(t) /\ suspend_count[t] > 0

CheckpointInit ==
    /\ cp_pc \in [Thread -> {"native", "runnable"}]
    /\ count_lock = NoThread
    /\ suspend_count = [t \in Thread |-> 0]
    /\ checkpoint_request = [t \in Thread |-> FALSE]
    /\ checkpoint_functions = [t \in Thread |-> {}]
    /\ collected = [t \in Thread |-> {}]
    /\ back = [t \in Thread |-> "runnable"]
    /\ resume_waiters = {}
    /\ todo = [r \in Requester |-> {}]
    /\ subject = [r \in Requester |-> NoThread]
    /\ modified = [r \in Requester |-> {}]
    /\ count = [r \in Requester |-> 0]
    /\ barrier = [r \in Requester |-> 0]
    /\ barrier_waiters = {}
    /\ rounds = [r \in Requester |-> 0]
    /\ ran = [r \in Requester |-> [t \in Thread |-> 0]]

-----------------------------------------------------------------------------
(* The threads that are asked *)

CallToRunnable(t) ==
    /\ CpAt(t, "native")
    /\ CpGoto(t, "toRunnable")
    /\ UNCHANGED <<count_lock, suspend_count, resume_waiters, slotVars, visitVars, barrierVars>>

\* Thread::TransitionFromSuspendedToRunnable with a suspend request: wait under the lock.
WaitWhileSuspended(t) ==
    /\ cp_pc[t] \in {"toRunnable", "dumpEnter"} /\ t \notin resume_waiters
    /\ suspend_count[t] > 0 /\ LockFree
    /\ resume_waiters' = resume_waiters \cup {t}
    /\ UNCHANGED <<cp_pc, count_lock, suspend_count, slotVars, visitVars, barrierVars>>

\* ... and without one: compare-exchange to kRunnable.
BecomeRunnable(t) ==
    /\ cp_pc[t] \in {"toRunnable", "dumpEnter"} /\ t \notin resume_waiters
    /\ suspend_count[t] = 0
    /\ CpGoto(t, IF CpAt(t, "dumpEnter") THEN "dump" ELSE "runnable")
    /\ UNCHANGED <<count_lock, suspend_count, resume_waiters, slotVars, visitVars, barrierVars>>

\* Thread::TransitionFromRunnableToSuspended: not while a checkpoint is requested.
ToSuspended(t, from, to) ==
    /\ CpAt(t, from)
    /\ ~checkpoint_request[t]
    /\ CpGoto(t, to)
    /\ UNCHANGED <<count_lock, suspend_count, resume_waiters, slotVars, visitVars, barrierVars>>

CallToSuspended(t) == ToSuspended(t, "runnable", "native")

\* CheckSuspend without a checkpoint request: FullSuspendCheck.
FullSuspendCheck(t) == suspend_count[t] > 0 /\ ToSuspended(t, "runnable", "toRunnable")

\* Thread::RunCheckpointFunction: take the closures and clear the flag under the lock ...
CollectCheckpoints(t) ==
    /\ cp_pc[t] \in {"runnable", "dumpExit"}
    /\ checkpoint_request[t] /\ LockFree
    /\ collected' = [collected EXCEPT ![t] = checkpoint_functions[t]]
    /\ checkpoint_functions' = [checkpoint_functions EXCEPT ![t] = {}]
    /\ checkpoint_request' = [checkpoint_request EXCEPT ![t] = FALSE]
    /\ back' = [back EXCEPT ![t] = cp_pc[t]]
    /\ CpGoto(t, "running")
    /\ UNCHANGED <<count_lock, suspend_count, resume_waiters, visitVars, barrierVars>>

\* Closure::Run(t) ends with Barrier::Pass: count down, wake the requester at zero.
Pass(r, t) ==
    /\ ran' = [ran EXCEPT ![r][t] = @ + 1]
    /\ barrier' = [barrier EXCEPT ![r] = @ - 1]
    /\ barrier_waiters' = IF barrier[r] = 1 THEN barrier_waiters \ {r} ELSE barrier_waiters

\* ... and run them outside of it.
RunCollected(t) ==
    /\ CpAt(t, "running")
    /\ \/ \E r \in collected[t] :
             /\ Pass(r, t)
             /\ collected' = [collected EXCEPT ![t] = @ \ {r}]
             /\ UNCHANGED cp_pc
       \/ /\ collected[t] = {}
          /\ CpGoto(t, back[t])
          /\ UNCHANGED <<collected, barrierVars>>
    /\ UNCHANGED <<count_lock, suspend_count, resume_waiters, checkpoint_request,
                   checkpoint_functions, back, visitVars>>

-----------------------------------------------------------------------------
(* ThreadList::RunCheckpoint *)

CallRunCheckpoint(r) ==
    /\ CpAt(r, "native") /\ rounds[r] < MaxRounds /\ LockFree
    /\ count_lock' = r
    /\ rounds' = [rounds EXCEPT ![r] = @ + 1]
    /\ todo' = [todo EXCEPT ![r] = Thread \ {r}]
    /\ count' = [count EXCEPT ![r] = 0]
    /\ ran' = [ran EXCEPT ![r] = [t \in Thread |-> 0]]
    /\ CpGoto(r, "visit")
    /\ UNCHANGED <<suspend_count, resume_waiters, slotVars, subject, modified, barrier,
                   barrier_waiters>>

\* Thread::RequestCheckpoint(t) up to the installation of the closure.
RequestCheckpoint(r, t) ==
    /\ \/ CpAt(r, "visit") /\ t \in todo[r]
       \/ CpAt(r, "retry") /\ t = subject[r]
    /\ subject' = [subject EXCEPT ![r] = t]
    /\ IF IsRunnable(t) /\ Cardinality(checkpoint_functions[t]) < kMaxCheckpoints
       THEN /\ checkpoint_functions' = [checkpoint_functions EXCEPT ![t] = @ \cup {r}]
            /\ CpGoto(r, "cas")
       ELSE /\ UNCHANGED checkpoint_functions
            /\ CpGoto(r, "failed")
    /\ UNCHANGED <<count_lock, suspend_count, resume_waiters, checkpoint_request, collected, back,
                   todo, modified, count, rounds, barrierVars>>

\* Mistaken variant: the flag is set whatever the thread's state is by now.
InstallFlag_Unconditionally(r) ==
    /\ CpAt(r, "cas")
    /\ checkpoint_request' = [checkpoint_request EXCEPT ![subject[r]] = TRUE]
    /\ count' = [count EXCEPT ![r] = @ + 1]
    /\ todo' = [todo EXCEPT ![r] = @ \ {subject[r]}]
    /\ CpGoto(r, "visit")
    /\ UNCHANGED <<count_lock, suspend_count, resume_waiters, checkpoint_functions, collected, back,
                   subject, modified, rounds, barrierVars>>

\* The compare-exchange of RequestCheckpoint; when it fails the closure is taken out again.
InstallFlag(r) ==
    /\ CpAt(r, "cas")
    /\ \/ /\ IsRunnable(subject[r])
          /\ checkpoint_request' = [checkpoint_request EXCEPT ![subject[r]] = TRUE]
          /\ count' = [count EXCEPT ![r] = @ + 1]
          /\ todo' = [todo EXCEPT ![r] = @ \ {subject[r]}]
          /\ CpGoto(r, "visit")
          /\ UNCHANGED checkpoint_functions
       \/ /\ ~IsRunnable(subject[r])
          /\ checkpoint_functions' = [checkpoint_functions EXCEPT ![subject[r]] = @ \ {r}]
          /\ CpGoto(r, "failed")
          /\ UNCHANGED <<checkpoint_request, count, todo>>
    /\ UNCHANGED <<count_lock, suspend_count, resume_waiters, collected, back, subject, modified,
                   rounds, barrierVars>>

\* RunCheckpointOnRunnableThreads skips the thread; RunCheckpoint retries when it is
\* runnable again, otherwise it goes on to keep the thread suspended.
RequestFailed(r) ==
    /\ CpAt(r, "failed")
    /\ IF r \in Sampler
       THEN todo' = [todo EXCEPT ![r] = @ \ {subject[r]}] /\ CpGoto(r, "visit")
       ELSE UNCHANGED todo /\ CpGoto(r, IF IsRunnable(subject[r]) THEN "retry" ELSE "raise")
    /\ UNCHANGED <<count_lock, suspend_count, resume_waiters, slotVars, subject, modified, count,
                   rounds, barrierVars>>

KeepSuspended(r) ==
    /\ CpAt(r, "raise")
    /\ suspend_count' = [suspend_count EXCEPT ![subject[r]] = @ + 1]
    /\ modified' = [modified EXCEPT ![r] = @ \cup {subject[r]}]
    /\ count' = [count EXCEPT ![r] = @ + 1]
    /\ todo' = [todo EXCEPT ![r] = @ \ {subject[r]}]
    /\ CpGoto(r, "visit")
    /\ UNCHANGED <<count_lock, resume_waiters, slotVars, subject, rounds, barrierVars>>

AllVisited(r) ==
    /\ CpAt(r, "visit") /\ todo[r] = {}
    /\ count_lock' = NoThread
    /\ CpGoto(r, IF r \in Sampler THEN "increment" ELSE "runSelf")
    /\ UNCHANGED <<suspend_count, resume_waiters, slotVars, visitVars, barrierVars>>

\* checkpoint_function->Run(t) by the requester: DumpCheckpoint needs to become runnable.
RunOn(r, t, next) ==
    /\ subject' = [subject EXCEPT ![r] = t]
    /\ IF r \in Dumper
       THEN CpGoto(r, "dumpEnter") /\ UNCHANGED barrierVars
       ELSE CpGoto(r, next) /\ Pass(r, t)

\* Mistaken variant: forgets "Add one for self".
RunOnSelf_NotCounted(r) ==
    /\ CpAt(r, "runSelf")
    /\ RunOn(r, r, "others")
    /\ UNCHANGED <<count_lock, suspend_count, resume_waiters, slotVars, todo, modified, count, rounds>>

RunOnSelf(r) ==
    /\ CpAt(r, "runSelf")
    /\ count' = [count EXCEPT ![r] = @ + 1]
    /\ RunOn(r, r, "others")
    /\ UNCHANGED <<count_lock, suspend_count, resume_waiters, slotVars, todo, modified, rounds>>

\* Mistaken variant: does not wait for the thread to be suspended.
RunOnSuspended_Hasty(r) ==
    /\ CpAt(r, "others")
    /\ \E t \in modified[r] : RunOn(r, t, "lower")
    /\ UNCHANGED <<count_lock, suspend_count, resume_waiters, slotVars, todo, modified, count, rounds>>

\* "We know for sure that the thread is suspended at this point."
RunOnSuspended(r) ==
    /\ CpAt(r, "others")
    /\ \E t \in modified[r] : IsSuspended(t) /\ RunOn(r, t, "lower")
    /\ UNCHANGED <<count_lock, suspend_count, resume_waiters, slotVars, todo, modified, count, rounds>>

\* DumpCheckpoint::Run inside and after its ScopedObjectAccess.
Dump(r) ==
    /\ CpAt(r, "dump")
    /\ CpGoto(r, "dumpExit")
    /\ UNCHANGED <<count_lock, suspend_count, resume_waiters, slotVars, visitVars, barrierVars>>

DumpExit(r) == ToSuspended(r, "dumpExit", "pass")

DumpPass(r) ==
    /\ CpAt(r, "pass")
    /\ Pass(r, subject[r])
    /\ CpGoto(r, IF subject[r] = r THEN "others" ELSE "lower")
    /\ UNCHANGED <<count_lock, suspend_count, resume_waiters, slotVars, visitVars>>

Lower(r) ==
    /\ CpAt(r, "lower") /\ LockFree
    /\ suspend_count' = [suspend_count EXCEPT ![subject[r]] = @ - 1]
    /\ modified' = [modified EXCEPT ![r] = @ \ {subject[r]}]
    /\ CpGoto(r, "others")
    /\ UNCHANGED <<count_lock, resume_waiters, slotVars, todo, subject, count, rounds, barrierVars>>

AllRun(r) ==
    /\ CpAt(r, "others") /\ modified[r] = {}
    /\ CpGoto(r, "broadcast")
    /\ UNCHANGED <<count_lock, suspend_count, resume_waiters, slotVars, visitVars, barrierVars>>

\* "Imitate ResumeAll".
BroadcastResume(r) ==
    /\ CpAt(r, "broadcast") /\ LockFree
    /\ resume_waiters' = {}
    /\ CpGoto(r, "increment")
    /\ UNCHANGED <<count_lock, suspend_count, slotVars, visitVars, barrierVars>>

\* Barrier::Increment by the result of RunCheckpoint; zero means everybody has passed.
Increment(r) ==
    /\ CpAt(r, "increment")
    /\ barrier' = [barrier EXCEPT ![r] = @ + count[r]]
    /\ barrier_waiters' = IF barrier'[r] = 0 THEN barrier_waiters ELSE barrier_waiters \cup {r}
    /\ CpGoto(r, "await")
    /\ UNCHANGED <<count_lock, suspend_count, resume_waiters, slotVars, visitVars, ran>>

BarrierReturns(r) ==
    /\ CpAt(r, "await") /\ r \notin barrier_waiters
    /\ CpGoto(r, "native")
    /\ subject' = [subject EXCEPT ![r] = NoThread]
    /\ UNCHANGED <<count_lock, suspend_count, resume_waiters, slotVars, todo, modified, count,
                   rounds, barrierVars>>

-----------------------------------------------------------------------------
Visit(r) ==
    \/ \E t \in Thread : RequestCheckpoint(r, t)
    \/ InstallFlag(r) \/ RequestFailed(r) \/ KeepSuspended(r) \/ AllVisited(r)

RunClosures(r) ==
    \/ RunOnSelf(r) \/ RunOnSuspended(r) \/ Dump(r) \/ DumpExit(r) \/ DumpPass(r)
    \/ Lower(r) \/ AllRun(r) \/ BroadcastResume(r) \/ Increment(r) \/ BarrierReturns(r)

SuspendPoint(t) == FullSuspendCheck(t) \/ CollectCheckpoints(t) \/ RunCollected(t)

Enter(t) == WaitWhileSuspended(t) \/ BecomeRunnable(t)

Voluntary(t) == CallToRunnable(t) \/ CallToSuspended(t)

CheckpointNext ==
    \/ \E t \in Thread : Voluntary(t) \/ Enter(t) \/ SuspendPoint(t)
    \/ \E r \in Requester : CallRunCheckpoint(r) \/ Visit(r) \/ RunClosures(r)

CheckpointSpec == CheckpointInit /\ [][CheckpointNext]_checkpointVars

\* Threads inside the runtime keep running, runnable code reaches suspend points, and
\* threads do not change their state for ever in step with the retries of RunCheckpoint.
RuntimeStep(t) == Enter(t) \/ SuspendPoint(t)
RequesterStep(r) == Visit(r) \/ RunClosures(r)
Settled == <>[][~\E t \in Thread : Voluntary(t)]_checkpointVars

CheckpointFairSpec ==
    /\ CheckpointSpec
    /\ \A t \in Thread : WF_checkpointVars(RuntimeStep(t))
    /\ \A r \in Requester : WF_checkpointVars(RequesterStep(r))
    /\ Settled

-----------------------------------------------------------------------------
\* A requested checkpoint is never left behind by a thread that stops being runnable.
RunnableUntilRun == \A t \in Thread : checkpoint_request[t] => IsRunnable(t)

\* CheckpointMarkThreadRoots' CHECK: a requester runs its closure for another thread only
\* while that thread is suspended, also when becoming runnable itself takes long.
SubjectIsSuspended ==
    \A r \in Requester :
        cp_pc[r] \in {"dumpEnter", "dump", "dumpExit", "pass", "lower"} /\ subject[r] # r =>
            IsSuspended(subject[r])

\* Is r between its call of RunCheckpoint and its return from the barrier?
Requesting(r) ==
    \/ cp_pc[r] \in RequestPcs \cup {"dump", "dumpExit"}
    \/ cp_pc[r] = "running" /\ back[r] = "dumpExit"

\* The closure and its barrier live on the requester's stack: when RunCheckpoint's caller
\* goes on, every counted thread has run the closure exactly once and nobody still has it.
EveryThreadRanOnce ==
    \A r \in Requester :
        ~Requesting(r) /\ rounds[r] > 0 =>
            /\ \A t \in Thread : r \notin checkpoint_functions[t] \cup collected[t] /\ ran[r][t] <= 1
            /\ r \notin Sampler => \A t \in Thread : ran[r][t] = 1

\* Nobody sleeps on resume_cond_ with a zero count unless a broadcast is coming.
NoLostResume ==
    \A t \in resume_waiters :
        suspend_count[t] = 0 =>
            \E r \in Requester : Requesting(r) /\ cp_pc[r] \notin {"increment", "await"}

\* A requester in RunCheckpoint always finds a slot free: retrying with the lock held
\* would otherwise never end, because emptying the slots takes the same lock.
SlotAvailable ==
    \A r \in Requester : \A t \in todo[r] :
        cp_pc[r] \in {"visit", "retry"} => Cardinality(checkpoint_functions[t]) < kMaxCheckpoints
===============================================================================
