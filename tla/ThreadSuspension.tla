--------------------------- MODULE ThreadSuspension ---------------------------
(***************************************************************************)
(* Stopping and resuming threads: the thread list, the suspend counts, the *)
(* shares of mutator_lock_, SuspendAll/ResumeAll, SuspendThreadByThreadId/ *)
(* Resume and attaching/detaching.  src/runtime/thread_list.cc, thread.cc, *)
(* thread-inl.h, scoped_thread_state_change.h.                             *)
(*                                                                         *)
(* A critical section under thread_list_lock_ and                          *)
(* thread_suspend_count_lock_ is one step (FutexMutex shows that these     *)
(* locks exclude each other); what a thread does to its own state word and *)
(* to mutator_lock_ without those locks is a step of its own.  The flag    *)
(* kSuspendRequest is set and cleared with suspend_count by                *)
(* ModifySuspendCount under the lock, so it is read here as the count      *)
(* being positive.  mutator_lock_ is the abstract shared/exclusive lock    *)
(* that ReaderWriterMutex implements.                                      *)
(***************************************************************************)
EXTENDS Integers, FiniteSets

CONSTANTS
    Thread,       \* native threads that may attach to the runtime
    None,         \* nullptr
    ThreadId,     \* kMaxThreadId: the ids 1..n of allocated_ids_
    Collector,    \* threads that call SuspendAll (GC, debugger, deoptimization, ...)
    Inflater      \* threads that call SuspendThreadByThreadId (Monitor::InflateThinLocked)

ASSUME ThreadAssumption == None \notin Thread /\ IsFiniteSet(Thread)
ASSUME RoleAssumption == Collector \subseteq Thread /\ Inflater \subseteq Thread
ASSUME IdAssumption == ThreadId \subseteq Nat \ {0}

VARIABLES
    list_,               \* ThreadList::list_
    suspend_all_count_,  \* ThreadList::suspend_all_count_
    allocated_ids_,      \* ThreadList::allocated_ids_
    state,               \* tls32_.state_and_flags.state: kRunnable, or kNative for the others
    suspend_count,       \* tls32_.suspend_count
    thread_id,           \* tls32_.thin_lock_thread_id, 0 when unassigned
    mutator_owner,       \* who holds mutator_lock_ exclusively
    mutator_shares,      \* who holds a share of mutator_lock_
    resume_waiters,      \* threads asleep on Thread::resume_cond_
    pc,
    op,                  \* why the thread changes state
    target_id,           \* SuspendThreadByThreadId: thread_id
    suspended_thread     \* SuspendThreadByThreadId: suspended_thread

listVars  == <<list_, suspend_all_count_, allocated_ids_, thread_id>>
lockVars  == <<mutator_owner, mutator_shares>>
callVars  == <<op, target_id, suspended_thread>>
vars == <<listVars, lockVars, callVars, state, suspend_count, resume_waiters, pc>>

kInvalidThreadId == 0

SuspendAllPcs == {"saLock", "stopped", "raCount"}
RunnablePcs == {"runnable", "search", "holding", "resumeBroadcast"}
ToRunnablePcs == {"s2rCheck", "s2rLock", "s2rWait", "s2rShare", "s2rCas"}
Pcs == {"off", "born", "native", "exiting", "r2sUnlock"}
       \cup SuspendAllPcs \cup RunnablePcs \cup ToRunnablePcs

At(t, label) == pc[t] = label
Goto(t, label) == pc' = [pc EXCEPT ![t] = label]

\* Thread::IsSuspended
IsSuspended(t) == state[t] # "kRunnable" /\ suspend_count[t] > 0

\* Thread::ModifySuspendCount(delta) on each of threads
ModifySuspendCount(threads, delta) ==
    suspend_count' = [t \in Thread |-> IF t \in threads THEN suspend_count[t] + delta
                                                        ELSE suspend_count[t]]

Init ==
    /\ list_ = {}
    /\ suspend_all_count_ = 0
    /\ allocated_ids_ = {}
    /\ state = [t \in Thread |-> "kNative"]
    /\ suspend_count = [t \in Thread |-> 0]
    /\ thread_id = [t \in Thread |-> kInvalidThreadId]
    /\ mutator_owner = None
    /\ mutator_shares = {}
    /\ resume_waiters = {}
    /\ pc = [t \in Thread |-> "off"]
    /\ op = [t \in Thread |-> "none"]
    /\ target_id = [t \in Thread |-> kInvalidThreadId]
    /\ suspended_thread = [t \in Thread |-> None]

-----------------------------------------------------------------------------
(* Attaching and detaching *)

\* ThreadList::AllocThreadId: the first free id (none free is LOG(FATAL)).
AllocThreadId(t) ==
    /\ At(t, "off")
    /\ \E id \in ThreadId \ allocated_ids_ :
          /\ \A other \in ThreadId \ allocated_ids_ : id <= other
          /\ allocated_ids_' = allocated_ids_ \cup {id}
          /\ thread_id' = [thread_id EXCEPT ![t] = id]
    /\ Goto(t, "born")
    /\ UNCHANGED <<list_, suspend_all_count_, lockVars, callVars, state, suspend_count,
                   resume_waiters>>

\* ThreadList::Register: enter the list already counting the ongoing SuspendAlls.
Register(t) ==
    /\ At(t, "born")
    /\ list_' = list_ \cup {t}
    /\ ModifySuspendCount({t}, suspend_all_count_)
    /\ Goto(t, "native")
    /\ UNCHANGED <<suspend_all_count_, allocated_ids_, thread_id, lockVars, callVars, state,
                   resume_waiters>>

\* Mistaken variant: leaves without looking at its suspend count.
Unregister_WhileSuspended(t) ==
    /\ At(t, "native")
    /\ list_' = list_ \ {t}
    /\ suspend_count' = [suspend_count EXCEPT ![t] = 0]
    /\ Goto(t, "exiting")
    /\ UNCHANGED <<suspend_all_count_, allocated_ids_, thread_id, lockVars, callVars, state,
                   resume_waiters>>

\* Mistaken variant: the id is free for others before the thread has left the list.
Unregister_IdFirst(t) ==
    /\ At(t, "native")
    /\ ~IsSuspended(t)
    /\ allocated_ids_' = allocated_ids_ \ {thread_id[t]}
    /\ \/ list_' = list_ \ {t} /\ Goto(t, "exiting")
       \/ UNCHANGED <<list_, pc>>
    /\ UNCHANGED <<suspend_all_count_, thread_id, lockVars, callVars, state,
                   suspend_count, resume_waiters>>

\* ThreadList::Unregister: retried until no suspend request is pending.
Unregister(t) ==
    /\ At(t, "native")
    /\ ~IsSuspended(t)
    /\ list_' = list_ \ {t}
    /\ Goto(t, "exiting")
    /\ UNCHANGED <<suspend_all_count_, allocated_ids_, thread_id, lockVars, callVars, state,
                   suspend_count, resume_waiters>>

\* ThreadList::ReleaseThreadId, after the Thread was deleted.
ReleaseThreadId(t) ==
    /\ At(t, "exiting")
    /\ allocated_ids_' = allocated_ids_ \ {thread_id[t]}
    /\ thread_id' = [thread_id EXCEPT ![t] = kInvalidThreadId]
    /\ Goto(t, "off")
    /\ UNCHANGED <<list_, suspend_all_count_, lockVars, callVars, state, suspend_count,
                   resume_waiters>>

-----------------------------------------------------------------------------
(* Thread::TransitionFromSuspendedToRunnable *)

CallToRunnable(t) ==
    /\ At(t, "native")
    /\ Goto(t, "s2rCheck")
    /\ UNCHANGED <<listVars, lockVars, callVars, state, suspend_count, resume_waiters>>

\* The flag is read without a lock.
ReadSuspendRequest(t) ==
    /\ At(t, "s2rCheck")
    /\ Goto(t, IF suspend_count[t] > 0 THEN "s2rLock" ELSE "s2rShare")
    /\ UNCHANGED <<listVars, lockVars, callVars, state, suspend_count, resume_waiters>>

\* Under thread_suspend_count_lock_: wait on resume_cond_ while the flag is set.
WaitWhileSuspended(t) ==
    /\ At(t, "s2rLock")
    /\ \/ /\ suspend_count[t] > 0
          /\ resume_waiters' = resume_waiters \cup {t}
          /\ Goto(t, "s2rWait")
       \/ /\ suspend_count[t] = 0
          /\ resume_waiters' = resume_waiters
          /\ Goto(t, "s2rShare")
    /\ UNCHANGED <<listVars, lockVars, callVars, state, suspend_count>>

ResumeCondReturns(t) ==
    /\ At(t, "s2rWait") /\ t \notin resume_waiters
    /\ Goto(t, "s2rLock")
    /\ UNCHANGED <<listVars, lockVars, callVars, state, suspend_count, resume_waiters>>

\* mutator_lock_->SharedLock
AcquireShare(t) ==
    /\ At(t, "s2rShare")
    /\ mutator_owner = None
    /\ mutator_shares' = mutator_shares \cup {t}
    /\ Goto(t, "s2rCas")
    /\ UNCHANGED <<listVars, mutator_owner, callVars, state, suspend_count, resume_waiters>>

\* What the caller of the transition does once runnable.
OnceRunnable(t) ==
    IF op[t] = "search" THEN "search"
    ELSE IF op[t] = "done" /\ suspended_thread[t] # None THEN "holding"
    ELSE "runnable"

\* Mistaken variant: keeps the share when it has to start over.
BecomeRunnable_KeepsShare(t) ==
    /\ At(t, "s2rCas")
    /\ \/ /\ suspend_count[t] = 0
          /\ state' = [state EXCEPT ![t] = "kRunnable"]
          /\ Goto(t, OnceRunnable(t))
          /\ op' = [op EXCEPT ![t] = "none"]
       \/ /\ suspend_count[t] > 0
          /\ Goto(t, "s2rCheck")
          /\ UNCHANGED <<state, op>>
    /\ UNCHANGED <<listVars, lockVars, target_id, suspended_thread, suspend_count, resume_waiters>>

\* Compare-exchange to kRunnable unless a suspend request came in; else give the
\* share back and start over.
BecomeRunnable(t) ==
    /\ At(t, "s2rCas")
    /\ \/ /\ suspend_count[t] = 0
          /\ state' = [state EXCEPT ![t] = "kRunnable"]
          /\ Goto(t, OnceRunnable(t))
          /\ op' = [op EXCEPT ![t] = "none"]
          /\ UNCHANGED mutator_shares
       \/ /\ suspend_count[t] > 0
          /\ mutator_shares' = mutator_shares \ {t}
          /\ Goto(t, "s2rCheck")
          /\ UNCHANGED <<state, op>>
    /\ UNCHANGED <<listVars, mutator_owner, target_id, suspended_thread, suspend_count,
                   resume_waiters>>

-----------------------------------------------------------------------------
(* Thread::TransitionFromRunnableToSuspended, CheckSuspend, FullSuspendCheck *)

\* Mistaken variant: the share is released before the state changes.
ToSuspended_ShareFirst(t, why) ==
    /\ mutator_shares' = mutator_shares \ {t}
    /\ op' = [op EXCEPT ![t] = why]
    /\ Goto(t, "r2sUnlock")
    /\ UNCHANGED state

\* Compare-exchange to a suspended state; the share is released afterwards.
ToSuspended(t, why) ==
    /\ state' = [state EXCEPT ![t] = "kNative"]
    /\ op' = [op EXCEPT ![t] = why]
    /\ Goto(t, "r2sUnlock")
    /\ UNCHANGED mutator_shares

CallToSuspended(t) ==
    /\ At(t, "runnable")
    /\ ToSuspended(t, "none")
    /\ UNCHANGED <<listVars, mutator_owner, target_id, suspended_thread, suspend_count,
                   resume_waiters>>

\* A suspend point: FullSuspendCheck leaves kRunnable and comes back.
CheckSuspend(t) ==
    /\ At(t, "runnable")
    /\ suspend_count[t] > 0
    /\ ToSuspended(t, "check")
    /\ UNCHANGED <<listVars, mutator_owner, target_id, suspended_thread, suspend_count,
                   resume_waiters>>

ReleaseShare(t) ==
    /\ At(t, "r2sUnlock")
    /\ mutator_shares' = mutator_shares \ {t}
    /\ Goto(t, IF op[t] = "none" THEN "native" ELSE "s2rCheck")
    /\ UNCHANGED <<listVars, mutator_owner, callVars, state, suspend_count, resume_waiters>>

-----------------------------------------------------------------------------
(* ThreadList::SuspendAll and ResumeAll *)

SuspendAll(t) ==
    /\ At(t, "native") /\ t \in Collector
    /\ suspend_all_count_' = suspend_all_count_ + 1
    /\ ModifySuspendCount(list_ \ {t}, 1)
    /\ Goto(t, "saLock")
    /\ UNCHANGED <<list_, allocated_ids_, thread_id, lockVars, callVars, state, resume_waiters>>

\* mutator_lock_->ExclusiveLock: every share must have been given back.
ExclusiveLockMutator(t) ==
    /\ At(t, "saLock")
    /\ mutator_owner = None /\ mutator_shares = {}
    /\ mutator_owner' = t
    /\ Goto(t, "stopped")
    /\ UNCHANGED <<listVars, mutator_shares, callVars, state, suspend_count, resume_waiters>>

\* ResumeAll gives mutator_lock_ up first ...
ExclusiveUnlockMutator(t) ==
    /\ At(t, "stopped")
    /\ mutator_owner' = None
    /\ Goto(t, "raCount")
    /\ UNCHANGED <<listVars, mutator_shares, callVars, state, suspend_count, resume_waiters>>

\* Mistaken variant: forgets resume_cond_->Broadcast.
ResumeAll_Silent(t) ==
    /\ At(t, "raCount")
    /\ suspend_all_count_' = suspend_all_count_ - 1
    /\ ModifySuspendCount(list_ \ {t}, -1)
    /\ Goto(t, "native")
    /\ UNCHANGED <<list_, allocated_ids_, thread_id, lockVars, callVars, state, resume_waiters>>

\* ... and then lowers the counts and broadcasts resume_cond_.
ResumeAll(t) ==
    /\ At(t, "raCount")
    /\ suspend_all_count_' = suspend_all_count_ - 1
    /\ ModifySuspendCount(list_ \ {t}, -1)
    /\ resume_waiters' = {}
    /\ Goto(t, "native")
    /\ UNCHANGED <<list_, allocated_ids_, thread_id, lockVars, callVars, state>>

-----------------------------------------------------------------------------
(* ThreadList::SuspendThreadByThreadId and Resume, as Monitor::InflateThinLocked *)
(* calls them: the caller leaves kRunnable, each round of the search runs in a   *)
(* ScopedObjectAccess, and the caller is runnable again before it uses the       *)
(* suspended thread and resumes it.                                              *)

CallSuspendThread(t, id) ==
    /\ At(t, "runnable") /\ t \in Inflater
    /\ id # thread_id[t]
    /\ target_id' = [target_id EXCEPT ![t] = id]
    /\ ToSuspended(t, "search")
    /\ UNCHANGED <<listVars, mutator_owner, suspended_thread, suspend_count, resume_waiters>>

Found(id) == {u \in list_ : thread_id[u] = id}

\* Leave the ScopedObjectAccess for another round, or for the caller.
EndRound(t, why) ==
    /\ ToSuspended(t, why)
    /\ UNCHANGED <<listVars, mutator_owner, resume_waiters>>

NoSuchThread(t) ==
    /\ At(t, "search") /\ Found(target_id[t]) = {}
    /\ EndRound(t, "done")
    /\ target_id' = [target_id EXCEPT ![t] = kInvalidThreadId]
    /\ UNCHANGED <<suspended_thread, suspend_count>>

\* Another thread is trying to suspend us: let it, then start over.
YieldToSuspender(t) ==
    /\ At(t, "search") /\ Found(target_id[t]) # {}
    /\ suspended_thread[t] = None
    /\ suspend_count[t] > 0
    /\ EndRound(t, "search")
    /\ UNCHANGED <<target_id, suspended_thread, suspend_count>>

\* The count the round leaves u with: raised in the first round only.
Requested(t, u) == suspend_count[u] + (IF suspended_thread[t] = None THEN 1 ELSE 0)

\* Mistaken variant: the caller does not check its own suspend count first.
RequestSuspend_Greedy(t) ==
    /\ At(t, "search")
    /\ \E u \in Found(target_id[t]) :
          /\ suspend_count' = [suspend_count EXCEPT ![u] = Requested(t, u)]
          /\ suspended_thread' = [suspended_thread EXCEPT ![t] = u]
          /\ EndRound(t, IF state[u] # "kRunnable" THEN "done" ELSE "search")
    /\ UNCHANGED target_id

\* Raise the target's count (first round) and see whether it is suspended by now.
RequestSuspend(t) ==
    /\ At(t, "search")
    /\ suspended_thread[t] = None => suspend_count[t] = 0
    /\ \E u \in Found(target_id[t]) :
          /\ suspend_count' = [suspend_count EXCEPT ![u] = Requested(t, u)]
          /\ suspended_thread' = [suspended_thread EXCEPT ![t] = u]
          /\ EndRound(t, IF state[u] # "kRunnable" THEN "done" ELSE "search")
    /\ UNCHANGED target_id

\* The target was still runnable after 30s: take the request back.
SuspendTimedOut(t) ==
    /\ At(t, "search") /\ suspended_thread[t] # None
    /\ state[suspended_thread[t]] = "kRunnable"
    /\ suspend_count' = [suspend_count EXCEPT ![suspended_thread[t]] = @ - 1]
    /\ suspended_thread' = [suspended_thread EXCEPT ![t] = None]
    /\ target_id' = [target_id EXCEPT ![t] = kInvalidThreadId]
    /\ EndRound(t, "done")

\* Mistaken variant: clears the count, other requests included.
Resume_Clears(t) ==
    /\ At(t, "holding")
    /\ suspend_count' = [suspend_count EXCEPT ![suspended_thread[t]] = 0]
    /\ suspended_thread' = [suspended_thread EXCEPT ![t] = None]
    /\ Goto(t, "resumeBroadcast")
    /\ UNCHANGED <<listVars, lockVars, op, target_id, state, resume_waiters>>

\* ThreadList::Resume lowers the count in one critical section ...
Resume(t) ==
    /\ At(t, "holding")
    /\ suspend_count' = [suspend_count EXCEPT ![suspended_thread[t]] = @ - 1]
    /\ suspended_thread' = [suspended_thread EXCEPT ![t] = None]
    /\ Goto(t, "resumeBroadcast")
    /\ UNCHANGED <<listVars, lockVars, op, target_id, state, resume_waiters>>

\* ... and broadcasts in another.
ResumeBroadcast(t) ==
    /\ At(t, "resumeBroadcast")
    /\ resume_waiters' = {}
    /\ Goto(t, "runnable")
    /\ target_id' = [target_id EXCEPT ![t] = kInvalidThreadId]
    /\ UNCHANGED <<listVars, lockVars, op, suspended_thread, state, suspend_count>>

-----------------------------------------------------------------------------
Transition(t) ==
    \/ ReadSuspendRequest(t) \/ WaitWhileSuspended(t) \/ ResumeCondReturns(t)
    \/ AcquireShare(t) \/ BecomeRunnable(t) \/ ReleaseShare(t)

StopTheWorld(t) ==
    ExclusiveLockMutator(t) \/ ExclusiveUnlockMutator(t) \/ ResumeAll(t)

SuspendOne(t) ==
    \/ NoSuchThread(t) \/ YieldToSuspender(t) \/ RequestSuspend(t)
    \/ Resume(t) \/ ResumeBroadcast(t)

Lifecycle(t) == AllocThreadId(t) \/ Register(t) \/ Unregister(t) \/ ReleaseThreadId(t)

Next ==
    \E t \in Thread :
        \/ Lifecycle(t)
        \/ CallToRunnable(t) \/ CallToSuspended(t) \/ CheckSuspend(t) \/ Transition(t)
        \/ SuspendAll(t) \/ StopTheWorld(t)
        \/ \E id \in ThreadId : CallSuspendThread(t, id)
        \/ SuspendOne(t) \/ SuspendTimedOut(t)

Spec == Init /\ [][Next]_vars

\* Threads inside the runtime keep running and runnable code reaches suspend points ...
Fairness == \A t \in Thread :
    WF_vars(Transition(t) \/ StopTheWorld(t) \/ SuspendOne(t) \/ CheckSuspend(t))

\* ... and the requests for suspension eventually cease.
NewRequest == \E t \in Thread : SuspendAll(t) \/ \E id \in ThreadId : CallSuspendThread(t, id)
FairSpec == Spec /\ Fairness /\ <>[][~NewRequest]_vars

-----------------------------------------------------------------------------
TypeOK ==
    /\ list_ \subseteq Thread
    /\ suspend_all_count_ \in Int
    /\ allocated_ids_ \subseteq ThreadId
    /\ state \in [Thread -> {"kRunnable", "kNative"}]
    /\ suspend_count \in [Thread -> Int]
    /\ thread_id \in [Thread -> ThreadId \cup {kInvalidThreadId}]
    /\ mutator_owner \in Thread \cup {None}
    /\ mutator_shares \subseteq Thread
    /\ resume_waiters \subseteq Thread
    /\ pc \in [Thread -> Pcs]
    /\ op \in [Thread -> {"none", "check", "search", "done"}]
    /\ target_id \in [Thread -> ThreadId \cup {kInvalidThreadId}]
    /\ suspended_thread \in [Thread -> Thread \cup {None}]

\* Who has raised the count of u and not lowered it yet.
StoppersOf(u) == {t \in Thread \ {u} : pc[t] \in SuspendAllPcs}
SuspendersOf(u) == {t \in Thread : suspended_thread[t] = u}

\* The promise of SuspendAll: while its caller holds mutator_lock_ no thread is
\* kRunnable, i.e. nobody touches the managed heap.
WorldStopped == mutator_owner # None => \A t \in Thread : state[t] # "kRunnable"

\* AssertThreadsAreSuspended, made by SuspendAll when it returns and by ResumeAll when
\* it starts: every listed thread, also one that attached meanwhile, has its request.
AllThreadsSuspended ==
    \A t \in Thread : pc[t] = "stopped" => \A u \in list_ \ {t} : IsSuspended(u)

\* suspend_count is the number of outstanding requests, so ModifySuspendCount never finds
\* "suspend count already zero" and a thread runs again exactly when all let go of it.
CountsAreExact ==
    /\ suspend_all_count_ = Cardinality({t \in Thread : pc[t] \in SuspendAllPcs})
    /\ \A u \in Thread :
          suspend_count[u] = IF u \in list_ THEN Cardinality(StoppersOf(u)) + Cardinality(SuspendersOf(u))
                             ELSE 0

\* The CHECKs of SuspendThreadByThreadId and Resume: the thread a caller has suspended
\* is still listed under the same id, and stays suspended while the caller relies on it.
SuspendedThreadStays ==
    \A t \in Thread :
        LET u == suspended_thread[t] IN
        u # None => /\ u \in list_ /\ thread_id[u] = target_id[t]
                    /\ suspend_count[u] > 0
                    /\ pc[t] = "holding" => IsSuspended(u)

\* Unregister's comment: no two live threads have the same thread id.
UniqueThreadIds ==
    \A t, u \in list_ : thread_id[t] = thread_id[u] => t = u

\* "Its not safe to try to suspend another thread in case we get a cycle": there is no
\* circle of threads in which each has requested the suspension of the next.
NoSuspendCycle ==
    ~\E circle \in SUBSET Thread : circle # {} /\ \A t \in circle : suspended_thread[t] \in circle

\* A thread asleep on resume_cond_ whose count is zero has a broadcast coming.
NoLostResume ==
    \A t \in resume_waiters :
        suspend_count[t] = 0 => \E u \in Thread : pc[u] = "resumeBroadcast"

\* Every SuspendAll gets the world stopped.
SuspendAllSucceeds == \A t \in Collector : (pc[t] = "saLock") ~> (pc[t] = "stopped")

\* Whoever wants to be runnable gets there once nobody asks for suspensions any more:
\* no deadlock among suspenders, suspended threads and mutator_lock_.
EveryoneResumes == \A t \in Thread : (pc[t] \in ToRunnablePcs) ~> (state[t] = "kRunnable")
===============================================================================
