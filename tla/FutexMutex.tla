------------------------------ MODULE FutexMutex ------------------------------
(***************************************************************************)
(* art::Mutex and the art::ConditionVariable guarded by it, in their futex *)
(* build (ART_USE_FUTEXES), at the granularity of single atomic accesses   *)
(* and system calls.  src/runtime/base/mutex.cc, mutex-inl.h, mutex.h.     *)
(*                                                                         *)
(* The mutex is three words: state_ (0 free, 1 held), exclusive_owner_ and *)
(* num_contenders_.  The last decides whether an unlock makes the wake     *)
(* system call at all, so every sleeper must be counted in it before it    *)
(* can sleep.  Threads are arbitrary clients: between calls a thread may   *)
(* lock or try to lock, and while holding the mutex it may unlock, lock    *)
(* again (if recursive), wait on, signal or broadcast the condition.       *)
(***************************************************************************)
EXTENDS Integers, FiniteSets

CONSTANTS
    Thread,         \* the threads that share the mutex
    NoThread,       \* exclusive_owner_ == 0
    Recursive,      \* recursive_
    SpuriousCas,    \* may a weak compare-exchange fail although the value matches?
    MaxRecursion,   \* bound on recursion_count_
    MaxSignals      \* bound on sequence_, i.e. on effective Signal/Broadcast calls

ASSUME ThreadAssumption == NoThread \notin Thread /\ IsFiniteSet(Thread)
ASSUME RecursiveAssumption == Recursive \in BOOLEAN /\ SpuriousCas \in BOOLEAN
ASSUME BoundAssumption == MaxRecursion \in Nat \ {0} /\ MaxSignals \in Nat

VARIABLES
    state_, exclusive_owner_, num_contenders_, recursion_count_,   \* Mutex
    sequence_, num_waiters_,                                       \* ConditionVariable
    stateQ, sequenceQ,    \* threads the kernel keeps asleep on &state_ and &sequence_
    pc,                   \* where each thread is
    cur_sequence, old_recursion_count,   \* locals of WaitHoldingLocks/TimedWait
    waiting,              \* is the thread inside WaitHoldingLocks/TimedWait?
    woken                 \* history: waiters some Broadcast had to release

mutexVars == <<state_, exclusive_owner_, num_contenders_, recursion_count_>>
condVars  == <<sequence_, num_waiters_>>
queueVars == <<stateQ, sequenceQ>>
waitVars  == <<cur_sequence, old_recursion_count, waiting, woken>>
vars == <<mutexVars, condVars, queueVars, waitVars, pc>>

LockPcs == {"load", "cas", "contend", "futexWait", "asleep", "uncontend"}
TryPcs == {"tryLoad", "tryCas"}
OwnerPcs == {"own", "held", "release", "signalWake", "requeue", "waitReturn"}
ReleasedPcs == {"wakeCheck", "wake", "sequenceWait", "sequenceAsleep"}
Pcs == {"idle"} \cup LockPcs \cup TryPcs \cup OwnerPcs \cup ReleasedPcs

Goto(t, label) == pc' = [pc EXCEPT ![t] = label]
At(t, label) == pc[t] = label

Init ==
    /\ state_ = 0
    /\ exclusive_owner_ = NoThread
    /\ num_contenders_ = 0
    /\ recursion_count_ = 0
    /\ sequence_ = 0
    /\ num_waiters_ = 0
    /\ stateQ = {}
    /\ sequenceQ = {}
    /\ pc = [t \in Thread |-> "idle"]
    /\ cur_sequence = [t \in Thread |-> 0]
    /\ old_recursion_count = [t \in Thread |-> 0]
    /\ waiting = [t \in Thread |-> FALSE]
    /\ woken = {}

-----------------------------------------------------------------------------
(* The kernel: FUTEX_WAKE of one sleeper picks any of them.                *)

WakeOne(queue) ==
    IF queue = {} THEN {{}} ELSE {{t} : t \in queue}

-----------------------------------------------------------------------------
(* Mutex::ExclusiveLock *)

\* The call: a recursive mutex already held only counts.
CallLock(t) ==
    /\ At(t, "idle")
    /\ Goto(t, "load")
    /\ UNCHANGED <<mutexVars, condVars, queueVars, waitVars>>

LockAgain(t) ==
    /\ At(t, "held") /\ Recursive /\ exclusive_owner_ = t
    /\ recursion_count_ < MaxRecursion
    /\ recursion_count_' = recursion_count_ + 1
    /\ UNCHANGED <<state_, exclusive_owner_, num_contenders_, condVars, queueVars, waitVars, pc>>

LoadState(t) ==
    /\ At(t, "load")
    /\ Goto(t, IF state_ = 0 THEN "cas" ELSE "contend")
    /\ UNCHANGED <<mutexVars, condVars, queueVars, waitVars>>

\* Mistaken variant: a plain store instead of the compare-exchange.
CasAcquire_Store(t, retry) ==
    /\ state_' = 1
    /\ Goto(t, "own")
    /\ UNCHANGED <<exclusive_owner_, num_contenders_, recursion_count_,
                   condVars, queueVars, waitVars>>

\* CompareExchangeWeakAcquire(0, 1); shared with ExclusiveTryLock.
CasAcquire(t, retry) ==
    \/ /\ state_ = 0
       /\ state_' = 1
       /\ Goto(t, "own")
       /\ UNCHANGED <<exclusive_owner_, num_contenders_, recursion_count_,
                      condVars, queueVars, waitVars>>
    \/ /\ state_ # 0 \/ SpuriousCas
       /\ Goto(t, retry)
       /\ UNCHANGED <<mutexVars, condVars, queueVars, waitVars>>

CasLock(t) == At(t, "cas") /\ CasAcquire(t, "load")

Contend(t) ==
    /\ At(t, "contend")
    /\ num_contenders_' = num_contenders_ + 1
    /\ Goto(t, "futexWait")
    /\ UNCHANGED <<state_, exclusive_owner_, recursion_count_, condVars, queueVars, waitVars>>

\* FUTEX_WAIT on &state_ for the value 1: sleep, or EAGAIN.
FutexWait(t) ==
    /\ At(t, "futexWait")
    /\ \/ /\ state_ = 1
          /\ stateQ' = stateQ \cup {t}
          /\ Goto(t, "asleep")
       \/ /\ state_ # 1
          /\ stateQ' = stateQ
          /\ Goto(t, "uncontend")
    /\ UNCHANGED <<mutexVars, condVars, sequenceQ, waitVars>>

\* The system call returns: the kernel dequeued the thread, or EINTR.
FutexReturn(t) ==
    /\ At(t, "asleep") /\ t \notin stateQ
    /\ Goto(t, "uncontend")
    /\ UNCHANGED <<mutexVars, condVars, queueVars, waitVars>>

FutexInterrupted(t) ==
    /\ At(t, "asleep") /\ t \in stateQ
    /\ stateQ' = stateQ \ {t}
    /\ Goto(t, "uncontend")
    /\ UNCHANGED <<mutexVars, condVars, sequenceQ, waitVars>>

Uncontend(t) ==
    /\ At(t, "uncontend")
    /\ num_contenders_' = num_contenders_ - 1
    /\ Goto(t, "load")
    /\ UNCHANGED <<state_, exclusive_owner_, recursion_count_, condVars, queueVars, waitVars>>

\* exclusive_owner_ = tid; recursion_count_++; return to the caller.
Own(t) ==
    /\ At(t, "own")
    /\ exclusive_owner_' = t
    /\ recursion_count_' = recursion_count_ + 1
    /\ Goto(t, IF waiting[t] THEN "waitReturn" ELSE "held")
    /\ UNCHANGED <<state_, num_contenders_, condVars, queueVars, waitVars>>

-----------------------------------------------------------------------------
(* Mutex::ExclusiveTryLock *)

CallTryLock(t) ==
    /\ At(t, "idle")
    /\ Goto(t, "tryLoad")
    /\ UNCHANGED <<mutexVars, condVars, queueVars, waitVars>>

TryLoad(t) ==
    /\ At(t, "tryLoad")
    /\ Goto(t, IF state_ = 0 THEN "tryCas" ELSE "idle")
    /\ UNCHANGED <<mutexVars, condVars, queueVars, waitVars>>

TryCas(t) == At(t, "tryCas") /\ CasAcquire(t, "tryLoad")

-----------------------------------------------------------------------------
(* Mutex::ExclusiveUnlock *)

\* recursion_count_--; the outermost unlock gives up exclusive_owner_ BEFORE
\* the compare-exchange that lets another thread in.
CallUnlock(t) ==
    /\ At(t, "held")
    /\ recursion_count_' = recursion_count_ - 1
    /\ IF ~Recursive \/ recursion_count_ = 1
       THEN exclusive_owner_' = NoThread /\ Goto(t, "release")
       ELSE UNCHANGED <<exclusive_owner_, pc>>
    /\ UNCHANGED <<state_, num_contenders_, condVars, queueVars, waitVars>>

CasRelease(t) ==
    /\ At(t, "release")
    /\ state_ = 1
    /\ state_' = 0
    /\ Goto(t, "wakeCheck")
    /\ UNCHANGED <<exclusive_owner_, num_contenders_, recursion_count_,
                   condVars, queueVars, waitVars>>

\* What ExclusiveUnlock returns to: WaitHoldingLocks, or the client.
AfterUnlock(t) == IF waiting[t] THEN "sequenceWait" ELSE "idle"

\* Mistaken variants: no wake for the last contender; the owner cleared too late.
WakeCheck_SkipsLast(t) ==
    /\ At(t, "wakeCheck")
    /\ Goto(t, IF num_contenders_ > 1 THEN "wake" ELSE AfterUnlock(t))
    /\ UNCHANGED <<mutexVars, condVars, queueVars, waitVars>>

WakeCheck_ClearsOwner(t) ==
    /\ At(t, "wakeCheck")
    /\ exclusive_owner_' = NoThread
    /\ Goto(t, IF num_contenders_ > 0 THEN "wake" ELSE AfterUnlock(t))
    /\ UNCHANGED <<state_, num_contenders_, recursion_count_, condVars, queueVars, waitVars>>

WakeCheck(t) ==
    /\ At(t, "wakeCheck")
    /\ Goto(t, IF num_contenders_ > 0 THEN "wake" ELSE AfterUnlock(t))
    /\ UNCHANGED <<mutexVars, condVars, queueVars, waitVars>>

\* FUTEX_WAKE 1 on &state_.
Wake(t) ==
    /\ At(t, "wake")
    /\ \E w \in WakeOne(stateQ) : stateQ' = stateQ \ w
    /\ Goto(t, AfterUnlock(t))
    /\ UNCHANGED <<mutexVars, condVars, sequenceQ, waitVars>>

-----------------------------------------------------------------------------
(* ConditionVariable::WaitHoldingLocks (Wait) and TimedWait *)

\* Count in as a waiter and as a contender, remember sequence_, start to unlock.
CallWait(t) ==
    /\ At(t, "held")
    /\ num_waiters_' = num_waiters_ + 1
    /\ num_contenders_' = num_contenders_ + 1
    /\ old_recursion_count' = [old_recursion_count EXCEPT ![t] = recursion_count_]
    /\ recursion_count_' = 0
    /\ exclusive_owner_' = NoThread
    /\ cur_sequence' = [cur_sequence EXCEPT ![t] = sequence_]
    /\ waiting' = [waiting EXCEPT ![t] = TRUE]
    /\ Goto(t, "release")
    /\ UNCHANGED <<state_, sequence_, queueVars, woken>>

\* FUTEX_WAIT on &sequence_ for cur_sequence: sleep, or EAGAIN.
SequenceWait(t) ==
    /\ At(t, "sequenceWait")
    /\ \/ /\ sequence_ = cur_sequence[t]
          /\ sequenceQ' = sequenceQ \cup {t}
          /\ Goto(t, "sequenceAsleep")
       \/ /\ sequence_ # cur_sequence[t]
          /\ sequenceQ' = sequenceQ
          /\ Goto(t, "load")
    /\ UNCHANGED <<mutexVars, condVars, stateQ, waitVars>>

SequenceReturn(t) ==
    /\ At(t, "sequenceAsleep") /\ t \notin sequenceQ \cup stateQ
    /\ Goto(t, "load")
    /\ UNCHANGED <<mutexVars, condVars, queueVars, waitVars>>

\* EINTR, or ETIMEDOUT in TimedWait, possibly after a requeue.
SequenceInterrupted(t) ==
    /\ At(t, "sequenceAsleep") /\ t \in sequenceQ \cup stateQ
    /\ sequenceQ' = sequenceQ \ {t}
    /\ stateQ' = stateQ \ {t}
    /\ Goto(t, "load")
    /\ UNCHANGED <<mutexVars, condVars, waitVars>>

\* The guard is held again: count out, restore the recursion count, drop the locals.
WaitReturn(t) ==
    /\ At(t, "waitReturn")
    /\ num_waiters_' = num_waiters_ - 1
    /\ num_contenders_' = num_contenders_ - 1
    /\ recursion_count_' = old_recursion_count[t]
    /\ waiting' = [waiting EXCEPT ![t] = FALSE]
    /\ woken' = woken \ {t}
    /\ cur_sequence' = [cur_sequence EXCEPT ![t] = 0]
    /\ old_recursion_count' = [old_recursion_count EXCEPT ![t] = 0]
    /\ Goto(t, "held")
    /\ UNCHANGED <<state_, exclusive_owner_, sequence_, queueVars>>

-----------------------------------------------------------------------------
(* ConditionVariable::Signal and Broadcast; without waiters they do nothing *)

\* Mistaken variant: sequence_ is left alone.
AnnounceWake_Silent(t, next) ==
    /\ At(t, "held")
    /\ num_waiters_ > 0
    /\ Goto(t, next)
    /\ UNCHANGED <<mutexVars, condVars, queueVars, waitVars>>

AnnounceWake(t, next) ==
    /\ At(t, "held")
    /\ num_waiters_ > 0
    /\ sequence_ < MaxSignals
    /\ sequence_' = sequence_ + 1
    /\ Goto(t, next)
    /\ UNCHANGED <<mutexVars, num_waiters_, queueVars, waitVars>>

CallSignal(t) == AnnounceWake(t, "signalWake")

\* FUTEX_WAKE 1 on &sequence_.
SignalWake(t) ==
    /\ At(t, "signalWake")
    /\ \E w \in WakeOne(sequenceQ) : sequenceQ' = sequenceQ \ w
    /\ Goto(t, "held")
    /\ UNCHANGED <<mutexVars, condVars, stateQ, waitVars>>

CallBroadcast(t) == AnnounceWake(t, "requeue")

\* FUTEX_CMP_REQUEUE: wake none, move every sleeper over to &state_.
Requeue(t) ==
    /\ At(t, "requeue")
    /\ stateQ' = stateQ \cup sequenceQ
    /\ sequenceQ' = {}
    /\ woken' = {u \in Thread : waiting[u]}
    /\ Goto(t, "held")
    /\ UNCHANGED <<mutexVars, condVars, cur_sequence, old_recursion_count, waiting>>

-----------------------------------------------------------------------------
LockStep(t) ==
    \/ LoadState(t) \/ CasLock(t) \/ Contend(t) \/ FutexWait(t)
    \/ FutexReturn(t) \/ Uncontend(t) \/ Own(t)
    \/ TryLoad(t) \/ TryCas(t)

UnlockStep(t) == CasRelease(t) \/ WakeCheck(t) \/ Wake(t)

ConditionStep(t) ==
    \/ SequenceWait(t) \/ SequenceReturn(t) \/ WaitReturn(t)
    \/ SignalWake(t) \/ Requeue(t)

ClientCall(t) ==
    \/ CallLock(t) \/ CallTryLock(t) \/ LockAgain(t) \/ CallUnlock(t)
    \/ CallWait(t) \/ CallSignal(t) \/ CallBroadcast(t)

KernelInterrupt(t) == FutexInterrupted(t) \/ SequenceInterrupted(t)

Next ==
    \E t \in Thread :
        LockStep(t) \/ UnlockStep(t) \/ ConditionStep(t) \/ ClientCall(t) \/ KernelInterrupt(t)

Spec == Init /\ [][Next]_vars

\* A thread inside a call keeps running, and a holder does not keep the mutex for ever.
Fairness ==
    \A t \in Thread :
        WF_vars(LockStep(t) \/ UnlockStep(t) \/ ConditionStep(t)) /\ WF_vars(CallUnlock(t))

FairSpec == Spec /\ Fairness

-----------------------------------------------------------------------------
TypeOK ==
    /\ state_ \in {0, 1}
    /\ exclusive_owner_ \in Thread \cup {NoThread}
    /\ num_contenders_ \in Int
    /\ recursion_count_ \in 0..MaxRecursion
    /\ sequence_ \in 0..MaxSignals
    /\ num_waiters_ \in Int
    /\ stateQ \subseteq Thread /\ sequenceQ \subseteq Thread
    /\ pc \in [Thread -> Pcs]
    /\ cur_sequence \in [Thread -> 0..MaxSignals]
    /\ old_recursion_count \in [Thread -> 0..MaxRecursion]
    /\ waiting \in [Thread -> BOOLEAN]
    /\ woken \subseteq Thread

\* Between the acquiring and the releasing compare-exchange of t.
Owns(t) == pc[t] \in OwnerPcs

\* Mutex.h: "Exclusive - exclusively held by a thread".  No two threads are
\* between the compare-exchange that takes state_ and the one that gives it back.
MutualExclusion == \A t, u \in Thread : Owns(t) /\ Owns(u) => t = u

\* The DCHECKs of ExclusiveLock and ExclusiveTryLock: a thread that just took
\* state_ finds exclusive_owner_ clear, and a thread that runs with the mutex held
\* is the recorded owner, whatever the previous owner still has to do.
OwnerRecorded ==
    \A t \in Thread :
        /\ pc[t] = "own" => exclusive_owner_ = NoThread
        /\ pc[t] \in {"held", "signalWake", "requeue", "waitReturn"} =>
               exclusive_owner_ = t /\ recursion_count_ >= 1

\* Somebody will look at state_ or make the wake system call without being woken.
Pending ==
    \E t \in Thread :
        \/ pc[t] \in {"load", "cas", "contend", "futexWait", "uncontend",
                      "tryLoad", "tryCas", "wakeCheck", "wake"}
        \/ pc[t] \in {"asleep", "sequenceAsleep"} /\ t \notin stateQ \cup sequenceQ

\* A free mutex never has sleepers that nobody is going to wake: the split
\* state_/num_contenders_ protocol loses no wake-up, requeued waiters included.
NoLostWakeup == state_ = 0 /\ stateQ # {} => Pending

\* ConditionVariable::Broadcast: a thread that was waiting when the broadcast
\* was made never again sleeps on sequence_ in that wait.
BroadcastReachesAll == woken \cap sequenceQ = {}

\* A waiter that does not need a further Signal to return.
Released(t) ==
    waiting[t] /\ t \notin sequenceQ
    /\ ~(pc[t] \in {"release", "wakeCheck", "wake", "sequenceWait"} /\ cur_sequence[t] = sequence_)

\* ConditionVariable::Signal: when it returns, some thread that was waiting is on
\* its way out, also when the wake system call found nobody asleep yet.
SignalNotLost ==
    [][\A t \in Thread : pc[t] = "signalWake" /\ pc'[t] = "held" =>
           \E w \in Thread : Released(w)']_vars

\* A free mutex somebody sleeps on is taken by somebody.
FreeMutexIsTaken == (state_ = 0 /\ stateQ # {}) ~> (state_ = 1)
===============================================================================
