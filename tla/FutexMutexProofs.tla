--------------------------- MODULE FutexMutexProofs ---------------------------
(***************************************************************************)
(* Safety of FutexMutex for every set of threads and every bound.          *)
(***************************************************************************)
EXTENDS FutexMutex, FiniteSetTheorems, TLAPS

\* Pcs at which a thread runs client code or a condition variable call as the owner.
RunningPcs == {"held", "signalWake", "requeue", "waitReturn"}

\* Pcs of a waiter that has read sequence_ and not yet slept on it.
BeforeSleepPcs == {"release", "wakeCheck", "wake", "sequenceWait"}

\* state_ is 1 exactly while some thread is between the two compare-exchanges.
StateMeansOwned == (state_ = 1) <=> \E t \in Thread : Owns(t)

\* exclusive_owner_ and recursion_count_ are clear whenever nobody runs as owner.
ClearWhenQuiet ==
    (\A t \in Thread : pc[t] \notin RunningPcs) => exclusive_owner_ = NoThread /\ recursion_count_ = 0

Recursion ==
    /\ \A t \in Thread : pc[t] \in RunningPcs => exclusive_owner_ = t /\ recursion_count_ >= 1
    /\ \A t \in Thread : pc[t] = "waitReturn" => waiting[t]
    /\ \A t \in Thread : pc[t] \in {"idle", "held", "signalWake", "requeue"} => ~waiting[t]
    /\ \A t \in Thread : waiting[t] => old_recursion_count[t] >= 1
    /\ ~Recursive => recursion_count_ <= 1 /\ \A t \in Thread : old_recursion_count[t] <= 1

Queues ==
    /\ \A t \in sequenceQ : pc[t] = "sequenceAsleep"
    /\ \A t \in Thread : pc[t] \in {"sequenceWait", "sequenceAsleep"} => waiting[t]
    /\ \A t \in Thread : waiting[t] => pc[t] \notin TryPcs

\* A broadcast is announced in sequence_ before anybody is requeued, so a waiter it
\* finds still awake cannot fall asleep any more.
Announced ==
    /\ \A t, u \in Thread : pc[t] = "requeue" /\ waiting[u] /\ pc[u] \in BeforeSleepPcs =>
           cur_sequence[u] < sequence_
    /\ \A u \in woken : /\ waiting[u]
                        /\ u \notin sequenceQ
                        /\ pc[u] \in BeforeSleepPcs => cur_sequence[u] < sequence_
    /\ \A u \in Thread : cur_sequence[u] <= sequence_

IInv ==
    /\ TypeOK
    /\ MutualExclusion
    /\ StateMeansOwned
    /\ ClearWhenQuiet
    /\ Recursion
    /\ Queues
    /\ Announced

USE DEF At, Goto, Pcs, LockPcs, TryPcs, OwnerPcs, ReleasedPcs, RunningPcs, BeforeSleepPcs

LEMMA InitIInv == Init => IInv
BY ThreadAssumption, BoundAssumption, SMTT(30)
DEF Init, IInv, TypeOK, MutualExclusion, StateMeansOwned, ClearWhenQuiet, Recursion, Queues,
    Announced, Owns

LEMMA NextIInv == IInv /\ [Next]_vars => IInv'
<1> SUFFICES ASSUME IInv, [Next]_vars PROVE IInv'
    OBVIOUS
<1> USE ThreadAssumption, RecursiveAssumption, BoundAssumption
    DEF IInv, TypeOK, MutualExclusion, StateMeansOwned, ClearWhenQuiet, Recursion, Queues,
        Announced, Owns, mutexVars, condVars, queueVars, waitVars
<1>1. CASE UNCHANGED vars
    BY <1>1 DEF vars
<1>2. ASSUME NEW t \in Thread, CallLock(t) PROVE IInv'
    BY <1>2 DEF CallLock
<1>3. ASSUME NEW t \in Thread, LockAgain(t) PROVE IInv'
    BY <1>3 DEF LockAgain
<1>4. ASSUME NEW t \in Thread, LoadState(t) PROVE IInv'
    BY <1>4 DEF LoadState
<1>5. ASSUME NEW t \in Thread, CasLock(t) PROVE IInv'
    BY <1>5 DEF CasLock, CasAcquire
<1>6. ASSUME NEW t \in Thread, Contend(t) PROVE IInv'
    BY <1>6 DEF Contend
<1>7. ASSUME NEW t \in Thread, FutexWait(t) PROVE IInv'
    BY <1>7 DEF FutexWait
<1>8. ASSUME NEW t \in Thread, FutexReturn(t) PROVE IInv'
    BY <1>8 DEF FutexReturn
<1>9. ASSUME NEW t \in Thread, FutexInterrupted(t) PROVE IInv'
    BY <1>9 DEF FutexInterrupted
<1>10. ASSUME NEW t \in Thread, Uncontend(t) PROVE IInv'
    BY <1>10 DEF Uncontend
<1>11. ASSUME NEW t \in Thread, Own(t) PROVE IInv'
    BY <1>11 DEF Own
<1>12. ASSUME NEW t \in Thread, CallTryLock(t) PROVE IInv'
    BY <1>12 DEF CallTryLock
<1>13. ASSUME NEW t \in Thread, TryLoad(t) PROVE IInv'
    BY <1>13 DEF TryLoad
<1>14. ASSUME NEW t \in Thread, TryCas(t) PROVE IInv'
    BY <1>14 DEF TryCas, CasAcquire
<1>15. ASSUME NEW t \in Thread, CallUnlock(t) PROVE IInv'
    BY <1>15 DEF CallUnlock
<1>16. ASSUME NEW t \in Thread, CasRelease(t) PROVE IInv'
    BY <1>16 DEF CasRelease
<1>17. ASSUME NEW t \in Thread, WakeCheck(t) PROVE IInv'
    BY <1>17 DEF WakeCheck, AfterUnlock
<1>18. ASSUME NEW t \in Thread, Wake(t) PROVE IInv'
    BY <1>18 DEF Wake, WakeOne, AfterUnlock
<1>19. ASSUME NEW t \in Thread, CallWait(t) PROVE IInv'
    BY <1>19 DEF CallWait
<1>20. ASSUME NEW t \in Thread, SequenceWait(t) PROVE IInv'
    BY <1>20 DEF SequenceWait
<1>21. ASSUME NEW t \in Thread, SequenceReturn(t) PROVE IInv'
    BY <1>21 DEF SequenceReturn
<1>22. ASSUME NEW t \in Thread, SequenceInterrupted(t) PROVE IInv'
    BY <1>22 DEF SequenceInterrupted
<1>23. ASSUME NEW t \in Thread, WaitReturn(t) PROVE IInv'
    BY <1>23 DEF WaitReturn
<1>24. ASSUME NEW t \in Thread, CallSignal(t) PROVE IInv'
    BY <1>24 DEF CallSignal, AnnounceWake
<1>25. ASSUME NEW t \in Thread, SignalWake(t) PROVE IInv'
    BY <1>25 DEF SignalWake, WakeOne
<1>26. ASSUME NEW t \in Thread, CallBroadcast(t) PROVE IInv'
    BY <1>26 DEF CallBroadcast, AnnounceWake
<1>27. ASSUME NEW t \in Thread, Requeue(t) PROVE IInv'
    BY <1>27 DEF Requeue
<1>. QED
    BY <1>1, <1>2, <1>3, <1>4, <1>5, <1>6, <1>7, <1>8, <1>9, <1>10, <1>11, <1>12, <1>13, <1>14,
       <1>15, <1>16, <1>17, <1>18, <1>19, <1>20, <1>21, <1>22, <1>23, <1>24, <1>25, <1>26, <1>27, Zenon
    DEF Next, LockStep, UnlockStep, ConditionStep, ClientCall, KernelInterrupt

LEMMA SpecIInv == Spec => []IInv
BY InitIInv, NextIInv, PTL DEF Spec

\* TypeOK holds in every reachable state, for every number of threads.
THEOREM TypeCorrect == Spec => []TypeOK
BY SpecIInv, PTL DEF IInv

\* art::Mutex is held by at most one thread at a time.
THEOREM MutexIsExclusive == Spec => []MutualExclusion
BY SpecIInv, PTL DEF IInv

\* exclusive_owner_ is clear when a thread takes the mutex and names it while it holds it.
THEOREM OwnerIsRecorded == Spec => []OwnerRecorded
<1>1. IInv => OwnerRecorded
    BY DEF IInv, OwnerRecorded, MutualExclusion, ClearWhenQuiet, Recursion, Owns, TypeOK
<1>. QED
    BY <1>1, SpecIInv, PTL

\* ConditionVariable::Broadcast leaves none of its waiters asleep on sequence_.
THEOREM BroadcastIsComplete == Spec => []BroadcastReachesAll
<1>1. IInv => BroadcastReachesAll
    BY DEF IInv, BroadcastReachesAll, Announced
<1>. QED
    BY <1>1, SpecIInv, PTL

-----------------------------------------------------------------------------
(* No wake-up is lost.  num_contenders_ counts every thread that sleeps or *)
(* is about to sleep, so an unlock that finds it zero has nobody to wake.  *)

Contenders == {t \in Thread : pc[t] \in {"futexWait", "asleep", "uncontend"}}
Waiters == {t \in Thread : waiting[t]}

Counted ==
    /\ num_contenders_ = Cardinality(Contenders) + Cardinality(Waiters)
    /\ num_waiters_ = Cardinality(Waiters)

Sleepers ==
    /\ \A t \in stateQ : pc[t] \in {"asleep", "sequenceAsleep"}
    /\ stateQ \cap sequenceQ = {}

\* From its announcement in sequence_ to its system call a Signal has somebody to
\* release, and whoever is not asleep yet will find sequence_ changed.
Signalled ==
    \A t \in Thread : pc[t] = "signalWake" =>
        /\ \E w \in Thread : waiting[w]
        /\ \A u \in Thread : waiting[u] /\ pc[u] \in BeforeSleepPcs => cur_sequence[u] < sequence_

WInv == Counted /\ Sleepers /\ Signalled /\ NoLostWakeup

LEMMA SetsCounted ==
    ASSUME NEW S \in SUBSET Thread
    PROVE  /\ Cardinality(S) \in Nat
           /\ S # {} => Cardinality(S) > 0
           /\ S = {} => Cardinality(S) = 0
           /\ \A t : t \notin S => Cardinality(S \cup {t}) = Cardinality(S) + 1
           /\ \A t : t \in S => Cardinality(S \ {t}) = Cardinality(S) - 1
<1>1. IsFiniteSet(S)
    BY ThreadAssumption, FS_Subset
<1>2. Cardinality(S) \in Nat
    BY <1>1, FS_CardinalityType
<1>3. (S # {} => Cardinality(S) > 0) /\ (S = {} => Cardinality(S) = 0)
    BY <1>1, <1>2, FS_EmptySet
<1>4. \A t : /\ t \notin S => Cardinality(S \cup {t}) = Cardinality(S) + 1
             /\ t \in S => Cardinality(S \ {t}) = Cardinality(S) - 1
    BY <1>1, FS_AddElement, FS_RemoveElement
<1>. QED
    BY <1>2, <1>3, <1>4

\* What a step does to the contenders and waiters, it does to the two counts.
LEMMA NextCounted == IInv /\ Counted /\ [Next]_vars => Counted'
<1> SUFFICES ASSUME IInv, Counted, [Next]_vars PROVE Counted'
    OBVIOUS
<1> USE DEF IInv, TypeOK, Queues, Recursion, mutexVars, condVars, queueVars, waitVars
<1>a. Contenders \in SUBSET Thread /\ Waiters \in SUBSET Thread
    BY DEF Contenders, Waiters
<1>1. CASE /\ Contenders' = Contenders /\ Waiters' = Waiters
           /\ UNCHANGED <<num_contenders_, num_waiters_>>
    BY <1>1 DEF Counted
<1>2. ASSUME NEW t \in Thread, Contend(t) PROVE Counted'
    <2>1. Contenders' = Contenders \cup {t} /\ t \notin Contenders /\ Waiters' = Waiters
        BY <1>2 DEF Contend, Contenders, Waiters
    <2>2. num_contenders_' = num_contenders_ + 1 /\ num_waiters_' = num_waiters_
        BY <1>2 DEF Contend
    <2>. QED
        BY <1>a, <2>1, <2>2, SetsCounted DEF Counted
<1>3. ASSUME NEW t \in Thread, Uncontend(t) PROVE Counted'
    <2>1. Contenders' = Contenders \ {t} /\ t \in Contenders /\ Waiters' = Waiters
        BY <1>3 DEF Uncontend, Contenders, Waiters
    <2>2. num_contenders_' = num_contenders_ - 1 /\ num_waiters_' = num_waiters_
        BY <1>3 DEF Uncontend
    <2>. QED
        BY <1>a, <2>1, <2>2, SetsCounted DEF Counted
<1>4. ASSUME NEW t \in Thread, CallWait(t) PROVE Counted'
    <2>1. Waiters' = Waiters \cup {t} /\ t \notin Waiters /\ Contenders' = Contenders
        BY <1>4 DEF CallWait, Contenders, Waiters
    <2>2. num_contenders_' = num_contenders_ + 1 /\ num_waiters_' = num_waiters_ + 1
        BY <1>4 DEF CallWait
    <2>. QED
        BY <1>a, <2>1, <2>2, SetsCounted DEF Counted
<1>5. ASSUME NEW t \in Thread, WaitReturn(t) PROVE Counted'
    <2>1. Waiters' = Waiters \ {t} /\ t \in Waiters /\ Contenders' = Contenders
        BY <1>5 DEF WaitReturn, Contenders, Waiters
    <2>2. num_contenders_' = num_contenders_ - 1 /\ num_waiters_' = num_waiters_ - 1
        BY <1>5 DEF WaitReturn
    <2>. QED
        BY <1>a, <2>1, <2>2, SetsCounted DEF Counted
<1>6. CASE UNCHANGED vars
    BY <1>6 DEF vars, Counted, Contenders, Waiters
<1>7. ASSUME NEW t \in Thread,
             \/ LoadState(t) \/ CasLock(t) \/ FutexWait(t) \/ FutexReturn(t) \/ Own(t)
             \/ TryLoad(t) \/ TryCas(t) \/ UnlockStep(t)
             \/ SequenceWait(t) \/ SequenceReturn(t) \/ SignalWake(t) \/ Requeue(t)
      PROVE  Counted'
    BY <1>1, <1>7 DEF LoadState, CasLock, CasAcquire, FutexWait, FutexReturn, Own, TryLoad, TryCas,
        UnlockStep, CasRelease, WakeCheck, Wake, AfterUnlock, SequenceWait, SequenceReturn,
        SignalWake, Requeue, Contenders, Waiters
<1>8. ASSUME NEW t \in Thread,
             \/ CallLock(t) \/ CallTryLock(t) \/ LockAgain(t) \/ CallUnlock(t)
             \/ CallSignal(t) \/ CallBroadcast(t) \/ KernelInterrupt(t)
      PROVE  Counted'
    BY <1>1, <1>8 DEF CallLock, CallTryLock, LockAgain, CallUnlock, CallSignal, CallBroadcast,
        AnnounceWake, KernelInterrupt, FutexInterrupted, SequenceInterrupted, Contenders, Waiters
<1>. QED
    BY <1>2, <1>3, <1>4, <1>5, <1>6, <1>7, <1>8 DEF Next, LockStep, ConditionStep, ClientCall

LEMMA InitWInv == Init => WInv
<1>1. Init => Contenders = {} /\ Waiters = {}
    BY DEF Init, Contenders, Waiters
<1>2. Init => Counted
    BY <1>1, SetsCounted, SMTT(30) DEF Init, Counted
<1>. QED
    BY <1>2 DEF Init, WInv, Sleepers, Signalled, NoLostWakeup

LEMMA NextWInv == IInv /\ WInv /\ [Next]_vars => WInv'
<1> DEFINE SInv == Sleepers /\ Signalled /\ NoLostWakeup
<1> SUFFICES ASSUME IInv, WInv, [Next]_vars PROVE SInv'
    BY NextCounted DEF WInv
<1> USE ThreadAssumption, BoundAssumption
    DEF IInv, WInv, TypeOK, MutualExclusion, Recursion, Queues, Announced, Owns, Sleepers,
        Signalled, NoLostWakeup, Pending, mutexVars, condVars, queueVars, waitVars
<1>1. CASE UNCHANGED vars
    BY <1>1 DEF vars
<1>2. ASSUME NEW t \in Thread, CallLock(t) PROVE SInv'
    BY <1>2 DEF CallLock
<1>3. ASSUME NEW t \in Thread, LockAgain(t) PROVE SInv'
    BY <1>3 DEF LockAgain
<1>4. ASSUME NEW t \in Thread, LoadState(t) PROVE SInv'
    BY <1>4 DEF LoadState
<1>5. ASSUME NEW t \in Thread, CasLock(t) PROVE SInv'
    BY <1>5 DEF CasLock, CasAcquire
<1>6. ASSUME NEW t \in Thread, Contend(t) PROVE SInv'
    BY <1>6 DEF Contend
<1>7. ASSUME NEW t \in Thread, FutexWait(t) PROVE SInv'
    BY <1>7 DEF FutexWait
<1>8. ASSUME NEW t \in Thread, FutexReturn(t) PROVE SInv'
    BY <1>8 DEF FutexReturn
<1>9. ASSUME NEW t \in Thread, FutexInterrupted(t) PROVE SInv'
    BY <1>9 DEF FutexInterrupted
<1>10. ASSUME NEW t \in Thread, Uncontend(t) PROVE SInv'
    BY <1>10 DEF Uncontend
<1>11. ASSUME NEW t \in Thread, Own(t) PROVE SInv'
    BY <1>11 DEF Own
<1>12. ASSUME NEW t \in Thread, CallTryLock(t) PROVE SInv'
    BY <1>12 DEF CallTryLock
<1>13. ASSUME NEW t \in Thread, TryLoad(t) PROVE SInv'
    BY <1>13 DEF TryLoad
<1>14. ASSUME NEW t \in Thread, TryCas(t) PROVE SInv'
    BY <1>14 DEF TryCas, CasAcquire
<1>15. ASSUME NEW t \in Thread, CallUnlock(t) PROVE SInv'
    BY <1>15 DEF CallUnlock
<1>16. ASSUME NEW t \in Thread, CasRelease(t) PROVE SInv'
    BY <1>16 DEF CasRelease
<1>17. ASSUME NEW t \in Thread, WakeCheck(t) PROVE SInv'
    <2>1. stateQ # {} => num_contenders_ > 0
        <3>1. \A u \in stateQ : u \in Contenders \/ u \in Waiters
            BY DEF Contenders, Waiters
        <3>2. Contenders \in SUBSET Thread /\ Waiters \in SUBSET Thread
            BY DEF Contenders, Waiters
        <3>. QED
            BY <3>1, <3>2, SetsCounted DEF Counted
    <2>. QED
        BY <1>17, <2>1 DEF WakeCheck, AfterUnlock
<1>18. ASSUME NEW t \in Thread, Wake(t) PROVE SInv'
    <2>1. Sleepers' /\ Signalled'
        BY <1>18 DEF Wake, WakeOne, AfterUnlock
    <2>2. CASE stateQ = {}
        BY <1>18, <2>1, <2>2 DEF Wake, WakeOne
    <2>3. CASE stateQ # {}
        <3>1. PICK w \in stateQ : stateQ' = stateQ \ {w}
            BY <1>18, <2>3 DEF Wake, WakeOne
        <3>2. w # t /\ w \notin sequenceQ' \cup stateQ' /\ pc'[w] \in {"asleep", "sequenceAsleep"}
            BY <1>18, <3>1 DEF Wake
        <3>. QED
            BY <2>1, <3>1, <3>2
    <2>. QED
        BY <2>2, <2>3
<1>19. ASSUME NEW t \in Thread, CallWait(t) PROVE SInv'
    BY <1>19 DEF CallWait
<1>20. ASSUME NEW t \in Thread, SequenceWait(t) PROVE SInv'
    BY <1>20 DEF SequenceWait
<1>21. ASSUME NEW t \in Thread, SequenceReturn(t) PROVE SInv'
    BY <1>21 DEF SequenceReturn
<1>22. ASSUME NEW t \in Thread, SequenceInterrupted(t) PROVE SInv'
    BY <1>22 DEF SequenceInterrupted
<1>23. ASSUME NEW t \in Thread, WaitReturn(t) PROVE SInv'
    BY <1>23 DEF WaitReturn
<1>24. ASSUME NEW t \in Thread, CallSignal(t) PROVE SInv'
    <2>1. \E w \in Thread : waiting[w]
        <3>1. Waiters \in SUBSET Thread /\ num_waiters_ > 0
            BY <1>24 DEF CallSignal, AnnounceWake, Waiters
        <3>2. Waiters # {}
            BY <3>1, SetsCounted DEF Counted
        <3>. QED
            BY <3>2 DEF Waiters
    <2>. QED
        BY <1>24, <2>1 DEF CallSignal, AnnounceWake
<1>25. ASSUME NEW t \in Thread, SignalWake(t) PROVE SInv'
    BY <1>25 DEF SignalWake, WakeOne
<1>26. ASSUME NEW t \in Thread, CallBroadcast(t) PROVE SInv'
    BY <1>26 DEF CallBroadcast, AnnounceWake
<1>27. ASSUME NEW t \in Thread, Requeue(t) PROVE SInv'
    BY <1>27 DEF Requeue, StateMeansOwned
<1>. QED
    BY <1>1, <1>2, <1>3, <1>4, <1>5, <1>6, <1>7, <1>8, <1>9, <1>10, <1>11, <1>12, <1>13, <1>14,
       <1>15, <1>16, <1>17, <1>18, <1>19, <1>20, <1>21, <1>22, <1>23, <1>24, <1>25, <1>26, <1>27, Zenon
    DEF Next, LockStep, UnlockStep, ConditionStep, ClientCall, KernelInterrupt

LEMMA SpecWInv == Spec => [](IInv /\ WInv)
BY InitWInv, NextWInv, SpecIInv, PTL DEF Spec

\* Whenever the mutex is free and somebody sleeps on state_, some thread is awake that will
\* take the mutex or make the wake system call: ExclusiveUnlock may skip that call when it
\* reads num_contenders_ as zero, and Broadcast may requeue its waiters without waking any.
THEOREM NoWakeupIsLost == Spec => []NoLostWakeup
BY SpecWInv, PTL DEF WInv

\* When ConditionVariable::Signal returns, some waiter is on its way out, even if the
\* system call found nobody asleep.
THEOREM SignalIsNotLost == Spec => SignalNotLost
<1>1. ASSUME IInv, WInv, [Next]_vars
      PROVE  [\A t \in Thread : pc[t] = "signalWake" /\ pc'[t] = "held" =>
                  \E w \in Thread : Released(w)']_vars
    <2> SUFFICES ASSUME NEW t \in Thread, pc[t] = "signalWake", pc'[t] = "held"
                 PROVE  \E w \in Thread : Released(w)'
        OBVIOUS
    <2>1. SignalWake(t)
        <3>1. PICK u \in Thread : \/ LockStep(u) \/ UnlockStep(u) \/ ConditionStep(u)
                                 \/ ClientCall(u) \/ KernelInterrupt(u)
            BY <1>1 DEF Next, vars
        <3>2. u = t
            BY <1>1, <3>1
            DEF LockStep, UnlockStep, ConditionStep, ClientCall, KernelInterrupt, CallLock,
                LockAgain, LoadState, CasLock, CasAcquire, Contend, FutexWait, FutexReturn,
                FutexInterrupted, Uncontend, Own, CallTryLock, TryLoad, TryCas, CallUnlock,
                CasRelease, WakeCheck, Wake, AfterUnlock, CallWait, SequenceWait, SequenceReturn,
                SequenceInterrupted, WaitReturn, CallSignal, SignalWake, CallBroadcast,
                AnnounceWake, Requeue, IInv, TypeOK
        <3>. QED
            BY <3>1, <3>2
            DEF LockStep, UnlockStep, ConditionStep, ClientCall, KernelInterrupt, CallLock,
                LockAgain, LoadState, CasLock, Contend, FutexWait, FutexReturn,
                FutexInterrupted, Uncontend, Own, CallTryLock, TryLoad, TryCas, CallUnlock,
                CasRelease, WakeCheck, Wake, CallWait, SequenceWait, SequenceReturn,
                SequenceInterrupted, WaitReturn, CallSignal, CallBroadcast, AnnounceWake, Requeue
    <2>2. CASE sequenceQ = {}
        <3>1. PICK w \in Thread : waiting[w]
            BY <1>1 DEF WInv, Signalled
        <3>. QED
            BY <1>1, <2>1, <2>2, <3>1
            DEF WInv, Signalled, SignalWake, WakeOne, Released, condVars, waitVars, IInv, TypeOK
    <2>3. CASE sequenceQ # {}
        <3>1. PICK w \in sequenceQ : sequenceQ' = sequenceQ \ {w}
            BY <2>1, <2>3 DEF SignalWake, WakeOne
        <3>. QED
            BY <1>1, <2>1, <3>1 DEF SignalWake, Released, condVars, waitVars, IInv, TypeOK, Queues
    <2>. QED
        BY <2>2, <2>3
<1>. QED
    BY <1>1, SpecWInv, PTL DEF Spec, SignalNotLost
===============================================================================
