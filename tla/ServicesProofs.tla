--------------------------- MODULE ServicesProofs ---------------------------
(***************************************************************************)
(* Proofs about components that share the threads of the process and       *)
(* nothing else: ReaderWriterMutex, MovingGc, ThreadPool and               *)
(* RuntimeShutdown.                                                        *)
(***************************************************************************)
EXTENDS ReaderWriterMutex, MovingGc, ThreadPool, RuntimeShutdown, FiniteSetTheorems, TLAPS

(***************************************************************************)
(* ReaderWriterMutex for every finite set of threads: state_ is the exact  *)
(* account of the holders, and no wake-up is lost.                         *)
(***************************************************************************)

Shape ==
    /\ state_ \in Int
    /\ exclusive_owner_ \in Thread \cup {NoThread}
    /\ num_pending_readers_ \in Int /\ num_pending_writers_ \in Int
    /\ sleepers \subseteq Thread
    /\ pc \in [Thread -> Pcs]
    /\ cur_state \in [Thread -> Int]
    /\ timed \in [Thread -> BOOLEAN]
    /\ fatal \in BOOLEAN

\* What a thread about to exchange state_ read before.
LocalsFit ==
    \A t \in Thread :
        /\ pc[t] = "wCas" => cur_state[t] = 0
        /\ pc[t] \in {"rCas", "tryCas"} => cur_state[t] >= 0
        /\ pc[t] = "rRelease" => cur_state[t] > 0

OwnerFits ==
    /\ \A t \in Thread : pc[t] = "exclusive" => exclusive_owner_ = t
    /\ (\A t \in Thread : pc[t] # "exclusive") => exclusive_owner_ = NoThread

IInv == Shape /\ LocalsFit /\ OwnerFits /\ StateCountsHolders

USE DEF At, Goto, Pcs, WriterPcs, ReaderPcs, ExclusivePcs, SharedPcs, WakePcs

\* How the holders change when one thread moves to another label.
LEMMA HoldersMove ==
    ASSUME pc \in [Thread -> Pcs], NEW t \in Thread, NEW l, pc' = [pc EXCEPT ![t] = l]
    PROVE  /\ Readers' = IF l \in SharedPcs THEN Readers \cup {t} ELSE Readers \ {t}
           /\ Writers' = IF l \in ExclusivePcs THEN Writers \cup {t} ELSE Writers \ {t}
BY DEF Readers, Writers

LEMMA ReadersCounted ==
    /\ IsFiniteSet(Readers)
    /\ Cardinality(Readers) \in Nat
    /\ Cardinality(Readers) <= Cardinality(Thread)
    /\ Readers # {} => Cardinality(Readers) > 0
    /\ \A t : /\ t \notin Readers => Cardinality(Readers \cup {t}) = Cardinality(Readers) + 1
              /\ t \in Readers => Cardinality(Readers \ {t}) = Cardinality(Readers) - 1
<1>1. IsFiniteSet(Readers) /\ Cardinality(Readers) <= Cardinality(Thread)
    BY ThreadAssumption, FS_Subset DEF Readers
<1>2. Cardinality(Readers) \in Nat
    BY <1>1, FS_CardinalityType
<1>3. Readers # {} => Cardinality(Readers) > 0
    BY <1>1, <1>2, FS_EmptySet
<1>4. \A t : /\ t \notin Readers => Cardinality(Readers \cup {t}) = Cardinality(Readers) + 1
             /\ t \in Readers => Cardinality(Readers \ {t}) = Cardinality(Readers) - 1
    BY <1>1, FS_AddElement, FS_RemoveElement
<1>. QED
    BY <1>1, <1>2, <1>3, <1>4

LEMMA InitIInv == Init => IInv
<1>1. Init => Readers = {} /\ Writers = {}
    BY DEF Init, Readers, Writers
<1>2. Init => Shape /\ LocalsFit /\ OwnerFits
    <2>1. Init => timed \in [Thread -> BOOLEAN] /\ fatal \in BOOLEAN
        BY Zenon DEF Init
    <2>2. Init => LocalsFit /\ OwnerFits
        BY DEF Init, LocalsFit, OwnerFits
    <2>. QED
        BY <2>1, <2>2 DEF Init, Shape
<1>3. Init => StateCountsHolders
    <2>1. Cardinality({}) = 0
        BY FS_EmptySet
    <2>. QED
        BY <1>1, <2>1 DEF Init, StateCountsHolders
<1>. QED
    BY <1>2, <1>3 DEF IInv

\* A step that leaves state_ alone and moves t between labels that hold nothing,
\* or between labels that hold the same.
LEMMA SameHolders ==
    ASSUME IInv, Shape', LocalsFit', OwnerFits', state_' = state_,
           NEW t \in Thread, NEW l, pc' = [pc EXCEPT ![t] = l],
           l \in SharedPcs <=> pc[t] \in SharedPcs,
           l \in ExclusivePcs <=> pc[t] \in ExclusivePcs
    PROVE  IInv'
<1>1. Readers' = Readers /\ Writers' = Writers
    BY DEF Readers, Writers, IInv, Shape
<1>. QED
    BY <1>1 DEF IInv, StateCountsHolders

LEMMA CasIInv ==
    ASSUME IInv, NEW t \in Thread, NEW from, NEW new \in Int, NEW done, NEW retry,
           Cas(t, from, new, done, retry),
           retry \in {"wLoad", "rLoad", "tryLoad", "wRelease", "shared"},
           retry \in SharedPcs <=> from \in SharedPcs,
           retry \in ExclusivePcs <=> from \in ExclusivePcs,
           \/ from = "wCas" /\ new = -1 /\ done = "wOwn"
           \/ from \in {"rCas", "tryCas"} /\ new = cur_state[t] + 1 /\ done = "shared"
           \/ from = "wRelease" /\ new = 0 /\ done = "wCheckReaders"
           \/ from = "rRelease" /\ new = cur_state[t] - 1 /\ done \in {"rCheckWriters", "idle"}
    PROVE  IInv'
<1> USE DEF IInv, Shape, LocalsFit, OwnerFits, pendingVars
<1>1. CASE pc' = [pc EXCEPT ![t] = retry] /\ state_' = state_
    <2>1. Shape' /\ LocalsFit' /\ OwnerFits'
        BY <1>1 DEF Cas
    <2>. QED
        BY <1>1, <2>1, SameHolders, Zenon DEF Cas
<1>2. CASE pc' = [pc EXCEPT ![t] = done] /\ state_ = cur_state[t] /\ state_' = new
    <2>1. Shape' /\ LocalsFit'
        BY <1>2 DEF Cas
    <2>2. OwnerFits'
        BY <1>2 DEF Cas
    <2>3. StateCountsHolders'
        <3>1. /\ Readers' = IF done \in SharedPcs THEN Readers \cup {t} ELSE Readers \ {t}
              /\ Writers' = IF done \in ExclusivePcs THEN Writers \cup {t} ELSE Writers \ {t}
            BY <1>2, HoldersMove, Zenon
        <3>2. CASE from = "wCas"
            BY <3>1, <3>2, <1>2, ReadersCounted DEF StateCountsHolders, Cas, Readers, Writers
        <3>3. CASE from \in {"rCas", "tryCas"}
            <4>1. t \notin Readers /\ t \notin Writers /\ Writers = {}
                BY <3>3, <1>2 DEF StateCountsHolders, Cas, Readers, Writers
            <4>2. Readers' = Readers \cup {t} /\ Writers' = {}
                BY <3>1, <3>3, <4>1
            <4>. QED
                BY <4>1, <4>2, <3>3, <1>2, ReadersCounted DEF StateCountsHolders
        <3>4. CASE from = "wRelease"
            <4>1. t \in Writers /\ t \notin Readers
                BY <3>4 DEF Cas, Readers, Writers
            <4>2. Readers' = {} /\ Writers' = {}
                BY <3>1, <3>4, <4>1 DEF StateCountsHolders
            <4>. QED
                BY <4>2, <3>4, <1>2, FS_EmptySet DEF StateCountsHolders
        <3>5. CASE from = "rRelease"
            <4>1. t \in Readers /\ t \notin Writers /\ Writers = {}
                BY <3>5, <1>2 DEF StateCountsHolders, Cas, Readers, Writers
            <4>2. Readers' = Readers \ {t} /\ Writers' = {}
                BY <3>1, <3>5, <4>1
            <4>. QED
                BY <4>1, <4>2, <3>5, <1>2, ReadersCounted DEF StateCountsHolders
        <3>. QED
            BY <3>2, <3>3, <3>4, <3>5
    <2>. QED
        BY <2>1, <2>2, <2>3
<1>. QED
    BY <1>1, <1>2 DEF Cas

LEMMA NextIInv == IInv /\ [Next]_vars => IInv'
<1> SUFFICES ASSUME IInv, [Next]_vars PROVE IInv'
    OBVIOUS
<1> USE ThreadAssumption DEF Shape, LocalsFit, OwnerFits, lockVars, pendingVars
<1>1. CASE UNCHANGED vars
    BY <1>1 DEF IInv, vars, StateCountsHolders, Readers, Writers
<1>2. ASSUME NEW t \in Thread, CallExclusiveLock(t) PROVE IInv'
    BY <1>2, SameHolders, Zenon DEF IInv, CallExclusiveLock
<1>3. ASSUME NEW t \in Thread, ExclusiveLoad(t) PROVE IInv'
    BY <1>3, SameHolders, Zenon DEF IInv, ExclusiveLoad, Load
<1>4. ASSUME NEW t \in Thread, ExclusiveCas(t) PROVE IInv'
    BY <1>4, CasIInv DEF ExclusiveCas
<1>5. ASSUME NEW t \in Thread, ExclusivePend(t) PROVE IInv'
    <2>1. Shape' /\ LocalsFit' /\ OwnerFits'
        BY <1>5 DEF IInv, ExclusivePend
    <2>. QED
        BY <1>5, <2>1, SameHolders, Zenon DEF ExclusivePend
<1>6. ASSUME NEW t \in Thread, ExclusiveFutexWait(t) PROVE IInv'
    BY <1>6, SameHolders DEF IInv, ExclusiveFutexWait, FutexWait
<1>7. ASSUME NEW t \in Thread, ExclusiveFutexReturn(t) PROVE IInv'
    BY <1>7, SameHolders, Zenon DEF IInv, ExclusiveFutexReturn, FutexReturn
<1>8. ASSUME NEW t \in Thread, ExclusiveInterrupted(t) PROVE IInv'
    BY <1>8, SameHolders, Zenon DEF IInv, ExclusiveInterrupted
<1>9. ASSUME NEW t \in Thread, ExclusiveUnpend(t) PROVE IInv'
    <2>1. Shape' /\ LocalsFit' /\ OwnerFits'
        BY <1>9 DEF IInv, ExclusiveUnpend
    <2>. QED
        BY <1>9, <2>1, SameHolders, Zenon DEF ExclusiveUnpend
<1>10. ASSUME NEW t \in Thread, TimedOut(t) PROVE IInv'
    <2>1. Shape' /\ LocalsFit' /\ OwnerFits'
        BY <1>10 DEF IInv, TimedOut
    <2>. QED
        BY <1>10, <2>1, SameHolders, Zenon DEF TimedOut
<1>11. ASSUME NEW t \in Thread, ExclusiveOwn(t) PROVE IInv'
    <2>1. \A u \in Thread : pc[u] \in ExclusivePcs => u = t
        BY <1>11 DEF IInv, ExclusiveOwn, StateCountsHolders, Writers
    <2>. QED
        BY <1>11, <2>1, SameHolders, Zenon DEF IInv, ExclusiveOwn
<1>12. ASSUME NEW t \in Thread, CallExclusiveUnlock(t) PROVE IInv'
    <2>1. \A u \in Thread : pc[u] \in ExclusivePcs => u = t
        BY <1>12 DEF IInv, CallExclusiveUnlock, StateCountsHolders, Writers
    <2>. QED
        BY <1>12, <2>1, SameHolders, Zenon DEF IInv, CallExclusiveUnlock
<1>13. ASSUME NEW t \in Thread, ExclusiveRelease(t) PROVE IInv'
    BY <1>13, CasIInv DEF ExclusiveRelease
<1>14. ASSUME NEW t \in Thread, ExclusiveCheck(t) PROVE IInv'
    BY <1>14, SameHolders DEF IInv, ExclusiveCheck, Check
<1>15. ASSUME NEW t \in Thread, Wake(t) PROVE IInv'
    BY <1>15, SameHolders, Zenon DEF IInv, Wake, WakeSome
<1>16. ASSUME NEW t \in Thread, CallSharedLock(t) PROVE IInv'
    BY <1>16, SameHolders, Zenon DEF IInv, CallSharedLock
<1>17. ASSUME NEW t \in Thread, SharedLoad(t) PROVE IInv'
    BY <1>17, SameHolders DEF IInv, SharedLoad, Load
<1>18. ASSUME NEW t \in Thread, SharedCas(t) PROVE IInv'
    <2>1. cur_state[t] + 1 \in Int
        BY DEF IInv
    <2>. QED
        BY <1>18, <2>1, CasIInv DEF SharedCas
<1>19. ASSUME NEW t \in Thread, SharedPend(t) PROVE IInv'
    <2>1. Shape' /\ LocalsFit' /\ OwnerFits'
        BY <1>19 DEF IInv, SharedPend
    <2>. QED
        BY <1>19, <2>1, SameHolders, Zenon DEF SharedPend
<1>20. ASSUME NEW t \in Thread, SharedFutexWait(t) PROVE IInv'
    BY <1>20, SameHolders DEF IInv, SharedFutexWait, FutexWait
<1>21. ASSUME NEW t \in Thread, SharedFutexReturn(t) PROVE IInv'
    BY <1>21, SameHolders, Zenon DEF IInv, SharedFutexReturn, FutexReturn
<1>22. ASSUME NEW t \in Thread, SharedInterrupted(t) PROVE IInv'
    BY <1>22 DEF IInv, SharedInterrupted, StateCountsHolders, Readers, Writers
<1>23. ASSUME NEW t \in Thread, SharedUnpend(t) PROVE IInv'
    <2>1. Shape' /\ LocalsFit' /\ OwnerFits'
        BY <1>23 DEF IInv, SharedUnpend
    <2>. QED
        BY <1>23, <2>1, SameHolders, Zenon DEF SharedUnpend
<1>24. ASSUME NEW t \in Thread, CallSharedUnlock(t) PROVE IInv'
    BY <1>24, SameHolders, Zenon DEF IInv, CallSharedUnlock, Load
<1>25. ASSUME NEW t \in Thread, SharedRelease(t) PROVE IInv'
    <2>1. cur_state[t] - 1 \in Int
        BY DEF IInv
    <2>. QED
        BY <1>25, <2>1, CasIInv DEF SharedRelease
<1>26. ASSUME NEW t \in Thread, SharedCheck(t) PROVE IInv'
    BY <1>26, SameHolders DEF IInv, SharedCheck, Check
<1>27. CASE Aborted
    BY <1>27, <1>1 DEF Aborted
<1>. QED
    BY <1>1, <1>2, <1>3, <1>4, <1>5, <1>6, <1>7, <1>8, <1>9, <1>10, <1>11, <1>12, <1>13, <1>14,
       <1>15, <1>16, <1>17, <1>18, <1>19, <1>20, <1>21, <1>22, <1>23, <1>24, <1>25, <1>26, <1>27
    DEF Next, WriterStep, ReaderStep, Unlock, ClientCall, KernelReturn

LEMMA SpecIInv == Spec => []IInv
BY InitIInv, NextIInv, PTL DEF Spec

\* state_ always tells exactly who holds the lock: one writer alone, or so many readers.
\* ExclusiveUnlock and SharedUnlock therefore never abort with "Unexpected state_".
THEOREM StateIsExact == Spec => []StateCountsHolders
BY SpecIInv, PTL DEF IInv

\* Every variable keeps its type; state_ never leaves -1 .. number of threads.
THEOREM TypeCorrect == Spec => []TypeOK
<1>1. IInv => TypeOK
    BY ReadersCounted, ThreadAssumption, FS_CardinalityType
    DEF IInv, Shape, TypeOK, StateCountsHolders
<1>. QED
    BY <1>1, SpecIInv, PTL

\* No stale exclusive_owner_ is visible to a thread that just got in.
THEOREM OwnerIsExact == Spec => []OwnerMatchesHolder
<1>1. IInv => OwnerMatchesHolder
    BY DEF IInv, Shape, OwnerFits, OwnerMatchesHolder, StateCountsHolders, Readers, Writers
<1>. QED
    BY <1>1, SpecIInv, PTL

-----------------------------------------------------------------------------
(* No wake-up is lost.  The two pending counts are exact, and a thread     *)
(* that will look at state_ or at a pending count is enough to find every  *)
(* sleeper there is: one that has found no pending readers goes on to look *)
(* for writers only, so then all the sleepers are writers.                 *)

PendingReaders == {t \in Thread : pc[t] \in {"rWait", "rAsleep", "rUnpend"}}
PendingWriters == {t \in Thread : pc[t] \in {"wWait", "wAsleep", "wUnpend"}}

Counted ==
    /\ num_pending_readers_ = Cardinality(PendingReaders)
    /\ num_pending_writers_ = Cardinality(PendingWriters)

Sleepers ==
    /\ \A t \in sleepers : pc[t] \in {"wAsleep", "rAsleep"}
    /\ \A t \in Thread : pc[t] \in {"wPend", "wWait", "rPend", "rWait"} => cur_state[t] # 0

\* t finds a sleeper, or takes the lock and finds it when it unlocks.
Rescues(t) ==
    \/ pc[t] \in {"wCheckReaders", "rCheckWriters", "wake", "wLoad", "wCas", "wWait", "wUnpend",
                  "rLoad", "rCas", "rWait", "rUnpend", "tryLoad", "tryCas"}
    \/ pc[t] \in {"wAsleep", "rAsleep"} /\ t \notin sleepers
    \/ pc[t] = "wCheckWriters" /\ \A s \in sleepers : pc[s] = "wAsleep"
    \/ pc[t] = "rCheckReaders" /\ \A s \in sleepers : pc[s] = "rAsleep"

Rescued == ~fatal /\ state_ = 0 /\ sleepers # {} => \E t \in Thread : Rescues(t)

WInv == Counted /\ Sleepers /\ Rescued

LEMMA SetsCounted ==
    ASSUME NEW S \in SUBSET Thread
    PROVE  /\ Cardinality(S) \in Nat
           /\ S # {} => Cardinality(S) > 0
           /\ S = {} => Cardinality(S) = 0
           /\ \A t : t \notin S => Cardinality(S \cup {t}) = Cardinality(S) + 1
           /\ \A t : t \in S => Cardinality(S \ {t}) = Cardinality(S) - 1
<1>1. IsFiniteSet(S)
    BY ThreadAssumption, FS_Subset
<1>2. Cardinality(S) \in Nat
    BY <1>1, FS_CardinalityType
<1>3. (S # {} => Cardinality(S) > 0) /\ (S = {} => Cardinality(S) = 0)
    BY <1>1, <1>2, FS_EmptySet
<1>4. \A t : /\ t \notin S => Cardinality(S \cup {t}) = Cardinality(S) + 1
             /\ t \in S => Cardinality(S \ {t}) = Cardinality(S) - 1
    BY <1>1, FS_AddElement, FS_RemoveElement
<1>. QED
    BY <1>2, <1>3, <1>4

LEMMA NextCounted == IInv /\ Counted /\ [Next]_vars => Counted'
<1> SUFFICES ASSUME IInv, Counted, [Next]_vars PROVE Counted'
    OBVIOUS
<1> USE DEF IInv, Shape, lockVars, pendingVars
<1>a. PendingReaders \in SUBSET Thread /\ PendingWriters \in SUBSET Thread
    BY DEF PendingReaders, PendingWriters
<1>1. CASE /\ PendingReaders' = PendingReaders /\ PendingWriters' = PendingWriters
           /\ UNCHANGED pendingVars
    BY <1>1 DEF Counted
<1>2. ASSUME NEW t \in Thread, ExclusivePend(t) PROVE Counted'
    <2>1. /\ PendingWriters' = PendingWriters \cup {t} /\ t \notin PendingWriters
          /\ PendingReaders' = PendingReaders
        BY <1>2 DEF ExclusivePend, PendingReaders, PendingWriters
    <2>2. num_pending_writers_' = num_pending_writers_ + 1 /\ num_pending_readers_' = num_pending_readers_
        BY <1>2 DEF ExclusivePend
    <2>. QED
        BY <1>a, <2>1, <2>2, SetsCounted DEF Counted
<1>3. ASSUME NEW t \in Thread, ExclusiveUnpend(t) PROVE Counted'
    <2>1. /\ PendingWriters' = PendingWriters \ {t} /\ t \in PendingWriters
          /\ PendingReaders' = PendingReaders
        BY <1>3 DEF ExclusiveUnpend, PendingReaders, PendingWriters
    <2>2. num_pending_writers_' = num_pending_writers_ - 1 /\ num_pending_readers_' = num_pending_readers_
        BY <1>3 DEF ExclusiveUnpend
    <2>. QED
        BY <1>a, <2>1, <2>2, SetsCounted DEF Counted
<1>4. ASSUME NEW t \in Thread, SharedPend(t) PROVE Counted'
    <2>1. /\ PendingReaders' = PendingReaders \cup {t} /\ t \notin PendingReaders
          /\ PendingWriters' = PendingWriters
        BY <1>4 DEF SharedPend, PendingReaders, PendingWriters
    <2>2. num_pending_readers_' = num_pending_readers_ + 1 /\ num_pending_writers_' = num_pending_writers_
        BY <1>4 DEF SharedPend
    <2>. QED
        BY <1>a, <2>1, <2>2, SetsCounted DEF Counted
<1>5. ASSUME NEW t \in Thread, SharedUnpend(t) PROVE Counted'
    <2>1. /\ PendingReaders' = PendingReaders \ {t} /\ t \in PendingReaders
          /\ PendingWriters' = PendingWriters
        BY <1>5 DEF SharedUnpend, PendingReaders, PendingWriters
    <2>2. num_pending_readers_' = num_pending_readers_ - 1 /\ num_pending_writers_' = num_pending_writers_
        BY <1>5 DEF SharedUnpend
    <2>. QED
        BY <1>a, <2>1, <2>2, SetsCounted DEF Counted
<1>6. ASSUME NEW t \in Thread, TimedOut(t) PROVE Counted'
    <2>1. CASE pc[t] = "wPend"
        BY <1>1, <1>6, <2>1 DEF TimedOut, PendingReaders, PendingWriters
    <2>2. CASE pc[t] = "wAsleep"
        <3>1. /\ PendingWriters' = PendingWriters \ {t} /\ t \in PendingWriters
              /\ PendingReaders' = PendingReaders
            BY <1>6, <2>2 DEF TimedOut, PendingReaders, PendingWriters
        <3>2. /\ num_pending_writers_' = num_pending_writers_ - 1
              /\ num_pending_readers_' = num_pending_readers_
            BY <1>6, <2>2 DEF TimedOut
        <3>. QED
            BY <1>a, <3>1, <3>2, SetsCounted DEF Counted
    <2>. QED
        BY <1>6, <2>1, <2>2 DEF TimedOut
<1>7. CASE UNCHANGED vars
    BY <1>7 DEF vars, Counted, PendingReaders, PendingWriters
<1>8. ASSUME NEW t \in Thread,
             \/ ExclusiveLoad(t) \/ ExclusiveCas(t) \/ ExclusiveFutexWait(t)
             \/ ExclusiveFutexReturn(t) \/ ExclusiveOwn(t) \/ ExclusiveRelease(t)
             \/ ExclusiveCheck(t) \/ Wake(t)
      PROVE  Counted'
    BY <1>1, <1>8
    DEF ExclusiveLoad, Load, ExclusiveCas, Cas, ExclusiveFutexWait, FutexWait, ExclusiveFutexReturn,
        FutexReturn, ExclusiveOwn, ExclusiveRelease, ExclusiveCheck, Check, Wake,
        PendingReaders, PendingWriters
<1>9. ASSUME NEW t \in Thread,
             \/ SharedLoad(t) \/ SharedCas(t) \/ SharedFutexWait(t) \/ SharedFutexReturn(t)
             \/ SharedRelease(t) \/ SharedCheck(t)
      PROVE  Counted'
    BY <1>1, <1>9
    DEF SharedLoad, Load, SharedCas, Cas, SharedFutexWait, FutexWait, SharedFutexReturn,
        FutexReturn, SharedRelease, SharedCheck, Check, PendingReaders, PendingWriters
<1>10. ASSUME NEW t \in Thread,
              \/ CallExclusiveLock(t) \/ CallSharedLock(t) \/ Unlock(t)
              \/ ExclusiveInterrupted(t) \/ SharedInterrupted(t)
       PROVE  Counted'
    BY <1>1, <1>10
    DEF CallExclusiveLock, CallSharedLock, Unlock, CallExclusiveUnlock, CallSharedUnlock, Load,
        ExclusiveInterrupted, SharedInterrupted, PendingReaders, PendingWriters
<1>. QED
    BY <1>2, <1>3, <1>4, <1>5, <1>6, <1>7, <1>8, <1>9, <1>10
    DEF Next, WriterStep, ReaderStep, ClientCall, KernelReturn, Aborted

LEMMA NextSleepers == IInv /\ Sleepers /\ [Next]_vars => Sleepers'
<1> SUFFICES ASSUME IInv, Sleepers, [Next]_vars PROVE Sleepers'
    OBVIOUS
<1> USE DEF IInv, Shape, Sleepers, lockVars, pendingVars
<1>1. CASE UNCHANGED vars
    BY <1>1 DEF vars
<1>2. ASSUME NEW t \in Thread, WriterStep(t) PROVE Sleepers'
    BY <1>2
    DEF WriterStep, ExclusiveLoad, Load, ExclusiveCas, Cas, ExclusivePend, ExclusiveFutexWait,
        FutexWait, ExclusiveFutexReturn, FutexReturn, ExclusiveUnpend, ExclusiveOwn,
        ExclusiveRelease, ExclusiveCheck, Check, Wake, WakeSome
<1>3. ASSUME NEW t \in Thread, ReaderStep(t) PROVE Sleepers'
    BY <1>3
    DEF ReaderStep, SharedLoad, Load, SharedCas, Cas, SharedPend, SharedFutexWait, FutexWait,
        SharedFutexReturn, FutexReturn, SharedUnpend, SharedRelease, SharedCheck, Check
<1>4. ASSUME NEW t \in Thread, ClientCall(t) \/ KernelReturn(t) PROVE Sleepers'
    BY <1>4
    DEF ClientCall, CallExclusiveLock, CallSharedLock, Unlock, CallExclusiveUnlock,
        CallSharedUnlock, Load, KernelReturn, ExclusiveInterrupted, TimedOut, SharedInterrupted
<1>. QED
    BY <1>1, <1>2, <1>3, <1>4 DEF Next, Aborted

\* A step of t leaves every other thread the rescuer it was, as long as nobody goes to sleep.
LEMMA OthersRescue ==
    ASSUME IInv, Sleepers, NEW t \in Thread, NEW u \in Thread, u # t, Rescues(u),
           sleepers' \subseteq sleepers, t \in sleepers' => pc'[t] = pc[t],
           NEW l, pc' = [pc EXCEPT ![t] = l]
    PROVE  Rescues(u)'
BY DEF IInv, Shape, Sleepers, Rescues


\* A step that finds and leaves the lock free, and puts nobody to sleep.
LEMMA FreeStep ==
    ASSUME IInv, WInv, NEW t \in Thread, ~fatal, state_ = 0, state_' = 0, sleepers' # {},
           sleepers' \subseteq sleepers, NEW l, pc' = [pc EXCEPT ![t] = l],
           t \in sleepers' => pc'[t] = pc[t],
           Rescues(t) => \E u \in Thread : Rescues(u)'
    PROVE  Rescued'
<1>1. PICK u \in Thread : Rescues(u)
    BY DEF WInv, Rescued
<1>2. CASE u = t
    BY <1>1, <1>2 DEF Rescued
<1>3. CASE u # t
    BY <1>1, <1>3, OthersRescue, Zenon DEF Rescued, WInv
<1>. QED
    BY <1>2, <1>3

LEMMA NextRescued == IInv /\ WInv /\ [Next]_vars => Rescued'
<1> SUFFICES ASSUME IInv, WInv, [Next]_vars, ~fatal', state_' = 0, sleepers' # {}
             PROVE  Rescued'
    BY DEF Rescued
<1> USE DEF lockVars, pendingVars
<1>s. Shape /\ LocalsFit /\ Sleepers /\ ~fatal
    <2>1. fatal' \in BOOLEAN /\ fatal \in BOOLEAN
        BY NextIInv DEF IInv, Shape
    <2>2. fatal => fatal'
        BY Zenon DEF Next, WriterStep, ReaderStep, ClientCall, KernelReturn, ExclusiveLoad, Load,
           ExclusiveCas, Cas, ExclusivePend, ExclusiveFutexWait, FutexWait, ExclusiveFutexReturn,
           FutexReturn, ExclusiveUnpend, ExclusiveOwn, ExclusiveRelease, ExclusiveCheck, Check, Wake,
           SharedLoad, SharedCas, SharedPend, SharedFutexWait, SharedFutexReturn, SharedUnpend,
           SharedRelease, SharedCheck, CallExclusiveLock, CallSharedLock, Unlock,
           CallExclusiveUnlock, CallSharedUnlock, ExclusiveInterrupted, TimedOut, SharedInterrupted,
           Aborted, vars
    <2>. QED
        BY <2>2 DEF IInv, WInv
<1>1. CASE UNCHANGED vars
    BY <1>1 DEF vars, WInv, Rescued, Rescues
\* A lock that is set free has its releaser as the rescuer.
<1>2. CASE state_ # 0
    <2>1. CASE Next
        <3>1. PICK t \in Thread :
                 ExclusiveCas(t) \/ SharedCas(t) \/ ExclusiveRelease(t) \/ SharedRelease(t)
            BY <1>2, <2>1, Zenon
            DEF Next, WriterStep, ReaderStep, ClientCall, KernelReturn, ExclusiveLoad, Load,
               ExclusivePend, ExclusiveFutexWait, FutexWait, ExclusiveFutexReturn, FutexReturn,
               ExclusiveUnpend, ExclusiveOwn, ExclusiveCheck, Check, Wake, SharedLoad, SharedPend,
               SharedFutexWait, SharedFutexReturn, SharedUnpend, SharedCheck, CallExclusiveLock,
               CallSharedLock, Unlock, CallExclusiveUnlock, CallSharedUnlock,
               ExclusiveInterrupted, TimedOut, SharedInterrupted, Aborted, vars
        <3>2. pc'[t] \in {"wCheckReaders", "rCheckWriters"}
            BY <1>s, <1>2, <3>1
            DEF Shape, LocalsFit, ExclusiveCas, SharedCas, ExclusiveRelease, SharedRelease, Cas
        <3>. QED
            BY <3>2 DEF Rescued, Rescues
    <2>. QED
        BY <1>1, <2>1, Zenon
<1> SUFFICES ASSUME state_ = 0 PROVE Rescued'
    BY <1>2
<1>3. ASSUME NEW t \in Thread, ExclusiveLoad(t) \/ SharedLoad(t) PROVE Rescued'
    BY <1>3, <1>s, FreeStep DEF Shape, Sleepers, Rescues, ExclusiveLoad, SharedLoad, Load
<1>4. ASSUME NEW t \in Thread,
             ExclusiveCas(t) \/ SharedCas(t) \/ ExclusiveRelease(t) \/ SharedRelease(t)
      PROVE  Rescued'
    BY <1>4, <1>s, FreeStep
    DEF Shape, LocalsFit, Sleepers, Rescues, ExclusiveCas, SharedCas, ExclusiveRelease,
        SharedRelease, Cas
<1>5. ASSUME NEW t \in Thread, ExclusivePend(t) \/ SharedPend(t) PROVE Rescued'
    BY <1>5, <1>s, FreeStep DEF Shape, Sleepers, Rescues, ExclusivePend, SharedPend
<1>6. ASSUME NEW t \in Thread, ExclusiveUnpend(t) \/ SharedUnpend(t) PROVE Rescued'
    BY <1>6, <1>s, FreeStep DEF Shape, Sleepers, Rescues, ExclusiveUnpend, SharedUnpend
<1>7. ASSUME NEW t \in Thread, ExclusiveFutexWait(t) \/ SharedFutexWait(t) PROVE Rescued'
    BY <1>7, <1>s, FreeStep
    DEF Shape, Sleepers, Rescues, ExclusiveFutexWait, SharedFutexWait, FutexWait
<1>8. ASSUME NEW t \in Thread, ExclusiveFutexReturn(t) \/ SharedFutexReturn(t) PROVE Rescued'
    BY <1>8, <1>s, FreeStep
    DEF Shape, Sleepers, Rescues, ExclusiveFutexReturn, SharedFutexReturn, FutexReturn
<1>9. ASSUME NEW t \in Thread, ExclusiveCheck(t) \/ SharedCheck(t) PROVE Rescued'
    <2>1. /\ num_pending_readers_ <= 0 => \A s \in sleepers : pc[s] = "wAsleep"
          /\ num_pending_writers_ <= 0 => \A s \in sleepers : pc[s] = "rAsleep"
        <3>1. PendingReaders \in SUBSET Thread /\ PendingWriters \in SUBSET Thread
            BY DEF PendingReaders, PendingWriters
        <3>2. /\ num_pending_readers_ <= 0 => PendingReaders = {}
              /\ num_pending_writers_ <= 0 => PendingWriters = {}
            BY <3>1, SetsCounted DEF WInv, Counted
        <3>. QED
            BY <1>s, <3>2 DEF Shape, Sleepers, PendingReaders, PendingWriters
    <2>. QED
        BY <1>9, <1>s, <2>1, FreeStep
        DEF Shape, Sleepers, Rescues, ExclusiveCheck, SharedCheck, Check
<1>10. ASSUME NEW t \in Thread, Wake(t) PROVE Rescued'
    <2>1. PICK w \in WakeSome(sleepers) : sleepers' = sleepers \ w
        BY <1>10 DEF Wake
    <2>2. PICK u \in w : u \in sleepers
        BY <2>1 DEF WakeSome
    <2>3. Rescues(u)' /\ u \in Thread
        BY <1>10, <1>s, <2>1, <2>2 DEF Shape, Sleepers, Rescues, Wake
    <2>. QED
        BY <2>3 DEF Rescued
<1>11. ASSUME NEW t \in Thread, ExclusiveInterrupted(t) PROVE Rescued'
    BY <1>11, <1>s DEF Shape, Rescued, Rescues, ExclusiveInterrupted
<1>12. ASSUME NEW t \in Thread, TimedOut(t) PROVE Rescued'
    BY <1>12, <1>s, FreeStep, Zenon DEF Shape, Sleepers, Rescues, TimedOut
<1>13. ASSUME NEW t \in Thread, SharedInterrupted(t) PROVE Rescued'
    BY <1>13 DEF SharedInterrupted
<1>14. ASSUME NEW t \in Thread, CallExclusiveLock(t) \/ CallSharedLock(t) PROVE Rescued'
    BY <1>14, <1>s DEF Shape, Rescued, Rescues, CallExclusiveLock, CallSharedLock
<1>15. ASSUME NEW t \in Thread, ExclusiveOwn(t) \/ Unlock(t) PROVE Rescued'
    BY <1>15, <1>s, FreeStep
    DEF Shape, Sleepers, Rescues, ExclusiveOwn, Unlock, CallExclusiveUnlock, CallSharedUnlock, Load
<1>. QED
    BY <1>1, <1>3, <1>4, <1>5, <1>6, <1>7, <1>8, <1>9, <1>10, <1>11, <1>12, <1>13, <1>14, <1>15
    DEF Next, WriterStep, ReaderStep, ClientCall, KernelReturn, Aborted

LEMMA InitWInv == Init => WInv
<1>1. Init => PendingReaders = {} /\ PendingWriters = {}
    BY DEF Init, PendingReaders, PendingWriters
<1>. QED
    BY <1>1, SetsCounted DEF Init, WInv, Counted, Sleepers, Rescued

LEMMA SpecWInv == Spec => []WInv
<1>1. IInv /\ WInv /\ [Next]_vars => WInv'
    BY NextCounted, NextSleepers, NextRescued DEF WInv
<1>. QED
    BY <1>1, InitWInv, SpecIInv, PTL DEF Spec

\* A free lock never has sleepers that nobody is going to wake: the unlocks that skip
\* the wake system call because both pending counts read zero skip it rightly.
THEOREM NoWakeupIsLost == Spec => []NoLostWakeup
<1>1. WInv => NoLostWakeup
    BY DEF WInv, Rescued, Rescues, NoLostWakeup, Pending
<1>. QED
    BY <1>1, SpecWInv, PTL

-----------------------------------------------------------------------------
HIDE DEF At, Goto, Pcs, WriterPcs, ReaderPcs, ExclusivePcs, SharedPcs, WakePcs

(***************************************************************************)
(* MovingGc for every finite set of threads and any number of collections: *)
(* an array in a critical section of native code does not move.            *)
(*                                                                         *)
(* The count alone does not say so, because a section may be entered while *)
(* a moving collection runs.  The invariant is that the count is the       *)
(* number of threads from IncrementDisableMovingGC on, and that none of    *)
(* them is past its wait while collector_type_running_ names a moving      *)
(* collection.                                                             *)
(***************************************************************************)
GcLabels ==
    {"run", "increment", "await", "decode", "return", "critical", "collect",
     "background", "compact", "toSS", "toCMS", "planned", "backgroundWait",
     "gc", "gcToSS", "gcToCMS", "finish", "finishNone", "back"}

\* The threads that have raised the count.
Disabling == {t \in Thread : gc_pc[t] \in {"await", "decode", "return", "critical"}}

GcInv ==
    /\ gc_pc \in [Thread -> GcLabels]
    /\ elements \in [Thread -> {-1, 0, 1}]
    /\ address \in {0, 1}
    /\ disable_moving_gc_count = Cardinality(Disabling)
    /\ IsMovingGc(collector_type_running) =>
          \A t \in Thread : gc_pc[t] \notin {"decode", "return", "critical"}
    /\ pauser \in Thread => gc_pc[pauser] \in {"gc", "gcToSS", "gcToCMS"}
    /\ CriticalArrayStays

\* How the number of threads that have raised the count changes when one of
\* them moves.
LEMMA DisablingCounted ==
    ASSUME IsFiniteSet(Thread)
    PROVE  /\ Cardinality(Disabling) \in Nat
           /\ Cardinality(Disabling) = 0 => Disabling = {}
           /\ \A t : /\ t \notin Disabling =>
                           Cardinality(Disabling \cup {t}) = Cardinality(Disabling) + 1
                     /\ t \in Disabling =>
                           Cardinality(Disabling \ {t}) = Cardinality(Disabling) - 1
<1>1. IsFiniteSet(Disabling)
    BY FS_Subset DEF Disabling
<1>2. Cardinality(Disabling) \in Nat /\ (Cardinality(Disabling) = 0 => Disabling = {})
    BY <1>1, FS_CardinalityType, FS_EmptySet
<1>. QED
    BY <1>1, <1>2, FS_AddElement, FS_RemoveElement

LEMMA GcInitInv ==
    ASSUME NoThread \notin Thread
    PROVE  GcInit => GcInv
<1>1. GcInit => Disabling = {}
    BY DEF GcInit, Disabling
<1>2. Cardinality({}) = 0
    BY FS_EmptySet, Zenon
<1>3. GcInit => disable_moving_gc_count = Cardinality(Disabling)
    BY <1>1, <1>2, Zenon DEF GcInit
<1>. QED
    BY <1>1, <1>3 DEF GcInit, GcInv, IsMovingGc, CriticalArrayStays, GcLabels

LEMMA GcNextInv ==
    ASSUME IsFiniteSet(Thread), NoThread \notin Thread, GcInv, [GcNext]_movingGcVars
    PROVE  GcInv'
<1> USE DEF GcInv, GcLabels, IsMovingGc, CriticalArrayStays, GcGoto, gcVars, arrayVars, threadVars,
            LeaveRunnable, EnterRunnable, GcReturn
\* Most steps leave the threads in critical sections alone.
<1>1. ASSUME Disabling' = Disabling,
             disable_moving_gc_count' = disable_moving_gc_count
      PROVE  disable_moving_gc_count' = Cardinality(Disabling)'
    BY <1>1
<1>2. CASE UNCHANGED movingGcVars
    BY <1>1, <1>2 DEF movingGcVars, Disabling
<1>3. ASSUME NEW t \in Thread, IncrementDisableMovingGC(t) PROVE GcInv'
    <2>1. Disabling' = Disabling \cup {t} /\ t \notin Disabling
        BY <1>3 DEF IncrementDisableMovingGC, Disabling
    <2>2. disable_moving_gc_count' = Cardinality(Disabling')
        BY <1>3, <2>1, DisablingCounted DEF IncrementDisableMovingGC
    <2>. QED
        BY <1>3, <2>2 DEF IncrementDisableMovingGC
<1>4. ASSUME NEW t \in Thread, DecrementDisableMovingGC(t) PROVE GcInv'
    <2>1. Disabling' = Disabling \ {t} /\ t \in Disabling
        BY <1>4 DEF DecrementDisableMovingGC, Disabling
    <2>2. disable_moving_gc_count' = Cardinality(Disabling')
        BY <1>4, <2>1, DisablingCounted DEF DecrementDisableMovingGC
    <2>. QED
        BY <1>4, <2>2 DEF DecrementDisableMovingGC
<1>5. ASSUME NEW t \in Thread,
             \/ AwaitGc(t) \/ Decode(t) \/ ReturnToNative(t) \/ GetPrimitiveArrayCritical(t)
      PROVE  GcInv'
    BY <1>5, <1>1
    DEF AwaitGc, Decode, ReturnToNative, GetPrimitiveArrayCritical, Disabling
\* A moving collection begins only when no thread has raised the count.
<1>6. ASSUME NEW t \in Thread,
             \/ CollectGarbageInternal(t) \/ PerformHomogeneousSpaceCompact(t)
             \/ TransitionCollector(t)
      PROVE  GcInv'
    <2>1. disable_moving_gc_count = 0 =>
              \A u \in Thread : gc_pc[u] \notin {"decode", "return", "critical"}
        BY DisablingCounted DEF Disabling
    <2>2. Disabling' = Disabling
        BY <1>6
        DEF CollectGarbageInternal, PerformHomogeneousSpaceCompact, TransitionCollector, Disabling
    <2>. QED
        BY <1>6, <1>1, <2>1, <2>2
        DEF CollectGarbageInternal, PerformHomogeneousSpaceCompact, TransitionCollector
<1>7. ASSUME NEW t \in Thread, \/ ConcurrentGC(t) \/ BackgroundWaited(t) \/ SuspendAll(t)
                               \/ FinishGC(t)
      PROVE  GcInv'
    BY <1>7, <1>1 DEF ConcurrentGC, BackgroundWaited, SuspendAll, FinishGC, Disabling
\* The array moves only when no thread has its address.
<1>8. ASSUME NEW t \in Thread, ResumeAll(t) PROVE GcInv'
    BY <1>8, <1>1 DEF ResumeAll, Disabling
<1>9. ASSUME NEW t \in Thread, \/ BackToRunnable(t) \/ AnswerSuspendRequest(t)
      PROVE  GcInv'
    BY <1>9, <1>1 DEF BackToRunnable, AnswerSuspendRequest, Disabling
<1>10. ASSUME NEW t \in Thread,
              NEW what \in {"collect", "background", "compact", "toSS", "toCMS"},
              AskForGc(t, what)
       PROVE  GcInv'
    BY <1>10, <1>1 DEF AskForGc, Disabling
<1>11. CASE RuntimeShutsDown
    BY <1>11, <1>1 DEF RuntimeShutsDown, Disabling
<1>. QED
    BY <1>2, <1>3, <1>4, <1>5, <1>6, <1>7, <1>8, <1>9, <1>10, <1>11, Zenon DEF GcNext, GcThreadStep

\* No collection, compaction or transition moves an array whose address native
\* code was given by GetPrimitiveArrayCritical and has not released.
THEOREM CriticalArrayNeverMoves == GcSpec => []CriticalArrayStays
<1> USE ThreadAssumption
<1>1. GcInv /\ [GcNext]_movingGcVars => GcInv'
    BY GcNextInv
<1>2. GcInv => CriticalArrayStays
    BY DEF GcInv
<1>3. GcInit => GcInv
    BY GcInitInv
<1>. QED
    BY <1>1, <1>2, <1>3, PTL DEF GcSpec

----------------------------------------------------------------------------
(***************************************************************************)
(* ThreadPool for every finite set of workers and any number of tasks:     *)
(* when Wait returns, no task is queued or running.                        *)
(*                                                                         *)
(* Wait looks at waiting_count_ only, so the invariant says what that is:  *)
(* the number of workers inside the condition's Wait, those that have been *)
(* woken and not yet got the lock included.  A woken worker finds no task, *)
(* and nobody can add one, until Wait's caller goes on.                    *)
(***************************************************************************)
Waiting == {w \in Worker : worker[w] \in {"asleep", "woken"}}

PoolInv ==
    /\ worker \in [Worker -> {"get", "asleep", "woken", "run", "exited"}]
    /\ tasks \in Nat
    /\ waiting_count = Cardinality(Waiting)
    /\ pool_shutting_down => owner \in {"join", "gone"}
    /\ owner = "waited" => tasks = 0 /\ Waiting = Worker

LEMMA WaitingCounted ==
    ASSUME IsFiniteSet(Worker)
    PROVE  /\ Cardinality(Waiting) \in Nat
           /\ Cardinality(Waiting) = Cardinality(Worker) => Waiting = Worker
           /\ \A w : /\ w \notin Waiting =>
                           Cardinality(Waiting \cup {w}) = Cardinality(Waiting) + 1
                     /\ w \in Waiting =>
                           Cardinality(Waiting \ {w}) = Cardinality(Waiting) - 1
<1>1. IsFiniteSet(Waiting) /\ Waiting \subseteq Worker
    BY FS_Subset DEF Waiting
<1>2. Cardinality(Waiting) = Cardinality(Worker) => Waiting = Worker
    BY <1>1, FS_Subset
<1>3. Cardinality(Waiting) \in Nat
    BY <1>1, FS_CardinalityType, Zenon
<1>. QED
    BY <1>1, <1>2, <1>3, FS_AddElement, FS_RemoveElement

LEMMA PoolInitInv == PoolInit => PoolInv
<1>1. PoolInit => Waiting = {}
    BY DEF PoolInit, Waiting
<1>2. PoolInit => pool_shutting_down = FALSE
    BY DEF PoolInit
<1>. QED
    BY <1>1, <1>2, FS_EmptySet DEF PoolInit, PoolInv

\* AddTask wakes at most one worker, which stays inside the condition's Wait.
LEMMA AddTaskPoolInv ==
    ASSUME PoolInv, AddTask, owner # "waited", UNCHANGED owner
    PROVE  PoolInv'
<1>1. Waiting' = Waiting
    BY DEF PoolInv, AddTask, Asleep, Waiting
<1>2. worker' \in [Worker -> {"get", "asleep", "woken", "run", "exited"}]
    BY DEF PoolInv, AddTask, Asleep
<1>. QED
    BY <1>1, <1>2 DEF PoolInv, AddTask

LEMMA PoolNextInv ==
    ASSUME IsFiniteSet(Worker), PoolInv, [PoolNext]_poolVars
    PROVE  PoolInv'
<1> USE DEF PoolInv, queueVars
<1>1. CASE UNCHANGED poolVars
    BY <1>1 DEF poolVars, Waiting
<1>2. ASSUME NEW w \in Worker, GetTask(w) PROVE PoolInv'
    <2> DEFINE waiting == IF worker[w] = "woken" THEN waiting_count - 1 ELSE waiting_count
    <2>1. waiting = Cardinality(Waiting \ {w}) /\ w \notin Waiting \ {w}
        BY <1>2, WaitingCounted, Zenon DEF GetTask, Waiting
    <2>2. Cardinality((Waiting \ {w}) \cup {w}) = Cardinality(Waiting \ {w}) + 1
        <3>1. IsFiniteSet(Waiting \ {w})
            BY FS_Subset DEF Waiting
        <3>. QED
            BY <3>1, FS_AddElement
    <2>3. CASE pool_shutting_down
        <3>1. Waiting' = Waiting \ {w} /\ waiting_count' = waiting
            BY <1>2, <2>3 DEF GetTask, Waiting
        <3>. QED
            BY <1>2, <2>1, <2>3, <3>1 DEF GetTask
    <2>4. CASE ~pool_shutting_down /\ worker'[w] = "run"
        <3>1. Waiting' = Waiting \ {w} /\ waiting_count' = waiting /\ tasks > 0 /\ tasks' = tasks - 1
            BY <1>2, <2>4 DEF GetTask, TryGetTaskLocked, Waiting
        <3>. QED
            BY <1>2, <2>1, <2>4, <3>1 DEF GetTask
    <2>5. CASE ~pool_shutting_down /\ worker'[w] # "run"
        <3>1. Waiting' = (Waiting \ {w}) \cup {w} /\ waiting_count' = waiting + 1
            BY <1>2, <2>5 DEF GetTask, Waiting
        <3>2. owner' = "waited" <=> owner = "waited"
            BY <1>2, <2>5 DEF GetTask, WakeOwner
        <3>. QED
            BY <1>2, <2>1, <2>2, <2>5, <3>1, <3>2 DEF GetTask
    <2>. QED
        BY <2>3, <2>4, <2>5
<1>3. ASSUME NEW w \in Worker, RunTask(w) \/ WorkerWakesEarly(w) PROVE PoolInv'
    <2>1. Waiting' = Waiting
        BY <1>3 DEF RunTask, WorkerWakesEarly, Waiting
    <2>. QED
        BY <1>3, <2>1 DEF RunTask, WorkerWakesEarly
<1>4. ASSUME NEW w \in Worker, TaskAddsTask(w) PROVE PoolInv'
    <2>1. owner # "waited"
        BY <1>4 DEF TaskAddsTask, Waiting
    <2>. QED
        BY <1>4, <2>1, AddTaskPoolInv DEF TaskAddsTask
<1>5. CASE OwnerAddsTask
    BY <1>5, AddTaskPoolInv DEF OwnerAddsTask
<1>6. CASE Wait
    <2>1. Waiting' = Waiting
        BY <1>6 DEF Wait, Waiting
    <2>. QED
        BY <1>6, <2>1, WaitingCounted DEF Wait
<1>7. CASE DoWork \/ RunOwnTask \/ WaitReturns \/ Join \/ CallWait
    <2>1. Waiting' = Waiting
        BY <1>7 DEF DoWork, RunOwnTask, WaitReturns, Join, CallWait, Waiting
    <2>. QED
        BY <1>7, <2>1 DEF DoWork, RunOwnTask, WaitReturns, Join, CallWait, TryGetTaskLocked
<1>8. CASE StopWorkers \/ \E threads \in 1..Cardinality(Worker) : SetMaxActiveWorkers(threads)
    BY <1>8 DEF StopWorkers, SetMaxActiveWorkers, Waiting
<1>9. CASE StartWorkers \/ PoolShutDown
    <2>1. Waiting' = Waiting
        BY <1>9 DEF StartWorkers, PoolShutDown, WakeAll, Waiting
    <2>. QED
        BY <1>9, <2>1 DEF StartWorkers, PoolShutDown, WakeAll
<1>. QED
    BY <1>1, <1>2, <1>3, <1>4, <1>5, <1>6, <1>7, <1>8, <1>9 DEF PoolNext, WorkerStep, OwnerStep

\* When the owner's Wait returns, every task has been finished, the ones added
\* by tasks and the ones that were signalled to a worker that slept included.
THEOREM WaitReturnsWhenDone == PoolSpec => []WaitMeansDone
<1> USE WorkerAssumption
<1>1. PoolInv /\ [PoolNext]_poolVars => PoolInv'
    BY PoolNextInv
<1>2. PoolInv => WaitMeansDone
    BY DEF PoolInv, WaitMeansDone, Waiting
<1>. QED
    BY <1>1, <1>2, PoolInitInv, PTL DEF PoolSpec

----------------------------------------------------------------------------
(***************************************************************************)
(* RuntimeShutdown for every finite set of threads and any number of       *)
(* births: ShutdownIsOrderly.                                              *)
(*                                                                         *)
(* threads_being_born_ is a number; the invariant says whose: the threads  *)
(* that are creating another and those that have been created and are not  *)
(* yet registered.  With shutting_down_ set there are none, and from then  *)
(* on list_ only shrinks, so that what the destroyer has seen of it stays  *)
(* true.                                                                   *)
(***************************************************************************)
ThreadLabel == {"none", "callback", "run", "create", "unregister", "removed"}
DestroyerStage == {"running", "births", "birthsAsleep", "exits", "exitsAsleep",
          "suspendDaemons", "awaitDaemons", "gone"}

ShutdownTypes ==
    /\ threads_being_born \in Nat
    /\ daemon_suspend_count \in [Thread -> Nat]
    /\ child \in [Thread -> Thread \cup {NoThread}]
    /\ rt_pc \in [Thread -> ThreadLabel]
    /\ destroyer \in DestroyerStage

\* The threads whose birth has begun and not ended stand for their births.
BeingBorn == {t \in Thread : rt_pc[t] \in {"create", "callback"}}

Children ==
    /\ \A t \in Thread : rt_pc[t] = "create" <=> child[t] # NoThread
    /\ \A t \in Thread : rt_pc[t] = "create" => rt_pc[child[t]] = "none"
    /\ \A t, u \in Thread : child[t] # NoThread /\ child[t] = child[u] => t = u

ShutdownInv ==
    /\ ShutdownTypes
    /\ Children
    /\ threads_being_born = Cardinality(BeingBorn)
    /\ shutting_down <=> destroyer \notin {"running", "births", "birthsAsleep"}
    /\ shutting_down => BeingBorn = {}
    /\ list = {t \in Thread : rt_pc[t] \in {"run", "create", "unregister"}}
    /\ destroyer \in {"suspendDaemons", "awaitDaemons", "gone"} => list \subseteq Daemon
    /\ destroyer \in {"awaitDaemons", "gone"} => \A t \in list : daemon_suspend_count[t] > 0

LEMMA ShutdownInitInv == ASSUME NoThread \notin Thread, ShutdownInit PROVE ShutdownInv
<1>1. BeingBorn = {}
    BY DEF ShutdownInit, BeingBorn
<1>2. ShutdownTypes
    BY DEF ShutdownInit, ShutdownTypes, ThreadLabel, DestroyerStage
<1>3. Children
    BY DEF ShutdownInit, Children
<1>. QED
    BY <1>1, <1>2, <1>3, FS_EmptySet DEF ShutdownInit, ShutdownInv

LEMMA BornCounted ==
    ASSUME IsFiniteSet(Thread), NEW S \in SUBSET Thread
    PROVE  /\ Cardinality(S) \in Nat
           /\ Cardinality(S) = 0 <=> S = {}
           /\ \A t : t \notin S => Cardinality(S \cup {t}) = Cardinality(S) + 1
           /\ \A t : t \in S => Cardinality(S \ {t}) = Cardinality(S) - 1
<1>1. IsFiniteSet(S)
    BY FS_Subset
<1>. QED
    BY <1>1, FS_CardinalityType, FS_EmptySet, FS_AddElement, FS_RemoveElement, Zenon

LEMMA ShutdownNextInv ==
    ASSUME IsFiniteSet(Thread), NoThread \notin Thread, ShutdownInv, [ShutdownNext]_shutdownVars
    PROVE  ShutdownInv'
<1> USE DEF ShutdownInv, ShutdownTypes, ThreadLabel, DestroyerStage, RtGoto, runtimeVars, listVars
<1>0. BeingBorn \in SUBSET Thread
    BY DEF BeingBorn
<1>1. CASE UNCHANGED shutdownVars
    BY <1>1 DEF shutdownVars, BeingBorn, Children
<1>2. ASSUME NEW t \in Thread, NEW c \in Thread, StartThreadBirth(t, c) PROVE ShutdownInv'
    <2>1. BeingBorn' = BeingBorn \cup {t} /\ t \notin BeingBorn
        BY <1>2 DEF StartThreadBirth, BeingBorn
    <2>2. Children'
        BY <1>2 DEF StartThreadBirth, Unborn, Children
    <2>3. threads_being_born' = Cardinality(BeingBorn')
        BY <1>0, <1>2, <2>1, BornCounted DEF StartThreadBirth
    <2>. QED
        BY <1>2, <2>1, <2>2, <2>3 DEF StartThreadBirth
<1>3. ASSUME NEW t \in Thread, PthreadCreate(t) PROVE ShutdownInv'
    <2>0. child[t] \in Thread /\ rt_pc[child[t]] = "none" /\ child[t] # t
        BY <1>3 DEF PthreadCreate, Children
    <2>1. BeingBorn' = (BeingBorn \ {t}) \cup {child[t]} /\ t \in BeingBorn
          /\ child[t] \notin BeingBorn
        BY <1>3, <2>0 DEF PthreadCreate, BeingBorn
    <2>2. Children'
        BY <1>3, <2>0 DEF PthreadCreate, Children
    <2>3. Cardinality(BeingBorn') = Cardinality(BeingBorn)
        <3>1. Cardinality(BeingBorn \ {t}) = Cardinality(BeingBorn) - 1
              /\ Cardinality(BeingBorn) \in Nat
            BY <1>0, <2>1, BornCounted
        <3>2. BeingBorn \ {t} \in SUBSET Thread /\ child[t] \notin BeingBorn \ {t}
            BY <1>0, <2>1
        <3>3. Cardinality((BeingBorn \ {t}) \cup {child[t]}) = Cardinality(BeingBorn \ {t}) + 1
            BY <3>2, BornCounted
        <3>. QED
            BY <2>1, <3>1, <3>3
    <2>. QED
        BY <1>3, <2>0, <2>1, <2>2, <2>3 DEF PthreadCreate
<1>4. ASSUME NEW t \in Thread, PthreadCreateFails(t) \/ CreateCallback(t) PROVE ShutdownInv'
    <2>1. BeingBorn' = BeingBorn \ {t} /\ t \in BeingBorn
        BY <1>4 DEF PthreadCreateFails, CreateCallback, BeingBorn
    <2>2. Children'
        BY <1>4 DEF PthreadCreateFails, CreateCallback, Children
    <2>3. threads_being_born' = Cardinality(BeingBorn')
        BY <1>0, <1>4, <2>1, BornCounted DEF PthreadCreateFails, CreateCallback, EndThreadBirth
    <2>4. threads_being_born' \in Nat
        <3>1. BeingBorn' \in SUBSET Thread
            BY <1>0, <2>1
        <3>. QED
            BY <2>3, <3>1, BornCounted
    <2>. QED
        BY <1>4, <2>1, <2>2, <2>3, <2>4
        DEF PthreadCreateFails, CreateCallback, EndThreadBirth, WakeIfLast
<1>5. ASSUME NEW t \in Thread, Attach(t) PROVE ShutdownInv'
    <2>1. BeingBorn' = BeingBorn
        BY <1>5 DEF Attach, Unborn, BeingBorn
    <2>2. Children'
        BY <1>5 DEF Attach, Unborn, Children
    <2>. QED
        BY <1>5, <2>1, <2>2 DEF Attach, Unborn, WakeIfLast
<1>6. ASSUME NEW t \in Thread, CallUnregister(t) \/ RemoveFromList(t) \/ SignalExit(t)
      PROVE  ShutdownInv'
    <2>1. BeingBorn' = BeingBorn
        BY <1>6 DEF CallUnregister, RemoveFromList, SignalExit, BeingBorn
    <2>2. Children'
        BY <1>6 DEF CallUnregister, RemoveFromList, SignalExit, Children
    <2>. QED
        BY <1>6, <2>1, <2>2 DEF CallUnregister, RemoveFromList, SignalExit
<1>7. CASE StartShutdown \/ DestroyerStep \/ DestroyerWakesEarly
    <2>1. BeingBorn' = BeingBorn /\ (Children => Children')
        BY <1>7 DEF StartShutdown, DestroyerStep, DestroyerWakesEarly, WaitForBirths,
                    WaitForOtherNonDaemonThreadsToExit, SuspendAllDaemonThreads,
                    DeleteThreadList, BeingBorn, Children
    <2>2. threads_being_born > 0 \/ BeingBorn = {}
        BY <1>0, BornCounted
    <2>3. CASE SuspendAllDaemonThreads
        BY <2>1, <2>3 DEF SuspendAllDaemonThreads
    <2>4. CASE ~SuspendAllDaemonThreads
        BY <1>7, <2>1, <2>2, <2>4 DEF StartShutdown, DestroyerStep, DestroyerWakesEarly,
           WaitForBirths, WaitForOtherNonDaemonThreadsToExit, DeleteThreadList
    <2>. QED
        BY <2>3, <2>4
<1>. QED
    BY <1>1, <1>2, <1>3, <1>4, <1>5, <1>6, <1>7, Zenon DEF ShutdownNext, RuntimeThreadStep

\* No thread is born once shutting_down_ is set, and at the end only daemons
\* that were told to suspend are left in the thread list, for every finite set
\* of threads: the CHECKs of Thread::CreateCallback, of
\* WaitForOtherNonDaemonThreadsToExit and of SuspendAllDaemonThreads hold.
THEOREM ShutdownLeavesDaemons == ShutdownSpec => []ShutdownIsOrderly
<1> USE ThreadAssumption
<1>1. ShutdownInit => ShutdownInv
    BY ShutdownInitInv
<1>2. ShutdownInv /\ [ShutdownNext]_shutdownVars => ShutdownInv'
    BY ShutdownNextInv
<1>3. ShutdownInv => ShutdownIsOrderly
    <2> SUFFICES ASSUME ShutdownInv PROVE ShutdownIsOrderly
        OBVIOUS
    <2>1. shutting_down => threads_being_born = 0
        BY FS_EmptySet DEF ShutdownInv
    <2>2. shutting_down => \A t \in Thread : rt_pc[t] \notin {"create", "callback"}
        BY Zenon DEF ShutdownInv, BeingBorn
    <2>3. ASSUME destroyer \in {"awaitDaemons", "gone"}, NEW t \in Thread
          PROVE  \/ rt_pc[t] \in {"none", "removed"}
                 \/ t \in Daemon /\ daemon_suspend_count[t] > 0
        <3>1. shutting_down /\ list \subseteq Daemon /\ \A u \in list : daemon_suspend_count[u] > 0
            BY <2>3 DEF ShutdownInv
        <3>2. CASE t \in list
            BY <3>1, <3>2, Zenon
        <3>3. CASE t \notin list
            BY <2>2, <3>1, <3>3 DEF ShutdownInv, ShutdownTypes, ThreadLabel
        <3>. QED
            BY <3>2, <3>3
    <2>. QED
        BY <2>1, <2>2, <2>3, Zenon DEF ShutdownIsOrderly
<1>. QED
    BY <1>1, <1>2, <1>3, PTL DEF ShutdownSpec
=============================================================================
