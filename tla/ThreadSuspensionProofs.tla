------------------------- MODULE ThreadSuspensionProofs -------------------------
(***************************************************************************)
(* Safety of thread suspension for every set of threads: the world is      *)
(* stopped while mutator_lock_ is held, suspend counts are exact, no       *)
(* circle of suspension requests, no lost resume.                          *)
(***************************************************************************)
EXTENDS ThreadSuspension, FiniteSetTheorems, TLAPS

\* How a thread's variables hang together with where it is.
Control ==
    \A t \in Thread :
        /\ t \in list_ <=> pc[t] \notin {"off", "born", "exiting"}
        /\ state[t] = "kRunnable" <=> pc[t] \in RunnablePcs
        /\ t \in mutator_shares <=> pc[t] \in RunnablePcs \cup {"r2sUnlock", "s2rCas"}
        /\ mutator_owner = t <=> pc[t] = "stopped"
        /\ t \in resume_waiters => pc[t] = "s2rWait"
        /\ thread_id[t] = kInvalidThreadId <=> pc[t] = "off"
        /\ thread_id[t] \in allocated_ids_ \cup {kInvalidThreadId}
        /\ pc[t] \notin {"r2sUnlock"} \cup ToRunnablePcs => op[t] = "none"
        /\ pc[t] = "holding" => suspended_thread[t] # None
        /\ suspended_thread[t] # None => pc[t] \in {"search", "holding"} \/ op[t] \in {"search", "done"}
        /\ pc[t] = "search" \/ op[t] = "search" => target_id[t] # kInvalidThreadId
        /\ op[t] = "done" /\ suspended_thread[t] = None => target_id[t] = kInvalidThreadId
        /\ target_id[t] # kInvalidThreadId =>
               /\ target_id[t] # thread_id[t]
               /\ \/ pc[t] \in {"search", "holding", "resumeBroadcast"}
                  \/ op[t] \in {"search", "done"}

LockExcludes == mutator_owner # None => mutator_shares = {}

InjectiveIds ==
    \A t, u \in Thread : thread_id[t] = thread_id[u] /\ thread_id[t] # kInvalidThreadId => t = u

\* What a suspender may rely on.
Relied ==
    \A t \in Thread :
        LET u == suspended_thread[t] IN
        u # None => /\ u \in list_
                    /\ u # t
                    /\ thread_id[u] = target_id[t]
                    /\ op[t] = "done" \/ pc[t] = "holding" => state[u] # "kRunnable"

IInv ==
    /\ TypeOK
    /\ Control
    /\ LockExcludes
    /\ InjectiveIds
    /\ Relied
    /\ CountsAreExact
    /\ NoSuspendCycle
    /\ NoLostResume

USE DEF At, Goto, Pcs, SuspendAllPcs, RunnablePcs, ToRunnablePcs, kInvalidThreadId

Stoppers == {t \in Thread : pc[t] \in SuspendAllPcs}

-----------------------------------------------------------------------------
(* Counting *)

LEMMA SubsetsCount ==
    ASSUME NEW S \in SUBSET Thread
    PROVE  /\ IsFiniteSet(S)
           /\ Cardinality(S) \in Nat
           /\ S # {} => Cardinality(S) >= 1
           /\ S = {} => Cardinality(S) = 0
           /\ \A x : x \notin S => Cardinality(S \cup {x}) = Cardinality(S) + 1
           /\ \A x \in S : Cardinality(S \ {x}) = Cardinality(S) - 1
<1>1. IsFiniteSet(S)
    BY ThreadAssumption, FS_Subset
<1>2. Cardinality(S) \in Nat
    BY <1>1, FS_CardinalityType
<1>3. Cardinality(S) = 0 <=> S = {}
    BY <1>1, FS_EmptySet
<1>4. \A x : x \notin S => Cardinality(S \cup {x}) = Cardinality(S) + 1
    BY <1>1, FS_AddElement
<1>5. \A x \in S : Cardinality(S \ {x}) = Cardinality(S) - 1
    BY <1>1, FS_RemoveElement
<1>. QED
    BY <1>1, <1>2, <1>3, <1>4, <1>5

\* A step that keeps everyone inside or outside SuspendAll keeps all stoppers.
LEMMA SameStoppers ==
    ASSUME \A t \in Thread : pc'[t] \in SuspendAllPcs <=> pc[t] \in SuspendAllPcs
    PROVE  Stoppers' = Stoppers /\ \A u \in Thread : StoppersOf(u)' = StoppersOf(u)
BY DEF Stoppers, StoppersOf

LEMMA NewStopper ==
    ASSUME NEW t \in Thread, pc \in [Thread -> Pcs], pc[t] \notin SuspendAllPcs,
           pc' = [pc EXCEPT ![t] = "saLock"]
    PROVE  /\ Cardinality(Stoppers') = Cardinality(Stoppers) + 1
           /\ Cardinality(StoppersOf(t)') = Cardinality(StoppersOf(t))
           /\ \A u \in Thread \ {t} : Cardinality(StoppersOf(u)') = Cardinality(StoppersOf(u)) + 1
<1>1. t \notin Stoppers /\ Stoppers' = Stoppers \cup {t}
    BY DEF Stoppers
<1>2. StoppersOf(t)' = StoppersOf(t)
    BY DEF StoppersOf
<1>3. \A u \in Thread \ {t} : t \notin StoppersOf(u) /\ StoppersOf(u)' = StoppersOf(u) \cup {t}
    BY DEF StoppersOf
<1>4. Stoppers \in SUBSET Thread /\ \A u \in Thread : StoppersOf(u) \in SUBSET Thread
    BY DEF Stoppers, StoppersOf
<1>. QED
    BY <1>1, <1>2, <1>3, <1>4, SubsetsCount

LEMMA GoneStopper ==
    ASSUME NEW t \in Thread, pc \in [Thread -> Pcs], pc[t] \in SuspendAllPcs,
           pc' = [pc EXCEPT ![t] = "native"]
    PROVE  /\ Cardinality(Stoppers') = Cardinality(Stoppers) - 1
           /\ Cardinality(StoppersOf(t)') = Cardinality(StoppersOf(t))
           /\ \A u \in Thread \ {t} : Cardinality(StoppersOf(u)') = Cardinality(StoppersOf(u)) - 1
<1>1. t \in Stoppers /\ Stoppers' = Stoppers \ {t}
    BY DEF Stoppers
<1>2. StoppersOf(t)' = StoppersOf(t)
    BY DEF StoppersOf
<1>3. \A u \in Thread \ {t} : t \in StoppersOf(u) /\ StoppersOf(u)' = StoppersOf(u) \ {t}
    BY DEF StoppersOf
<1>4. Stoppers \in SUBSET Thread /\ \A u \in Thread : StoppersOf(u) \in SUBSET Thread
    BY DEF Stoppers, StoppersOf
<1>. QED
    BY <1>1, <1>2, <1>3, <1>4, SubsetsCount

\* A thread's suspended_thread goes from None to u, or from u to None.
LEMMA NewSuspender ==
    ASSUME NEW t \in Thread, NEW u \in Thread,
           suspended_thread \in [Thread -> Thread \cup {None}], suspended_thread[t] = None,
           suspended_thread' = [suspended_thread EXCEPT ![t] = u]
    PROVE  /\ Cardinality(SuspendersOf(u)') = Cardinality(SuspendersOf(u)) + 1
           /\ \A v \in Thread \ {u} : SuspendersOf(v)' = SuspendersOf(v)
<1>1. t \notin SuspendersOf(u) /\ SuspendersOf(u)' = SuspendersOf(u) \cup {t}
    BY ThreadAssumption DEF SuspendersOf
<1>2. \A v \in Thread \ {u} : SuspendersOf(v)' = SuspendersOf(v)
    BY ThreadAssumption DEF SuspendersOf
<1>3. SuspendersOf(u) \in SUBSET Thread
    BY DEF SuspendersOf
<1>. QED
    BY <1>1, <1>2, <1>3, SubsetsCount

LEMMA GoneSuspender ==
    ASSUME NEW t \in Thread, NEW u \in Thread,
           suspended_thread \in [Thread -> Thread \cup {None}], suspended_thread[t] = u,
           suspended_thread' = [suspended_thread EXCEPT ![t] = None]
    PROVE  /\ Cardinality(SuspendersOf(u)') = Cardinality(SuspendersOf(u)) - 1
           /\ \A v \in Thread \ {u} : SuspendersOf(v)' = SuspendersOf(v)
<1>1. t \in SuspendersOf(u) /\ SuspendersOf(u)' = SuspendersOf(u) \ {t}
    BY ThreadAssumption DEF SuspendersOf
<1>2. \A v \in Thread \ {u} : SuspendersOf(v)' = SuspendersOf(v)
    BY ThreadAssumption DEF SuspendersOf
<1>3. SuspendersOf(u) \in SUBSET Thread
    BY DEF SuspendersOf
<1>. QED
    BY <1>1, <1>2, <1>3, SubsetsCount

\* Counts of listed threads are natural numbers and positive when somebody counts.
LEMMA CountsPositive ==
    ASSUME IInv
    PROVE  \A u \in Thread :
               /\ suspend_count[u] \in Nat
               /\ SuspendersOf(u) # {} /\ u \in list_ => suspend_count[u] > 0
               /\ StoppersOf(u) # {} /\ u \in list_ => suspend_count[u] > 0
               /\ suspend_count[u] > 0 => u \in list_
<1>1. \A u \in Thread : StoppersOf(u) \in SUBSET Thread /\ SuspendersOf(u) \in SUBSET Thread
    BY DEF StoppersOf, SuspendersOf
<1>. QED
    BY <1>1, SubsetsCount DEF IInv, CountsAreExact

-----------------------------------------------------------------------------
(* The inductive invariant *)

\* The conjuncts of IInv other than the three about counting and circles.
Shape == TypeOK /\ Control /\ LockExcludes /\ InjectiveIds /\ Relied

\* A step that changes no request and no list membership keeps the counts.
LEMMA SameCounts ==
    ASSUME IInv, UNCHANGED <<list_, suspend_all_count_, suspend_count, suspended_thread>>,
           \A t \in Thread : pc'[t] \in SuspendAllPcs <=> pc[t] \in SuspendAllPcs
    PROVE  CountsAreExact' /\ NoSuspendCycle'
<1>1. Stoppers' = Stoppers /\ \A u \in Thread : StoppersOf(u)' = StoppersOf(u)
    BY SameStoppers
<1>2. \A u \in Thread : SuspendersOf(u)' = SuspendersOf(u)
    BY DEF SuspendersOf
<1>3. CountsAreExact'
    BY <1>1, <1>2 DEF IInv, CountsAreExact, Stoppers
<1>4. NoSuspendCycle'
    BY DEF IInv, NoSuspendCycle
<1>. QED
    BY <1>3, <1>4

LEMMA InitIInv == Init => IInv
<1>. SUFFICES ASSUME Init PROVE IInv
    OBVIOUS
<1>1. Shape
    BY ThreadAssumption DEF Init, Shape, TypeOK, Control, LockExcludes, InjectiveIds, Relied
<1>2. {t \in Thread : pc[t] \in SuspendAllPcs} = {}
       /\ \A u \in Thread : StoppersOf(u) = {} /\ SuspendersOf(u) = {}
    BY ThreadAssumption DEF Init, StoppersOf, SuspendersOf
<1>3. CountsAreExact
    BY <1>2, SubsetsCount DEF Init, CountsAreExact
<1>4. NoSuspendCycle
    BY ThreadAssumption DEF Init, NoSuspendCycle
<1>5. NoLostResume
    BY DEF Init, NoLostResume
<1>. QED
    BY <1>1, <1>3, <1>4, <1>5 DEF IInv, Shape

USE DEF listVars, lockVars, callVars

\* Steps that leave requests and list alone; they may wake sleepers, and only
\* put a thread to sleep whose count is positive.
LEMMA QuietStep ==
    ASSUME IInv, Shape',
           UNCHANGED <<list_, suspend_all_count_, suspend_count, suspended_thread>>,
           \A t \in Thread : pc'[t] \in SuspendAllPcs <=> pc[t] \in SuspendAllPcs,
           \A t \in resume_waiters' : t \in resume_waiters \/ suspend_count[t] > 0,
           resume_waiters' = {} \/ \A u \in Thread : pc[u] = "resumeBroadcast" => pc'[u] = "resumeBroadcast"
    PROVE  IInv'
<1>1. CountsAreExact' /\ NoSuspendCycle'
    BY SameCounts
<1>2. NoLostResume'
    BY CountsPositive DEF IInv, NoLostResume, Shape, TypeOK
<1>. QED
    BY <1>1, <1>2 DEF IInv, Shape

LEMMA LifecycleIInv == ASSUME IInv, NEW t \in Thread, Lifecycle(t) PROVE IInv'
<1>1. CASE AllocThreadId(t)
  <2>1. Shape'
    BY <1>1, IdAssumption DEF AllocThreadId, IInv, Shape, TypeOK, Control, LockExcludes, InjectiveIds, Relied
  <2>. QED
    BY <1>1, <2>1, QuietStep DEF AllocThreadId, IInv, TypeOK
<1>2. CASE Register(t)
  <2>1. Shape'
    BY <1>2, IdAssumption DEF Register, ModifySuspendCount, IInv, Shape, TypeOK, Control, LockExcludes, InjectiveIds, Relied
  <2>2. Stoppers' = Stoppers /\ \A u \in Thread : StoppersOf(u)' = StoppersOf(u) /\ SuspendersOf(u)' = SuspendersOf(u)
    BY <1>2 DEF Register, IInv, TypeOK, Stoppers, StoppersOf, SuspendersOf
  <2>3. SuspendersOf(t) = {} /\ StoppersOf(t) = Stoppers
    BY <1>2, ThreadAssumption DEF Register, IInv, Control, Relied, SuspendersOf, StoppersOf, Stoppers, TypeOK
  <2>4. suspend_count'[t] = Cardinality(StoppersOf(t)) + Cardinality(SuspendersOf(t))
    BY <1>2, <2>3, SubsetsCount DEF Register, ModifySuspendCount, IInv, CountsAreExact, Stoppers, TypeOK, Control
  <2>5. CountsAreExact'
    BY <1>2, <2>2, <2>4, Zenon DEF Register, ModifySuspendCount, IInv, CountsAreExact, Stoppers, TypeOK
  <2>6. NoSuspendCycle' /\ NoLostResume'
    BY <1>2 DEF Register, ModifySuspendCount, IInv, NoSuspendCycle, NoLostResume, Control, TypeOK
  <2>. QED
    BY <2>1, <2>5, <2>6 DEF IInv, Shape
<1>3. CASE Unregister(t)
  <2>0. suspend_count[t] = 0 /\ SuspendersOf(t) = {}
    BY <1>3, CountsPositive DEF Unregister, IInv, Control, IsSuspended, TypeOK
  <2>1. Shape'
    BY <1>3, <2>0 DEF Unregister, IInv, Shape, TypeOK, Control, LockExcludes, InjectiveIds, Relied, SuspendersOf
  <2>2. Stoppers' = Stoppers /\ \A u \in Thread : StoppersOf(u)' = StoppersOf(u) /\ SuspendersOf(u)' = SuspendersOf(u)
    BY <1>3 DEF Unregister, IInv, TypeOK, Stoppers, StoppersOf, SuspendersOf
  <2>5. CountsAreExact'
    BY <1>3, <2>0, <2>2, Zenon DEF Unregister, IInv, CountsAreExact, Stoppers, TypeOK
  <2>6. NoSuspendCycle' /\ NoLostResume'
    BY <1>3 DEF Unregister, IInv, NoSuspendCycle, NoLostResume, TypeOK
  <2>. QED
    BY <2>1, <2>5, <2>6 DEF IInv, Shape
<1>4. CASE ReleaseThreadId(t)
  <2>a. thread_id[t] # kInvalidThreadId /\ \A u \in Thread \ {t} : thread_id[u] # thread_id[t]
    BY <1>4 DEF ReleaseThreadId, IInv, Control, InjectiveIds
  <2>b. t \notin list_ /\ target_id[t] = kInvalidThreadId
    BY <1>4 DEF ReleaseThreadId, IInv, Control
  <2>c. TypeOK' /\ InjectiveIds' /\ LockExcludes'
    BY <1>4, <2>a DEF ReleaseThreadId, IInv, TypeOK, InjectiveIds, LockExcludes
  <2>d. Control'
    BY <1>4, <2>a, <2>b DEF ReleaseThreadId, IInv, TypeOK, Control
  <2>e. Relied'
    BY <1>4, <2>a, <2>b DEF ReleaseThreadId, IInv, TypeOK, Relied
  <2>1. Shape'
    BY <2>c, <2>d, <2>e DEF Shape
  <2>. QED
    BY <1>4, <2>1, QuietStep DEF ReleaseThreadId, IInv, TypeOK
<1>. QED
    BY <1>1, <1>2, <1>3, <1>4 DEF Lifecycle

LEMMA TransitionIInv ==
    ASSUME IInv, NEW t \in Thread, CallToRunnable(t) \/ CallToSuspended(t) \/ CheckSuspend(t) \/ Transition(t)
    PROVE  IInv'
<1>1. CASE CallToRunnable(t)
  <2>1. Shape'
    BY <1>1, ThreadAssumption, CountsPositive DEF CallToRunnable, SuspendersOf, IInv, Shape, TypeOK, Control, LockExcludes, InjectiveIds, Relied
  <2>. QED
    BY <1>1, <2>1, QuietStep DEF CallToRunnable, IInv, TypeOK
<1>2. CASE CallToSuspended(t)
  <2>1. Shape'
    BY <1>2, ThreadAssumption, CountsPositive DEF CallToSuspended, ToSuspended, SuspendersOf, IInv, Shape, TypeOK, Control, LockExcludes, InjectiveIds, Relied
  <2>. QED
    BY <1>2, <2>1, QuietStep DEF CallToSuspended, ToSuspended, IInv, TypeOK
<1>3. CASE CheckSuspend(t)
  <2>1. Shape'
    BY <1>3, ThreadAssumption, CountsPositive DEF CheckSuspend, ToSuspended, SuspendersOf, IInv, Shape, TypeOK, Control, LockExcludes, InjectiveIds, Relied
  <2>. QED
    BY <1>3, <2>1, QuietStep DEF CheckSuspend, ToSuspended, IInv, TypeOK
<1>4. CASE ReadSuspendRequest(t)
  <2>1. Shape'
    BY <1>4, ThreadAssumption, CountsPositive DEF ReadSuspendRequest, SuspendersOf, IInv, Shape, TypeOK, Control, LockExcludes, InjectiveIds, Relied
  <2>. QED
    BY <1>4, <2>1, QuietStep DEF ReadSuspendRequest, IInv, TypeOK
<1>5. CASE WaitWhileSuspended(t)
  <2>1. Shape'
    BY <1>5, ThreadAssumption, CountsPositive DEF WaitWhileSuspended, SuspendersOf, IInv, Shape, TypeOK, Control, LockExcludes, InjectiveIds, Relied
  <2>. QED
    BY <1>5, <2>1, QuietStep DEF WaitWhileSuspended, IInv, TypeOK
<1>6. CASE ResumeCondReturns(t)
  <2>1. Shape'
    BY <1>6, ThreadAssumption, CountsPositive DEF ResumeCondReturns, SuspendersOf, IInv, Shape, TypeOK, Control, LockExcludes, InjectiveIds, Relied
  <2>. QED
    BY <1>6, <2>1, QuietStep DEF ResumeCondReturns, IInv, TypeOK
<1>7. CASE AcquireShare(t)
  <2>1. Shape'
    BY <1>7, ThreadAssumption, CountsPositive DEF AcquireShare, SuspendersOf, IInv, Shape, TypeOK, Control, LockExcludes, InjectiveIds, Relied
  <2>. QED
    BY <1>7, <2>1, QuietStep DEF AcquireShare, IInv, TypeOK
<1>8. CASE BecomeRunnable(t)
  <2>1. Shape'
    BY <1>8, ThreadAssumption, CountsPositive DEF BecomeRunnable, OnceRunnable, SuspendersOf, IInv, Shape, TypeOK, Control, LockExcludes, InjectiveIds, Relied
  <2>. QED
    BY <1>8, <2>1, QuietStep DEF BecomeRunnable, OnceRunnable, IInv, TypeOK
<1>9. CASE ReleaseShare(t)
  <2>1. Shape'
    BY <1>9, ThreadAssumption, CountsPositive DEF ReleaseShare, SuspendersOf, IInv, Shape, TypeOK, Control, LockExcludes, InjectiveIds, Relied
  <2>. QED
    BY <1>9, <2>1, QuietStep DEF ReleaseShare, IInv, TypeOK
<1>. QED
    BY <1>1, <1>2, <1>3, <1>4, <1>5, <1>6, <1>7, <1>8, <1>9 DEF Transition

\* The counts are lowered only by threads that had raised them.
LEMMA StopTheWorldIInv ==
    ASSUME IInv, NEW t \in Thread, SuspendAll(t) \/ StopTheWorld(t)
    PROVE  IInv'
<1>0. StoppersOf(t) \in SUBSET Thread /\ \A u \in Thread : StoppersOf(u) \in SUBSET Thread /\ SuspendersOf(u) \in SUBSET Thread
    BY DEF StoppersOf, SuspendersOf
<1>1. CASE SuspendAll(t)
  <2>1. Shape'
    BY <1>1 DEF SuspendAll, ModifySuspendCount, IInv, Shape, TypeOK, Control, LockExcludes, InjectiveIds, Relied
  <2>2. /\ Cardinality(Stoppers') = Cardinality(Stoppers) + 1
        /\ Cardinality(StoppersOf(t)') = Cardinality(StoppersOf(t))
        /\ \A u \in Thread \ {t} : Cardinality(StoppersOf(u)') = Cardinality(StoppersOf(u)) + 1
    BY <1>1, NewStopper, ZenonT(40) DEF SuspendAll, IInv, TypeOK
  <2>3. \A u \in Thread : SuspendersOf(u)' = SuspendersOf(u)
    BY <1>1 DEF SuspendAll, SuspendersOf
  <2>4. CountsAreExact'
    BY <1>0, <1>1, <2>2, <2>3, SubsetsCount, SMTT(30) DEF SuspendAll, ModifySuspendCount, IInv, CountsAreExact, Stoppers, TypeOK
  <2>5. NoSuspendCycle'
    BY <1>1 DEF SuspendAll, IInv, NoSuspendCycle
  <2>6. NoLostResume'
    BY <1>1, CountsPositive DEF SuspendAll, ModifySuspendCount, IInv, NoLostResume, TypeOK
  <2>. QED
    BY <2>1, <2>4, <2>5, <2>6 DEF IInv, Shape
<1>2. CASE ExclusiveLockMutator(t)
  <2>1. Shape'
    BY <1>2, ThreadAssumption DEF ExclusiveLockMutator, IInv, Shape, TypeOK, Control, LockExcludes, InjectiveIds, Relied
  <2>. QED
    BY <1>2, <2>1, QuietStep DEF ExclusiveLockMutator, IInv, TypeOK
<1>3. CASE ExclusiveUnlockMutator(t)
  <2>1. Shape'
    BY <1>3, ThreadAssumption DEF ExclusiveUnlockMutator, IInv, Shape, TypeOK, Control, LockExcludes, InjectiveIds, Relied
  <2>. QED
    BY <1>3, <2>1, QuietStep DEF ExclusiveUnlockMutator, IInv, TypeOK
<1>4. CASE ResumeAll(t)
  <2>1. Shape'
    BY <1>4 DEF ResumeAll, ModifySuspendCount, IInv, Shape, TypeOK, Control, LockExcludes, InjectiveIds, Relied
  <2>2. /\ Cardinality(Stoppers') = Cardinality(Stoppers) - 1
        /\ Cardinality(StoppersOf(t)') = Cardinality(StoppersOf(t))
        /\ \A u \in Thread \ {t} : Cardinality(StoppersOf(u)') = Cardinality(StoppersOf(u)) - 1
    BY <1>4, GoneStopper, Zenon DEF ResumeAll, IInv, TypeOK
  <2>3. \A u \in Thread : SuspendersOf(u)' = SuspendersOf(u)
    BY <1>4 DEF ResumeAll, SuspendersOf
  <2>4. CountsAreExact'
    BY <1>0, <1>4, <2>2, <2>3, SubsetsCount DEF ResumeAll, ModifySuspendCount, IInv, CountsAreExact, Stoppers, TypeOK
  <2>5. NoSuspendCycle' /\ NoLostResume'
    BY <1>4 DEF ResumeAll, IInv, NoSuspendCycle, NoLostResume
  <2>. QED
    BY <2>1, <2>4, <2>5 DEF IInv, Shape
<1>. QED
    BY <1>1, <1>2, <1>3, <1>4 DEF StopTheWorld

\* A request that only lasts while its target counts it.
LEMMA RequestIInv == ASSUME IInv, NEW t \in Thread, RequestSuspend(t) PROVE IInv'
<1>. PICK u \in Found(target_id[t]) :
        /\ suspend_count' = [suspend_count EXCEPT ![u] = Requested(t, u)]
        /\ suspended_thread' = [suspended_thread EXCEPT ![t] = u]
        /\ EndRound(t, IF state[u] # "kRunnable" THEN "done" ELSE "search")
    BY Zenon DEF RequestSuspend
<1>1. u \in Thread /\ u \in list_ /\ thread_id[u] = target_id[t] /\ u # t
    BY DEF RequestSuspend, Found, IInv, Control, TypeOK
<1>2. suspended_thread[t] = None \/ suspended_thread[t] = u
    BY <1>1 DEF RequestSuspend, IInv, Relied, InjectiveIds, Control, TypeOK
<1>3. Shape'
    BY <1>1, <1>2, ThreadAssumption DEF RequestSuspend, Requested, EndRound, ToSuspended, IInv, Shape, TypeOK, Control, LockExcludes, InjectiveIds, Relied
<1>4. CASE suspended_thread[t] = u
  <2>1. UNCHANGED <<suspend_count, suspended_thread>>
    BY <1>1, <1>4, ThreadAssumption DEF Requested, IInv, TypeOK
  <2>. QED
    BY <1>3, <2>1, QuietStep DEF RequestSuspend, EndRound, ToSuspended, IInv, TypeOK
<1>5. CASE suspended_thread[t] = None
  <2>1. /\ Cardinality(SuspendersOf(u)') = Cardinality(SuspendersOf(u)) + 1
        /\ \A v \in Thread \ {u} : SuspendersOf(v)' = SuspendersOf(v)
    BY <1>1, <1>5, NewSuspender, Zenon DEF IInv, TypeOK
  <2>2. Stoppers' = Stoppers /\ \A v \in Thread : StoppersOf(v)' = StoppersOf(v)
    BY SameStoppers, SMTT(30) DEF RequestSuspend, EndRound, ToSuspended, IInv, TypeOK
  <2>3. SuspendersOf(u) \in SUBSET Thread /\ StoppersOf(u) \in SUBSET Thread
    BY DEF SuspendersOf, StoppersOf
  <2>4. CountsAreExact'
    <3>1. suspend_count'[u] = suspend_count[u] + 1 /\ \A v \in Thread \ {u} : suspend_count'[v] = suspend_count[v]
        BY <1>1, <1>5 DEF Requested, IInv, TypeOK
    <3>2. Cardinality(SuspendersOf(u)) \in Nat /\ Cardinality(StoppersOf(u)) \in Nat
        BY <2>3, SubsetsCount
    <3>3. UNCHANGED <<list_, suspend_all_count_>>
        BY DEF EndRound
    <3>4. CountsAreExact
        BY DEF IInv
    <3>5. suspend_all_count_' = Cardinality({v \in Thread : pc'[v] \in SuspendAllPcs})
        BY <2>2, <3>3, <3>4, SMTT(30) DEF CountsAreExact, Stoppers
    <3>6. suspend_count'[u] = Cardinality(StoppersOf(u)') + Cardinality(SuspendersOf(u)')
        BY <1>1, <2>1, <2>2, <3>1, <3>2, <3>4 DEF CountsAreExact
    <3>. QED
        BY <1>1, <2>1, <2>2, <3>1, <3>3, <3>4, <3>5, <3>6 DEF CountsAreExact
  <2>5. NoLostResume'
    BY <1>1, <1>5, CountsPositive DEF RequestSuspend, EndRound, ToSuspended, Requested, IInv, NoLostResume, TypeOK, Control
  <2>6. NoSuspendCycle'
    \* t, whom nobody suspends, can be left out of a new circle.
    <3>. SUFFICES ASSUME NEW circle \in SUBSET Thread, circle # {},
                         \A v \in circle : suspended_thread'[v] \in circle
                  PROVE  FALSE
        BY DEF NoSuspendCycle
    <3>1. \A v \in Thread : suspended_thread[v] # t
        BY <1>5, CountsPositive DEF RequestSuspend, IInv, Control, SuspendersOf
    <3>2. \A v \in circle \ {t} : suspended_thread[v] \in circle \ {t}
        BY <3>1 DEF IInv, TypeOK
    <3>3. circle \ {t} # {}
        BY <1>1 DEF IInv, TypeOK
    <3>. QED
        BY <3>2, <3>3, Zenon DEF IInv, NoSuspendCycle
  <2>. QED
    BY <1>3, <2>4, <2>5, <2>6 DEF IInv, Shape
<1>. QED
    BY <1>2, <1>4, <1>5

\* Taking a request back: by the time-out, or by Resume.
LEMMA RequestEnds ==
    ASSUME IInv, NEW t \in Thread, NEW u, u = suspended_thread[t], u # None,
           UNCHANGED <<list_, suspend_all_count_>>,
           suspend_count' = [suspend_count EXCEPT ![u] = @ - 1],
           suspended_thread' = [suspended_thread EXCEPT ![t] = None],
           \A v \in Thread : pc'[v] \in SuspendAllPcs <=> pc[v] \in SuspendAllPcs
    PROVE  CountsAreExact' /\ NoSuspendCycle'
<1>1. u \in Thread /\ u \in list_
    BY DEF IInv, TypeOK, Relied
<1>2. /\ Cardinality(SuspendersOf(u)') = Cardinality(SuspendersOf(u)) - 1
      /\ \A v \in Thread \ {u} : SuspendersOf(v)' = SuspendersOf(v)
    BY <1>1, GoneSuspender, Zenon DEF IInv, TypeOK
<1>3. Stoppers' = Stoppers /\ \A v \in Thread : StoppersOf(v)' = StoppersOf(v)
    BY SameStoppers
<1>4. suspend_count'[u] = suspend_count[u] - 1 /\ \A v \in Thread \ {u} : suspend_count'[v] = suspend_count[v]
    BY <1>1 DEF IInv, TypeOK
<1>5. Cardinality(SuspendersOf(u)) \in Nat /\ Cardinality(StoppersOf(u)) \in Nat
    BY SubsetsCount DEF SuspendersOf, StoppersOf
<1>6. CountsAreExact'
  <2>1. CountsAreExact
    BY DEF IInv
  <2>2. suspend_all_count_' = Cardinality({v \in Thread : pc'[v] \in SuspendAllPcs})
    BY <1>3, <2>1 DEF CountsAreExact, Stoppers
  <2>3. suspend_count'[u] = Cardinality(StoppersOf(u)') + Cardinality(SuspendersOf(u)')
    BY <1>1, <1>2, <1>3, <1>4, <1>5, <2>1 DEF CountsAreExact
  <2>. QED
    BY <1>1, <1>2, <1>3, <1>4, <2>1, <2>2, <2>3 DEF CountsAreExact
<1>7. NoSuspendCycle'
    BY ThreadAssumption DEF IInv, NoSuspendCycle, TypeOK
<1>. QED
    BY <1>6, <1>7

LEMMA SuspendOneIInv ==
    ASSUME IInv, NEW t \in Thread, SuspendOne(t) \/ SuspendTimedOut(t) \/ \E id \in ThreadId : CallSuspendThread(t, id)
    PROVE  IInv'
<1>1. CASE NoSuchThread(t)
  <2>0. suspended_thread[t] = None
    BY <1>1 DEF NoSuchThread, Found, IInv, Relied
  <2>1. Shape'
    BY <1>1, <2>0 DEF NoSuchThread, EndRound, ToSuspended, IInv, Shape, TypeOK, Control, LockExcludes, InjectiveIds, Relied
  <2>. QED
    BY <1>1, <2>1, QuietStep, SMTT(30) DEF NoSuchThread, EndRound, ToSuspended, IInv, TypeOK
<1>2. CASE YieldToSuspender(t)
  <2>1. Shape'
    BY <1>2 DEF YieldToSuspender, EndRound, ToSuspended, IInv, Shape, TypeOK, Control, LockExcludes, InjectiveIds, Relied
  <2>. QED
    BY <1>2, <2>1, QuietStep DEF YieldToSuspender, EndRound, ToSuspended, IInv, TypeOK
<1>3. CASE RequestSuspend(t)
    BY <1>3, RequestIInv
<1>4. CASE Resume(t)
  <2>0. suspended_thread[t] # None
    BY <1>4 DEF Resume, IInv, Control
  <2>1. Shape'
    BY <1>4, <2>0, ThreadAssumption DEF Resume, IInv, Shape, TypeOK, Control, LockExcludes, InjectiveIds, Relied
  <2>2. CountsAreExact' /\ NoSuspendCycle'
    BY <1>4, <2>0, RequestEnds, Zenon DEF Resume, IInv, TypeOK
  <2>3. NoLostResume'
    BY <1>4 DEF Resume, IInv, NoLostResume, TypeOK
  <2>. QED
    BY <2>1, <2>2, <2>3 DEF IInv, Shape
<1>5. CASE ResumeBroadcast(t)
  <2>1. Shape'
    BY <1>5, SMTT(30) DEF ResumeBroadcast, IInv, Shape, TypeOK, Control, LockExcludes, InjectiveIds, Relied
  <2>. QED
    BY <1>5, <2>1, QuietStep DEF ResumeBroadcast, IInv, TypeOK
<1>6. CASE SuspendTimedOut(t)
  <2>1. Shape'
    BY <1>6, ThreadAssumption DEF SuspendTimedOut, EndRound, ToSuspended, IInv, Shape, TypeOK, Control, LockExcludes, InjectiveIds, Relied
  <2>2. CountsAreExact' /\ NoSuspendCycle'
    BY <1>6, RequestEnds, Zenon DEF SuspendTimedOut, EndRound, ToSuspended, IInv, TypeOK
  <2>3. suspended_thread[t] \in Thread \ resume_waiters
    BY <1>6 DEF SuspendTimedOut, IInv, TypeOK, Control
  <2>4. NoLostResume'
    BY <1>6, <2>3 DEF SuspendTimedOut, EndRound, ToSuspended, IInv, NoLostResume, TypeOK
  <2>. QED
    BY <2>1, <2>2, <2>4 DEF IInv, Shape
<1>7. CASE \E id \in ThreadId : CallSuspendThread(t, id)
  <2>1. PICK id \in ThreadId : CallSuspendThread(t, id)
    BY <1>7
  <2>2. Shape'
    BY <2>1, IdAssumption DEF CallSuspendThread, ToSuspended, IInv, Shape, TypeOK, Control, LockExcludes, InjectiveIds, Relied
  <2>. QED
    BY <2>1, <2>2, QuietStep DEF CallSuspendThread, ToSuspended, IInv, TypeOK
<1>. QED
    BY <1>1, <1>2, <1>3, <1>4, <1>5, <1>6, <1>7 DEF SuspendOne

LEMMA NextIInv == IInv /\ [Next]_vars => IInv'
<1>. SUFFICES ASSUME IInv, [Next]_vars PROVE IInv'
    OBVIOUS
<1>1. CASE UNCHANGED vars
  <2>1. Shape'
    BY <1>1 DEF vars, IInv, Shape, TypeOK, Control, LockExcludes, InjectiveIds, Relied
  <2>. QED
    BY <1>1, <2>1, QuietStep DEF vars
<1>2. ASSUME NEW t \in Thread, Lifecycle(t) PROVE IInv'
    BY <1>2, LifecycleIInv
<1>3. ASSUME NEW t \in Thread, CallToRunnable(t) \/ CallToSuspended(t) \/ CheckSuspend(t) \/ Transition(t) PROVE IInv'
    BY <1>3, TransitionIInv
<1>4. ASSUME NEW t \in Thread, SuspendAll(t) \/ StopTheWorld(t) PROVE IInv'
    BY <1>4, StopTheWorldIInv
<1>5. ASSUME NEW t \in Thread, SuspendOne(t) \/ SuspendTimedOut(t) \/ \E id \in ThreadId : CallSuspendThread(t, id) PROVE IInv'
    BY <1>5, SuspendOneIInv
<1>. QED
    BY <1>1, <1>2, <1>3, <1>4, <1>5 DEF Next

LEMMA IInvAlways == Spec => []IInv
    BY InitIInv, NextIInv, PTL DEF Spec

-----------------------------------------------------------------------------
(* The properties *)

\* The variables keep their types.
THEOREM TypeCorrect == Spec => []TypeOK
<1>. IInv => TypeOK
    BY DEF IInv
<1>. QED
    BY IInvAlways, PTL

\* While SuspendAll's caller holds mutator_lock_ no thread is kRunnable: kRunnable implies
\* a share, and the lock is exclusive.
THEOREM WorldIsStopped == Spec => []WorldStopped
<1>. IInv => WorldStopped
    BY DEF IInv, Control, LockExcludes, WorldStopped
<1>. QED
    BY IInvAlways, PTL

\* suspend_count is the number of outstanding requests, whatever number of SuspendAll and
\* SuspendThreadByThreadId calls overlap with each other and with attaching threads.
THEOREM CountsStayExact == Spec => []CountsAreExact
<1>. IInv => CountsAreExact
    BY DEF IInv
<1>. QED
    BY IInvAlways, PTL

\* AssertThreadsAreSuspended never fails at SuspendAll's end or ResumeAll's beginning.
THEOREM ThreadsAreSuspended == Spec => []AllThreadsSuspended
<1>1. ASSUME IInv PROVE AllThreadsSuspended
  <2>. SUFFICES ASSUME NEW t \in Thread, pc[t] = "stopped", NEW u \in list_ \ {t}
                PROVE  IsSuspended(u)
    BY DEF AllThreadsSuspended
  <2>1. u \in Thread /\ StoppersOf(u) # {}
    BY <1>1 DEF IInv, TypeOK, StoppersOf
  <2>2. suspend_count[u] > 0
    BY <1>1, <2>1, CountsPositive
  <2>3. state[u] # "kRunnable"
    BY <1>1, <2>1, ThreadAssumption DEF IInv, Control, LockExcludes
  <2>. QED
    BY <2>2, <2>3 DEF IsSuspended
<1>. QED
    BY <1>1, IInvAlways, PTL

\* The thread SuspendThreadByThreadId returns stays listed, suspended and the same.
THEOREM SuspendedThreadIsStable == Spec => []SuspendedThreadStays
<1>1. ASSUME IInv PROVE SuspendedThreadStays
  <2>. SUFFICES ASSUME NEW t \in Thread, NEW u, u = suspended_thread[t], u # None
                PROVE  /\ u \in list_ /\ thread_id[u] = target_id[t]
                       /\ suspend_count[u] > 0
                       /\ pc[t] = "holding" => IsSuspended(u)
    BY DEF SuspendedThreadStays
  <2>1. u \in Thread /\ u \in list_ /\ thread_id[u] = target_id[t] /\ (pc[t] = "holding" => state[u] # "kRunnable")
    BY <1>1, SMTT(30) DEF IInv, TypeOK, Relied
  <2>2. suspend_count[u] > 0
    BY <1>1, <2>1, CountsPositive DEF SuspendersOf
  <2>. QED
    BY <2>1, <2>2 DEF IsSuspended
<1>. QED
    BY <1>1, IInvAlways, PTL

\* Suspension requests between threads never close a circle.
THEOREM SuspendersAreAcyclic == Spec => []NoSuspendCycle
<1>. IInv => NoSuspendCycle
    BY DEF IInv
<1>. QED
    BY IInvAlways, PTL

\* No thread sleeps on resume_cond_ with a zero count and nobody about to broadcast.
THEOREM ResumeIsNotLost == Spec => []NoLostResume
<1>. IInv => NoLostResume
    BY DEF IInv
<1>. QED
    BY IInvAlways, PTL

\* Thread ids identify threads.
THEOREM ThreadIdsAreUnique == Spec => []UniqueThreadIds
<1>. IInv => UniqueThreadIds
    BY DEF IInv, InjectiveIds, UniqueThreadIds, Control, TypeOK
<1>. QED
    BY IInvAlways, PTL
===============================================================================
