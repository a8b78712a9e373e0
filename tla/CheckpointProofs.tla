-------------------------- MODULE CheckpointProofs --------------------------
(***************************************************************************)
(* Checkpoint for every finite set of threads and any number of rounds.    *)
(*                                                                         *)
(* The barrier counts threads, it does not name them.  The invariant does: *)
(* for each requester the threads that were counted are those that have    *)
(* the closure (Asked), those the requester will run it for (ToRun) and    *)
(* those that have run it (HasRun), no thread in two of the sets; the      *)
(* result of RunCheckpoint and the barrier are numbers of these sets, so a *)
(* barrier at zero means that nobody has the closure any more.  A step of  *)
(* one thread leaves the account of most requesters alone (Untouched); for *)
(* the others there is a lemma per action.  The accounts are then an       *)
(* invariant, and what the callers of RunCheckpoint rely on follows.       *)
(***************************************************************************)
EXTENDS Checkpoint, FiniteSetTheorems, TLAPS

Shape ==
    /\ cp_pc \in [Thread -> Pcs]
    /\ count_lock \in Requester \cup {NoThread}
    /\ suspend_count \in [Thread -> Int]
    /\ checkpoint_request \in [Thread -> BOOLEAN]
    /\ checkpoint_functions \in [Thread -> SUBSET Requester]
    /\ collected \in [Thread -> SUBSET Requester]
    /\ back \in [Thread -> {"runnable", "dumpExit"}]
    /\ resume_waiters \subseteq Thread
    /\ todo \in [Requester -> SUBSET Thread]
    /\ subject \in [Requester -> Thread \cup {NoThread}]
    /\ modified \in [Requester -> SUBSET Thread]
    /\ count \in [Requester -> Int]
    /\ barrier \in [Requester -> Int]
    /\ barrier_waiters \subseteq Requester
    /\ rounds \in [Requester -> Nat]
    /\ ran \in [Requester -> [Thread -> Nat]]

\* r holds thread_suspend_count_lock_ and walks list_.
VisitPcs == {"visit", "retry", "cas", "failed", "raise"}

\* DumpCheckpoint::Run is in progress, for r itself or for a suspended thread.
Dumping(r) ==
    \/ cp_pc[r] \in {"dumpEnter", "dump", "dumpExit", "pass"}
    \/ cp_pc[r] = "running" /\ back[r] = "dumpExit"

\* Where a requester is, and what it may hold there.
StageOf(r) ==
    /\ cp_pc[r] \in VisitPcs <=> count_lock = r
    /\ cp_pc[r] \notin VisitPcs => todo[r] = {}
    /\ cp_pc[r] \in VisitPcs \ {"visit"} => subject[r] \in todo[r]
    /\ cp_pc[r] = "cas" => r \in checkpoint_functions[subject[r]]
    /\ cp_pc[r] \in VisitPcs \cup {"runSelf", "others", "lower"} \/ Dumping(r) \/ modified[r] = {}
    /\ cp_pc[r] = "lower" => subject[r] \in modified[r]
    /\ Dumping(r) => subject[r] = r \/ subject[r] \in modified[r]
    /\ r \in Sampler => /\ cp_pc[r] \notin {"raise", "runSelf", "others", "lower", "broadcast"}
                        /\ ~Dumping(r) /\ modified[r] = {}
    /\ r \notin todo[r] /\ r \notin modified[r]
    /\ r \notin checkpoint_functions[r] /\ r \notin collected[r]

\* t has r's closure in a slot, or copied and not run yet; a closure whose flag is not
\* installed yet does not count.
Asked(r) ==
    {t \in Thread : /\ r \in checkpoint_functions[t] \cup collected[t]
                    /\ ~(cp_pc[r] = "cas" /\ t = subject[r])}

\* The threads r will run the closure for.
ToRun(r) ==
    {t \in Thread : \/ t \in modified[r] /\ ~(cp_pc[r] = "lower" /\ t = subject[r])
                    \/ t = r /\ Dumping(r) /\ subject[r] = r}

HasRun(r) == {t \in Thread : ran[r][t] = 1}

Counted(r) == Asked(r) \cup ToRun(r) \cup HasRun(r)

\* No thread is in two of the sets, and the closure is never left with a thread after
\* the requester has gone.
SetsOf(r) ==
    /\ \A t \in Thread :
          /\ ran[r][t] \in {0, 1}
          /\ ~(r \in checkpoint_functions[t] /\ r \in collected[t])
          /\ r \in checkpoint_functions[t] \cup collected[t] => t \notin ToRun(r) \cup HasRun(r)
          /\ t \notin ToRun(r) \cap HasRun(r)
          /\ t \in todo[r] => t \notin Counted(r) /\ t \notin modified[r]
          /\ \/ r \in Sampler \/ rounds[r] = 0
             \/ t \in Counted(r) \cup todo[r]
             \/ t = r /\ cp_pc[r] \in VisitPcs \cup {"runSelf"}
    /\ cp_pc[r] \in VisitPcs \cup {"runSelf"} => r \notin Counted(r)
    /\ cp_pc[r] = "lower" => subject[r] \in HasRun(r)
    /\ ~Requesting(r) => Asked(r) = {}

\* The arithmetic of RunCheckpoint's result and of the barrier.
NumbersOf(r) ==
    /\ count[r] = Cardinality(Counted(r))
    /\ barrier[r] = (IF cp_pc[r] = "await" \/ ~Requesting(r) THEN count[r] ELSE 0)
                       - Cardinality(HasRun(r))
    /\ r \in barrier_waiters => cp_pc[r] = "await"
    /\ cp_pc[r] = "await" /\ r \notin barrier_waiters => barrier[r] = 0

Account(r) == StageOf(r) /\ SetsOf(r) /\ NumbersOf(r)

\* The requesters that keep t suspended.
Keepers(t) == {r \in Requester : t \in modified[r]}

Suspending ==
    /\ \A t \in Thread : suspend_count[t] = Cardinality(Keepers(t))
    /\ \A r \in Requester :
          (cp_pc[r] = "lower" \/ Dumping(r)) /\ subject[r] # r => ~IsRunnable(subject[r])

IInv ==
    /\ Shape
    /\ \A t \in Thread : cp_pc[t] # "running" => collected[t] = {}
    /\ \A r \in Requester : Account(r)


USE DEF CpAt, CpGoto, LockFree, Pcs, RunnablePcs, RequestPcs, VisitPcs, slotVars, visitVars, barrierVars,
        IsRunnable, IsSuspended

LEMMA Update ==
    ASSUME NEW D, NEW S, NEW f \in [D -> S], NEW d, NEW v \in S
    PROVE  [f EXCEPT ![d] = v] \in [D -> S]
BY Zenon

LEMMA PassShape ==
    ASSUME Shape, NEW r \in Requester, NEW t \in Thread, Pass(r, t)
    PROVE  /\ ran' \in [Requester -> [Thread -> Nat]]
           /\ \A q \in Requester, u \in Thread :
                 ran'[q][u] = IF q = r /\ u = t THEN ran[q][u] + 1 ELSE ran[q][u]
           /\ barrier' \in [Requester -> Int]
           /\ \A q \in Requester : barrier'[q] = IF q = r THEN barrier[q] - 1 ELSE barrier[q]
           /\ barrier_waiters' \subseteq Requester
<1>1. ran[r] \in [Thread -> Nat] /\ ran[r][t] + 1 \in Nat
    BY DEF Shape
<1>2. [ran[r] EXCEPT ![t] = ran[r][t] + 1] \in [Thread -> Nat]
    BY <1>1, Zenon
<1>3. ran' = [ran EXCEPT ![r] = [ran[r] EXCEPT ![t] = ran[r][t] + 1]]
    BY Zenon DEF Pass
<1>4. ran' \in [Requester -> [Thread -> Nat]]
    BY <1>2, <1>3, Zenon DEF Shape
<1>5. \A q \in Requester, u \in Thread :
          ran'[q][u] = IF q = r /\ u = t THEN ran[q][u] + 1 ELSE ran[q][u]
    BY <1>1, <1>3, Zenon DEF Shape
<1>. QED
    BY <1>4, <1>5 DEF Pass, Shape

-----------------------------------------------------------------------------
(* The account of a requester that a step does not concern. *)

\* q stays where it is, outside of RunCheckpoint or inside DumpCheckpoint::Run, and no
\* thread gets or runs its closure; moving the closure out of the slot is not a change.
Untouched(q) ==
    /\ \/ cp_pc'[q] = cp_pc[q] /\ back'[q] = back[q]
       \/ ~Requesting(q) /\ ~Requesting(q)'
       \/ Dumping(q) /\ Dumping(q)'
    /\ count_lock' = q <=> count_lock = q
    /\ \A t \in Thread :
          /\ q \in checkpoint_functions'[t] \cup collected'[t]
                <=> q \in checkpoint_functions[t] \cup collected[t]
          /\ ~(q \in checkpoint_functions'[t] /\ q \in collected'[t])
          /\ cp_pc[q] = "cas" => (q \in checkpoint_functions'[t] <=> q \in checkpoint_functions[t])
    /\ todo'[q] = todo[q] /\ subject'[q] = subject[q] /\ modified'[q] = modified[q]
    /\ rounds'[q] = rounds[q] /\ ran'[q] = ran[q] /\ count'[q] = count[q]
    /\ barrier'[q] = barrier[q] /\ (q \in barrier_waiters' <=> q \in barrier_waiters)

LEMMA UntouchedKeeps ==
    ASSUME CheckpointConstants, IInv, NEW q \in Requester, Untouched(q)
    PROVE  Account(q)'
<1>0. Shape /\ StageOf(q) /\ SetsOf(q) /\ NumbersOf(q)
    BY Zenon DEF IInv, Account
<1>1. /\ \A l \in VisitPcs \cup {"runSelf", "others", "lower", "broadcast", "increment", "await"} :
             cp_pc'[q] = l <=> cp_pc[q] = l
      /\ Dumping(q)' <=> Dumping(q)
      /\ Requesting(q)' <=> Requesting(q)
    BY Zenon DEF Untouched, Dumping, Requesting
<1>2. Asked(q)' = Asked(q) /\ ToRun(q)' = ToRun(q) /\ HasRun(q)' = HasRun(q)
    BY <1>1 DEF Untouched, Asked, ToRun, HasRun
<1>3. Counted(q)' = Counted(q)
    BY <1>2, Zenon DEF Counted
<1>4. StageOf(q)'
    BY <1>0, <1>1, ZenonT(40) DEF CheckpointConstants, Shape, StageOf, Untouched
<1>5. SetsOf(q)'
    BY <1>0, <1>1, <1>2, <1>3 DEF SetsOf, Untouched
<1>6. NumbersOf(q)'
    BY <1>0, <1>1, <1>2, <1>3, Zenon DEF NumbersOf, Untouched
<1>. QED
    BY <1>4, <1>5, <1>6, Zenon DEF Account

LEMMA SetsCounted ==
    ASSUME CheckpointConstants, NEW S \in SUBSET Thread
    PROVE  /\ IsFiniteSet(S) /\ Cardinality(S) \in Nat
           /\ S = {} => Cardinality(S) = 0
           /\ \A t : t \notin S => Cardinality(S \cup {t}) = Cardinality(S) + 1
           /\ \A t : t \in S => Cardinality(S \ {t}) = Cardinality(S) - 1
           /\ \A R \in SUBSET S : /\ Cardinality(R) <= Cardinality(S)
                                  /\ Cardinality(R) = Cardinality(S) => R = S
<1>1. IsFiniteSet(S)
    BY FS_Subset, Zenon DEF CheckpointConstants
<1>2. Cardinality(S) \in Nat /\ (S = {} => Cardinality(S) = 0)
    BY <1>1, FS_CardinalityType, FS_EmptySet, Zenon
<1>. QED
    BY <1>1, <1>2, FS_AddElement, FS_RemoveElement, FS_Subset, Zenon

LEMMA CountDown == \A c, n \in Int : (c - n) - 1 = c - (n + 1)
OBVIOUS

\* At the barrier, the count is the number of threads that still have the closure.
LEMMA AtBarrier ==
    ASSUME CheckpointConstants, Shape, NEW r \in Requester, Account(r), cp_pc[r] = "await"
    PROVE  barrier[r] >= 0 /\ (barrier[r] = 0 <=> Asked(r) = {}) /\ ToRun(r) = {}
<1>1. ToRun(r) = {}
    BY Zenon DEF Account, StageOf, ToRun, Dumping
<1>2. /\ Counted(r) \in SUBSET Thread /\ HasRun(r) \in SUBSET Counted(r)
      /\ Asked(r) \cap HasRun(r) = {}
    BY Zenon DEF Counted, Asked, ToRun, HasRun, Account, SetsOf
<1>3. barrier[r] = Cardinality(Counted(r)) - Cardinality(HasRun(r))
    BY Zenon DEF Account, NumbersOf
<1>4. Counted(r) = HasRun(r) <=> Asked(r) = {}
    BY <1>1, <1>2, Zenon DEF Counted
<1>5. Cardinality(Counted(r)) \in Nat /\ Cardinality(HasRun(r)) \in Nat
    BY <1>2, SetsCounted, Zenon
<1>. QED
    BY <1>1, <1>2, <1>3, <1>4, <1>5, SetsCounted
\* The steps of the threads that are asked concern no requester's account, except that
\* of a closure they run.
LEMMA AskedStep ==
    ASSUME CheckpointConstants, IInv, NEW t \in Thread, NEW q \in Requester,
           \/ Voluntary(t) \/ Enter(t) \/ FullSuspendCheck(t) \/ CollectCheckpoints(t)
           \/ RunCollected(t) /\ (q \notin collected[t] \/ ran'[q] = ran[q])
    PROVE  Untouched(q)
<1> Shape /\ StageOf(q) /\ SetsOf(q)
    BY ZenonT(40) DEF IInv, Account
<1> USE DEF CheckpointConstants, Shape, Untouched, Requesting, Dumping
<1>1. CASE Voluntary(t) \/ Enter(t) \/ FullSuspendCheck(t)
    BY <1>1
    DEF Voluntary, CallToRunnable, CallToSuspended, ToSuspended, Enter, WaitWhileSuspended,
        BecomeRunnable, FullSuspendCheck, SetsOf
<1>2. CASE CollectCheckpoints(t)
    <2>1. \A u \in Thread : /\ u # t => /\ checkpoint_functions'[u] = checkpoint_functions[u]
                                        /\ collected'[u] = collected[u]
                            /\ checkpoint_functions'[t] = {} /\ collected'[t] = checkpoint_functions[t]
        BY <1>2 DEF CollectCheckpoints
    <2>2. cp_pc[t] \in {"runnable", "dumpExit"} /\ collected[t] = {} /\ cp_pc[q] # "cas"
        <3>1. LockFree /\ cp_pc[t] # "running"
            BY <1>2 DEF CollectCheckpoints
        <3>. QED
            BY <1>2, <3>1, ZenonT(40) DEF CollectCheckpoints, StageOf, IInv
    <2>3. /\ cp_pc' = [cp_pc EXCEPT ![t] = "running"] /\ back' = [back EXCEPT ![t] = cp_pc[t]]
          /\ UNCHANGED <<count_lock, todo, subject, modified, rounds, ran, count, barrier, barrier_waiters>>
        BY <1>2, Zenon DEF CollectCheckpoints
    <2>4. \/ cp_pc'[q] = cp_pc[q] /\ back'[q] = back[q]
          \/ ~Requesting(q) /\ ~Requesting(q)'
          \/ Dumping(q) /\ Dumping(q)'
        BY <2>2, <2>3
    <2>5. \A u \in Thread : ~(q \in checkpoint_functions[u] /\ q \in collected[u])
        BY Zenon DEF SetsOf
    <2> HIDE DEF Shape, CheckpointConstants, Requesting, Dumping
    <2>6. \A u \in Thread :
              /\ q \in checkpoint_functions'[u] \cup collected'[u]
                    <=> q \in checkpoint_functions[u] \cup collected[u]
              /\ ~(q \in checkpoint_functions'[u] /\ q \in collected'[u])
        BY <2>1, <2>2, <2>5
    <2>. QED
        BY <2>2, <2>3, <2>4, <2>6, Zenon
<1>3. CASE RunCollected(t) /\ collected[t] = {}
    BY <1>3 DEF RunCollected, SetsOf
<1>4. CASE RunCollected(t) /\ collected[t] # {} /\ (q \notin collected[t] \/ ran'[q] = ran[q])
    <2>1. PICK r \in collected[t] : /\ Pass(r, t)
                                    /\ collected' = [collected EXCEPT ![t] = @ \ {r}]
                                    /\ UNCHANGED cp_pc
        BY <1>4, Zenon DEF RunCollected
    <2>2. r # q
        <3>1. r \in Requester /\ ran[r][t] \in Nat
            BY <2>1
        <3>2. ran'[r][t] = ran[r][t] + 1
            BY <2>1, <3>1, PassShape
        <3>. QED
            BY <1>4, <3>1, <3>2
    <2>. QED
        BY <1>4, <2>1, <2>2 DEF RunCollected, Pass, SetsOf
<1>. QED
    BY <1>1, <1>2, <1>3, <1>4, Zenon

\* A requester's steps concern no other requester's account.
LEMMA OthersUntouched ==
    ASSUME CheckpointConstants, IInv, NEW r \in Requester, NEW q \in Requester, q # r,
           CallRunCheckpoint(r) \/ Visit(r) \/ RunClosures(r)
    PROVE  Untouched(q)
<1> Shape
    BY Zenon DEF IInv
<1>s. StageOf(q) /\ StageOf(r) /\ SetsOf(q)
    BY Zenon DEF IInv, Account
<1> USE DEF CheckpointConstants, Shape, Untouched
<1>1. CASE CallRunCheckpoint(r)
    BY <1>1, <1>s, ZenonT(40) DEF CallRunCheckpoint, SetsOf
<1>2. ASSUME NEW t \in Thread, RequestCheckpoint(r, t) PROVE Untouched(q)
    <2>1. \A u \in Thread : q \in checkpoint_functions'[u] <=> q \in checkpoint_functions[u]
        <3>1. \/ checkpoint_functions' = checkpoint_functions
              \/ checkpoint_functions' = [checkpoint_functions EXCEPT ![t] = checkpoint_functions[t] \cup {r}]
            BY <1>2, Zenon DEF RequestCheckpoint
        <3>2. checkpoint_functions \in [Thread -> SUBSET Requester]
            BY Zenon
        <3> HIDE DEF Shape, CheckpointConstants, Untouched
        <3>. QED
            BY <3>1, <3>2
    <2>2. cp_pc'[q] = cp_pc[q] /\ subject'[q] = subject[q]
        BY <1>2 DEF RequestCheckpoint
    <2>. QED
        BY <1>2, <1>s, <2>1, <2>2, Zenon DEF RequestCheckpoint, SetsOf
<1>3. CASE InstallFlag(r)
    <2>1. subject[r] \in Thread
        BY <1>3, <1>s, Zenon DEF InstallFlag, StageOf
    <2>2. \A t \in Thread : q \in checkpoint_functions'[t] <=> q \in checkpoint_functions[t]
        <3>1. \/ checkpoint_functions' = checkpoint_functions
              \/ checkpoint_functions' = [checkpoint_functions EXCEPT
                                             ![subject[r]] = checkpoint_functions[subject[r]] \ {r}]
            BY <1>3, Zenon DEF InstallFlag
        <3>2. checkpoint_functions \in [Thread -> SUBSET Requester]
            BY Zenon
        <3> HIDE DEF Shape, CheckpointConstants, Untouched
        <3>. QED
            BY <2>1, <3>1, <3>2
    <2>3. cp_pc'[q] = cp_pc[q] /\ todo'[q] = todo[q] /\ count'[q] = count[q]
        BY <1>3, ZenonT(40) DEF InstallFlag
    <2>. QED
        BY <1>3, <1>s, <2>2, <2>3, Zenon DEF InstallFlag, SetsOf
<1>4. CASE RequestFailed(r) \/ KeepSuspended(r) \/ AllVisited(r)
    BY <1>4, <1>s DEF RequestFailed, KeepSuspended, AllVisited, SetsOf, StageOf
<1>5. CASE RunOnSelf(r) \/ RunOnSuspended(r) \/ DumpPass(r)
    BY <1>5, <1>s DEF RunOnSelf, RunOnSuspended, RunOn, DumpPass, Pass, SetsOf
<1>6. CASE Dump(r) \/ DumpExit(r) \/ Lower(r) \/ AllRun(r) \/ BroadcastResume(r)
    BY <1>6, <1>s DEF Dump, DumpExit, ToSuspended, Lower, AllRun, BroadcastResume, SetsOf
<1>7. CASE Increment(r) \/ BarrierReturns(r)
    BY <1>7, <1>s DEF Increment, BarrierReturns, SetsOf
<1>. QED
    BY <1>1, <1>2, <1>3, <1>4, <1>5, <1>6, <1>7, Zenon DEF Visit, RunClosures
-----------------------------------------------------------------------------
(* The account of the requester that takes a step. *)

LEMMA CallRunCheckpointAccount ==
    ASSUME CheckpointConstants, Shape, NEW r \in Requester, Account(r), CallRunCheckpoint(r)
    PROVE  Account(r)'
<1> USE DEF CheckpointConstants, Account, Shape
<1>1. /\ cp_pc[r] = "native" /\ cp_pc'[r] = "visit" /\ ~Requesting(r) /\ ~Dumping(r) /\ ~Dumping(r)'
      /\ Requesting(r)'
    BY Zenon DEF CallRunCheckpoint, Requesting, Dumping
<1>2. modified[r] = {} /\ modified'[r] = {} /\ Asked(r) = {} /\ ToRun(r) = {} /\ ToRun(r)' = {}
    BY <1>1, Zenon DEF StageOf, SetsOf, ToRun, CallRunCheckpoint
<1>3. Asked(r)' = {}
    BY <1>1, <1>2, Zenon DEF Asked, CallRunCheckpoint
<1>4. \A t \in Thread : ran'[r][t] = 0
    BY Zenon DEF CallRunCheckpoint
<1>5. HasRun(r)' = {} /\ Counted(r)' = {}
    BY <1>2, <1>3, <1>4 DEF HasRun, Counted
<1>6. StageOf(r)'
    BY <1>1, <1>2, Zenon DEF CallRunCheckpoint, StageOf
<1>7. SetsOf(r)'
    BY <1>1, <1>2, <1>3, <1>4, <1>5, ZenonT(40) DEF CallRunCheckpoint, SetsOf, Asked
<1>8. NumbersOf(r)'
    <2>1. Counted(r) = HasRun(r) /\ HasRun(r) \in SUBSET Thread
        BY <1>2, ZenonT(40) DEF Counted, HasRun
    <2>2. barrier[r] = 0 /\ r \notin barrier_waiters
        BY <1>1, <2>1, SetsCounted DEF NumbersOf
    <2>. QED
        BY <1>1, <1>5, <2>2, FS_EmptySet DEF CallRunCheckpoint, NumbersOf
<1>. QED
    BY <1>6, <1>7, <1>8, Zenon DEF Account

LEMMA RequestCheckpointAccount ==
    ASSUME CheckpointConstants, Shape, NEW r \in Requester, Account(r),
           NEW t \in Thread, RequestCheckpoint(r, t)
    PROVE  Account(r)'
<1> USE DEF CheckpointConstants, Account, Shape
<1>1. /\ cp_pc[r] \in {"visit", "retry"} /\ cp_pc'[r] \in {"cas", "failed"} /\ subject'[r] = t
      /\ t \in todo[r] /\ ~Dumping(r) /\ ~Dumping(r)' /\ Requesting(r) /\ Requesting(r)'
    BY DEF RequestCheckpoint, StageOf, Requesting, Dumping
<1>2. r \notin checkpoint_functions[t] \cup collected[t] /\ t # r /\ t \notin ToRun(r) \cup HasRun(r)
    BY <1>1, Zenon DEF StageOf, SetsOf, Counted, Asked
<1>3. \A u \in Thread : /\ u # t => checkpoint_functions'[u] = checkpoint_functions[u]
                        /\ r \in checkpoint_functions'[t] <=> cp_pc'[r] = "cas"
                        /\ collected'[u] = collected[u]
    BY <1>2 DEF RequestCheckpoint
<1>4. Asked(r)' = Asked(r)
    BY <1>1, <1>2, <1>3, Zenon DEF Asked
<1>5. ToRun(r)' = ToRun(r) /\ HasRun(r)' = HasRun(r)
    BY <1>1, Zenon DEF RequestCheckpoint, ToRun, HasRun
<1>6. Counted(r)' = Counted(r)
    BY <1>4, <1>5, Zenon DEF Counted
<1>7. StageOf(r)'
    BY <1>1, <1>2, <1>3, Zenon DEF RequestCheckpoint, StageOf
<1>8. SetsOf(r)'
    <2>1. ran' = ran /\ todo' = todo /\ rounds' = rounds /\ modified' = modified /\ SetsOf(r)
        BY Zenon DEF RequestCheckpoint
    <2> HIDE DEF Shape, CheckpointConstants, Account
    <2>. QED
        BY <1>1, <1>2, <1>3, <1>4, <1>5, <1>6, <2>1, ZenonT(40) DEF SetsOf
<1>9. NumbersOf(r)'
    BY <1>1, <1>5, <1>6, Zenon DEF RequestCheckpoint, NumbersOf
<1>. QED
    BY <1>7, <1>8, <1>9, Zenon DEF Account

LEMMA InstallFlagAccount ==
    ASSUME CheckpointConstants, Shape, NEW r \in Requester, Account(r), InstallFlag(r)
    PROVE  Account(r)'
<1> USE DEF CheckpointConstants, Account, Shape
<1> DEFINE t == subject[r]
<1>1. /\ cp_pc[r] = "cas" /\ cp_pc'[r] \in {"visit", "failed"} /\ subject'[r] = t /\ t \in Thread
      /\ t \in todo[r] /\ ~Dumping(r) /\ ~Dumping(r)' /\ Requesting(r) /\ Requesting(r)'
    BY Zenon DEF InstallFlag, StageOf, Requesting, Dumping
<1>2. /\ r \in checkpoint_functions[t] /\ r \notin collected[t] /\ t # r
      /\ t \notin Counted(r) /\ t \notin modified[r]
    BY <1>1, Zenon DEF StageOf, SetsOf
<1>3. ToRun(r)' = ToRun(r) /\ HasRun(r)' = HasRun(r)
    BY <1>1, Zenon DEF InstallFlag, ToRun, HasRun
<1>4. CASE IsRunnable(t)
    <2>1. /\ todo'[r] = todo[r] \ {t} /\ count'[r] = count[r] + 1
          /\ checkpoint_functions' = checkpoint_functions /\ cp_pc'[r] = "visit"
        BY <1>4, ZenonT(40) DEF InstallFlag
    <2>2. Asked(r)' = Asked(r) \cup {t}
        BY <1>1, <1>2, <2>1 DEF Asked, InstallFlag
    <2>3. Counted(r)' = Counted(r) \cup {t}
        BY <1>3, <2>2 DEF Counted
    <2>4. StageOf(r)'
        BY <1>1, <1>2, <2>1, Zenon DEF InstallFlag, StageOf
    <2>5. SetsOf(r)'
        BY <1>1, <1>2, <1>3, <2>1, <2>2, <2>3, Zenon DEF InstallFlag, SetsOf
    <2>6. NumbersOf(r)'
        <3>1. Counted(r) \in SUBSET Thread
            BY Zenon DEF Counted, Asked, ToRun, HasRun
        <3>2. Cardinality(Counted(r)') = Cardinality(Counted(r)) + 1
            BY <1>2, <2>3, <3>1, SetsCounted, ZenonT(40)
        <3>. QED
            BY <1>1, <1>3, <2>1, <3>2, Zenon DEF InstallFlag, NumbersOf
    <2>. QED
        BY <2>4, <2>5, <2>6, Zenon DEF Account
<1>5. CASE ~IsRunnable(t)
    <2>1. /\ todo'[r] = todo[r] /\ count'[r] = count[r] /\ cp_pc'[r] = "failed"
          /\ \A u \in Thread : r \in checkpoint_functions'[u] <=>
                                  r \in checkpoint_functions[u] /\ u # t
        BY <1>1, <1>5 DEF InstallFlag
    <2>2. Asked(r)' = Asked(r)
        BY <1>1, <1>2, <2>1, Zenon DEF Asked, InstallFlag
    <2>3. Counted(r)' = Counted(r)
        BY <1>3, <2>2, Zenon DEF Counted
    <2>4. StageOf(r)'
        BY <1>1, <1>2, <2>1, ZenonT(40) DEF InstallFlag, StageOf
    <2>5. SetsOf(r)'
        BY <1>1, <1>2, <1>3, <2>1, <2>2, <2>3 DEF InstallFlag, SetsOf
    <2>6. NumbersOf(r)'
        BY <1>1, <1>3, <2>1, <2>3, Zenon DEF InstallFlag, NumbersOf
    <2>. QED
        BY <2>4, <2>5, <2>6, Zenon DEF Account
<1>. QED
    BY <1>4, <1>5, Zenon

LEMMA VisitAccount ==
    ASSUME CheckpointConstants, Shape, NEW r \in Requester, Account(r),
           RequestFailed(r) \/ KeepSuspended(r) \/ AllVisited(r)
    PROVE  Account(r)'
<1> USE DEF CheckpointConstants, Account, Shape
<1>1. CASE RequestFailed(r)
    <2>1. /\ cp_pc[r] = "failed" /\ cp_pc'[r] \in {"visit", "retry", "raise"} /\ ~Dumping(r)
          /\ ~Dumping(r)' /\ Requesting(r) /\ Requesting(r)' /\ (r \in Sampler => cp_pc'[r] = "visit")
          /\ \A t \in Thread : t \in todo'[r] => t \in todo[r]
          /\ r \notin Sampler => todo'[r] = todo[r]
        BY <1>1 DEF RequestFailed, Requesting, Dumping
    <2>2. Asked(r)' = Asked(r) /\ ToRun(r)' = ToRun(r) /\ HasRun(r)' = HasRun(r)
        BY <1>1, <2>1, Zenon DEF RequestFailed, Asked, ToRun, HasRun
    <2>3. Counted(r)' = Counted(r)
        BY <2>2, Zenon DEF Counted
    <2>4. StageOf(r)'
        BY <1>1, <2>1, ZenonT(40) DEF RequestFailed, StageOf
    <2>5. SetsOf(r)'
        BY <1>1, <2>1, <2>2, <2>3 DEF RequestFailed, SetsOf
    <2>6. NumbersOf(r)'
        BY <1>1, <2>1, <2>2, <2>3, Zenon DEF RequestFailed, NumbersOf
    <2>. QED
        BY <2>4, <2>5, <2>6, Zenon DEF Account
<1>2. CASE KeepSuspended(r)
    <2> DEFINE t == subject[r]
    <2>1. /\ cp_pc[r] = "raise" /\ cp_pc'[r] = "visit" /\ ~Dumping(r) /\ ~Dumping(r)' /\ Requesting(r)
          /\ Requesting(r)' /\ t \in todo[r] /\ t \in Thread /\ r \notin Sampler /\ t # r
          /\ t \notin Counted(r) /\ count'[r] = count[r] + 1
          /\ modified'[r] = modified[r] \cup {t} /\ todo'[r] = todo[r] \ {t}
        BY <1>2, ZenonT(40) DEF KeepSuspended, Requesting, Dumping, StageOf, SetsOf
    <2>2. Asked(r)' = Asked(r) /\ ToRun(r)' = ToRun(r) \cup {t} /\ HasRun(r)' = HasRun(r)
        BY <1>2, <2>1 DEF KeepSuspended, Asked, ToRun, HasRun
    <2>3. Counted(r)' = Counted(r) \cup {t}
        BY <2>2, ZenonT(40) DEF Counted
    <2>4. StageOf(r)'
        BY <1>2, <2>1, Zenon DEF KeepSuspended, StageOf
    <2>5. SetsOf(r)'
        <3>1. r \notin checkpoint_functions[t] \cup collected[t] /\ t \notin HasRun(r)
            BY <2>1, Zenon DEF Counted, Asked
        <3>. QED
            BY <1>2, <2>1, <2>2, <2>3, <3>1 DEF KeepSuspended, SetsOf
    <2>6. NumbersOf(r)'
        <3>1. Counted(r) \in SUBSET Thread
            BY Zenon DEF Counted, Asked, ToRun, HasRun
        <3>2. Cardinality(Counted(r)') = Cardinality(Counted(r)) + 1
            BY <2>1, <2>3, <3>1, SetsCounted, Zenon
        <3>. QED
            BY <1>2, <2>1, <2>2, <3>2, Zenon DEF KeepSuspended, NumbersOf
    <2>. QED
        BY <2>4, <2>5, <2>6, Zenon DEF Account
<1>3. CASE AllVisited(r)
    <2>1. /\ cp_pc[r] = "visit" /\ cp_pc'[r] \in {"increment", "runSelf"} /\ ~Dumping(r) /\ ~Dumping(r)'
          /\ Requesting(r) /\ Requesting(r)' /\ todo[r] = {} /\ (r \in Sampler <=> cp_pc'[r] = "increment")
        BY <1>3, Zenon DEF AllVisited, Requesting, Dumping
    <2>2. Asked(r)' = Asked(r) /\ ToRun(r)' = ToRun(r) /\ HasRun(r)' = HasRun(r)
        BY <1>3, <2>1, Zenon DEF AllVisited, Asked, ToRun, HasRun
    <2>3. Counted(r)' = Counted(r)
        BY <2>2, Zenon DEF Counted
    <2>4. StageOf(r)'
        BY <1>3, <2>1, ZenonT(40) DEF AllVisited, StageOf
    <2>5. SetsOf(r)'
        BY <1>3, <2>1, <2>2, <2>3, Zenon DEF AllVisited, SetsOf
    <2>6. NumbersOf(r)'
        BY <1>3, <2>1, <2>2, <2>3, Zenon DEF AllVisited, NumbersOf
    <2>. QED
        BY <2>4, <2>5, <2>6, Zenon DEF Account
<1>. QED
    BY <1>1, <1>2, <1>3, Zenon
\* A closure that t has not run yet is run for it.
LEMMA PassRuns ==
    ASSUME Shape, NEW r \in Requester, SetsOf(r), NEW t \in Thread, Pass(r, t), t \notin HasRun(r)
    PROVE  HasRun(r)' = HasRun(r) \cup {t} /\ \A u \in Thread : ran'[r][u] \in {0, 1}
<1>1. \A u \in Thread : ran'[r][u] = IF u = t THEN ran[r][u] + 1 ELSE ran[r][u]
    BY PassShape
<1>2. \A u \in Thread : ran[r][u] \in {0, 1}
    BY Zenon DEF SetsOf
<1>3. ran[r][t] = 0
    BY <1>2, Zenon DEF HasRun
<1>4. \A u \in Thread : IF u = t THEN ran'[r][u] = 1 ELSE ran'[r][u] = ran[r][u]
    BY <1>1, <1>3
<1>. QED
    BY <1>2, <1>4, Zenon DEF HasRun

\* Barrier::Pass before the requester has come to its barrier.
LEMMA PassNumbers ==
    ASSUME CheckpointConstants, Shape, NEW r \in Requester, Account(r),
           NEW t \in Thread, Pass(r, t),
           t \notin HasRun(r), HasRun(r)' = HasRun(r) \cup {t},
           count'[r] = Cardinality(Counted(r)'),
           Requesting(r) /\ cp_pc[r] # "await", Requesting(r)' /\ cp_pc'[r] # "await"
    PROVE  NumbersOf(r)'
<1> USE DEF Account, Shape
<1>1. HasRun(r) \in SUBSET Thread
    BY Zenon DEF HasRun
<1>2. Cardinality(HasRun(r)') = Cardinality(HasRun(r)) + 1 /\ Cardinality(HasRun(r)) \in Nat
    BY <1>1, SetsCounted, ZenonT(40)
<1>3. barrier'[r] = barrier[r] - 1 /\ r \notin barrier_waiters /\ r \notin barrier_waiters'
    BY Zenon DEF NumbersOf, Pass
<1>4. barrier[r] = 0 - Cardinality(HasRun(r))
    BY Zenon DEF NumbersOf
<1>5. barrier'[r] = 0 - Cardinality(HasRun(r)')
    <2> HIDE DEF Account
    <2>. QED
        BY <1>2, <1>3, <1>4
<1>. QED
    BY <1>3, <1>5, Zenon DEF NumbersOf

LEMMA RunOnSelfAccount ==
    ASSUME CheckpointConstants, Shape, NEW r \in Requester, Account(r), RunOnSelf(r)
    PROVE  Account(r)'
<1> USE DEF CheckpointConstants, Account, Shape
<1>0. cp_pc[r] = "runSelf" /\ subject'[r] = r /\ count'[r] = count[r] + 1 /\ modified' = modified
    BY Zenon DEF RunOnSelf, RunOn
<1>1. /\ cp_pc[r] = "runSelf" /\ subject'[r] = r /\ r \in Thread /\ r \notin Sampler /\ ~Dumping(r)
      /\ Requesting(r) /\ todo[r] = {} /\ r \notin Counted(r) /\ count'[r] = count[r] + 1
      /\ r \notin modified[r] /\ modified' = modified
    BY <1>0, Zenon DEF StageOf, SetsOf, Requesting, Dumping
<1>2. Asked(r)' = Asked(r)
    BY <1>1, ZenonT(40) DEF RunOnSelf, RunOn, Asked
<1>c. Cardinality(Counted(r) \cup {r}) = Cardinality(Counted(r)) + 1
    <2>1. Counted(r) \in SUBSET Thread
        BY Zenon DEF Counted, Asked, ToRun, HasRun
    <2>. QED
        BY <1>1, <2>1, SetsCounted, Zenon
<1>3. CASE r \in Dumper
    <2>1. cp_pc'[r] = "dumpEnter" /\ Dumping(r)' /\ Requesting(r)' /\ UNCHANGED barrierVars
        BY <1>3, Zenon DEF RunOnSelf, RunOn, Dumping, Requesting
    <2>2. ToRun(r)' = ToRun(r) \cup {r} /\ HasRun(r)' = HasRun(r)
        <3> HIDE DEF Shape, CheckpointConstants, Account
        <3>. QED
            BY <1>1, <2>1, Zenon DEF ToRun, HasRun
    <2>3. Counted(r)' = Counted(r) \cup {r}
        BY <1>2, <2>2, ZenonT(40) DEF Counted
    <2>4. StageOf(r)'
        BY <1>1, <2>1, Zenon DEF RunOnSelf, StageOf
    <2>5. SetsOf(r)'
        <3>1. r \notin HasRun(r) /\ r \notin checkpoint_functions[r] \cup collected[r]
            BY <1>1, Zenon DEF Counted, StageOf
        <3>. QED
            <4>1. /\ UNCHANGED <<checkpoint_functions, collected, todo, rounds, ran>> /\ SetsOf(r)
                  /\ cp_pc'[r] = "dumpEnter"
                BY <2>1, Zenon DEF RunOnSelf
            <4> HIDE DEF Shape, CheckpointConstants, Account
            <4>. QED
                BY <1>1, <1>2, <2>1, <2>2, <2>3, <3>1, <4>1, Zenon DEF SetsOf
    <2>6. NumbersOf(r)'
        BY <1>1, <1>c, <2>1, <2>2, <2>3, ZenonT(40) DEF NumbersOf
    <2>. QED
        BY <2>4, <2>5, <2>6, Zenon DEF Account
<1>4. CASE r \notin Dumper
    <2>1. cp_pc'[r] = "others" /\ ~Dumping(r)' /\ Requesting(r)' /\ Pass(r, r)
        BY <1>4, Zenon DEF RunOnSelf, RunOn, Dumping, Requesting
    <2>3. ToRun(r)' = ToRun(r)
        BY <1>1, <2>1, Zenon DEF ToRun
    <2>4. r \notin HasRun(r)
        BY <1>1, Zenon DEF Counted
    <2>5. HasRun(r)' = HasRun(r) \cup {r} /\ \A u \in Thread : ran'[r][u] \in {0, 1}
        BY <1>1, <2>1, <2>4, PassRuns, Zenon
    <2>6. Counted(r)' = Counted(r) \cup {r}
        BY <1>2, <2>3, <2>5, Zenon DEF Counted
    <2>7. StageOf(r)'
        BY <1>1, <2>1, Zenon DEF RunOnSelf, StageOf
    <2>8. SetsOf(r)'
        <3>1. r \notin ToRun(r) /\ r \notin checkpoint_functions[r] \cup collected[r]
            BY <1>1, Zenon DEF Counted, StageOf
        <3>. QED
            <4>1. UNCHANGED <<checkpoint_functions, collected, todo, rounds>> /\ SetsOf(r)
                BY Zenon DEF RunOnSelf
            <4> HIDE DEF Shape, CheckpointConstants, Account
            <4>. QED
                BY <1>1, <1>2, <2>1, <2>3, <2>4, <2>5, <2>6, <3>1, <4>1, Zenon DEF SetsOf
    <2>9. NumbersOf(r)'
        <3>1. count'[r] = Cardinality(Counted(r)')
            BY <1>1, <1>c, <2>6, Zenon DEF NumbersOf
        <3>. QED
            BY <1>1, <2>1, <2>4, <2>5, <3>1, PassNumbers, Zenon
    <2>. QED
        BY <2>7, <2>8, <2>9, Zenon DEF Account
<1>. QED
    BY <1>3, <1>4, Zenon

\* The closure is run for t, whose turn it is: t moves from one set to the other.
LEMMA RunAccount ==
    ASSUME CheckpointConstants, Shape, NEW r \in Requester, Account(r),
           NEW t \in Thread, Pass(r, t),
           t \in ToRun(r), Asked(r)' = Asked(r), ToRun(r)' = ToRun(r) \ {t},
           cp_pc[r] \in {"others", "pass"}, cp_pc'[r] \in {"others", "lower"},
           cp_pc'[r] = "lower" => subject'[r] = t,
           UNCHANGED <<checkpoint_functions, collected, todo, count, rounds>>, todo[r] = {}
    PROVE  SetsOf(r)' /\ NumbersOf(r)'
<1> USE DEF Account, Shape
<1>1. Requesting(r) /\ Requesting(r)'
    BY Zenon DEF Requesting
<1>2. t \notin HasRun(r)
    BY Zenon DEF SetsOf
<1>4. HasRun(r)' = HasRun(r) \cup {t} /\ \A u \in Thread : ran'[r][u] \in {0, 1}
    BY <1>2, PassRuns, Zenon
<1>5. Counted(r)' = Counted(r)
    BY <1>4, Zenon DEF Counted
<1>6. SetsOf(r)'
    <2>1. r \notin checkpoint_functions[t] \cup collected[t]
        BY Zenon DEF SetsOf
    <2>2. SetsOf(r)
        BY Zenon
    <2> HIDE DEF Shape, Account
    <2>. QED
        <3>1. ASSUME NEW u \in Thread
              PROVE  /\ r \in checkpoint_functions'[u] \cup collected'[u] =>
                            u \notin ToRun(r)' \cup HasRun(r)'
                     /\ u \notin ToRun(r)' \cap HasRun(r)'
            <4>1. /\ r \in checkpoint_functions[u] \cup collected[u] => u \notin ToRun(r) \cup HasRun(r)
                  /\ u \notin ToRun(r) \cap HasRun(r)
                BY <2>2, Zenon DEF SetsOf
            <4>2. HasRun(r)' = HasRun(r) \cup {t} /\ ToRun(r)' = ToRun(r) \ {t}
                BY <1>4, Zenon
            <4>3. checkpoint_functions'[u] = checkpoint_functions[u] /\ collected'[u] = collected[u]
                BY Zenon
            <4>. QED
                BY <2>1, <4>1, <4>2, <4>3, Zenon
        <3>. QED
            BY <1>1, <1>4, <1>5, <2>2, <3>1, Zenon DEF SetsOf
<1>7. NumbersOf(r)'
    <2>1. count'[r] = Cardinality(Counted(r)')
        BY <1>5, Zenon DEF NumbersOf
    <2>. QED
        BY <1>1, <1>2, <1>4, <2>1, PassNumbers, Zenon
<1>. QED
    BY <1>6, <1>7, Zenon

LEMMA RunOnSuspendedAccount ==
    ASSUME CheckpointConstants, Shape, NEW r \in Requester, Account(r), RunOnSuspended(r)
    PROVE  Account(r)'
<1> USE DEF CheckpointConstants, Account, Shape
<1>1. PICK t \in modified[r] : RunOn(r, t, "lower")
    BY Zenon DEF RunOnSuspended
<1>0. cp_pc[r] = "others" /\ subject'[r] = t /\ modified' = modified
    BY <1>1, Zenon DEF RunOnSuspended, RunOn
<1>2. /\ cp_pc[r] = "others" /\ subject'[r] = t /\ t \in Thread /\ t # r /\ r \notin Sampler
      /\ ~Dumping(r) /\ Requesting(r) /\ todo[r] = {} /\ modified' = modified
    <2>1. StageOf(r) /\ t \in Thread
        BY <1>1, Zenon
    <2>. QED
        BY <1>0, <1>1, <2>1, Zenon DEF StageOf, Requesting, Dumping
<1>3. Asked(r)' = Asked(r)
    BY <1>1, <1>2 DEF RunOnSuspended, RunOn, Asked
<1>4. CASE r \in Dumper
    <2>1. cp_pc'[r] = "dumpEnter" /\ Dumping(r)' /\ Requesting(r)' /\ UNCHANGED barrierVars
        BY <1>1, <1>4, Zenon DEF RunOn, Dumping, Requesting
    <2>2. ToRun(r)' = ToRun(r) /\ HasRun(r)' = HasRun(r)
        BY <1>2, <2>1, Zenon DEF ToRun, HasRun
    <2>3. Counted(r)' = Counted(r)
        BY <1>3, <2>2, Zenon DEF Counted
    <2>4. StageOf(r)'
        BY <1>1, <1>2, <2>1, Zenon DEF RunOnSuspended, StageOf
    <2>5. SetsOf(r)'
        BY <1>2, <1>3, <2>1, <2>2, <2>3, Zenon DEF RunOnSuspended, SetsOf
    <2>6. NumbersOf(r)'
        BY <1>2, <2>1, <2>2, <2>3, Zenon DEF RunOnSuspended, NumbersOf
    <2>. QED
        BY <2>4, <2>5, <2>6, Zenon DEF Account
<1>5. CASE r \notin Dumper
    <2>1. cp_pc'[r] = "lower" /\ ~Dumping(r)' /\ Pass(r, t)
        BY <1>1, <1>5, Zenon DEF RunOn, Dumping
    <2>2. t \in ToRun(r) /\ ToRun(r)' = ToRun(r) \ {t}
        BY <1>1, <1>2, <2>1, Zenon DEF ToRun
    <2>3. StageOf(r)'
        BY <1>1, <1>2, <2>1, Zenon DEF RunOnSuspended, StageOf
    <2>4. SetsOf(r)' /\ NumbersOf(r)'
        BY <1>2, <1>3, <2>1, <2>2, RunAccount, Zenon DEF RunOnSuspended
    <2>. QED
        BY <2>3, <2>4, Zenon DEF Account
<1>. QED
    BY <1>4, <1>5, Zenon

LEMMA DumpPassAccount ==
    ASSUME CheckpointConstants, Shape, NEW r \in Requester, Account(r), DumpPass(r)
    PROVE  Account(r)'
<1> USE DEF CheckpointConstants, Account, Shape
<1> DEFINE t == subject[r]
<1>1. /\ cp_pc[r] = "pass" /\ Dumping(r) /\ ~Dumping(r)' /\ t \in Thread
      /\ t = r \/ t \in modified[r]
      /\ cp_pc'[r] = IF t = r THEN "others" ELSE "lower"
      /\ subject'[r] = t /\ modified' = modified /\ r \notin modified[r] /\ todo[r] = {}
    BY ZenonT(40) DEF DumpPass, StageOf, Dumping
<1>2. Asked(r)' = Asked(r)
    BY <1>1, Zenon DEF DumpPass, Asked
<1>3. t \in ToRun(r) /\ ToRun(r)' = ToRun(r) \ {t}
    <2> HIDE DEF Shape, CheckpointConstants, Account
    <2>1. CASE t = r
        BY <1>1, <2>1, Zenon DEF ToRun
    <2>2. CASE t # r
        BY <1>1, <2>2, Zenon DEF ToRun
    <2>. QED
        BY <2>1, <2>2, Zenon
<1>4. StageOf(r)'
    BY <1>1, Zenon DEF DumpPass, StageOf
<1>5. SetsOf(r)' /\ NumbersOf(r)'
    BY <1>1, <1>2, <1>3, RunAccount, Zenon DEF DumpPass
<1>. QED
    BY <1>4, <1>5, Zenon DEF Account

LEMMA LowerAccount ==
    ASSUME CheckpointConstants, Shape, NEW r \in Requester, Account(r),
           Lower(r) \/ AllRun(r) \/ BroadcastResume(r)
    PROVE  Account(r)'
<1> USE DEF CheckpointConstants, Account, Shape
<1>1. /\ cp_pc[r] \in {"lower", "others", "broadcast"} /\ cp_pc'[r] \in {"others", "broadcast", "increment"}
      /\ ~Dumping(r) /\ ~Dumping(r)' /\ Requesting(r) /\ Requesting(r)' /\ todo[r] = {}
      /\ r \notin Sampler
    BY ZenonT(40) DEF Lower, AllRun, BroadcastResume, StageOf, Dumping, Requesting
<1>2. ToRun(r)' = ToRun(r)
    <2>1. CASE Lower(r)
        BY <1>1, <2>1, Zenon DEF Lower, ToRun
    <2>2. CASE AllRun(r) \/ BroadcastResume(r)
        BY <1>1, <2>2, Zenon DEF AllRun, BroadcastResume, ToRun
    <2>. QED
        BY <2>1, <2>2, Zenon
<1>3. Asked(r)' = Asked(r) /\ HasRun(r)' = HasRun(r)
    BY <1>1 DEF Lower, AllRun, BroadcastResume, Asked, HasRun
<1>4. Counted(r)' = Counted(r)
    BY <1>2, <1>3, Zenon DEF Counted
<1>5. StageOf(r)'
    BY <1>1 DEF Lower, AllRun, BroadcastResume, StageOf
<1>6. SetsOf(r)'
    BY <1>1, <1>2, <1>3, <1>4, Zenon DEF Lower, AllRun, BroadcastResume, SetsOf
<1>7. NumbersOf(r)'
    BY <1>1, <1>3, <1>4, Zenon DEF Lower, AllRun, BroadcastResume, NumbersOf
<1>. QED
    BY <1>5, <1>6, <1>7, Zenon DEF Account

LEMMA BarrierAccount ==
    ASSUME CheckpointConstants, Shape, NEW r \in Requester, Account(r),
           Increment(r) \/ BarrierReturns(r)
    PROVE  Account(r)'
<1> USE DEF CheckpointConstants, Account, Shape
<1>1. /\ cp_pc[r] \in {"increment", "await"} /\ cp_pc'[r] \in {"await", "native"}
      /\ cp_pc'[r] = "await" <=> cp_pc[r] = "increment"
      /\ ~Dumping(r) /\ ~Dumping(r)' /\ Requesting(r) /\ (Requesting(r)' <=> cp_pc'[r] = "await")
      /\ todo[r] = {} /\ modified[r] = {}
    BY ZenonT(40) DEF Increment, BarrierReturns, StageOf, Dumping, Requesting
<1>2. Asked(r)' = Asked(r) /\ ToRun(r)' = ToRun(r) /\ HasRun(r)' = HasRun(r)
    BY <1>1 DEF Increment, BarrierReturns, Asked, ToRun, HasRun
<1>3. Counted(r)' = Counted(r)
    BY <1>2, Zenon DEF Counted
<1>4. cp_pc[r] = "await" => Asked(r) = {}
    BY AtBarrier, Zenon DEF Increment, BarrierReturns, NumbersOf
<1>5. StageOf(r)'
    BY <1>1, Zenon DEF Increment, BarrierReturns, StageOf
<1>6. SetsOf(r)'
    BY <1>1, <1>2, <1>3, <1>4, Zenon DEF Increment, BarrierReturns, SetsOf
<1>7. NumbersOf(r)'
    <2>1. CASE Increment(r)
        <3>1. barrier'[r] = barrier[r] + count[r] /\ count' = count
              /\ (barrier'[r] # 0 => r \in barrier_waiters')
            BY <2>1, Zenon DEF Increment
        <3>2. cp_pc[r] = "increment" /\ cp_pc'[r] = "await"
            BY <2>1, Zenon DEF Increment
        <3>3. Cardinality(HasRun(r)) \in Nat
            BY SetsCounted, Zenon DEF HasRun
        <3>4. barrier[r] = 0 - Cardinality(HasRun(r)) /\ count[r] = Cardinality(Counted(r))
            BY <1>1, <3>2, Zenon DEF NumbersOf
        <3>. QED
            BY <1>2, <1>3, <3>1, <3>2, <3>3, <3>4 DEF NumbersOf
    <2>2. CASE BarrierReturns(r)
        BY <1>1, <1>2, <1>3, <2>2, Zenon DEF BarrierReturns, NumbersOf
    <2>. QED
        BY <2>1, <2>2, ZenonT(40)
<1>. QED
    BY <1>5, <1>6, <1>7, Zenon DEF Account

\* A thread runs a closure it has collected.
LEMMA RunCollectedAccount ==
    ASSUME CheckpointConstants, Shape, NEW r \in Requester, Account(r), NEW t \in Thread,
           RunCollected(t), r \in collected[t], Pass(r, t),
           collected' = [collected EXCEPT ![t] = @ \ {r}], UNCHANGED cp_pc
    PROVE  Account(r)'
<1> USE DEF CheckpointConstants, Account, Shape
<1>1. /\ r \in Requester /\ UNCHANGED <<checkpoint_functions, todo, subject, modified, rounds, count,
                                         back, count_lock, cp_pc>>
      /\ Dumping(r)' <=> Dumping(r)
      /\ Requesting(r)' <=> Requesting(r)
    BY Zenon DEF RunCollected, Dumping, Requesting
<1>2. t \in Asked(r) /\ t \notin ToRun(r) \cup HasRun(r) /\ Requesting(r)
    BY <1>1, Zenon DEF Asked, StageOf, SetsOf
<1>4. Asked(r)' = Asked(r) \ {t} /\ ToRun(r)' = ToRun(r)
    BY <1>1, <1>2 DEF Asked, ToRun, SetsOf
<1>5. HasRun(r)' = HasRun(r) \cup {t} /\ \A u \in Thread : ran'[r][u] \in {0, 1}
    BY <1>2, PassRuns, ZenonT(40)
<1>6. Counted(r)' = Counted(r)
    BY <1>2, <1>4, <1>5 DEF Counted
<1>7. StageOf(r)'
    BY <1>1, Zenon DEF StageOf
<1>8. SetsOf(r)'
    <2>1. r \notin checkpoint_functions[t] /\ SetsOf(r)
        BY <1>1, Zenon DEF SetsOf
    <2>2. \A u \in Thread : r \in collected'[u] <=> r \in collected[u] /\ u # t
        BY Zenon
    <2>4. UNCHANGED <<checkpoint_functions, todo, modified, rounds, cp_pc, subject>>
        BY <1>1, Zenon
    <2>5. r \in Requester /\ (Requesting(r)' <=> Requesting(r)) /\ Requesting(r)
        BY <1>1, <1>2, Zenon
    <2> HIDE DEF Shape, CheckpointConstants, Account
    <2>6. ASSUME NEW u \in Thread
          PROVE  /\ ~(r \in checkpoint_functions'[u] /\ r \in collected'[u])
                 /\ r \in checkpoint_functions'[u] \cup collected'[u] => u \notin ToRun(r)' \cup HasRun(r)'
                 /\ u \notin ToRun(r)' \cap HasRun(r)'
                 /\ u \in todo'[r] => u \notin Counted(r)' /\ u \notin modified'[r]
                 /\ \/ r \in Sampler \/ rounds'[r] = 0
                    \/ u \in Counted(r)' \cup todo'[r]
                    \/ u = r /\ cp_pc'[r] \in VisitPcs \cup {"runSelf"}
        <3>1. /\ ~(r \in checkpoint_functions[u] /\ r \in collected[u])
              /\ r \in checkpoint_functions[u] \cup collected[u] => u \notin ToRun(r) \cup HasRun(r)
              /\ u \notin ToRun(r) \cap HasRun(r)
              /\ u \in todo[r] => u \notin Counted(r) /\ u \notin modified[r]
              /\ \/ r \in Sampler \/ rounds[r] = 0
                 \/ u \in Counted(r) \cup todo[r]
                 \/ u = r /\ cp_pc[r] \in VisitPcs \cup {"runSelf"}
            BY <2>1, Zenon DEF SetsOf
        <3>2. r \in collected'[u] <=> r \in collected[u] /\ u # t
            BY <2>2, Zenon
        <3>. QED
            BY <1>2, <1>4, <1>5, <1>6, <2>1, <2>4, <3>1, <3>2, Zenon
    <2>. QED
        BY <1>5, <1>6, <2>1, <2>4, <2>5, <2>6, Zenon DEF SetsOf
<1>9. NumbersOf(r)'
    <2>1. CASE cp_pc[r] # "await"
        <3>1. count'[r] = Cardinality(Counted(r)')
            BY <1>1, <1>6, Zenon DEF NumbersOf
        <3>. QED
            BY <1>1, <1>2, <1>5, <2>1, <3>1, PassNumbers, Zenon
    <2>2. CASE cp_pc[r] = "await"
        <3>1. barrier[r] > 0
            <4>1. barrier[r] >= 0 /\ barrier[r] # 0
                BY <1>2, <2>2, AtBarrier, Zenon
            <4> HIDE DEF Account, CheckpointConstants
            <4>. QED
                BY <4>1
        <3>2. barrier'[r] = barrier[r] - 1 /\ (r \notin barrier_waiters' => barrier[r] = 1)
            BY <1>1, <2>2, <3>1 DEF Pass, NumbersOf
        <3>3. Cardinality(HasRun(r)') = Cardinality(HasRun(r)) + 1 /\ Cardinality(HasRun(r)) \in Nat
            <4>1. HasRun(r) \in SUBSET Thread
                BY Zenon DEF HasRun
            <4>. QED
                BY <1>2, <1>5, <4>1, SetsCounted, Zenon
        <3>4. /\ barrier[r] = count[r] - Cardinality(HasRun(r)) /\ count[r] \in Int
              /\ count[r] = Cardinality(Counted(r)) /\ count'[r] = count[r] /\ cp_pc'[r] = "await"
            BY <1>1, <2>2, Zenon DEF NumbersOf
        <3>5. barrier'[r] = count'[r] - Cardinality(HasRun(r)')
            <4> HIDE DEF Shape, CheckpointConstants, Account
            <4>1. Cardinality(HasRun(r)) \in Int
                BY <3>3
            <4>. QED
                <5>1. (count[r] - Cardinality(HasRun(r))) - 1 = count[r] - (Cardinality(HasRun(r)) + 1)
                    BY <3>4, <4>1, CountDown, Zenon
                <5>. QED
                    BY <3>2, <3>3, <3>4, <5>1, Zenon
        <3>6. r \notin barrier_waiters' => barrier'[r] = 0
            <4> HIDE DEF Shape, CheckpointConstants, Account
            <4>. QED
                BY <3>2
        <3>. QED
            BY <1>6, <3>4, <3>5, <3>6, Zenon DEF NumbersOf
    <2>. QED
        BY <2>1, <2>2, Zenon
<1>. QED
    BY <1>7, <1>8, <1>9, Zenon DEF Account

----------------------------------------------------------------------------
(* Every variable keeps its type. *)

LEMMA NextShape == ASSUME CheckpointConstants, IInv, [CheckpointNext]_checkpointVars PROVE Shape'
<1> Shape
    BY Zenon DEF IInv
<1> USE DEF CheckpointConstants, Shape
<1>s. \A r \in Requester : StageOf(r)
    BY Zenon DEF IInv, Account
<1>1. CASE UNCHANGED checkpointVars
    BY <1>1, Zenon DEF checkpointVars
<1>2. ASSUME NEW t \in Thread, CallToRunnable(t) PROVE Shape'
    BY <1>2, Zenon DEF CallToRunnable
<1>3. ASSUME NEW t \in Thread, WaitWhileSuspended(t) PROVE Shape'
    BY <1>3, Zenon DEF WaitWhileSuspended
<1>4. ASSUME NEW t \in Thread, BecomeRunnable(t) PROVE Shape'
    BY <1>4, Zenon DEF BecomeRunnable
<1>5. ASSUME NEW t \in Thread, CallToSuspended(t) PROVE Shape'
    BY <1>5, Zenon DEF CallToSuspended, ToSuspended
<1>6. ASSUME NEW t \in Thread, FullSuspendCheck(t) PROVE Shape'
    BY <1>6, Zenon DEF FullSuspendCheck, ToSuspended
<1>7. ASSUME NEW t \in Thread, CollectCheckpoints(t) PROVE Shape'
    BY <1>7, Zenon DEF CollectCheckpoints
<1>8. ASSUME NEW t \in Thread, RunCollected(t) PROVE Shape'
    <2>1. CASE UNCHANGED <<collected, barrierVars>>
        <3>1. cp_pc' \in [Thread -> Pcs]
            BY <1>8, ZenonT(40) DEF RunCollected
        <3>. QED
            BY <1>8, <2>1, <3>1, Zenon DEF RunCollected
    <2>2. ASSUME NEW r \in collected[t], Pass(r, t), UNCHANGED cp_pc,
                 collected' = [collected EXCEPT ![t] = @ \ {r}]
          PROVE  Shape'
        BY <1>8, <2>2, PassShape, Zenon DEF RunCollected
    <2>. QED
        BY <1>8, <2>1, <2>2, Zenon DEF RunCollected
<1>9. ASSUME NEW r \in Requester, CallRunCheckpoint(r) PROVE Shape'
    BY <1>9 DEF CallRunCheckpoint
<1>10. ASSUME NEW r \in Requester, NEW t \in Thread, RequestCheckpoint(r, t) PROVE Shape'
    <2>1. checkpoint_functions[t] \cup {r} \in SUBSET Requester
        BY Zenon
    <2>2. checkpoint_functions' \in [Thread -> SUBSET Requester]
        BY <1>10, <2>1, Update DEF RequestCheckpoint
    <2>. QED
        BY <1>10, <2>2, ZenonT(40) DEF RequestCheckpoint
<1>11. ASSUME NEW r \in Requester, InstallFlag(r) PROVE Shape'
    <2>1. checkpoint_functions' \in [Thread -> SUBSET Requester]
        BY <1>11 DEF InstallFlag
    <2>2. checkpoint_request' \in [Thread -> BOOLEAN]
        BY <1>11, Zenon DEF InstallFlag
    <2>3. todo[r] \ {subject[r]} \in SUBSET Thread /\ count[r] + 1 \in Int
        OBVIOUS
    <2>4. todo' \in [Requester -> SUBSET Thread] /\ count' \in [Requester -> Int]
        BY <1>11, <2>3, Update DEF InstallFlag
    <2>5. cp_pc' \in [Thread -> Pcs]
        <3>1. {"visit", "failed"} \subseteq Pcs
            BY Zenon
        <3>2. CpGoto(r, "visit") \/ CpGoto(r, "failed")
            BY <1>11, Zenon DEF InstallFlag
        <3>3. cp_pc \in [Thread -> Pcs]
            BY Zenon
        <3>. HIDE DEF Pcs, Shape, CheckpointConstants
        <3>. QED
            BY <3>1, <3>2, <3>3, Update, Zenon
    <2>. QED
        BY <1>11, <2>1, <2>2, <2>4, <2>5, Zenon DEF InstallFlag
<1>12. ASSUME NEW r \in Requester, RequestFailed(r) PROVE Shape'
    <2>1. todo[r] \ {subject[r]} \in SUBSET Thread
        BY Zenon
    <2>2. todo' \in [Requester -> SUBSET Thread]
        BY <1>12, <2>1, Update DEF RequestFailed
    <2>. QED
        BY <1>12, <2>2, Zenon DEF RequestFailed
<1>13. ASSUME NEW r \in Requester, KeepSuspended(r) PROVE Shape'
    <2>1. subject[r] \in Thread
        BY <1>s, <1>13, Zenon DEF KeepSuspended, StageOf
    <2>2. suspend_count[subject[r]] + 1 \in Int /\ count[r] + 1 \in Int
        BY <2>1
    <2>3. modified[r] \cup {subject[r]} \in SUBSET Thread /\ todo[r] \ {subject[r]} \in SUBSET Thread
        BY <2>1, Zenon
    <2>4. suspend_count' \in [Thread -> Int] /\ count' \in [Requester -> Int]
        BY <1>13, <2>2, Update, Zenon DEF KeepSuspended
    <2>5. modified' \in [Requester -> SUBSET Thread] /\ todo' \in [Requester -> SUBSET Thread]
        BY <1>13, <2>3, Update, Zenon DEF KeepSuspended
    <2>. QED
        BY <1>13, <2>4, <2>5, Zenon DEF KeepSuspended
<1>14. ASSUME NEW r \in Requester, AllVisited(r) PROVE Shape'
    BY <1>14, Zenon DEF AllVisited
<1>15. ASSUME NEW r \in Requester, RunOnSelf(r) PROVE Shape'
    <2>1. /\ ran' \in [Requester -> [Thread -> Nat]] /\ barrier' \in [Requester -> Int]
          /\ barrier_waiters' \subseteq Requester
        BY <1>15, PassShape, Zenon DEF RunOnSelf, RunOn
    <2>2. count' \in [Requester -> Int]
        BY <1>15 DEF RunOnSelf
    <2>3. subject' \in [Requester -> Thread \cup {NoThread}] /\ cp_pc' \in [Thread -> Pcs]
        BY <1>15, Zenon DEF RunOnSelf, RunOn
    <2>. QED
        BY <1>15, <2>1, <2>2, <2>3, Zenon DEF RunOnSelf
<1>16. ASSUME NEW r \in Requester, RunOnSuspended(r) PROVE Shape'
    <2>1. PICK t \in modified[r] : RunOn(r, t, "lower")
        BY <1>16, Zenon DEF RunOnSuspended
    <2>2. /\ ran' \in [Requester -> [Thread -> Nat]] /\ barrier' \in [Requester -> Int]
          /\ barrier_waiters' \subseteq Requester
        BY <2>1, PassShape, Zenon DEF RunOn
    <2>3. subject' \in [Requester -> Thread \cup {NoThread}] /\ cp_pc' \in [Thread -> Pcs]
        BY <1>16, <2>1, ZenonT(40) DEF RunOnSuspended, RunOn
    <2>. QED
        BY <1>16, <2>2, <2>3, Zenon DEF RunOnSuspended
<1>17. ASSUME NEW r \in Requester, Dump(r) PROVE Shape'
    BY <1>17, Zenon DEF Dump
<1>18. ASSUME NEW r \in Requester, DumpExit(r) PROVE Shape'
    BY <1>18, Zenon DEF DumpExit, ToSuspended
<1>19. ASSUME NEW r \in Requester, DumpPass(r) PROVE Shape'
    <2>1. subject[r] \in Thread
        BY <1>s, <1>19 DEF DumpPass, StageOf, Dumping
    <2>2. /\ ran' \in [Requester -> [Thread -> Nat]] /\ barrier' \in [Requester -> Int]
          /\ barrier_waiters' \subseteq Requester
        BY <1>19, <2>1, PassShape, Zenon DEF DumpPass
    <2>. QED
        BY <1>19, <2>2, Zenon DEF DumpPass
<1>20. ASSUME NEW r \in Requester, Lower(r) PROVE Shape'
    <2>1. suspend_count[subject[r]] - 1 \in Int /\ modified[r] \ {subject[r]} \in SUBSET Thread
        BY <1>s, <1>20 DEF Lower, StageOf
    <2>2. suspend_count' \in [Thread -> Int] /\ modified' \in [Requester -> SUBSET Thread]
        BY <1>20, <2>1, Update, Zenon DEF Lower
    <2>. QED
        BY <1>20, <2>2, Zenon DEF Lower
<1>21. ASSUME NEW r \in Requester, AllRun(r) PROVE Shape'
    BY <1>21, Zenon DEF AllRun
<1>22. ASSUME NEW r \in Requester, BroadcastResume(r) PROVE Shape'
    BY <1>22, Zenon DEF BroadcastResume
<1>23. ASSUME NEW r \in Requester, Increment(r) PROVE Shape'
    BY <1>23 DEF Increment
<1>24. ASSUME NEW r \in Requester, BarrierReturns(r) PROVE Shape'
    BY <1>24, Zenon DEF BarrierReturns
<1>. QED
    BY <1>1, <1>2, <1>3, <1>4, <1>5, <1>6, <1>7, <1>8, <1>9, <1>10, <1>11, <1>12, <1>13, <1>14,
       <1>15, <1>16, <1>17, <1>18, <1>19, <1>20, <1>21, <1>22, <1>23, <1>24, ZenonT(40)
    DEF CheckpointNext, Voluntary, Enter, SuspendPoint, Visit, RunClosures
LEMMA NextEmptied ==
    ASSUME CheckpointConstants, IInv, [CheckpointNext]_checkpointVars, NEW t \in Thread, cp_pc'[t] # "running"
    PROVE  collected'[t] = {}
<1> Shape /\ (cp_pc[t] # "running" => collected[t] = {})
    BY Zenon DEF IInv
<1> USE DEF Shape
<1>1. CASE UNCHANGED checkpointVars
    BY <1>1, Zenon DEF checkpointVars
<1>2. ASSUME NEW u \in Thread, Voluntary(u) \/ Enter(u) \/ SuspendPoint(u) PROVE collected'[t] = {}
    BY <1>2, ZenonT(40)
    DEF Voluntary, CallToRunnable, CallToSuspended, ToSuspended, Enter, WaitWhileSuspended,
        BecomeRunnable, SuspendPoint, FullSuspendCheck, CollectCheckpoints, RunCollected
<1>3. ASSUME NEW r \in Requester, CallRunCheckpoint(r) \/ Visit(r) PROVE collected'[t] = {}
    BY <1>3
    DEF CheckpointConstants, CallRunCheckpoint, Visit, RequestCheckpoint, InstallFlag, RequestFailed,
        KeepSuspended, AllVisited
<1>4. ASSUME NEW r \in Requester, RunClosures(r) PROVE collected'[t] = {}
    BY <1>4
    DEF CheckpointConstants, RunClosures, RunOnSelf, RunOnSuspended, RunOn, Dump, DumpExit,
        ToSuspended, DumpPass, Lower, AllRun, BroadcastResume, Increment, BarrierReturns
<1>. QED
    BY <1>1, <1>2, <1>3, <1>4, Zenon DEF CheckpointNext

LEMMA InitIInv == ASSUME CheckpointConstants PROVE CheckpointInit => IInv
<1> SUFFICES ASSUME CheckpointInit PROVE IInv
    BY Zenon
<1>1. checkpoint_request \in [Thread -> BOOLEAN]
    BY Zenon DEF CheckpointInit
<1>2. Shape /\ \A t \in Thread : collected[t] = {}
    BY <1>1 DEF CheckpointInit, Shape
<1>3. ASSUME NEW r \in Requester PROVE Account(r)
    <2>1. ~Dumping(r) /\ ~Requesting(r) /\ cp_pc[r] \in {"native", "runnable"}
        BY Zenon DEF CheckpointInit, CheckpointConstants, Dumping, Requesting
    <2>2. Asked(r) = {} /\ ToRun(r) = {} /\ HasRun(r) = {}
        BY <2>1 DEF CheckpointInit, Asked, ToRun, HasRun
    <2>3. Counted(r) = {}
        BY <2>2, Zenon DEF Counted
    <2>4. StageOf(r)
        BY <2>1, Zenon DEF CheckpointInit, CheckpointConstants, StageOf
    <2>5. SetsOf(r)
        BY <2>1, <2>2, <2>3, Zenon DEF CheckpointInit, SetsOf
    <2>6. NumbersOf(r)
        BY <2>1, <2>2, <2>3, FS_EmptySet DEF CheckpointInit, NumbersOf
    <2>. QED
        BY <2>4, <2>5, <2>6, Zenon DEF Account
<1>. QED
    BY <1>2, <1>3, Zenon DEF IInv

LEMMA NextIInv == ASSUME CheckpointConstants, IInv, [CheckpointNext]_checkpointVars PROVE IInv'
<1>0. Shape /\ \A q \in Requester : Account(q)
    BY Zenon DEF IInv
<1>1. ASSUME NEW q \in Requester PROVE Account(q)'
    <2>1. CASE Untouched(q)
        BY <2>1, UntouchedKeeps, Zenon
    <2>2. CASE UNCHANGED checkpointVars
        <3>1. Untouched(q)
            BY <1>0, <2>2, Zenon DEF Account, SetsOf, Untouched, checkpointVars
        <3>. QED
            BY <2>1, <3>1, Zenon
    <2>3. ASSUME NEW t \in Thread, Voluntary(t) \/ Enter(t) \/ SuspendPoint(t) PROVE Account(q)'
        <3>1. CASE ~RunCollected(t) \/ q \notin collected[t] \/ ran'[q] = ran[q]
            BY <2>1, <2>3, <3>1, AskedStep, Zenon DEF SuspendPoint
        <3>2. CASE RunCollected(t) /\ q \in collected[t] /\ ran'[q] # ran[q]
            <4>1. PICK r \in collected[t] : /\ Pass(r, t)
                                            /\ collected' = [collected EXCEPT ![t] = @ \ {r}]
                                            /\ UNCHANGED cp_pc
                BY <3>2, Zenon DEF RunCollected, barrierVars
            <4>2. r = q
                BY <1>0, <3>2, <4>1, Zenon DEF Pass, Shape
            <4>. QED
                BY <1>0, <3>2, <4>1, <4>2, RunCollectedAccount, Zenon
        <3>. QED
            BY <3>1, <3>2, Zenon
    <2>4. ASSUME NEW r \in Requester, r # q, CallRunCheckpoint(r) \/ Visit(r) \/ RunClosures(r)
          PROVE  Account(q)'
        BY <2>1, <2>4, OthersUntouched, Zenon
    <2>5. CASE CallRunCheckpoint(q) \/ Visit(q)
        BY <1>0, <2>5, CallRunCheckpointAccount, RequestCheckpointAccount, InstallFlagAccount, VisitAccount, ZenonT(40)
        DEF Visit
    <2>6. CASE Dump(q) \/ DumpExit(q)
        <3>1. Untouched(q)
            BY <1>0, <2>6
            DEF CheckpointConstants, Account, Shape, SetsOf, Untouched, Dumping, Dump, DumpExit,
                ToSuspended
        <3>. QED
            BY <2>1, <3>1, Zenon
    <2>7. CASE RunClosures(q) /\ ~Dump(q) /\ ~DumpExit(q)
        BY <1>0, <2>7, RunOnSelfAccount, RunOnSuspendedAccount, DumpPassAccount, LowerAccount,
           BarrierAccount, Zenon
        DEF RunClosures
    <2>. QED
        BY <2>2, <2>3, <2>4, <2>5, <2>6, <2>7, Zenon DEF CheckpointNext
<1>2. \A t \in Thread : cp_pc'[t] # "running" => collected'[t] = {}
    BY NextEmptied, Zenon
<1>3. Shape'
    BY NextShape, Zenon
<1>. QED
    BY <1>1, <1>2, <1>3, Zenon DEF IInv, Account

LEMMA SpecIInv == ASSUME CheckpointConstants PROVE CheckpointSpec => []IInv
<1>1. CheckpointInit => IInv
    BY InitIInv, Zenon
<1>2. IInv /\ [CheckpointNext]_checkpointVars => IInv'
    BY NextIInv, Zenon
<1>. QED
    BY <1>1, <1>2, PTL DEF CheckpointSpec

LEMMA SmallNumbers == (\A n \in {0, 1} : n <= 1) /\ \A n : n > 0 => n # 0
OBVIOUS

\* When the caller of RunCheckpoint goes on, every thread that was counted has run the
\* closure exactly once, for RunCheckpoint every thread of the list, and no thread still
\* has it: the closure and its barrier may be destroyed.
THEOREM EveryoneRanOnce == CheckpointSpec => []EveryThreadRanOnce
<1> USE CheckpointAssumption
<1>1. IInv => EveryThreadRanOnce
    <2> SUFFICES ASSUME IInv, NEW r \in Requester, ~Requesting(r), rounds[r] > 0
                 PROVE  /\ \A t \in Thread : /\ r \notin checkpoint_functions[t] \cup collected[t]
                                             /\ ran[r][t] <= 1
                        /\ r \notin Sampler => \A t \in Thread : ran[r][t] = 1
        BY Zenon DEF EveryThreadRanOnce
    <2>1. cp_pc[r] \notin VisitPcs \cup {"runSelf", "others", "lower"} /\ ~Dumping(r)
        BY Zenon DEF Requesting, Dumping
    <2>2. Asked(r) = {} /\ ToRun(r) = {} /\ todo[r] = {}
        BY <2>1, Zenon DEF IInv, Account, StageOf, SetsOf, ToRun
    <2>3. \A t \in Thread : r \notin checkpoint_functions[t] \cup collected[t]
        BY <2>1, <2>2, Zenon DEF Asked
    <2>4. \A t \in Thread : ran[r][t] \in {0, 1}
        BY Zenon DEF IInv, Account, SetsOf
    <2>5. r \notin Sampler => \A t \in Thread : t \in Counted(r)
        <3>1. SetsOf(r)
            BY Zenon DEF IInv, Account
        <3>2. rounds[r] # 0
            BY SmallNumbers, Zenon
        <3>. QED
            BY <2>1, <2>2, <3>1, <3>2, Zenon DEF SetsOf
    <2>6. \A t \in Thread : ran[r][t] <= 1
        BY <2>4, SmallNumbers, Zenon
    <2>7. r \notin Sampler => \A t \in Thread : ran[r][t] = 1
        BY <2>2, <2>5, Zenon DEF Counted, HasRun
    <2>. QED
        BY <2>3, <2>6, <2>7, Zenon
<1>. QED
    BY <1>1, SpecIInv, PTL

\* A requester that visits a thread always finds one of the thread's checkpoint slots
\* free, whatever it asked of the thread before: its own closure is in none of them.
\* RequestCheckpoint therefore never fails for want of a slot.
THEOREM SlotIsAvailable == CheckpointSpec => []SlotAvailable
<1> USE CheckpointAssumption
<1>1. IInv => SlotAvailable
    <2> SUFFICES ASSUME IInv, NEW r \in Requester, NEW t \in todo[r], cp_pc[r] \in {"visit", "retry"}
                 PROVE  Cardinality(checkpoint_functions[t]) < kMaxCheckpoints
        BY Zenon DEF SlotAvailable
    <2>1. t \in Thread /\ r \notin checkpoint_functions[t]
        BY DEF IInv, Account, Shape, SetsOf, Counted, Asked
    <2>2. checkpoint_functions[t] \subseteq Requester \ {r}
        BY <2>1, Zenon DEF IInv, Account, Shape
    <2>3. Requester \in SUBSET Thread /\ Requester \ {r} \in SUBSET Thread
        BY Zenon DEF CheckpointConstants
    <2>4. Cardinality(Requester \ {r}) = Cardinality(Requester) - 1 /\ Cardinality(Requester) \in Nat
        BY <2>3, SetsCounted, Zenon
    <2>5. /\ Cardinality(checkpoint_functions[t]) <= Cardinality(Requester \ {r})
          /\ Cardinality(checkpoint_functions[t]) \in Nat
        BY <2>2, <2>3, SetsCounted, Zenon
    <2>. QED
        BY <2>4, <2>5 DEF CheckpointConstants
<1>. QED
    BY <1>1, SpecIInv, PTL
-----------------------------------------------------------------------------
(* The threads a requester keeps suspended. *)

\* Only a thread without a suspend request becomes runnable.
LEMMA BecomesRunnable ==
    ASSUME CheckpointConstants, IInv, [CheckpointNext]_checkpointVars, NEW u \in Thread,
           ~IsRunnable(u), IsRunnable(u)'
    PROVE  suspend_count[u] = 0
<1> Shape
    BY Zenon DEF IInv
<1> USE DEF CheckpointConstants, Shape
<1>1. CASE UNCHANGED checkpointVars
    BY <1>1, Zenon DEF checkpointVars
<1>2. ASSUME NEW t \in Thread, Voluntary(t) \/ Enter(t) \/ SuspendPoint(t)
      PROVE  suspend_count[u] = 0
    BY <1>2, ZenonT(40)
    DEF Voluntary, CallToRunnable, CallToSuspended, ToSuspended, Enter, WaitWhileSuspended,
        BecomeRunnable, SuspendPoint, FullSuspendCheck, CollectCheckpoints, RunCollected
<1>3. ASSUME NEW r \in Requester, CallRunCheckpoint(r) \/ Visit(r) PROVE FALSE
    BY <1>3
    DEF CallRunCheckpoint, Visit, RequestCheckpoint, InstallFlag, RequestFailed, KeepSuspended,
        AllVisited
<1>4. ASSUME NEW r \in Requester, RunClosures(r) PROVE FALSE
    BY <1>4
    DEF RunClosures, RunOnSelf, RunOnSuspended, RunOn, Dump, DumpExit, ToSuspended, DumpPass, Lower,
        AllRun, BroadcastResume, Increment, BarrierReturns
<1>. QED
    BY <1>1, <1>2, <1>3, <1>4, Zenon DEF CheckpointNext

\* Only KeepSuspended and Lower change the suspend counts.
LEMMA CountsChange ==
    ASSUME [CheckpointNext]_checkpointVars, \A r \in Requester : ~KeepSuspended(r) /\ ~Lower(r)
    PROVE  UNCHANGED <<suspend_count, modified>>
BY ZenonT(40) DEF CheckpointNext, checkpointVars, Voluntary, CallToRunnable, CallToSuspended, ToSuspended, Enter,
       WaitWhileSuspended, BecomeRunnable, SuspendPoint, FullSuspendCheck, CollectCheckpoints,
       RunCollected, CallRunCheckpoint, Visit, RequestCheckpoint, InstallFlag, RequestFailed,
       AllVisited, RunClosures, RunOnSelf, RunOnSuspended, Dump, DumpExit, DumpPass, AllRun,
       BroadcastResume, Increment, BarrierReturns

\* A requester comes to run its closure for another thread only when that is suspended.
LEMMA NewSubject ==
    ASSUME CheckpointConstants, IInv, [CheckpointNext]_checkpointVars, NEW r \in Requester,
           cp_pc'[r] = "lower" \/ Dumping(r)', subject'[r] # r
    PROVE  \/ (cp_pc[r] = "lower" \/ Dumping(r)) /\ subject'[r] = subject[r]
           \/ subject'[r] \in Thread /\ ~IsRunnable(subject[r])'
<1> Shape
    BY Zenon DEF IInv
<1>s. \A q \in Requester : StageOf(q) /\ SetsOf(q)
    BY Zenon DEF IInv, Account
<1> USE DEF CheckpointConstants, Shape
<1>1. CASE UNCHANGED checkpointVars
    BY <1>1, Zenon DEF checkpointVars, Dumping
<1>2. ASSUME NEW t \in Thread, Voluntary(t) \/ Enter(t) \/ SuspendPoint(t)
      PROVE  (cp_pc[r] = "lower" \/ Dumping(r)) /\ subject'[r] = subject[r]
    BY <1>2
    DEF Voluntary, CallToRunnable, CallToSuspended, ToSuspended, Enter, WaitWhileSuspended,
        BecomeRunnable, SuspendPoint, FullSuspendCheck, CollectCheckpoints, RunCollected, Dumping
<1>3. ASSUME NEW q \in Requester, q # r, CallRunCheckpoint(q) \/ Visit(q) \/ RunClosures(q)
      PROVE  (cp_pc[r] = "lower" \/ Dumping(r)) /\ subject'[r] = subject[r]
    <2>1. Untouched(r)
        BY <1>3, OthersUntouched, ZenonT(40)
    <2>2. cp_pc'[r] = cp_pc[r] /\ back' = back
        BY <1>3
        DEF CallRunCheckpoint, Visit, RequestCheckpoint, InstallFlag, RequestFailed, KeepSuspended,
            AllVisited, RunClosures, RunOnSelf, RunOnSuspended, RunOn, Dump, DumpExit, ToSuspended,
            DumpPass, Lower, AllRun, BroadcastResume, Increment, BarrierReturns
    <2>. QED
        BY <2>1, <2>2, Zenon DEF Untouched, Dumping
<1>4. CASE RunOnSuspended(r)
    <2>1. PICK t \in modified[r] : IsSuspended(t) /\ RunOn(r, t, "lower")
        BY <1>4, Zenon DEF RunOnSuspended
    <2>2. subject'[r] = t /\ t # r /\ t \in Thread
        BY <1>s, <2>1 DEF RunOn, StageOf
    <2>3. cp_pc'[t] = cp_pc[t]
        BY <2>1, <2>2, Zenon DEF RunOn
    <2>. QED
        BY <2>1, <2>2, <2>3, Zenon
<1>5. CASE RunOnSelf(r)
    BY <1>5, ZenonT(40) DEF RunOnSelf, RunOn
<1>6. CASE \/ CallRunCheckpoint(r) \/ Visit(r) \/ Dump(r) \/ DumpExit(r) \/ DumpPass(r)
           \/ Lower(r) \/ AllRun(r) \/ BroadcastResume(r) \/ Increment(r) \/ BarrierReturns(r)
    BY <1>6
    DEF CallRunCheckpoint, Visit, RequestCheckpoint, InstallFlag, RequestFailed, KeepSuspended,
        AllVisited, Dump, DumpExit, ToSuspended, DumpPass, Lower, AllRun, BroadcastResume,
        Increment, BarrierReturns, Dumping
<1>. QED
    BY <1>1, <1>2, <1>3, <1>4, <1>5, <1>6, Zenon DEF CheckpointNext, RunClosures

LEMMA NextSuspending ==
    ASSUME CheckpointConstants, IInv, Suspending, [CheckpointNext]_checkpointVars
    PROVE  Suspending'
<1> Shape
    BY Zenon DEF IInv
<1>s. \A q \in Requester : StageOf(q) /\ SetsOf(q)
    BY Zenon DEF IInv, Account
<1> USE DEF CheckpointConstants, Shape
<1>k. \A t \in Thread : Keepers(t) \in SUBSET Thread
    BY Zenon DEF Keepers
<1>1. ASSUME NEW t \in Thread PROVE suspend_count'[t] = Cardinality(Keepers(t)')
    <2>1. CASE UNCHANGED <<suspend_count, modified>>
        BY <2>1, ZenonT(40) DEF Suspending, Keepers
    <2>2. ASSUME NEW r \in Requester, KeepSuspended(r)
          PROVE  suspend_count'[t] = Cardinality(Keepers(t)')
        <3>1. subject[r] \in Thread /\ subject[r] \notin modified[r]
            BY <1>s, <2>2 DEF KeepSuspended, StageOf, SetsOf
        <3>2. CASE t = subject[r]
            <4>1. Keepers(t)' = Keepers(t) \cup {r} /\ r \notin Keepers(t)
                BY <2>2, <3>1, <3>2 DEF KeepSuspended, Keepers
            <4>. QED
                BY <1>k, <2>2, <3>1, <3>2, <4>1, SetsCounted DEF KeepSuspended, Suspending
        <3>3. CASE t # subject[r]
            <4>1. Keepers(t)' = Keepers(t)
                BY <2>2, <3>3, Zenon DEF KeepSuspended, Keepers
            <4>. QED
                BY <2>2, <3>3, <4>1, Zenon DEF KeepSuspended, Suspending
        <3>. QED
            BY <3>2, <3>3, Zenon
    <2>3. ASSUME NEW r \in Requester, Lower(r)
          PROVE  suspend_count'[t] = Cardinality(Keepers(t)')
        <3>1. subject[r] \in modified[r]
            BY <1>s, <2>3, Zenon DEF Lower, StageOf
        <3>2. CASE t = subject[r]
            <4>1. Keepers(t)' = Keepers(t) \ {r} /\ r \in Keepers(t)
                BY <2>3, <3>1, <3>2, Zenon DEF Lower, Keepers
            <4>. QED
                BY <1>k, <2>3, <3>1, <3>2, <4>1, SetsCounted DEF Lower, Suspending
        <3>3. CASE t # subject[r]
            <4>1. Keepers(t)' = Keepers(t)
                BY <2>3, <3>3, Zenon DEF Lower, Keepers
            <4>. QED
                BY <2>3, <3>3, <4>1, Zenon DEF Lower, Suspending
        <3>. QED
            BY <3>2, <3>3, Zenon
    <2>. QED
        BY <2>1, <2>2, <2>3, CountsChange, Zenon
<1>2. ASSUME NEW r \in Requester, cp_pc'[r] = "lower" \/ Dumping(r)', subject'[r] # r
      PROVE  ~IsRunnable(subject[r])'
    <2>1. CASE (cp_pc[r] = "lower" \/ Dumping(r)) /\ subject'[r] = subject[r]
        <3>1. subject[r] \in modified[r] /\ subject[r] \in Thread /\ ~IsRunnable(subject[r])
            BY <1>s, <1>2, <2>1, ZenonT(40) DEF StageOf, Suspending
        <3>2. r \in Keepers(subject[r])
            BY <3>1, Zenon DEF Keepers
        <3>3. suspend_count[subject[r]] > 0
            <4>1. Cardinality(Keepers(subject[r])) # 0
                BY <1>k, <3>1, <3>2, FS_EmptySet, SetsCounted
            <4>. QED
                BY <1>k, <3>1, <4>1, SetsCounted DEF Suspending
        <3>. QED
            BY <2>1, <3>1, <3>3, BecomesRunnable
    <2>. QED
        BY <1>2, <2>1, NewSubject, Zenon
<1>. QED
    BY <1>1, <1>2, Zenon DEF Suspending

LEMMA SpecSuspending == ASSUME CheckpointConstants PROVE CheckpointSpec => []Suspending
<1>1. CheckpointInit => Suspending
    <2>1. ASSUME CheckpointInit, NEW t \in Thread PROVE suspend_count[t] = Cardinality(Keepers(t))
        <3>1. Keepers(t) = {}
            BY <2>1, Zenon DEF CheckpointInit, Keepers
        <3>. QED
            BY <2>1, <3>1, FS_EmptySet, Zenon DEF CheckpointInit
    <2>. QED
        BY <2>1, Zenon DEF CheckpointInit, Suspending, Dumping, CheckpointConstants
<1>2. IInv /\ Suspending /\ [CheckpointNext]_checkpointVars => Suspending'
    BY NextSuspending, Zenon
<1>. QED
    BY <1>1, <1>2, SpecIInv, PTL DEF CheckpointSpec

\* While a requester runs its closure for another thread, and until it has lowered the
\* count again, that thread is suspended: the CHECK of CheckpointMarkThreadRoots holds.
THEOREM SubjectStaysSuspended == CheckpointSpec => []SubjectIsSuspended
<1> USE CheckpointAssumption
<1>1. IInv /\ Suspending => SubjectIsSuspended
    <2> SUFFICES ASSUME IInv, Suspending, NEW r \in Requester, subject[r] # r,
                        cp_pc[r] \in {"dumpEnter", "dump", "dumpExit", "pass", "lower"}
                 PROVE  IsSuspended(subject[r])
        BY Zenon DEF SubjectIsSuspended
    <2>1. subject[r] \in modified[r] /\ subject[r] \in Thread /\ ~IsRunnable(subject[r])
        BY Zenon DEF IInv, Account, Shape, StageOf, Suspending, Dumping
    <2>2. r \in Keepers(subject[r]) /\ Keepers(subject[r]) \in SUBSET Thread
        BY <2>1, Zenon DEF Keepers, CheckpointConstants
    <2>3. Cardinality(Keepers(subject[r])) \in Nat /\ Cardinality(Keepers(subject[r])) # 0
        BY <2>2, FS_EmptySet, SetsCounted, Zenon
    <2>. QED
        BY <2>1, <2>3 DEF Suspending
<1>. QED
    BY <1>1, SpecIInv, SpecSuspending, PTL

\* A thread that was asked for a checkpoint stays runnable until it has run it.
THEOREM RunsBeforeSuspending == CheckpointSpec => []RunnableUntilRun
<1> USE CheckpointAssumption
<1>1. CheckpointInit => RunnableUntilRun
    BY Zenon DEF CheckpointInit, RunnableUntilRun
<1>2. ASSUME IInv, RunnableUntilRun, [CheckpointNext]_checkpointVars PROVE RunnableUntilRun'
    <2> Shape
        BY <1>2, Zenon DEF IInv
    <2> USE <1>2 DEF CheckpointConstants, Shape, RunnableUntilRun
    <2>1. CASE UNCHANGED checkpointVars
        BY <2>1, Zenon DEF checkpointVars
    <2>2. ASSUME NEW t \in Thread, Voluntary(t) \/ Enter(t) \/ SuspendPoint(t)
          PROVE  RunnableUntilRun'
        BY <2>2, ZenonT(40)
        DEF Voluntary, CallToRunnable, CallToSuspended, ToSuspended, Enter, WaitWhileSuspended,
            BecomeRunnable, SuspendPoint, FullSuspendCheck, CollectCheckpoints, RunCollected
    <2>3. ASSUME NEW r \in Requester, CallRunCheckpoint(r) \/ (Visit(r) /\ ~InstallFlag(r))
          PROVE  RunnableUntilRun'
        <3>1. UNCHANGED checkpoint_request /\ \A t \in Thread : t # r => cp_pc'[t] = cp_pc[t]
            BY <2>3
            DEF CallRunCheckpoint, Visit, RequestCheckpoint, RequestFailed, KeepSuspended, AllVisited
        <3>2. ~IsRunnable(r)
            BY <2>3, Zenon
            DEF CallRunCheckpoint, Visit, RequestCheckpoint, RequestFailed, KeepSuspended, AllVisited
        <3>. QED
            BY <3>1, <3>2, Zenon
    <2>5. ASSUME NEW r \in Requester, InstallFlag(r) PROVE RunnableUntilRun'
        <3>1. \A t \in Thread : checkpoint_request'[t] => checkpoint_request[t] \/ IsRunnable(t)
            BY <2>5, Zenon DEF InstallFlag
        <3>2. \A t \in Thread : IsRunnable(t) => IsRunnable(t)'
            BY <2>5, ZenonT(40) DEF InstallFlag
        <3>. QED
            BY <3>1, <3>2, Zenon
    <2>4. ASSUME NEW r \in Requester, RunClosures(r) PROVE RunnableUntilRun'
        BY <2>4
        DEF RunClosures, RunOnSelf, RunOnSuspended, RunOn, Dump, DumpExit, ToSuspended, DumpPass,
            Lower, AllRun, BroadcastResume, Increment, BarrierReturns
    <2>. QED
        BY <2>1, <2>2, <2>3, <2>4, <2>5, Zenon DEF CheckpointNext
<1>. QED
    BY <1>1, <1>2, SpecIInv, PTL DEF CheckpointSpec

\* A thread goes to sleep on resume_cond_ only while it is suspended.
LEMMA NewWaiter ==
    ASSUME [CheckpointNext]_checkpointVars, NEW t \in resume_waiters', suspend_count[t] = 0
    PROVE  t \in resume_waiters
<1>1. CASE \E u \in Thread : WaitWhileSuspended(u)
    BY <1>1 DEF WaitWhileSuspended
<1>2. CASE resume_waiters' \in {resume_waiters, {}}
    BY <1>2
<1>. QED
    BY <1>1, <1>2, ZenonT(40)
    DEF CheckpointNext, checkpointVars, Voluntary, CallToRunnable, CallToSuspended, ToSuspended,
        Enter, BecomeRunnable, SuspendPoint, FullSuspendCheck, CollectCheckpoints, RunCollected,
        CallRunCheckpoint, Visit, RequestCheckpoint, InstallFlag, RequestFailed, KeepSuspended,
        AllVisited, RunClosures, RunOnSelf, RunOnSuspended, Dump, DumpExit, DumpPass, Lower, AllRun,
        BroadcastResume, Increment, BarrierReturns

\* r has lowered counts, or will, and will broadcast after that.
WillResume(r) == cp_pc[r] \in {"others", "lower", "broadcast"} \/ Dumping(r)

Resuming ==
    \A t \in resume_waiters : suspend_count[t] = 0 => \E r \in Requester : WillResume(r)

LEMMA NextResuming ==
    ASSUME CheckpointConstants, IInv, Suspending, Resuming, [CheckpointNext]_checkpointVars
    PROVE  Resuming'
<1> Shape
    BY Zenon DEF IInv
<1> USE DEF CheckpointConstants, Shape
<1>1. ASSUME NEW q \in Requester, WillResume(q), ~BroadcastResume(q) PROVE WillResume(q)'
    <2>1. CASE \E t \in Thread : Voluntary(t) \/ Enter(t) \/ SuspendPoint(t)
        BY <1>1, <2>1
        DEF Voluntary, CallToRunnable, CallToSuspended, ToSuspended, Enter, WaitWhileSuspended,
            BecomeRunnable, SuspendPoint, FullSuspendCheck, CollectCheckpoints, RunCollected,
            WillResume, Dumping
    <2>2. ASSUME NEW r \in Requester, r # q, CallRunCheckpoint(r) \/ Visit(r) \/ RunClosures(r)
          PROVE  WillResume(q)'
        BY <1>1, <2>2, OthersUntouched, ZenonT(40) DEF Untouched, WillResume, Requesting, Dumping
    <2>3. CASE CallRunCheckpoint(q) \/ Visit(q) \/ RunClosures(q)
        BY <1>1, <2>3, ZenonT(40)
        DEF CallRunCheckpoint, Visit, RequestCheckpoint, InstallFlag, RequestFailed, KeepSuspended,
            AllVisited, RunClosures, RunOnSelf, RunOnSuspended, RunOn, Dump, DumpExit, ToSuspended,
            DumpPass, Lower, AllRun, Increment, BarrierReturns, WillResume, Dumping
    <2>4. CASE UNCHANGED checkpointVars
        BY <1>1, <2>4, Zenon DEF checkpointVars, WillResume, Dumping
    <2>. QED
        BY <2>1, <2>2, <2>3, <2>4, ZenonT(40) DEF CheckpointNext
<1>2. ASSUME NEW r \in Requester, Lower(r) PROVE Resuming'
    BY <1>2, Zenon DEF Lower, Resuming, WillResume
<1>3. ASSUME NEW r \in Requester, BroadcastResume(r) PROVE Resuming'
    BY <1>3, Zenon DEF BroadcastResume, Resuming
<1>4. ASSUME NEW t \in resume_waiters', suspend_count'[t] = 0,
             \A r \in Requester : ~Lower(r) /\ ~BroadcastResume(r)
      PROVE  t \in resume_waiters /\ suspend_count[t] = 0
    <2>1. CASE \E r \in Requester : KeepSuspended(r)
        <3>1. PICK r \in Requester : KeepSuspended(r)
            BY <2>1, Zenon
        <3>2. t \in resume_waiters /\ t \in Thread
            BY <1>4, <3>1, Zenon DEF KeepSuspended
        <3>3. Keepers(t) \in SUBSET Thread
            BY Zenon DEF Keepers
        <3>4. suspend_count[t] >= 0
            BY <3>2, <3>3, SetsCounted DEF Suspending
        <3>. QED
            BY <1>4, <3>1, <3>2, <3>4 DEF KeepSuspended
    <2>2. CASE \A r \in Requester : ~KeepSuspended(r)
        <3>1. suspend_count' = suspend_count
            BY <1>4, <2>2, CountsChange, Zenon
        <3>2. t \in resume_waiters
            BY <1>4, <3>1, NewWaiter, Zenon
        <3>. QED
            BY <1>4, <3>1, <3>2, Zenon
    <2>. QED
        BY <2>1, <2>2, Zenon
<1>. QED
    BY <1>1, <1>2, <1>3, <1>4, Zenon DEF Resuming

\* Nobody sleeps on resume_cond_ with a zero suspend count unless a requester that will
\* broadcast there is on its way, so lowering the counts one by one strands no thread.
THEOREM NoResumeIsLost == CheckpointSpec => []NoLostResume
<1> USE CheckpointAssumption
<1>1. CheckpointInit => Resuming
    BY Zenon DEF CheckpointInit, Resuming
<1>2. IInv /\ Suspending /\ Resuming /\ [CheckpointNext]_checkpointVars => Resuming'
    BY NextResuming, Zenon
<1>3. Resuming => NoLostResume
    BY Zenon DEF Resuming, WillResume, NoLostResume, Requesting, Dumping
<1>. QED
    BY <1>1, <1>2, <1>3, SpecIInv, SpecSuspending, PTL DEF CheckpointSpec
=============================================================================
