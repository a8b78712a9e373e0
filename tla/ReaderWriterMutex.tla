--------------------------- MODULE ReaderWriterMutex ---------------------------
(***************************************************************************)
(* art::ReaderWriterMutex in its futex build, at the granularity of single *)
(* atomic accesses and system calls.  mutator_lock_, heap_bitmap_lock_ and *)
(* the other shared/exclusive locks of the runtime are of this class.      *)
(* src/runtime/base/mutex.cc, mutex-inl.h.                                 *)
(*                                                                         *)
(* state_ is 0 when free, -1 when held exclusively, n > 0 with n readers.  *)
(* num_pending_readers_ and num_pending_writers_ decide whether an unlock  *)
(* makes the wake system call.  NoThread is exclusive_owner_ == 0.         *)
(***************************************************************************)
EXTENDS Integers, FiniteSets, Threads

CONSTANTS
    SpuriousCas    \* may a weak compare-exchange fail although the value matches?

ASSUME RWSpuriousAssumption == SpuriousCas \in BOOLEAN

VARIABLES
    state_, exclusive_owner_, num_pending_readers_, num_pending_writers_,
    sleepers,      \* threads the kernel keeps asleep on &state_
    pc,
    cur_state,     \* the local of that name: the last value the thread read
    timed,         \* is the thread in ExclusiveLockWithTimeout?
    fatal          \* PLOG(FATAL) was reached and the process aborted

lockVars == <<state_, exclusive_owner_>>
pendingVars == <<num_pending_readers_, num_pending_writers_>>
vars == <<lockVars, pendingVars, sleepers, pc, cur_state, timed, fatal>>

WriterPcs == {"wLoad", "wCas", "wPend", "wWait", "wAsleep", "wUnpend"}
ReaderPcs == {"rLoad", "rCas", "rPend", "rWait", "rAsleep", "rUnpend", "tryLoad", "tryCas"}
ExclusivePcs == {"wOwn", "exclusive", "wRelease"}
SharedPcs == {"shared", "rRelease"}
WakePcs == {"wCheckReaders", "wCheckWriters", "rCheckWriters", "rCheckReaders", "wake"}
Pcs == {"idle"} \cup WriterPcs \cup ReaderPcs \cup ExclusivePcs \cup SharedPcs \cup WakePcs

Goto(t, label) == pc' = [pc EXCEPT ![t] = label]
At(t, label) == pc[t] = label /\ ~fatal

Init ==
    /\ state_ = 0
    /\ exclusive_owner_ = NoThread
    /\ num_pending_readers_ = 0
    /\ num_pending_writers_ = 0
    /\ sleepers = {}
    /\ pc = [t \in Thread |-> "idle"]
    /\ cur_state = [t \in Thread |-> 0]
    /\ timed = [t \in Thread |-> FALSE]
    /\ fatal = FALSE

-----------------------------------------------------------------------------
(* Steps the operations share *)

\* cur_state = state_.LoadRelaxed(), then one way if free for the caller, else another.
Load(t, from, free, yes, no) ==
    /\ At(t, from)
    /\ cur_state' = [cur_state EXCEPT ![t] = state_]
    /\ Goto(t, IF free THEN yes ELSE no)
    /\ UNCHANGED <<lockVars, pendingVars, sleepers, timed, fatal>>

\* Mistaken variant: the compare-exchange does not compare.
Cas_Store(t, from, new, done, retry) ==
    /\ At(t, from)
    /\ state_' = new
    /\ Goto(t, done)
    /\ UNCHANGED <<exclusive_owner_, pendingVars, sleepers, cur_state, timed, fatal>>

\* CompareExchangeWeak(cur_state, new).
Cas(t, from, new, done, retry) ==
    /\ At(t, from)
    /\ \/ /\ state_ = cur_state[t]
          /\ state_' = new
          /\ Goto(t, done)
       \/ /\ state_ # cur_state[t] \/ SpuriousCas
          /\ state_' = state_
          /\ Goto(t, retry)
    /\ UNCHANGED <<exclusive_owner_, pendingVars, sleepers, cur_state, timed, fatal>>

\* FUTEX_WAIT on &state_ for cur_state: sleep, or EAGAIN.
FutexWait(t, from, asleep, again) ==
    /\ At(t, from)
    /\ \/ /\ state_ = cur_state[t]
          /\ sleepers' = sleepers \cup {t}
          /\ Goto(t, asleep)
       \/ /\ state_ # cur_state[t]
          /\ sleepers' = sleepers
          /\ Goto(t, again)
    /\ UNCHANGED <<lockVars, pendingVars, cur_state, timed, fatal>>

FutexReturn(t, from, next) ==
    /\ At(t, from) /\ t \notin sleepers
    /\ Goto(t, next)
    /\ UNCHANGED <<lockVars, pendingVars, sleepers, cur_state, timed, fatal>>

-----------------------------------------------------------------------------
(* ReaderWriterMutex::ExclusiveLock and ExclusiveLockWithTimeout *)

CallExclusiveLock(t) ==
    /\ At(t, "idle")
    /\ Goto(t, "wLoad")
    /\ timed' \in {timed, [timed EXCEPT ![t] = TRUE]}
    /\ UNCHANGED <<lockVars, pendingVars, sleepers, cur_state, fatal>>

ExclusiveLoad(t) == Load(t, "wLoad", state_ = 0, "wCas", "wPend")

ExclusiveCas(t) == Cas(t, "wCas", -1, "wOwn", "wLoad")

ExclusivePend(t) ==
    /\ At(t, "wPend")
    /\ num_pending_writers_' = num_pending_writers_ + 1
    /\ Goto(t, "wWait")
    /\ UNCHANGED <<lockVars, num_pending_readers_, sleepers, cur_state, timed, fatal>>

ExclusiveFutexWait(t) == FutexWait(t, "wWait", "wAsleep", "wUnpend")
ExclusiveFutexReturn(t) == FutexReturn(t, "wAsleep", "wUnpend")

\* EINTR: try again from the beginning.
ExclusiveInterrupted(t) ==
    /\ At(t, "wAsleep") /\ t \in sleepers
    /\ sleepers' = sleepers \ {t}
    /\ Goto(t, "wUnpend")
    /\ UNCHANGED <<lockVars, pendingVars, cur_state, timed, fatal>>

ExclusiveUnpend(t) ==
    /\ At(t, "wUnpend")
    /\ num_pending_writers_' = num_pending_writers_ - 1
    /\ Goto(t, "wLoad")
    /\ UNCHANGED <<lockVars, num_pending_readers_, sleepers, cur_state, timed, fatal>>

\* The deadline passed: seen before pending, or ETIMEDOUT from the system call.
TimedOut(t) ==
    /\ timed[t]
    /\ \/ At(t, "wPend") /\ UNCHANGED num_pending_writers_
       \/ /\ At(t, "wAsleep") /\ t \in sleepers
          /\ num_pending_writers_' = num_pending_writers_ - 1
    /\ sleepers' = sleepers \ {t}
    /\ timed' = [timed EXCEPT ![t] = FALSE]
    /\ Goto(t, "idle")
    /\ UNCHANGED <<lockVars, num_pending_readers_, cur_state, fatal>>

ExclusiveOwn(t) ==
    /\ At(t, "wOwn")
    /\ exclusive_owner_' = t
    /\ timed' = [timed EXCEPT ![t] = FALSE]
    /\ Goto(t, "exclusive")
    /\ UNCHANGED <<state_, pendingVars, sleepers, cur_state, fatal>>

-----------------------------------------------------------------------------
(* ReaderWriterMutex::ExclusiveUnlock *)

\* The owner is cleared before the compare-exchange that frees the lock.
CallExclusiveUnlock(t) ==
    /\ At(t, "exclusive")
    /\ cur_state' = [cur_state EXCEPT ![t] = state_]
    /\ exclusive_owner_' = NoThread
    /\ Goto(t, "wRelease")
    /\ UNCHANGED <<state_, pendingVars, sleepers, timed, fatal>>

ExclusiveRelease(t) == Cas(t, "wRelease", 0, "wCheckReaders", "wRelease")

Check(t, from, pending, next) ==
    /\ At(t, from)
    /\ Goto(t, IF pending > 0 THEN "wake" ELSE next)
    /\ UNCHANGED <<lockVars, pendingVars, sleepers, cur_state, timed, fatal>>

\* Mistaken variant: only waiting readers are looked for.
ExclusiveCheck_ReadersOnly(t) == Check(t, "wCheckReaders", num_pending_readers_, "idle")

\* num_pending_readers_ > 0 || num_pending_writers_ > 0: two loads.
ExclusiveCheck(t) ==
    \/ Check(t, "wCheckReaders", num_pending_readers_, "wCheckWriters")
    \/ Check(t, "wCheckWriters", num_pending_writers_, "idle")

\* FUTEX_WAKE with the count -1: at least one sleeper, at most all of them.
WakeSome(queue) == IF queue = {} THEN {{}} ELSE (SUBSET queue) \ {{}}

Wake(t) ==
    /\ At(t, "wake")
    /\ \E w \in WakeSome(sleepers) : sleepers' = sleepers \ w
    /\ Goto(t, "idle")
    /\ UNCHANGED <<lockVars, pendingVars, cur_state, timed, fatal>>

-----------------------------------------------------------------------------
(* ReaderWriterMutex::SharedLock, HandleSharedLockContention, SharedTryLock *)

CallSharedLock(t) ==
    /\ At(t, "idle")
    /\ \E label \in {"rLoad", "tryLoad"} : Goto(t, label)
    /\ UNCHANGED <<lockVars, pendingVars, sleepers, cur_state, timed, fatal>>

SharedLoad(t) ==
    \/ Load(t, "rLoad", state_ >= 0, "rCas", "rPend")
    \/ Load(t, "tryLoad", state_ >= 0, "tryCas", "idle")

SharedCas(t) ==
    \/ Cas(t, "rCas", cur_state[t] + 1, "shared", "rLoad")
    \/ Cas(t, "tryCas", cur_state[t] + 1, "shared", "tryLoad")

SharedPend(t) ==
    /\ At(t, "rPend")
    /\ num_pending_readers_' = num_pending_readers_ + 1
    /\ Goto(t, "rWait")
    /\ UNCHANGED <<lockVars, num_pending_writers_, sleepers, cur_state, timed, fatal>>

SharedFutexWait(t) == FutexWait(t, "rWait", "rAsleep", "rUnpend")
SharedFutexReturn(t) == FutexReturn(t, "rAsleep", "rUnpend")

\* HandleSharedLockContention tolerates EAGAIN only: EINTR is PLOG(FATAL).
SharedInterrupted(t) ==
    /\ At(t, "rAsleep") /\ t \in sleepers
    /\ sleepers' = sleepers \ {t}
    /\ fatal' = TRUE
    /\ UNCHANGED <<lockVars, pendingVars, pc, cur_state, timed>>

SharedUnpend(t) ==
    /\ At(t, "rUnpend")
    /\ num_pending_readers_' = num_pending_readers_ - 1
    /\ Goto(t, "rLoad")
    /\ UNCHANGED <<lockVars, num_pending_writers_, sleepers, cur_state, timed, fatal>>

-----------------------------------------------------------------------------
(* ReaderWriterMutex::SharedUnlock *)

CallSharedUnlock(t) == Load(t, "shared", state_ > 0, "rRelease", "shared")

\* Only the last reader looks for waiters; a failed exchange loads again.
SharedRelease(t) ==
    Cas(t, "rRelease", cur_state[t] - 1, IF cur_state[t] = 1 THEN "rCheckWriters" ELSE "idle",
        "shared")

SharedCheck(t) ==
    \/ Check(t, "rCheckWriters", num_pending_writers_, "rCheckReaders")
    \/ Check(t, "rCheckReaders", num_pending_readers_, "idle")

-----------------------------------------------------------------------------
WriterStep(t) ==
    \/ ExclusiveLoad(t) \/ ExclusiveCas(t) \/ ExclusivePend(t) \/ ExclusiveFutexWait(t)
    \/ ExclusiveFutexReturn(t) \/ ExclusiveUnpend(t) \/ ExclusiveOwn(t)
    \/ ExclusiveRelease(t) \/ ExclusiveCheck(t) \/ Wake(t)

ReaderStep(t) ==
    \/ SharedLoad(t) \/ SharedCas(t) \/ SharedPend(t) \/ SharedFutexWait(t)
    \/ SharedFutexReturn(t) \/ SharedUnpend(t) \/ SharedRelease(t) \/ SharedCheck(t)

Unlock(t) == CallExclusiveUnlock(t) \/ CallSharedUnlock(t)

ClientCall(t) == CallExclusiveLock(t) \/ CallSharedLock(t) \/ Unlock(t)

KernelReturn(t) == ExclusiveInterrupted(t) \/ TimedOut(t) \/ SharedInterrupted(t)

\* An aborted process does nothing any more.
Aborted == fatal /\ UNCHANGED vars

Next ==
    \/ \E t \in Thread : WriterStep(t) \/ ReaderStep(t) \/ ClientCall(t) \/ KernelReturn(t)
    \/ Aborted

Spec == Init /\ [][Next]_vars

\* A thread inside a call keeps running and a holder eventually lets go.
Fairness == \A t \in Thread : WF_vars(WriterStep(t) \/ ReaderStep(t) \/ Unlock(t))
FairSpec == Spec /\ Fairness

-----------------------------------------------------------------------------
Writers == {t \in Thread : pc[t] \in ExclusivePcs}
Readers == {t \in Thread : pc[t] \in SharedPcs}

TypeOK ==
    /\ state_ \in -1..Cardinality(Thread)
    /\ exclusive_owner_ \in Thread \cup {NoThread}
    /\ num_pending_readers_ \in Int /\ num_pending_writers_ \in Int
    /\ sleepers \subseteq Thread
    /\ pc \in [Thread -> Pcs]
    /\ cur_state \in [Thread -> Int]
    /\ timed \in [Thread -> BOOLEAN]
    /\ fatal \in BOOLEAN

\* state_ is the exact account of who is inside: -1 for one writer and no reader,
\* otherwise the number of readers.  SharedUnlock and ExclusiveUnlock abort
\* ("Unexpected state_") when they find it to be anything else.
StateCountsHolders ==
    IF Writers = {} THEN state_ = Cardinality(Readers)
    ELSE state_ = -1 /\ Readers = {} /\ \A t, u \in Writers : t = u

\* SharedLock and ExclusiveLock DCHECK that no stale exclusive_owner_ is visible to
\* a thread that just got in; IsExclusiveHeld relies on the owner while it is inside.
OwnerMatchesHolder ==
    /\ \A t \in Thread : pc[t] = "exclusive" => exclusive_owner_ = t
    /\ \A t \in Thread : pc[t] \in SharedPcs \cup {"wOwn"} => exclusive_owner_ = NoThread

Pending ==
    \E t \in Thread :
        \/ pc[t] \in (WakePcs \cup WriterPcs \cup ReaderPcs) \ {"wAsleep", "rAsleep"}
        \/ pc[t] \in {"wAsleep", "rAsleep"} /\ t \notin sleepers

\* A free lock never has sleepers that nobody is going to wake, although an unlock
\* skips the system call when it reads both pending counts as zero.
NoLostWakeup == ~fatal /\ state_ = 0 /\ sleepers # {} => Pending

\* A free lock somebody sleeps on does not stay free with them asleep.
FreeLockIsTaken == (state_ = 0 /\ sleepers # {}) ~> (state_ # 0 \/ sleepers = {} \/ fatal)
================================================================================
