------------------------------ MODULE Monitor ------------------------------
(***************************************************************************)
(* The lock of one Java object: the lock word in the object's header and   *)
(* the Monitor it is inflated to (runtime/monitor.cc, runtime/lock_word.h,  *)
(* Object::IdentityHashCode, and the wait fields of Thread).               *)
(*                                                                         *)
(* The word is unlocked, thin (owner and recursion count), a hash code, or *)
(* fat.  Threads load it, decide, and then store it (only the owner of a   *)
(* thin lock may do so without a compare-and-swap) or swap it.  A thread   *)
(* that meets another's thin lock suspends the owner and inflates the lock *)
(* for it; the collector, with every mutator stopped, deflates monitors    *)
(* nobody waits for.                                                       *)
(*                                                                         *)
(* Sections under monitor_lock_ and under a thread's wait_mutex_ are one   *)
(* step each (FutexMutex justifies it); suspending a thread means what     *)
(* ThreadSuspension proves of it: the thread stops at its next safe point  *)
(* and stays there until it is resumed.                                    *)
(***************************************************************************)
EXTENDS Integers, Sequences, FiniteSets, Functions

CONSTANTS Thread, NoThread,
          Hash,                \* what GenerateIdentityHashCode may return
          kThinLockMaxCount,
          MaxDepth,            \* bound: how deep one thread nests its entries
          Unowned              \* operations also called without the lock

ASSUME ThreadIsFinite == IsFiniteSet(Thread)
ASSUME NoThreadIsNone == NoThread \notin Thread
ASSUME HashIsPositive == Hash \subseteq Nat \ {0}
ASSUME MaxCountIsNat == kThinLockMaxCount \in Nat
ASSUME MaxDepthIsNat == MaxDepth \in Nat

VARIABLES
  lock_word,       \* Object::monitor_
  \* the Monitor the word leads to when it is fat
  owner_, lock_count_, num_waiters_, wait_set_, hash_code_,
  contenders,      \* threads asleep on monitor_contenders_
  \* of each thread
  wait_monitor,    \* wait_monitor_ is not null
  interrupted,     \* interrupted_
  asleep,          \* the threads asleep on their wait_cond_
  pc,              \* where it is in the operation
  op,              \* the operation it is in
  seen,            \* the lock word it loaded
  made,            \* the monitor it created and has not installed yet
  target,          \* the owner it has asked to suspend
  saved,           \* prev_lock_count of Wait
  was_interrupted,
  depth,           \* how often the Java code has entered and not left the lock
  fatal            \* the failed CHECK that aborted the runtime, if any

word == <<lock_word>>
monitor == <<owner_, lock_count_, num_waiters_, wait_set_, hash_code_, contenders>>
waiting == <<wait_monitor, interrupted, asleep, saved, was_interrupted>>
control == <<pc, op, seen, made, target, depth, fatal>>
vars == <<word, monitor, waiting, control>>

(* Lock words. *)
Unlocked == [state |-> "unlocked"]
Thin(o, c) == [state |-> "thin", owner |-> o, count |-> c]
HashWord(h) == [state |-> "hash", hash |-> h]
Fat == [state |-> "fat"]

ThinWord == [state : {"thin"}, owner : Thread, count : 0..kThinLockMaxCount]
LockWord == {Unlocked, Fat} \cup ThinWord \cup [state : {"hash"}, hash : Hash]

Op == {"none", "enter", "exit", "wait", "relock", "notify", "notifyAll", "hash"}

(* Where a thread is not kRunnable, or may stop in Thread::CheckSuspend. *)
SafePoint == {"idle", "search", "suspending", "suspended", "block", "blocked", "waiting", "woken"}
PC == SafePoint \cup
      {"load", "cas", "store", "install", "publish", "recheck", "resume", "fat", "restore", "throw"}

Suspenders(t) == {s \in Thread : target[s] = t}

(* Leaving a safe point takes a suspend count of zero. *)
MayRun(t) == Suspenders(t) = {}

(* Thread::IsSuspended: not runnable, and asked to suspend.  A thread at "idle" is *)
(* known to have stopped only once its suspender has seen it.                      *)
IsSuspended(t) ==
  /\ pc[t] \in SafePoint
  /\ \/ pc[t] # "idle" /\ Suspenders(t) # {}
     \/ \E s \in Suspenders(t) : pc[s] # "suspending"

Init ==
  /\ lock_word = Unlocked
  /\ owner_ = NoThread /\ lock_count_ = 0 /\ num_waiters_ = 0
  /\ wait_set_ = <<>> /\ hash_code_ = 0 /\ contenders = {}
  /\ wait_monitor = [t \in Thread |-> FALSE]
  /\ interrupted = [t \in Thread |-> FALSE]
  /\ asleep = {}
  /\ pc = [t \in Thread |-> "idle"]
  /\ op = [t \in Thread |-> "none"]
  /\ seen = [t \in Thread |-> Unlocked]
  /\ made = [t \in Thread |-> [owner |-> NoThread, count |-> 0, hash |-> 0]]
  /\ target = [t \in Thread |-> NoThread]
  /\ saved = [t \in Thread |-> 0]
  /\ was_interrupted = [t \in Thread |-> FALSE]
  /\ depth = [t \in Thread |-> 0]
  /\ fatal = "none"

-----------------------------------------------------------------------------
(* Every operation starts by loading the lock word: on the call, which needs *)
(* the thread to be running, and again on each turn of its retry loop.       *)
Reads(t, o) ==
  \/ /\ pc[t] = "idle"
     /\ MayRun(t)
     /\ o \in {"exit", "wait", "notify", "notifyAll"} \ Unowned => depth[t] > 0
     /\ o = "enter" => depth[t] < MaxDepth
  \/ pc[t] = "load" /\ op[t] = o

Load(t, o, next) ==
  /\ op' = [op EXCEPT ![t] = o]
  /\ seen' = [seen EXCEPT ![t] = lock_word]
  /\ pc' = [pc EXCEPT ![t] = next]

Goto(t, next) == pc' = [pc EXCEPT ![t] = next] /\ UNCHANGED <<op, seen>>

Return(t) ==
  /\ pc' = [pc EXCEPT ![t] = "idle"]
  /\ op' = [op EXCEPT ![t] = "none"]
  /\ seen' = [seen EXCEPT ![t] = Unlocked]

Blank == [owner |-> NoThread, count |-> 0, hash |-> 0]

Create(t, o, h) == made' = [made EXCEPT ![t] = [owner |-> o, count |-> 0, hash |-> h]]

IsThin(w) == w.state = "thin"
OwnThin(t) == IsThin(lock_word) /\ lock_word.owner = t
OthersThin(t) == IsThin(lock_word) /\ lock_word.owner # t

(* Monitor::MonitorEnter.  Whether a contended turn spins or inflates depends on a *)
(* counter of turns and is left open.                                              *)
MonitorEnter(t) ==
  /\ Reads(t, "enter")
  /\ \/ /\ lock_word.state = "unlocked"
        /\ Load(t, "enter", "cas")
        /\ UNCHANGED made
     \/ /\ OwnThin(t)
        /\ lock_word.count + 1 <= kThinLockMaxCount
        /\ Load(t, "enter", "store")
        /\ UNCHANGED made
     \/ /\ OwnThin(t)
        /\ lock_word.count + 1 > kThinLockMaxCount
        /\ Load(t, "enter", "install")
        /\ Create(t, t, 0)
     \/ /\ OthersThin(t)
        /\ \E next \in {"load", "search"} : Load(t, "enter", next)
        /\ UNCHANGED made
     \/ /\ lock_word.state = "fat"
        /\ Load(t, "enter", "fat")
        /\ UNCHANGED made
     \/ /\ lock_word.state = "hash"
        /\ Load(t, "enter", "install")
        /\ Create(t, NoThread, lock_word.hash)
  /\ UNCHANGED <<word, monitor, waiting, target, depth, fatal>>

(* Monitor::MonitorExit.  A thread that does not own the thin lock looks its owner *)
(* up to report it, and FindThreadByThreadId CHECKs that the owner is suspended.   *)
MonitorExit(t) ==
  /\ Reads(t, "exit")
  /\ \/ /\ lock_word.state \in {"unlocked", "hash"}
        /\ Return(t)
        /\ UNCHANGED fatal
     \/ /\ OthersThin(t)
        /\ Return(t)
        /\ fatal' = IF IsSuspended(lock_word.owner) THEN fatal ELSE "FindThreadByThreadId"
     \/ /\ OwnThin(t)
        /\ Load(t, "exit", "store")
        /\ UNCHANGED fatal
     \/ /\ lock_word.state = "fat"
        /\ Load(t, "exit", "fat")
        /\ UNCHANGED fatal
  /\ UNCHANGED <<word, monitor, waiting, made, target, depth>>

(* Monitor::Wait(Thread*, Object*, ...): an own thin lock is inflated first. *)
WaitOnObject(t) ==
  /\ Reads(t, "wait")
  /\ \/ /\ lock_word.state \in {"unlocked", "hash"} \/ OthersThin(t)
        /\ Return(t)
        /\ UNCHANGED made
     \/ /\ OwnThin(t)
        /\ Load(t, "wait", "install")
        /\ Create(t, t, 0)
     \/ /\ lock_word.state = "fat"
        /\ Load(t, "wait", "fat")
        /\ UNCHANGED made
  /\ UNCHANGED <<word, monitor, waiting, target, depth, fatal>>

(* Monitor::DoNotify.  A thin lock has no waiters. *)
DoNotify(t, o) ==
  /\ Reads(t, o)
  /\ IF lock_word.state = "fat" THEN Load(t, o, "fat") ELSE Return(t)
  /\ UNCHANGED <<word, monitor, waiting, made, target, depth, fatal>>

(* Object::IdentityHashCode. *)
IdentityHashCode(t) ==
  /\ Reads(t, "hash")
  /\ \/ /\ lock_word.state = "unlocked"
        /\ Load(t, "hash", "cas")
        /\ UNCHANGED made
     \/ /\ OwnThin(t)
        /\ Load(t, "hash", "install")
        /\ \E h \in Hash : Create(t, t, h)
     \/ /\ OthersThin(t)
        /\ Load(t, "hash", "search")
        /\ \E h \in Hash : Create(t, NoThread, h)
     \/ /\ lock_word.state = "fat"
        /\ Load(t, "hash", "fat")
        /\ UNCHANGED made
     \/ /\ lock_word.state = "hash"
        /\ Return(t)
        /\ UNCHANGED made
  /\ UNCHANGED <<word, monitor, waiting, target, depth, fatal>>

(* The weak compare-and-swap of an unlocked word: to a thin lock or to a hash code. *)
(* It may fail for no reason, and the caller loads the word again.                  *)
CasUnlocked(t) ==
  /\ pc[t] = "cas"
  /\ \/ /\ lock_word = seen[t]
        /\ \/ op[t] = "enter" /\ lock_word' = Thin(t, 0)
           \/ op[t] = "hash" /\ \E h \in Hash : lock_word' = HashWord(h)
        /\ depth' = IF op[t] = "enter" THEN [depth EXCEPT ![t] = @ + 1] ELSE depth
        /\ Return(t)
     \/ Goto(t, "load") /\ UNCHANGED <<lock_word, depth>>
  /\ UNCHANGED <<monitor, waiting, made, target, fatal>>

(* The owner of a thin lock stores the new word without a compare-and-swap. *)
StoreThin(t) ==
  /\ pc[t] = "store"
  /\ \/ /\ op[t] = "enter"
        /\ lock_word' = Thin(t, seen[t].count + 1)
        /\ depth' = [depth EXCEPT ![t] = @ + 1]
     \/ /\ op[t] = "exit"
        /\ lock_word' = IF seen[t].count # 0 THEN Thin(t, seen[t].count - 1) ELSE Unlocked
        /\ depth' = [depth EXCEPT ![t] = @ - 1]
  /\ Return(t)
  /\ UNCHANGED <<monitor, waiting, made, target, fatal>>

-----------------------------------------------------------------------------
(* Monitor::InflateThinLocked for another's lock, in state kBlocked: raise the      *)
(* owner's suspend count (unless this thread is itself being suspended, when it     *)
(* yields), wait until it has stopped or until the time-out, become runnable again. *)
RequestSuspend(t) ==
  /\ pc[t] = "search"
  /\ MayRun(t)
  /\ target' = [target EXCEPT ![t] = seen[t].owner]
  /\ Goto(t, "suspending")
  /\ UNCHANGED <<word, monitor, waiting, made, depth, fatal>>

(* Mistaken variant: the request counts as granted at once. *)
OwnerStopped_AtOnce(t) ==
  /\ pc[t] = "suspending"
  /\ MayRun(t)
  /\ Goto(t, "suspended")
  /\ UNCHANGED <<word, monitor, waiting, made, target, depth, fatal>>

OwnerStopped(t) ==
  /\ pc[t] = "suspending"
  /\ MayRun(t)
  /\ pc[target[t]] \in SafePoint
  /\ Goto(t, "suspended")
  /\ UNCHANGED <<word, monitor, waiting, made, target, depth, fatal>>

SuspendTimedOut(t) ==
  /\ pc[t] = "suspending"
  /\ MayRun(t)
  /\ target' = [target EXCEPT ![t] = NoThread]
  /\ made' = [made EXCEPT ![t] = Blank]
  /\ Goto(t, "load")
  /\ UNCHANGED <<word, monitor, waiting, depth, fatal>>

BackToRunnable(t) ==
  /\ pc[t] = "suspended"
  /\ MayRun(t)
  /\ Goto(t, "recheck")
  /\ UNCHANGED <<word, monitor, waiting, made, target, depth, fatal>>

(* Mistaken variant: the lock word is not read again. *)
Recheck_Skipped(t) ==
  /\ pc[t] = "recheck"
  /\ Create(t, target[t], made[t].hash)
  /\ Goto(t, "install")
  /\ UNCHANGED <<word, monitor, waiting, target, depth, fatal>>

(* With the owner stopped, look whether the lock is still its thin lock. *)
Recheck(t) ==
  /\ pc[t] = "recheck"
  /\ IF IsThin(lock_word) /\ lock_word.owner = target[t]
     THEN Create(t, target[t], made[t].hash) /\ Goto(t, "install")
     ELSE UNCHANGED made /\ Goto(t, "resume")
  /\ UNCHANGED <<word, monitor, waiting, target, depth, fatal>>

(* The new monitor with the recursion count of the thin lock it replaces. *)
WithCount(t) == IF IsThin(lock_word) THEN [made EXCEPT ![t].count = lock_word.count] ELSE made

(* Monitor::Install up to the compare-and-swap: check the owner, take the recursion *)
(* count over from the thin lock, and abort on a word no inflation may meet.        *)
Install(t) ==
  /\ pc[t] = "install"
  /\ LET o == made[t].owner
         checks == /\ o \in {NoThread, t} \/ IsSuspended(o)
                   /\ lock_word.state # "unlocked"
                   /\ IsThin(lock_word) => lock_word.owner = o
                   /\ lock_word.state = "hash" => lock_word.hash = made[t].hash
     IN fatal' = IF checks THEN fatal ELSE "Install"
  /\ made' = WithCount(t)
  /\ Load(t, op[t], "publish")
  /\ UNCHANGED <<word, monitor, waiting, target, depth>>

(* The compare-and-swap that makes the monitor public, or the release of a monitor *)
(* that lost the race (a fat word) or met a spurious failure.                      *)
Publish(t) ==
  /\ pc[t] = "publish"
  /\ \/ /\ lock_word = seen[t]
        /\ seen[t] # Fat
        /\ lock_word' = Fat
        /\ owner_' = made[t].owner
        /\ lock_count_' = made[t].count
        /\ hash_code_' = made[t].hash
     \/ UNCHANGED <<lock_word, owner_, lock_count_, hash_code_>>
  /\ made' = [made EXCEPT ![t] = Blank]
  /\ Goto(t, IF target[t] = NoThread THEN "load" ELSE "resume")
  /\ UNCHANGED <<num_waiters_, wait_set_, contenders, waiting, target, depth, fatal>>

(* Mistaken variant: the owner is not resumed. *)
ResumeOwner_Forgotten(t) ==
  /\ pc[t] = "resume"
  /\ made' = [made EXCEPT ![t] = Blank]
  /\ Goto(t, "load")
  /\ UNCHANGED <<word, monitor, waiting, target, depth, fatal>>

ResumeOwner(t) ==
  /\ pc[t] = "resume"
  /\ target' = [target EXCEPT ![t] = NoThread]
  /\ made' = [made EXCEPT ![t] = Blank]
  /\ Goto(t, "load")
  /\ UNCHANGED <<word, monitor, waiting, depth, fatal>>

(* Mistaken variant: threads blocked or waiting on the monitor do not keep it. *)
MayDeflate_IgnoresWaiters ==
  owner_ # NoThread => hash_code_ = 0 /\ lock_count_ <= kThinLockMaxCount

(* The conditions under which Deflate gives the monitor up ... *)
MayDeflate ==
  /\ num_waiters_ = 0
  /\ owner_ # NoThread => hash_code_ = 0 /\ lock_count_ <= kThinLockMaxCount

(* Mistaken variant: the hash code goes with the monitor. *)
Deflated_DropsHash == IF owner_ # NoThread THEN Thin(owner_, lock_count_) ELSE Unlocked

(* ... and the lock word it leaves. *)
Deflated ==
  CASE owner_ # NoThread -> Thin(owner_, lock_count_)
    [] owner_ = NoThread /\ hash_code_ # 0 -> HashWord(hash_code_)
    [] OTHER -> Unlocked

(* Monitor::Deflate, called for every monitor while all mutators are stopped. *)
Deflate ==
  /\ \A t \in Thread : pc[t] \in SafePoint
  /\ lock_word.state = "fat"
  /\ MayDeflate
  /\ lock_word' = Deflated
  /\ owner_' = NoThread /\ lock_count_' = 0 /\ hash_code_' = 0
  /\ wait_set_' = <<>> /\ contenders' = {}
  /\ UNCHANGED <<num_waiters_, waiting, control>>

-----------------------------------------------------------------------------
(* Mistaken variant: no contender is woken. *)
SignalContender_Nobody == UNCHANGED contenders

(* ConditionVariable::Signal wakes one sleeper, if there is one. *)
SignalContender == IF contenders = {} THEN UNCHANGED contenders
                   ELSE \E c \in contenders : contenders' = contenders \ {c}

(* One turn of the loop of Monitor::Lock, with monitor_lock_ held and n threads *)
(* counted in num_waiters_.  Lock is called to enter, and by Wait on its way    *)
(* back.                                                                        *)
LockTurn(t, n) ==
  /\ \/ /\ owner_ = NoThread
        /\ owner_' = t
        /\ fatal' = IF lock_count_ = 0 THEN fatal ELSE "Lock"
        /\ UNCHANGED lock_count_
     \/ /\ owner_ = t
        /\ lock_count_' = lock_count_ + 1
        /\ UNCHANGED <<owner_, fatal>>
     \/ /\ owner_ \notin {NoThread, t}
        /\ UNCHANGED <<owner_, lock_count_, fatal>>
  /\ IF owner_ \notin {NoThread, t}
     THEN num_waiters_' = n + 1 /\ Goto(t, "block") /\ UNCHANGED depth
     ELSE /\ num_waiters_' = n
          /\ IF op[t] = "enter"
             THEN Return(t) /\ depth' = [depth EXCEPT ![t] = @ + 1]
             ELSE Goto(t, "restore") /\ UNCHANGED depth
  /\ UNCHANGED <<word, wait_set_, hash_code_, waiting, made, target>>

Lock(t) ==
  /\ pc[t] = "fat"
  /\ op[t] \in {"enter", "relock"}
  /\ LockTurn(t, num_waiters_)
  /\ UNCHANGED contenders

(* In state kBlocked: sleep only if the lock is still taken. *)
Block(t) ==
  /\ pc[t] = "block"
  /\ contenders' = IF owner_ # NoThread THEN contenders \cup {t} ELSE contenders
  /\ Goto(t, "blocked")
  /\ UNCHANGED <<word, owner_, lock_count_, num_waiters_, wait_set_, hash_code_, waiting, made,
                 target, depth, fatal>>

(* monitor_contenders_.Wait also returns when a signal interrupts the futex call. *)
ContenderInterrupted(t) ==
  /\ t \in contenders
  /\ contenders' = contenders \ {t}
  /\ UNCHANGED <<word, owner_, lock_count_, num_waiters_, wait_set_, hash_code_, waiting, control>>

(* Awake, and runnable again: another turn. *)
Unblock(t) ==
  /\ pc[t] = "blocked"
  /\ t \notin contenders
  /\ MayRun(t)
  /\ LockTurn(t, num_waiters_ - 1)
  /\ UNCHANGED contenders

Unlock(t) ==
  /\ pc[t] = "fat"
  /\ op[t] = "exit"
  /\ \/ /\ owner_ # t
        /\ UNCHANGED <<owner_, lock_count_, contenders, depth>>
     \/ /\ owner_ = t
        /\ lock_count_ = 0
        /\ owner_' = NoThread
        /\ SignalContender
        /\ depth' = [depth EXCEPT ![t] = @ - 1]
        /\ UNCHANGED lock_count_
     \/ /\ owner_ = t
        /\ lock_count_ # 0
        /\ lock_count_' = lock_count_ - 1
        /\ depth' = [depth EXCEPT ![t] = @ - 1]
        /\ UNCHANGED <<owner_, contenders>>
  /\ Return(t)
  /\ UNCHANGED <<word, num_waiters_, wait_set_, hash_code_, waiting, made, target, fatal>>

(* Monitor::GetHashCode. *)
GetHashCode(t) ==
  /\ pc[t] = "fat"
  /\ op[t] = "hash"
  /\ IF hash_code_ = 0 THEN hash_code_' \in Hash ELSE UNCHANGED hash_code_
  /\ Return(t)
  /\ UNCHANGED <<word, owner_, lock_count_, num_waiters_, wait_set_, contenders, waiting, made,
                 target, depth, fatal>>

-----------------------------------------------------------------------------
(* Monitor::Wait up to the wait on wait_cond_: monitor_lock_ is released only once *)
(* wait_mutex_ is held, so that no notify or interrupt can come in between.        *)
Wait(t) ==
  /\ pc[t] = "fat"
  /\ op[t] = "wait"
  /\ \/ /\ owner_ # t
        /\ Return(t)
        /\ UNCHANGED <<monitor, waiting>>
     \/ /\ owner_ = t
        /\ wait_set_' = Append(wait_set_, t)
        /\ num_waiters_' = num_waiters_ + 1
        /\ saved' = [saved EXCEPT ![t] = lock_count_]
        /\ lock_count_' = 0
        /\ owner_' = NoThread
        /\ wait_monitor' = [wait_monitor EXCEPT ![t] = TRUE]
        /\ SignalContender
        /\ was_interrupted' = [was_interrupted EXCEPT ![t] = interrupted[t]]
        /\ IF interrupted[t] THEN UNCHANGED asleep /\ Goto(t, "woken")
                             ELSE asleep' = asleep \cup {t} /\ Goto(t, "waiting")
        /\ UNCHANGED <<hash_code_, interrupted>>
  /\ UNCHANGED <<word, made, target, depth, fatal>>

(* The wait times out, or its futex call is interrupted by a signal. *)
WaitTimesOut(t) ==
  /\ t \in asleep
  /\ asleep' = asleep \ {t}
  /\ UNCHANGED <<word, monitor, wait_monitor, interrupted, saved, was_interrupted, control>>

(* Awake, with wait_mutex_ held again. *)
WakeUp(t) ==
  /\ pc[t] = "waiting"
  /\ t \notin asleep
  /\ was_interrupted' = [was_interrupted EXCEPT ![t] = interrupted[t]]
  /\ interrupted' = [interrupted EXCEPT ![t] = FALSE]
  /\ Goto(t, "woken")
  /\ UNCHANGED <<word, monitor, wait_monitor, asleep, saved, made, target, depth, fatal>>

(* Runnable again, the thread clears wait_monitor_ and takes the lock like any other. *)
WaitEnds(t) ==
  /\ pc[t] = "woken"
  /\ MayRun(t)
  /\ wait_monitor' = [wait_monitor EXCEPT ![t] = FALSE]
  /\ pc' = [pc EXCEPT ![t] = "fat"]
  /\ op' = [op EXCEPT ![t] = "relock"]
  /\ UNCHANGED <<word, monitor, interrupted, asleep, saved, was_interrupted, seen, made, target,
                 depth, fatal>>

(* Monitor::RemoveFromWaitSet: the list without the first entry of t, if it has one. *)
RemoveFromWaitSet(t) ==
  \/ t \notin Range(wait_set_) /\ UNCHANGED wait_set_
  \/ \E k \in DOMAIN wait_set_ :
       /\ wait_set_[k] = t
       /\ \A j \in DOMAIN wait_set_ : wait_set_[j] = t => k <= j
       /\ wait_set_' = [i \in 1..(Len(wait_set_) - 1) |->
                          IF i < k THEN wait_set_[i] ELSE wait_set_[i + 1]]

RestoreLock(t) ==
  /\ pc[t] = "restore"
  /\ owner_' = t
  /\ lock_count_' = saved[t]
  /\ num_waiters_' = num_waiters_ - 1
  /\ RemoveFromWaitSet(t)
  /\ saved' = [saved EXCEPT ![t] = 0]
  /\ IF was_interrupted[t] THEN Goto(t, "throw") ELSE Return(t)
  /\ UNCHANGED <<word, hash_code_, contenders, wait_monitor, interrupted, asleep, was_interrupted,
                 made, target, depth, fatal>>

(* InterruptedException is thrown, and the interrupted status cleared. *)
ThrowInterrupted(t) ==
  /\ pc[t] = "throw"
  /\ interrupted' = [interrupted EXCEPT ![t] = FALSE]
  /\ was_interrupted' = [was_interrupted EXCEPT ![t] = FALSE]
  /\ Return(t)
  /\ UNCHANGED <<word, monitor, wait_monitor, asleep, saved, made, target, depth, fatal>>

(* Monitor::Notify takes threads off the wait set up to the first one whose       *)
(* wait_monitor_ is still set, and signals that one.                              *)
Notify(t) ==
  /\ pc[t] = "fat"
  /\ op[t] = "notify"
  /\ LET candidates == {i \in DOMAIN wait_set_ : wait_monitor[wait_set_[i]]}
     IN \/ owner_ # t /\ UNCHANGED <<wait_set_, asleep>>
        \/ /\ owner_ = t
           /\ candidates = {}
           /\ wait_set_' = <<>>
           /\ UNCHANGED asleep
        \/ /\ owner_ = t
           /\ \E first \in candidates :
                /\ \A i \in candidates : first <= i
                /\ wait_set_' = SubSeq(wait_set_, first + 1, Len(wait_set_))
                /\ asleep' = asleep \ {wait_set_[first]}
  /\ Return(t)
  /\ UNCHANGED <<word, owner_, lock_count_, num_waiters_, hash_code_, contenders, wait_monitor,
                 interrupted, saved, was_interrupted, made, target, depth, fatal>>

(* Mistaken variant: wait_monitor_ is not looked at, and nobody signalled. *)
NotifyLocked_Nobody(U) == {}

(* Those of the threads U that Thread::NotifyLocked signals. *)
NotifyLocked(U) == {u \in U : wait_monitor[u]}

(* Monitor::NotifyAll, with Thread::Notify of every thread it takes off. *)
NotifyAll(t) ==
  /\ pc[t] = "fat"
  /\ op[t] = "notifyAll"
  /\ IF owner_ = t
     THEN /\ wait_set_' = <<>>
          /\ asleep' = asleep \ NotifyLocked(Range(wait_set_))
     ELSE UNCHANGED <<wait_set_, asleep>>
  /\ Return(t)
  /\ UNCHANGED <<word, owner_, lock_count_, num_waiters_, hash_code_, contenders, wait_monitor,
                 interrupted, saved, was_interrupted, made, target, depth, fatal>>

(* Thread::Interrupt, from any other thread, and Thread::Interrupted. *)
Interrupt(u) ==
  /\ ~interrupted[u]
  /\ interrupted' = [interrupted EXCEPT ![u] = TRUE]
  /\ asleep' = asleep \ NotifyLocked({u})
  /\ UNCHANGED <<word, monitor, wait_monitor, saved, was_interrupted, control>>

Interrupted(t) ==
  /\ pc[t] = "idle"
  /\ MayRun(t)
  /\ interrupted[t]
  /\ interrupted' = [interrupted EXCEPT ![t] = FALSE]
  /\ UNCHANGED <<word, monitor, wait_monitor, asleep, saved, was_interrupted, control>>

-----------------------------------------------------------------------------
Call(t) ==
  \/ MonitorEnter(t) \/ MonitorExit(t) \/ WaitOnObject(t) \/ IdentityHashCode(t)
  \/ DoNotify(t, "notify") \/ DoNotify(t, "notifyAll")

Swap(t) == CasUnlocked(t) \/ StoreThin(t)

Inflate(t) ==
  \/ RequestSuspend(t) \/ OwnerStopped(t) \/ SuspendTimedOut(t) \/ BackToRunnable(t)
  \/ Recheck(t) \/ Install(t) \/ Publish(t) \/ ResumeOwner(t)

UseMonitor(t) ==
  \/ Lock(t) \/ Block(t) \/ Unblock(t) \/ Unlock(t) \/ GetHashCode(t)
  \/ Wait(t) \/ WakeUp(t) \/ WaitEnds(t) \/ RestoreLock(t) \/ ThrowInterrupted(t)
  \/ Notify(t) \/ NotifyAll(t)

Environment(t) == ContenderInterrupted(t) \/ WaitTimesOut(t) \/ Interrupt(t) \/ Interrupted(t)

(* The model runs on past a failed CHECK, with fatal set. *)
Next ==
  \/ \E t \in Thread : Call(t) \/ Swap(t) \/ Inflate(t) \/ UseMonitor(t) \/ Environment(t)
  \/ Deflate

Spec == Init /\ [][Next]_vars

(* What a thread has started it carries on with; a thread in state kBlocked or *)
(* kWaiting whose wait is over is scheduled again.  Calls, time-outs and       *)
(* interrupts need not happen.                                                 *)
Fairness ==
  \A t \in Thread :
    /\ WF_vars(pc[t] = "load" /\ Call(t))
    /\ WF_vars(Swap(t))
    /\ WF_vars(Inflate(t))
    /\ WF_vars(UseMonitor(t))

FairSpec == Spec /\ Fairness

-----------------------------------------------------------------------------
(* A thread between giving the lock up in Wait and having it back. *)
InWait(t) ==
  \/ pc[t] \in {"waiting", "woken"}
  \/ op[t] = "relock" /\ pc[t] \in {"fat", "block", "blocked"}

(* The lock as the word, or the monitor it leads to, represents it.  After Wait has *)
(* taken the lock back, its count counts as restored.                               *)
Owner ==
  CASE lock_word.state = "thin" -> lock_word.owner
    [] lock_word.state = "fat" -> owner_
    [] OTHER -> NoThread

Count ==
  CASE lock_word.state = "thin" -> lock_word.count
    [] lock_word.state = "fat" -> IF owner_ # NoThread /\ pc[owner_] = "restore"
                                  THEN saved[owner_] ELSE lock_count_
    [] OTHER -> 0

HashOf ==
  CASE lock_word.state = "hash" -> lock_word.hash
    [] lock_word.state = "fat" -> hash_code_
    [] OTHER -> 0

JM == INSTANCE JavaMonitor WITH
        owner <- Owner,
        count <- Count,
        given_up <- [t \in Thread |-> IF InWait(t) THEN saved[t] ELSE -1],
        hash <- HashOf

(* The lock words, the monitor and the inflation protocol implement JavaMonitor: an  *)
(* object's lock has one owner, its recursion count and its hash code survive every *)
(* inflation and deflation, and wait() gives back the count it released.            *)
ImplementsJavaMonitor == JM!Spec

(* Every variable has the type the code gives it. *)
TypeOK ==
  /\ lock_word \in LockWord
  /\ owner_ \in Thread \cup {NoThread}
  /\ lock_count_ \in 0..MaxDepth
  /\ num_waiters_ \in 0..(2 * Cardinality(Thread))
  /\ wait_set_ \in Seq(Thread) /\ Len(wait_set_) <= Cardinality(Thread)
  /\ hash_code_ \in Hash \cup {0}
  /\ contenders \subseteq Thread
  /\ asleep \subseteq Thread
  /\ wait_monitor \in [Thread -> BOOLEAN]
  /\ interrupted \in [Thread -> BOOLEAN]
  /\ was_interrupted \in [Thread -> BOOLEAN]
  /\ pc \in [Thread -> PC]
  /\ op \in [Thread -> Op]
  /\ seen \in [Thread -> LockWord]
  /\ made \in [Thread -> [owner : Thread \cup {NoThread}, count : 0..MaxDepth, hash : Hash \cup {0}]]
  /\ target \in [Thread -> Thread \cup {NoThread}]
  /\ saved \in [Thread -> 0..MaxDepth]
  /\ depth \in [Thread -> 0..MaxDepth]
  /\ fatal \in {"none", "Install", "Lock", "FindThreadByThreadId"}

(* None of the CHECKs of Install, of the constructor of Monitor and of Lock fails: *)
(* in particular no inflation meets an unlocked word.                              *)
NoCheckFails == fatal = "none"

(* The owner of a thin lock may store the lock word without a compare-and-swap in  *)
(* MonitorEnter and MonitorExit: nobody changes it after the owner has loaded it.  *)
PlainStoreIsSafe == \A t \in Thread : pc[t] = "store" => lock_word = seen[t]

(* A monitor is not deflated under a thread that is about to use it, blocked on it, *)
(* waiting on it or coming back from a wait (the num_waiters_ test in Deflate).     *)
MonitorOutlivesUsers ==
  \A t \in Thread :
    pc[t] \in {"fat", "block", "blocked", "waiting", "woken", "restore"} => lock_word = Fat

(* A free monitor never has contenders that are all asleep: whoever gave the lock up *)
(* in Unlock or Wait signalled one, and that one is on its way.                      *)
NoStrandedContender ==
  lock_word = Fat /\ owner_ = NoThread /\ contenders # {} =>
    \E t \in Thread \ contenders : pc[t] \in {"block", "blocked"}

(* A thread asleep in Wait can be woken: it is in the wait set, where Notify and      *)
(* NotifyAll find it, has wait_monitor_ set, without which neither they nor Interrupt *)
(* would signal it, and no interrupt came before it fell asleep.                      *)
SleeperIsReachable ==
  \A t \in asleep : wait_monitor[t] /\ t \in Range(wait_set_) /\ ~interrupted[t]

(* A monitor that is free while a thread is asleep on monitor_contenders_ is taken. *)
FreeMonitorIsTaken ==
  (lock_word = Fat /\ owner_ = NoThread /\ contenders # {}) ~> (owner_ # NoThread)

(* A waiter that was notified or interrupted, or timed out, goes for the lock. *)
WokenWaiterProceeds ==
  \A t \in Thread : (pc[t] = "waiting" /\ t \notin asleep) ~> (pc[t] \notin {"waiting", "woken"})

(* "Check to see if the thread is still waiting": a notify that finds threads asleep  *)
(* in the wait set wakes one, unless a thread that will return normally from its wait *)
(* takes the notification.                                                            *)
NotifyFindsAWaiter ==
  [][\A t \in Thread :
       Notify(t) /\ owner_ = t /\ asleep # {} =>
         \/ asleep' # asleep
         \/ \E u \in Range(wait_set_) \ Range(wait_set_') :
              wait_monitor[u] /\ ~interrupted[u] /\ ~was_interrupted[u]]_vars
=============================================================================
