--------------------------- MODULE MonitorProofs ----------------------------
(***************************************************************************)
(* Proofs about Monitor, for any number of threads, any nesting and any    *)
(* bound on the count of a thin lock: its invariants, and that it          *)
(* implements JavaMonitor.                                                 *)
(*                                                                         *)
(* The inductive invariant IInv says what each thread may rely on between  *)
(* two of its steps: about the word it loaded (ViewOf), about the owner it *)
(* has asked to stop (TargetOf), and about the monitor's owner, counts,    *)
(* contenders and wait set (Books, Counted, Contention, Sleepers).  A step *)
(* of a thread is first shown to keep what concerns that thread (OwnFacts, *)
(* one lemma per action), then what the others rely on (OthersTarget,      *)
(* OthersView).  For the rest the actions are sorted into five forms by    *)
(* what they do to the monitor (StepForms), and each part of the invariant *)
(* and each step of JavaMonitor is argued form by form.                    *)
(***************************************************************************)
EXTENDS Monitor, TLAPS

\* The types the proofs need; lock_count_ and the like have no bound here.
Types ==
  /\ lock_word \in LockWord
  /\ owner_ \in Thread \cup {NoThread}
  /\ lock_count_ \in Nat
  /\ num_waiters_ \in Int
  /\ hash_code_ \in Hash \cup {0}
  /\ wait_monitor \in [Thread -> BOOLEAN]
  /\ interrupted \in [Thread -> BOOLEAN]
  /\ pc \in [Thread -> PC]
  /\ op \in [Thread -> Op]
  /\ seen \in [Thread -> LockWord]
  /\ made \in [Thread -> [owner : Thread \cup {NoThread}, count : Nat, hash : Hash \cup {0}]]
  /\ target \in [Thread -> Thread \cup {NoThread}]
  /\ saved \in [Thread -> Nat]
  /\ depth \in [Thread -> Int]

\* An inflater has a target from its request until it resumes it, and once it has seen
\* the target stop, the target is at a safe point.
TargetOf(t) ==
  /\ pc[t] = "search" => IsThin(seen[t])
  /\ pc[t] \in {"suspending", "suspended", "recheck", "resume"} => target[t] # NoThread
  /\ target[t] # NoThread =>
       pc[t] \in {"suspending", "suspended", "recheck", "install", "publish", "resume"}
  /\ target[t] # NoThread /\ pc[t] # "suspending" => pc[target[t]] \in SafePoint

\* The word an inflater may meet: the thin lock of the owner it inflates for, the hash
\* code it inflates, or the monitor of an inflater that was faster.
Inflatable(t) ==
  /\ made[t].owner \in {NoThread, t, target[t]}
  /\ lock_word # Unlocked
  /\ IsThin(lock_word) => lock_word.owner = made[t].owner
  /\ lock_word.state = "hash" => made[t].owner = NoThread /\ made[t].hash = lock_word.hash

\* What a thread that has loaded the lock word may still rely on.
ViewOf(t) ==
  /\ pc[t] = "cas" => seen[t] = Unlocked /\ op[t] \in {"enter", "hash"}
  /\ pc[t] = "store" =>
       /\ OwnThin(t) /\ seen[t] = lock_word
       /\ op[t] = "enter" => lock_word.count + 1 <= kThinLockMaxCount
  /\ pc[t] = "install" => Inflatable(t) /\ made[t].count = 0
  /\ pc[t] = "publish" =>
       Inflatable(t) /\ made[t].count = IF IsThin(seen[t]) THEN seen[t].count ELSE 0
  /\ pc[t] \in {"fat", "block", "blocked", "waiting", "woken", "restore"} => lock_word = Fat
  /\ pc[t] \in {"block", "blocked"} => op[t] \in {"enter", "relock"}

\* The owner of the monitor is not waiting for it, and a free monitor has no count.
Books ==
  /\ owner_ = NoThread => lock_count_ = 0
  /\ \A t \in Thread : pc[t] = "restore" => owner_ = t /\ lock_count_ = 0
  /\ \A t \in Thread : InWait(t) => owner_ # t

\* How often the Java code of t is inside the lock.
Depth(t) == IF InWait(t) THEN saved[t] + 1 ELSE IF Owner = t THEN Count + 1 ELSE 0

Nesting == \A t \in Thread : depth[t] = Depth(t)

\* num_waiters_ counts the threads blocked in Lock and those in Wait, a thread that
\* is blocked on its way back from Wait twice.
Blocked == {t \in Thread : pc[t] \in {"block", "blocked"}}
Waiters == {t \in Thread : InWait(t) \/ pc[t] = "restore"}

Counted == num_waiters_ = Cardinality(Blocked) + Cardinality(Waiters)

\* Only blocked threads sleep on monitor_contenders_.
Contention ==
  /\ \A t \in contenders : t \in Thread /\ pc[t] = "blocked"
  /\ NoStrandedContender

\* Only waiting threads sleep on their wait_cond_, with wait_monitor_ set.
Sleepers ==
  /\ wait_set_ \in Seq(Thread)
  /\ \A t \in asleep : t \in Thread /\ pc[t] = "waiting"
  /\ \A t \in Thread : pc[t] \in {"waiting", "woken"} => wait_monitor[t]
  /\ SleeperIsReachable

IInv ==
  /\ Types
  /\ \A t \in Thread : TargetOf(t) /\ ViewOf(t)
  /\ Books /\ Counted /\ Contention /\ Sleepers
-----------------------------------------------------------------------------
(* The forms of a lock word, and the steps on a thread's own variables. *)

\* The fields of the four forms of a lock word.
LEMMA WordForms ==
  /\ Unlocked.state = "unlocked" /\ Fat.state = "fat"
  /\ \A o, c : Thin(o, c).state = "thin" /\ Thin(o, c).owner = o /\ Thin(o, c).count = c
  /\ \A h : HashWord(h).state = "hash" /\ HashWord(h).hash = h
BY SMT DEF Unlocked, Fat, Thin, HashWord

\* Each form is a lock word.
LEMMA WordTypes ==
  /\ Unlocked \in LockWord /\ Fat \in LockWord
  /\ \A o \in Thread, c \in 0..kThinLockMaxCount : Thin(o, c) \in LockWord
  /\ \A h \in Hash : HashWord(h) \in LockWord
BY SMT DEF Unlocked, Fat, Thin, HashWord, LockWord, ThinWord

\* A lock word has one of the four forms.
LEMMA WordCases ==
  ASSUME NEW w \in LockWord
  PROVE  /\ w.state \in {"unlocked", "fat", "thin", "hash"}
         /\ w.state = "unlocked" <=> w = Unlocked
         /\ w.state = "fat" <=> w = Fat
         /\ IsThin(w) => w.owner \in Thread /\ w.count \in 0..kThinLockMaxCount
         /\ IsThin(w) => w = Thin(w.owner, w.count)
         /\ w.state = "hash" => w.hash \in Hash /\ w = HashWord(w.hash)
BY SMT DEF Unlocked, Fat, Thin, HashWord, LockWord, ThinWord, IsThin

\* What changing one entry of a thread's variable leaves.
LEMMA Update ==
  ASSUME NEW S, NEW f \in [Thread -> S], NEW t \in Thread, NEW x \in S
  PROVE  /\ [f EXCEPT ![t] = x] \in [Thread -> S]
         /\ [f EXCEPT ![t] = x][t] = x
         /\ \A u \in Thread : u # t => [f EXCEPT ![t] = x][u] = f[u]
OBVIOUS

\* A step of t moves it to x, and nobody else.
Moves(t, x) ==
  /\ pc' \in [Thread -> PC] /\ op' \in [Thread -> Op] /\ seen' \in [Thread -> LockWord]
  /\ pc'[t] = x
  /\ \A u \in Thread : u # t => pc'[u] = pc[u] /\ op'[u] = op[u] /\ seen'[u] = seen[u]

\* Load moves t, which has now seen the current word.
LEMMA LoadMoves ==
  ASSUME Types, NEW t \in Thread, NEW o \in Op, NEW x \in PC, Load(t, o, x)
  PROVE  Moves(t, x) /\ op'[t] = o /\ seen'[t] = lock_word
BY Update, ZenonT(40) DEF Types, Load, Moves

\* Goto moves t and nothing else.
LEMMA GotoMoves ==
  ASSUME Types, NEW t \in Thread, NEW x \in PC, Goto(t, x)
  PROVE  Moves(t, x) /\ op'[t] = op[t] /\ seen'[t] = seen[t]
BY Update, ZenonT(40) DEF Types, Goto, Moves

\* Return takes t back to idle.
LEMMA ReturnMoves ==
  ASSUME Types, NEW t \in Thread, Return(t)
  PROVE  Moves(t, "idle") /\ op'[t] = "none"
<1>1. "idle" \in PC /\ "none" \in Op
  BY Zenon DEF PC, SafePoint, Op
<1> QED
  BY <1>1, Update, WordTypes, ZenonT(40) DEF Types, Return, Moves

\* Nobody else's variables change, and t does not run on where it was stopped.
Frame(t) ==
  /\ \A u \in Thread : u # t => /\ pc'[u] = pc[u] /\ op'[u] = op[u] /\ seen'[u] = seen[u]
                                /\ made'[u] = made[u] /\ target'[u] = target[u]
                                /\ saved'[u] = saved[u]
  /\ pc[t] \notin SafePoint \/ pc'[t] \in SafePoint \/ MayRun(t)

OwnFacts(t) == Types' /\ Frame(t) /\ TargetOf(t)' /\ ViewOf(t)'

\* A thread that starts or repeats an operation has no target, and may run.
LEMMA Reading ==
  ASSUME NEW t \in Thread, NEW o, Reads(t, o), TargetOf(t)
  PROVE  /\ pc[t] \in {"idle", "load"} /\ target[t] = NoThread
         /\ pc[t] \notin SafePoint \/ MayRun(t)
BY Zenon DEF Reads, TargetOf, SafePoint

\* An operation that has loaded the word and goes on without a monitor of its own.
LEMMA LoadsOnly ==
  ASSUME Types, NEW t \in Thread, NEW o \in Op, Reads(t, o), TargetOf(t),
         NEW x \in {"cas", "store", "load", "search", "fat"}, Load(t, o, x),
         UNCHANGED <<word, monitor, waiting, made, target, depth>>,
         x = "cas" => lock_word = Unlocked /\ o \in {"enter", "hash"},
         x = "store" => /\ OwnThin(t)
                        /\ o = "enter" => lock_word.count + 1 <= kThinLockMaxCount,
         x = "search" => IsThin(lock_word),
         x = "fat" => lock_word = Fat
  PROVE  OwnFacts(t)
<1>1. x \in PC
  BY Zenon DEF PC, SafePoint
<1>2. Moves(t, x) /\ op'[t] = o /\ seen'[t] = lock_word
  BY <1>1, LoadMoves, Zenon
<1>3. Types'
  BY <1>2, Zenon DEF Types, Moves, word, monitor, waiting
<1>4. Frame(t)
  BY <1>2, Reading, Zenon DEF Frame, Moves, waiting
<1>5. TargetOf(t)'
  BY <1>2, Reading, Zenon DEF TargetOf, Moves, IsThin
<1>6. ViewOf(t)'
  BY <1>2, Zenon DEF ViewOf, Moves, IsThin, OwnThin, word
<1> QED
  BY <1>3, <1>4, <1>5, <1>6, Zenon DEF OwnFacts

\* Create gives t a monitor of the right type, and leaves the others'.
LEMMA Creates ==
  ASSUME Types, NEW t \in Thread, NEW o \in Thread \cup {NoThread}, NEW h \in Hash \cup {0},
         Create(t, o, h)
  PROVE  /\ made' \in [Thread -> [owner : Thread \cup {NoThread}, count : Nat, hash : Hash \cup {0}]]
         /\ made'[t].owner = o /\ made'[t].count = 0 /\ made'[t].hash = h
         /\ \A u \in Thread : u # t => made'[u] = made[u]
BY SMT DEF Types, Create

\* An operation that has loaded the word and made a monitor for it.
LEMMA LoadsAndCreates ==
  ASSUME Types, NEW t \in Thread, NEW o \in Op, Reads(t, o), TargetOf(t),
         NEW x \in {"install", "search"}, Load(t, o, x),
         NEW w \in {t, NoThread}, NEW h \in Hash \cup {0}, Create(t, w, h),
         UNCHANGED <<word, monitor, waiting, target, depth>>,
         x = "search" => IsThin(lock_word),
         x = "install" => \/ w = t /\ OwnThin(t)
                          \/ w = NoThread /\ lock_word.state = "hash" /\ h = lock_word.hash
  PROVE  OwnFacts(t)
<1>1. x \in PC
  BY Zenon DEF PC, SafePoint
<1>2. Moves(t, x) /\ op'[t] = o /\ seen'[t] = lock_word
  BY <1>1, LoadMoves, Zenon
<1>3. /\ made' \in [Thread -> [owner : Thread \cup {NoThread}, count : Nat, hash : Hash \cup {0}]]
      /\ made'[t].owner = w /\ made'[t].count = 0 /\ made'[t].hash = h
      /\ \A u \in Thread : u # t => made'[u] = made[u]
  BY Creates, Zenon
<1>4. Types'
  BY <1>2, <1>3, Zenon DEF Types, Moves, word, monitor, waiting
<1>5. Frame(t)
  BY <1>2, <1>3, Reading, Zenon DEF Frame, Moves, waiting
<1>6. TargetOf(t)'
  BY <1>2, Reading, Zenon DEF TargetOf, Moves, IsThin
<1>7. x = "install" => Inflatable(t)'
  <2> SUFFICES ASSUME x = "install" PROVE Inflatable(t)'
    OBVIOUS
  <2>1. lock_word' = lock_word
    BY Zenon DEF word
  <2>2. CASE w = t /\ OwnThin(t)
    BY <1>3, <2>1, <2>2, WordForms, Zenon DEF Inflatable, OwnThin, IsThin
  <2>3. CASE w = NoThread /\ lock_word.state = "hash" /\ h = lock_word.hash
    BY <1>3, <2>1, <2>3, WordForms, Zenon DEF Inflatable, IsThin
  <2> QED
    BY <2>2, <2>3
<1>8. ViewOf(t)'
  BY <1>2, <1>3, <1>7, Zenon DEF ViewOf, Moves
<1> QED
  BY <1>4, <1>5, <1>6, <1>8, Zenon DEF OwnFacts

\* The rest of a step of t: types, and nobody else's variables.
Rest(t) ==
  /\ lock_word' \in LockWord /\ hash_code_' \in Hash \cup {0}
  /\ owner_' \in Thread \cup {NoThread} /\ lock_count_' \in Nat
  /\ num_waiters_' \in Int
  /\ wait_monitor' \in [Thread -> BOOLEAN] /\ interrupted' \in [Thread -> BOOLEAN]
  /\ made' \in [Thread -> [owner : Thread \cup {NoThread}, count : Nat, hash : Hash \cup {0}]]
  /\ target' \in [Thread -> Thread \cup {NoThread}]
  /\ saved' \in [Thread -> Nat] /\ depth' \in [Thread -> Int]
  /\ \A u \in Thread : u # t => made'[u] = made[u] /\ target'[u] = target[u] /\ saved'[u] = saved[u]

\* A step that changes none of these variables leaves them within Rest.
LEMMA NothingElse ==
  ASSUME Types, NEW t \in Thread,
         UNCHANGED <<lock_word, owner_, lock_count_, num_waiters_, hash_code_,
                     wait_monitor, interrupted, made, target, saved, depth>>
  PROVE  Rest(t)
BY Zenon DEF Types, Rest

\* The last step of an operation.
LEMMA Returns ==
  ASSUME Types, NEW t \in Thread, Return(t), Rest(t), target'[t] = NoThread
  PROVE  OwnFacts(t)
<1>1. Moves(t, "idle")
  BY ReturnMoves, Zenon
<1>2. Types'
  BY <1>1, Zenon DEF Types, Moves, Rest
<1>3. Frame(t)
  BY <1>1, Zenon DEF Frame, Moves, SafePoint, Rest
<1>4. TargetOf(t)'
  BY <1>1, Zenon DEF TargetOf, Moves
<1>5. ViewOf(t)'
  BY <1>1, Zenon DEF ViewOf, Moves
<1> QED
  BY <1>2, <1>3, <1>4, <1>5, Zenon DEF OwnFacts

\* A step of an operation that does not inflate.
LEMMA GoesOn ==
  ASSUME Types, NEW t \in Thread, Rest(t), target'[t] = NoThread,
         NEW x \in {"load", "throw", "block", "blocked", "waiting", "woken", "restore"}, Goto(t, x),
         x \notin {"load", "throw"} => lock_word' = Fat,
         x \in {"block", "blocked"} => op[t] \in {"enter", "relock"},
         pc[t] \notin SafePoint \/ x \in SafePoint \/ MayRun(t)
  PROVE  OwnFacts(t)
<1>1. x \in PC
  BY Zenon DEF PC, SafePoint
<1>2. Moves(t, x) /\ op'[t] = op[t]
  BY <1>1, GotoMoves, Zenon
<1>3. Types'
  BY <1>2, Zenon DEF Types, Moves, Rest
<1>4. Frame(t)
  BY <1>2, Zenon DEF Frame, Moves, Rest
<1>5. TargetOf(t)'
  BY <1>2, Zenon DEF TargetOf, Moves
<1>6. ViewOf(t)'
  BY <1>2, Zenon DEF ViewOf, Moves
<1> QED
  BY <1>3, <1>4, <1>5, <1>6, Zenon DEF OwnFacts

\* MonitorEnter keeps what concerns t.
LEMMA EnterFacts ==
  ASSUME Types, NEW t \in Thread, TargetOf(t), MonitorEnter(t)
  PROVE  OwnFacts(t)
<1>1. Reads(t, "enter") /\ UNCHANGED <<word, monitor, waiting, target, depth>>
  BY Zenon DEF MonitorEnter
<1>2. "enter" \in Op /\ NoThread \in {t, NoThread} /\ 0 \in Hash \cup {0}
  BY Zenon DEF Op
<1>3. lock_word \in LockWord
  BY Zenon DEF Types
<1>4. CASE lock_word.state = "unlocked" /\ Load(t, "enter", "cas") /\ UNCHANGED made
  BY <1>1, <1>2, <1>3, <1>4, WordCases, LoadsOnly, Zenon
<1>5. CASE /\ OwnThin(t) /\ lock_word.count + 1 <= kThinLockMaxCount
           /\ Load(t, "enter", "store") /\ UNCHANGED made
  BY <1>1, <1>2, <1>5, LoadsOnly, Zenon
<1>6. CASE OwnThin(t) /\ Load(t, "enter", "install") /\ Create(t, t, 0)
  BY <1>1, <1>2, <1>6, LoadsAndCreates, Zenon
<1>7. CASE /\ OthersThin(t) /\ UNCHANGED made
           /\ \E next \in {"load", "search"} : Load(t, "enter", next)
  BY <1>1, <1>2, <1>7, LoadsOnly, Zenon DEF OthersThin
<1>8. CASE lock_word.state = "fat" /\ Load(t, "enter", "fat") /\ UNCHANGED made
  BY <1>1, <1>2, <1>3, <1>8, WordCases, LoadsOnly, Zenon
<1>9. CASE /\ lock_word.state = "hash" /\ Load(t, "enter", "install")
           /\ Create(t, NoThread, lock_word.hash)
  BY <1>1, <1>2, <1>3, <1>9, WordCases, LoadsAndCreates, Zenon
<1> QED
  BY <1>4, <1>5, <1>6, <1>7, <1>8, <1>9, Zenon DEF MonitorEnter

\* MonitorExit keeps what concerns t.
LEMMA ExitFacts ==
  ASSUME Types, NEW t \in Thread, TargetOf(t), MonitorExit(t)
  PROVE  OwnFacts(t)
<1>1. Reads(t, "exit") /\ UNCHANGED <<word, monitor, waiting, made, target, depth>>
  BY Zenon DEF MonitorExit
<1>2. "exit" \in Op /\ "exit" # "enter"
  BY Zenon DEF Op
<1>3. lock_word \in LockWord
  BY Zenon DEF Types
<1>4. CASE Return(t)
  BY <1>1, <1>4, Reading, NothingElse, Returns, Zenon DEF word, monitor, waiting
<1>5. CASE OwnThin(t) /\ Load(t, "exit", "store")
  BY <1>1, <1>2, <1>5, LoadsOnly, Zenon
<1>6. CASE lock_word.state = "fat" /\ Load(t, "exit", "fat")
  BY <1>1, <1>2, <1>3, <1>6, WordCases, LoadsOnly, Zenon
<1> QED
  BY <1>4, <1>5, <1>6, Zenon DEF MonitorExit

\* The call of Wait keeps what concerns t.
LEMMA WaitCallFacts ==
  ASSUME Types, NEW t \in Thread, TargetOf(t), WaitOnObject(t)
  PROVE  OwnFacts(t)
<1>1. Reads(t, "wait") /\ UNCHANGED <<word, monitor, waiting, target, depth>>
  BY Zenon DEF WaitOnObject
<1>2. "wait" \in Op /\ 0 \in Hash \cup {0}
  BY Zenon DEF Op
<1>3. lock_word \in LockWord
  BY Zenon DEF Types
<1>4. CASE Return(t) /\ UNCHANGED made
  BY <1>1, <1>4, Reading, NothingElse, Returns, Zenon DEF word, monitor, waiting
<1>5. CASE OwnThin(t) /\ Load(t, "wait", "install") /\ Create(t, t, 0)
  BY <1>1, <1>2, <1>5, LoadsAndCreates, Zenon
<1>6. CASE lock_word.state = "fat" /\ Load(t, "wait", "fat") /\ UNCHANGED made
  BY <1>1, <1>2, <1>3, <1>6, WordCases, LoadsOnly, Zenon
<1> QED
  BY <1>4, <1>5, <1>6, Zenon DEF WaitOnObject

\* The calls of Notify and NotifyAll keep what concerns t.
LEMMA NotifyCallFacts ==
  ASSUME Types, NEW t \in Thread, TargetOf(t), NEW o \in {"notify", "notifyAll"}, DoNotify(t, o)
  PROVE  OwnFacts(t)
<1>1. Reads(t, o) /\ UNCHANGED <<word, monitor, waiting, made, target, depth>>
  BY Zenon DEF DoNotify
<1>2. o \in Op
  BY Zenon DEF Op
<1>3. lock_word \in LockWord
  BY Zenon DEF Types
<1>4. CASE Return(t)
  BY <1>1, <1>4, Reading, NothingElse, Returns, Zenon DEF word, monitor, waiting
<1>5. CASE lock_word.state = "fat" /\ Load(t, o, "fat")
  BY <1>1, <1>2, <1>3, <1>5, WordCases, LoadsOnly, Zenon
<1> QED
  BY <1>4, <1>5, Zenon DEF DoNotify

\* IdentityHashCode keeps what concerns t.
LEMMA HashCallFacts ==
  ASSUME Types, NEW t \in Thread, TargetOf(t), IdentityHashCode(t)
  PROVE  OwnFacts(t)
<1>1. Reads(t, "hash") /\ UNCHANGED <<word, monitor, waiting, target, depth>>
  BY Zenon DEF IdentityHashCode
<1>2. "hash" \in Op /\ NoThread \in {t, NoThread}
  BY Zenon DEF Op
<1>3. lock_word \in LockWord
  BY Zenon DEF Types
<1>4. CASE lock_word.state = "unlocked" /\ Load(t, "hash", "cas") /\ UNCHANGED made
  BY <1>1, <1>2, <1>3, <1>4, WordCases, LoadsOnly, Zenon
<1>5. CASE OwnThin(t) /\ Load(t, "hash", "install") /\ \E h \in Hash : Create(t, t, h)
  BY <1>1, <1>2, <1>5, LoadsAndCreates, Zenon
<1>6. CASE OthersThin(t) /\ Load(t, "hash", "search") /\ \E h \in Hash : Create(t, NoThread, h)
  BY <1>1, <1>2, <1>6, LoadsAndCreates, Zenon DEF OthersThin
<1>7. CASE lock_word.state = "fat" /\ Load(t, "hash", "fat") /\ UNCHANGED made
  BY <1>1, <1>2, <1>3, <1>7, WordCases, LoadsOnly, Zenon
<1>8. CASE Return(t) /\ UNCHANGED made
  BY <1>1, <1>8, Reading, NothingElse, Returns, Zenon DEF word, monitor, waiting
<1> QED
  BY <1>4, <1>5, <1>6, <1>7, <1>8, Zenon DEF IdentityHashCode

\* The compare-and-swap and the plain store keep what concerns t.
LEMMA SwapFacts ==
  ASSUME Types, NEW t \in Thread, TargetOf(t), ViewOf(t), Swap(t)
  PROVE  OwnFacts(t)
<1>1. /\ pc[t] \in {"cas", "store"} /\ target[t] = NoThread /\ target' = target
      /\ UNCHANGED <<monitor, waiting, made>>
  BY Zenon DEF TargetOf, Swap, CasUnlocked, StoreThin
<1>2. /\ [depth EXCEPT ![t] = @ + 1] \in [Thread -> Int]
      /\ [depth EXCEPT ![t] = @ - 1] \in [Thread -> Int]
  BY SMT DEF Types
<1>3. 0 \in 0..kThinLockMaxCount
  BY MaxCountIsNat, SMT
<1>4. CASE pc[t] = "cas" /\ Goto(t, "load") /\ UNCHANGED <<lock_word, depth>>
  BY <1>1, <1>4, NothingElse, GoesOn, Zenon DEF monitor, waiting, SafePoint
<1>5. CASE Return(t) /\ lock_word' \in LockWord /\ depth' \in [Thread -> Int]
  BY <1>1, <1>5, Returns, Zenon DEF Rest, Types, monitor, waiting
<1>6. CASE CasUnlocked(t)
  <2>1. CASE Return(t) /\ op[t] = "enter" /\ lock_word' = Thin(t, 0)
             /\ depth' = [depth EXCEPT ![t] = @ + 1]
    BY <1>2, <1>3, <1>5, <2>1, WordTypes, Zenon
  <2>2. CASE Return(t) /\ (\E h \in Hash : lock_word' = HashWord(h)) /\ depth' = depth
    BY <1>5, <2>2, WordTypes, Zenon DEF Types
  <2> QED
    BY <1>4, <1>6, <2>1, <2>2, Zenon DEF CasUnlocked
<1>7. CASE StoreThin(t)
  <2>1. IsThin(seen[t]) /\ seen[t].count \in 0..kThinLockMaxCount
        /\ (op[t] = "enter" => seen[t].count + 1 <= kThinLockMaxCount)
    BY <1>7, WordCases, Zenon DEF StoreThin, ViewOf, OwnThin, Types
  <2>2. /\ op[t] = "enter" => seen[t].count + 1 \in 0..kThinLockMaxCount
        /\ seen[t].count # 0 => seen[t].count - 1 \in 0..kThinLockMaxCount
    BY <2>1, MaxCountIsNat, SMT
  <2> QED
    BY <1>2, <1>5, <1>7, <2>2, WordTypes, Zenon DEF StoreThin
<1> QED
  BY <1>6, <1>7, Zenon DEF Swap

\* The blank monitor has the type of a monitor.
LEMMA BlankTyped ==
  Blank \in [owner : Thread \cup {NoThread}, count : Nat, hash : Hash \cup {0}]
BY SMT DEF Blank

\* Releasing the monitor t made keeps the type.
LEMMA Blanked ==
  ASSUME Types, NEW t \in Thread, made' = [made EXCEPT ![t] = Blank]
  PROVE  /\ made' \in [Thread -> [owner : Thread \cup {NoThread}, count : Nat, hash : Hash \cup {0}]]
         /\ \A u \in Thread : u # t => made'[u] = made[u]
BY BlankTyped, Update, ZenonT(40) DEF Types

\* The fields of the monitor t made have their types.
LEMMA MadeTyped ==
  ASSUME Types, NEW t \in Thread
  PROVE  /\ made[t].owner \in Thread \cup {NoThread}
         /\ made[t].count \in Nat /\ made[t].hash \in Hash \cup {0}
BY SMT DEF Types

\* Asking the owner to stop keeps what concerns t.
LEMMA RequestFacts ==
  ASSUME Types, NEW t \in Thread, TargetOf(t), RequestSuspend(t)
  PROVE  OwnFacts(t)
<1>1. /\ Goto(t, "suspending") /\ "suspending" \in PC \cap SafePoint
      /\ UNCHANGED <<word, monitor, waiting, made, depth>>
  BY Zenon DEF RequestSuspend, PC, SafePoint
<1>2. Moves(t, "suspending")
  BY <1>1, GotoMoves, Zenon
<1>3. seen[t].owner \in Thread /\ target' = [target EXCEPT ![t] = seen[t].owner]
  BY WordCases, Zenon DEF RequestSuspend, TargetOf, Types
<1>4. /\ target' \in [Thread -> Thread \cup {NoThread}] /\ target'[t] = seen[t].owner
      /\ \A u \in Thread : u # t => target'[u] = target[u]
  BY <1>3, Update, ZenonT(40) DEF Types
<1>5. Types' /\ Frame(t)
  BY <1>1, <1>2, <1>4, Zenon DEF Types, Moves, Frame, word, monitor, waiting
<1>6. TargetOf(t)' /\ ViewOf(t)'
  BY <1>2, <1>3, <1>4, NoThreadIsNone, Zenon DEF TargetOf, ViewOf, Moves
<1> QED
  BY <1>5, <1>6, Zenon DEF OwnFacts

\* A step of an inflater that keeps its target.
LEMMA KeepsTarget ==
  ASSUME Types, NEW t \in Thread, Rest(t), target' = target, target[t] # NoThread,
         NEW x \in {"suspended", "recheck", "resume"}, Goto(t, x),
         pc[target[t]] \in SafePoint, target[t] # t \/ x \in SafePoint,
         pc[t] \notin SafePoint \/ x \in SafePoint \/ MayRun(t)
  PROVE  OwnFacts(t)
<1>1. x \in PC /\ target[t] \in Thread
  BY Zenon DEF PC, SafePoint, Types
<1>2. Moves(t, x)
  BY <1>1, GotoMoves, Zenon
<1>3. Types'
  BY <1>2, Zenon DEF Types, Moves, Rest
<1>4. Frame(t)
  BY <1>2, Zenon DEF Frame, Moves, Rest
<1>5. pc'[target'[t]] \in SafePoint
  BY <1>1, <1>2, Zenon DEF Moves
<1>6. TargetOf(t)'
  BY <1>2, <1>5, Zenon DEF TargetOf, Moves
<1>7. ViewOf(t)'
  BY <1>2, Zenon DEF ViewOf, Moves
<1> QED
  BY <1>3, <1>4, <1>6, <1>7, Zenon DEF OwnFacts

\* The steps between the request and the second look keep what concerns t.
LEMMA SuspendFacts ==
  ASSUME Types, NEW t \in Thread, TargetOf(t),
         OwnerStopped(t) \/ SuspendTimedOut(t) \/ BackToRunnable(t) \/ ResumeOwner(t)
  PROVE  OwnFacts(t)
<1>1. target[t] # NoThread
  BY Zenon DEF TargetOf, OwnerStopped, SuspendTimedOut, BackToRunnable, ResumeOwner
<1>2. CASE OwnerStopped(t)
  <2>1. Rest(t)
    BY <1>2, NothingElse, Zenon DEF OwnerStopped, word, monitor, waiting
  <2> QED
    BY <1>1, <1>2, <2>1, KeepsTarget, Zenon DEF OwnerStopped, SafePoint
<1>3. CASE BackToRunnable(t)
  <2>1. Rest(t)
    BY <1>3, NothingElse, Zenon DEF BackToRunnable, word, monitor, waiting
  <2>2. target[t] # t /\ pc[target[t]] \in SafePoint
    BY <1>1, <1>3, Zenon DEF BackToRunnable, MayRun, Suspenders, TargetOf
  <2> QED
    BY <1>1, <1>3, <2>1, <2>2, KeepsTarget, Zenon DEF BackToRunnable
<1>4. CASE SuspendTimedOut(t) \/ ResumeOwner(t)
  <2>1. /\ Goto(t, "load") /\ UNCHANGED <<word, monitor, waiting, depth>>
        /\ target' = [target EXCEPT ![t] = NoThread] /\ made' = [made EXCEPT ![t] = Blank]
        /\ pc[t] \notin SafePoint \/ MayRun(t)
    BY <1>4, Zenon DEF SuspendTimedOut, ResumeOwner, SafePoint
  <2>2. /\ target' \in [Thread -> Thread \cup {NoThread}] /\ target'[t] = NoThread
        /\ \A u \in Thread : u # t => target'[u] = target[u]
    BY <2>1, Update, Zenon DEF Types
  <2>3. Rest(t)
    BY <2>1, <2>2, Blanked, Zenon DEF Rest, Types, word, monitor, waiting
  <2> QED
    BY <2>1, <2>2, <2>3, GoesOn, Zenon
<1> QED
  BY <1>2, <1>3, <1>4

\* Recheck keeps what concerns t: what it installs for is what it has seen.
LEMMA RecheckFacts ==
  ASSUME Types, NEW t \in Thread, TargetOf(t), Recheck(t)
  PROVE  OwnFacts(t)
<1>1. /\ pc[t] = "recheck" /\ UNCHANGED <<word, monitor, waiting, target, depth>>
      /\ target[t] \in Thread /\ target[t] # NoThread /\ target[t] # t
      /\ pc[target[t]] \in SafePoint
  BY Zenon DEF Recheck, TargetOf, Types, SafePoint
<1>2. CASE UNCHANGED made /\ Goto(t, "resume")
  BY <1>1, <1>2, NothingElse, KeepsTarget, Zenon DEF word, monitor, waiting, SafePoint
<1>3. CASE /\ IsThin(lock_word) /\ lock_word.owner = target[t]
           /\ Create(t, target[t], made[t].hash) /\ Goto(t, "install")
  <2>1. made[t].hash \in Hash \cup {0}
    BY MadeTyped, Zenon
  <2>2. /\ made' \in [Thread -> [owner : Thread \cup {NoThread}, count : Nat, hash : Hash \cup {0}]]
        /\ made'[t].owner = target[t] /\ made'[t].count = 0
        /\ \A u \in Thread : u # t => made'[u] = made[u]
    BY <1>1, <1>3, <2>1, Creates, ZenonT(40)
  <2>3. "install" \in PC
    BY Zenon DEF PC
  <2>4. Moves(t, "install")
    BY <1>3, <2>3, GotoMoves, Zenon
  <2>5. Types'
    BY <1>1, <2>2, <2>4, Zenon DEF Types, Moves, word, monitor, waiting
  <2>6. Frame(t)
    BY <1>1, <2>2, <2>4, Zenon DEF Frame, Moves, waiting, SafePoint
  <2>7. TargetOf(t)'
    BY <1>1, <2>4, Zenon DEF TargetOf, Moves
  <2>8. ViewOf(t)'
    BY <1>1, <1>3, <2>2, <2>4, WordForms, Zenon DEF ViewOf, Moves, Inflatable, IsThin, word
  <2> QED
    BY <2>5, <2>6, <2>7, <2>8, Zenon DEF OwnFacts
<1> QED
  BY <1>2, <1>3, Zenon DEF Recheck

\* WithCount takes the count of a thin word over.
LEMMA CountTaken ==
  ASSUME Types, NEW t \in Thread, made' = WithCount(t)
  PROVE  /\ made' \in [Thread -> [owner : Thread \cup {NoThread}, count : Nat, hash : Hash \cup {0}]]
         /\ made'[t].owner = made[t].owner /\ made'[t].hash = made[t].hash
         /\ made'[t].count = IF IsThin(lock_word) THEN lock_word.count ELSE made[t].count
         /\ \A u \in Thread : u # t => made'[u] = made[u]
<1>1. IsThin(lock_word) => lock_word.count \in Nat
  BY WordCases, SMT DEF Types
<1>2. made \in [Thread -> [owner : Thread \cup {NoThread}, count : Nat, hash : Hash \cup {0}]]
  BY Zenon DEF Types
<1>3. CASE IsThin(lock_word)
  <2>1. made' = [made EXCEPT ![t].count = lock_word.count]
    BY <1>3, Zenon DEF WithCount
  <2> QED
    BY <1>1, <1>2, <1>3, <2>1, SMT
<1>4. CASE ~IsThin(lock_word)
  BY <1>2, <1>4, Zenon DEF WithCount
<1> QED
  BY <1>3, <1>4

\* Install keeps what concerns t.
LEMMA InstallFacts ==
  ASSUME Types, NEW t \in Thread, TargetOf(t), ViewOf(t), Install(t)
  PROVE  OwnFacts(t)
<1>1. /\ pc[t] = "install" /\ UNCHANGED <<word, monitor, waiting, target, depth>>
      /\ made' = WithCount(t) /\ Load(t, op[t], "publish") /\ lock_word' = lock_word
  BY Zenon DEF Install, word
<1>2. Inflatable(t) /\ made[t].count = 0
  BY <1>1, Zenon DEF ViewOf
<1>3. "publish" \in PC /\ op[t] \in Op
  BY Zenon DEF PC, Types
<1>4. Moves(t, "publish") /\ seen'[t] = lock_word
  BY <1>1, <1>3, LoadMoves, Zenon
<1>5. /\ made' \in [Thread -> [owner : Thread \cup {NoThread}, count : Nat, hash : Hash \cup {0}]]
      /\ made'[t].owner = made[t].owner /\ made'[t].hash = made[t].hash
      /\ made'[t].count = IF IsThin(lock_word) THEN lock_word.count ELSE made[t].count
      /\ \A u \in Thread : u # t => made'[u] = made[u]
  BY <1>1, CountTaken, Zenon
<1>6. Types'
  BY <1>1, <1>4, <1>5, Zenon DEF Types, Moves, word, monitor, waiting
<1>7. Frame(t)
  BY <1>1, <1>4, <1>5, Zenon DEF Frame, Moves, waiting, SafePoint
<1>8. TargetOf(t)'
  <2>1. target[t] # NoThread => target[t] \in Thread /\ target[t] # t /\ pc[target[t]] \in SafePoint
    BY <1>1, Zenon DEF TargetOf, Types, SafePoint
  <2> QED
    BY <1>1, <1>4, <2>1, Zenon DEF TargetOf, Moves
<1>9. Inflatable(t)'
  BY <1>1, <1>2, <1>5, Zenon DEF Inflatable, IsThin
<1>10. made'[t].count = IF IsThin(seen'[t]) THEN seen'[t].count ELSE 0
  BY <1>2, <1>4, <1>5, Zenon
<1>11. ViewOf(t)'
  BY <1>4, <1>9, <1>10, Zenon DEF ViewOf, Moves, IsThin
<1> QED
  BY <1>6, <1>7, <1>8, <1>11, Zenon DEF OwnFacts

\* Publish keeps what concerns t.
LEMMA PublishFacts ==
  ASSUME Types, NEW t \in Thread, TargetOf(t), Publish(t)
  PROVE  OwnFacts(t)
<1>1. /\ pc[t] = "publish" /\ pc[t] \notin SafePoint /\ made' = [made EXCEPT ![t] = Blank]
      /\ Goto(t, IF target[t] = NoThread THEN "load" ELSE "resume")
      /\ UNCHANGED <<num_waiters_, wait_set_, contenders, waiting, target, depth>>
  BY Zenon DEF Publish, SafePoint
<1>2. /\ lock_word' \in LockWord /\ owner_' \in Thread \cup {NoThread}
      /\ lock_count_' \in Nat /\ hash_code_' \in Hash \cup {0}
  BY MadeTyped, WordTypes, Zenon DEF Publish, Types
<1>3. Rest(t)
  BY <1>1, <1>2, Blanked, Zenon DEF Rest, Types, waiting
<1>4. CASE target[t] = NoThread
  BY <1>1, <1>3, <1>4, GoesOn, Zenon
<1>5. CASE target[t] # NoThread
  <2>1. pc[target[t]] \in SafePoint /\ target[t] # t
    BY <1>1, <1>5, Zenon DEF TargetOf
  <2> QED
    BY <1>1, <1>3, <1>5, <2>1, KeepsTarget, Zenon
<1> QED
  BY <1>4, <1>5

-----------------------------------------------------------------------------
(* The steps on the monitor. *)

\* A step of t that leaves what others own alone and whose numbers are typed.
LEMMA RestOfUse ==
  ASSUME Types, NEW t \in Thread,
         UNCHANGED <<word, made, target>>, hash_code_' \in Hash \cup {0},
         owner_' \in Thread \cup {NoThread}, lock_count_' \in Nat,
         num_waiters_' \in Int,
         wait_monitor' \in [Thread -> BOOLEAN], interrupted' \in [Thread -> BOOLEAN],
         saved' \in [Thread -> Nat], \A u \in Thread : u # t => saved'[u] = saved[u],
         depth' \in [Thread -> Int]
  PROVE  Rest(t)
BY Zenon DEF Types, Rest, word

\* Counting up and down stays within the types.
LEMMA Arithmetic ==
  ASSUME Types, NEW t \in Thread
  PROVE  /\ [depth EXCEPT ![t] = @ + 1] \in [Thread -> Int]
         /\ [depth EXCEPT ![t] = @ - 1] \in [Thread -> Int]
         /\ num_waiters_ + 1 \in Int /\ num_waiters_ - 1 \in Int
         /\ (num_waiters_ - 1) + 1 \in Int
         /\ lock_count_ + 1 \in Nat /\ (lock_count_ # 0 => lock_count_ - 1 \in Nat)
         /\ 0 \in Nat
BY SMT DEF Types

\* A thread in the monitor has no target, and the word is fat.
LEMMA InMonitor ==
  ASSUME NEW t \in Thread, TargetOf(t), ViewOf(t),
         pc[t] \in {"fat", "block", "blocked", "waiting", "woken", "restore"}
  PROVE  target[t] = NoThread /\ lock_word = Fat
BY Zenon DEF TargetOf, ViewOf

\* A turn of Lock keeps what concerns t.
LEMMA TurnFacts ==
  ASSUME Types, NEW t \in Thread, TargetOf(t), ViewOf(t), Lock(t) \/ Unblock(t)
  PROVE  OwnFacts(t)
<1>1. PICK n \in {num_waiters_, num_waiters_ - 1} : LockTurn(t, n)
  BY Zenon DEF Lock, Unblock
<1>2. /\ pc[t] \in {"fat", "blocked"} /\ op[t] \in {"enter", "relock"}
      /\ pc[t] \notin SafePoint \/ MayRun(t)
  BY Zenon DEF Lock, Unblock, ViewOf, SafePoint
<1>3. target[t] = NoThread /\ lock_word = Fat
  BY <1>2, InMonitor, Zenon
<1>4. UNCHANGED <<word, wait_set_, hash_code_, waiting, made, target>>
  BY <1>1, Zenon DEF LockTurn
<1>5. owner_' \in Thread \cup {NoThread} /\ lock_count_' \in Nat
  BY <1>1, Arithmetic, Zenon DEF LockTurn, Types
<1>6. num_waiters_' \in Int /\ depth' \in [Thread -> Int]
  BY <1>1, Arithmetic, Zenon DEF LockTurn, Types
<1>7. Rest(t)
  BY <1>4, <1>5, <1>6, RestOfUse, Zenon DEF Types, waiting
<1>8. CASE Goto(t, "block")
  BY <1>2, <1>3, <1>4, <1>7, <1>8, GoesOn, Zenon DEF word, SafePoint
<1>9. CASE Goto(t, "restore")
  BY <1>2, <1>3, <1>4, <1>7, <1>9, GoesOn, Zenon DEF word
<1>10. CASE Return(t)
  BY <1>3, <1>4, <1>7, <1>10, Returns, Zenon
<1> QED
  BY <1>1, <1>8, <1>9, <1>10, Zenon DEF LockTurn

\* Block keeps what concerns t.
LEMMA BlockFacts ==
  ASSUME Types, NEW t \in Thread, TargetOf(t), ViewOf(t), Block(t)
  PROVE  OwnFacts(t)
<1>1. /\ pc[t] = "block" /\ Goto(t, "blocked") /\ op[t] \in {"enter", "relock"}
      /\ "blocked" \in SafePoint
  BY Zenon DEF Block, ViewOf, SafePoint
<1>2. UNCHANGED <<word, owner_, lock_count_, num_waiters_, wait_set_, hash_code_, waiting, made,
                  target, depth>>
  BY Zenon DEF Block
<1>3. Rest(t)
  BY <1>2, NothingElse, Zenon DEF word, waiting
<1> QED
  BY <1>1, <1>2, <1>3, InMonitor, GoesOn, Zenon DEF word

\* Unlock keeps what concerns t.
LEMMA UnlockFacts ==
  ASSUME Types, NEW t \in Thread, TargetOf(t), ViewOf(t), Unlock(t)
  PROVE  OwnFacts(t)
<1>1. /\ pc[t] = "fat" /\ Return(t)
      /\ UNCHANGED <<word, num_waiters_, wait_set_, hash_code_, waiting, made, target>>
  BY Zenon DEF Unlock
<1>2. owner_' \in Thread \cup {NoThread} /\ lock_count_' \in Nat /\ depth' \in [Thread -> Int]
  BY Arithmetic, Zenon DEF Unlock, Types
<1>3. Rest(t)
  BY <1>1, <1>2, RestOfUse, Zenon DEF Types, waiting
<1> QED
  BY <1>1, <1>3, InMonitor, Returns, Zenon

\* GetHashCode keeps what concerns t.
LEMMA HashFacts ==
  ASSUME Types, NEW t \in Thread, TargetOf(t), ViewOf(t), GetHashCode(t)
  PROVE  OwnFacts(t)
<1>1. /\ pc[t] = "fat" /\ Return(t) /\ hash_code_' \in Hash \cup {0}
      /\ UNCHANGED <<word, owner_, lock_count_, num_waiters_, wait_set_, waiting, made, target, depth>>
  BY Zenon DEF GetHashCode, Types
<1>2. Rest(t)
  BY <1>1, RestOfUse, Zenon DEF Types, waiting
<1> QED
  BY <1>1, <1>2, InMonitor, Returns, Zenon

\* Wait keeps what concerns t.
LEMMA WaitFacts ==
  ASSUME Types, NEW t \in Thread, TargetOf(t), ViewOf(t), Wait(t)
  PROVE  OwnFacts(t)
<1>1. pc[t] = "fat" /\ pc[t] \notin SafePoint /\ UNCHANGED <<word, made, target, depth>>
  BY Zenon DEF Wait, SafePoint
<1>2. target[t] = NoThread /\ lock_word = Fat
  BY <1>1, InMonitor, Zenon
<1>3. CASE Return(t) /\ UNCHANGED <<monitor, waiting>>
  BY <1>1, <1>2, <1>3, NothingElse, Returns, Zenon DEF word, monitor, waiting
<1>4. CASE owner_ = t
  <2>1. /\ num_waiters_' = num_waiters_ + 1
        /\ saved' = [saved EXCEPT ![t] = lock_count_] /\ lock_count_' = 0 /\ owner_' = NoThread
        /\ wait_monitor' = [wait_monitor EXCEPT ![t] = TRUE]
        /\ UNCHANGED <<hash_code_, interrupted>>
        /\ Goto(t, "woken") \/ Goto(t, "waiting")
    BY <1>4, Zenon DEF Wait
  <2>2. num_waiters_' \in Int /\ lock_count_' \in Nat
    BY <2>1, Arithmetic, Zenon DEF Types
  <2>3. saved' \in [Thread -> Nat] /\ \A u \in Thread : u # t => saved'[u] = saved[u]
    BY <2>1, Update, Zenon DEF Types
  <2>4. wait_monitor' \in [Thread -> BOOLEAN]
    BY <2>1, Update, Zenon DEF Types
  <2>5. Rest(t)
    BY <1>1, <2>1, <2>2, <2>3, <2>4, RestOfUse, Zenon DEF Types
  <2> QED
    BY <1>1, <1>2, <2>1, <2>5, GoesOn, Zenon DEF word
<1> QED
  BY <1>3, <1>4, Zenon DEF Wait

\* WakeUp keeps what concerns t.
LEMMA WakeFacts ==
  ASSUME Types, NEW t \in Thread, TargetOf(t), ViewOf(t), WakeUp(t)
  PROVE  OwnFacts(t)
<1>1. /\ pc[t] = "waiting" /\ Goto(t, "woken") /\ "woken" \in SafePoint
      /\ interrupted' = [interrupted EXCEPT ![t] = FALSE]
      /\ UNCHANGED <<word, monitor, wait_monitor, saved, made, target, depth>>
  BY Zenon DEF WakeUp, SafePoint
<1>2. interrupted' \in [Thread -> BOOLEAN]
  BY <1>1, Update, Zenon DEF Types
<1>3. Rest(t)
  BY <1>1, <1>2, RestOfUse, Zenon DEF Types, monitor
<1> QED
  BY <1>1, <1>3, InMonitor, GoesOn, Zenon DEF word

\* WaitEnds keeps what concerns t.
LEMMA WaitEndsFacts ==
  ASSUME Types, NEW t \in Thread, TargetOf(t), ViewOf(t), WaitEnds(t)
  PROVE  OwnFacts(t)
<1>1. /\ pc[t] = "woken" /\ MayRun(t) /\ wait_monitor' = [wait_monitor EXCEPT ![t] = FALSE]
      /\ UNCHANGED <<word, monitor, interrupted, saved, made, target, depth>>
  BY Zenon DEF WaitEnds
<1>2. Moves(t, "fat") /\ op'[t] = "relock"
  <2>1. "fat" \in PC /\ "relock" \in Op
    BY Zenon DEF PC, Op
  <2> QED
    BY <2>1, Update, Zenon DEF WaitEnds, Moves, Types
<1>3. wait_monitor' \in [Thread -> BOOLEAN]
  BY <1>1, Update, Zenon DEF Types
<1>4. Types'
  BY <1>1, <1>2, <1>3, Zenon DEF Types, Moves, word, monitor
<1>5. Frame(t)
  BY <1>1, <1>2, Zenon DEF Frame, Moves
<1>6. TargetOf(t)'
  BY <1>1, <1>2, InMonitor, Zenon DEF TargetOf, Moves
<1>7. ViewOf(t)'
  BY <1>1, <1>2, InMonitor, Zenon DEF ViewOf, Moves, word
<1> QED
  BY <1>4, <1>5, <1>6, <1>7, Zenon DEF OwnFacts

\* RestoreLock keeps what concerns t.
LEMMA RestoreFacts ==
  ASSUME Types, NEW t \in Thread, TargetOf(t), ViewOf(t), RestoreLock(t)
  PROVE  OwnFacts(t)
<1>1. /\ pc[t] = "restore" /\ pc[t] \notin SafePoint
      /\ owner_' = t /\ lock_count_' = saved[t] /\ num_waiters_' = num_waiters_ - 1
      /\ saved' = [saved EXCEPT ![t] = 0]
      /\ Goto(t, "throw") \/ Return(t)
      /\ UNCHANGED <<word, hash_code_, wait_monitor, interrupted, made, target, depth>>
  BY Zenon DEF RestoreLock, SafePoint
<1>2. num_waiters_' \in Int /\ lock_count_' \in Nat
  BY <1>1, Arithmetic, Zenon DEF Types
<1>3. saved' \in [Thread -> Nat] /\ \A u \in Thread : u # t => saved'[u] = saved[u]
  BY <1>1, Arithmetic, Update, ZenonT(40) DEF Types
<1>4. Rest(t)
  BY <1>1, <1>2, <1>3, RestOfUse, Zenon DEF Types
<1> QED
  BY <1>1, <1>4, InMonitor, Returns, GoesOn, Zenon

\* ThrowInterrupted keeps what concerns t.
LEMMA ThrowFacts ==
  ASSUME Types, NEW t \in Thread, TargetOf(t), ThrowInterrupted(t)
  PROVE  OwnFacts(t)
<1>1. /\ pc[t] = "throw" /\ Return(t) /\ interrupted' = [interrupted EXCEPT ![t] = FALSE]
      /\ UNCHANGED <<word, monitor, wait_monitor, saved, made, target, depth>>
  BY Zenon DEF ThrowInterrupted
<1>2. interrupted' \in [Thread -> BOOLEAN] /\ target[t] = NoThread
  BY <1>1, Update, Zenon DEF Types, TargetOf
<1>3. Rest(t)
  BY <1>1, <1>2, RestOfUse, Zenon DEF Types, monitor
<1> QED
  BY <1>1, <1>2, <1>3, Returns, Zenon

\* Notify and NotifyAll keep what concerns t.
LEMMA NotifyFacts ==
  ASSUME Types, NEW t \in Thread, TargetOf(t), ViewOf(t), Notify(t) \/ NotifyAll(t)
  PROVE  OwnFacts(t)
<1>1. /\ pc[t] = "fat" /\ Return(t)
      /\ UNCHANGED <<word, owner_, lock_count_, num_waiters_, hash_code_, wait_monitor,
                     interrupted, saved, made, target, depth>>
  BY Zenon DEF Notify, NotifyAll
<1>2. Rest(t)
  BY <1>1, RestOfUse, Zenon DEF Types
<1> QED
  BY <1>1, <1>2, InMonitor, Returns, Zenon

\* Every step of a thread, except those from outside it, keeps what it relies on itself.
LEMMA StepFacts ==
  ASSUME Types, NEW t \in Thread, TargetOf(t), ViewOf(t),
         Call(t) \/ Swap(t) \/ Inflate(t) \/ UseMonitor(t)
  PROVE  OwnFacts(t)
<1>1. CASE Call(t)
  BY <1>1, EnterFacts, ExitFacts, WaitCallFacts, HashCallFacts, NotifyCallFacts, Zenon DEF Call
<1>2. CASE Inflate(t)
  BY <1>2, RequestFacts, SuspendFacts, RecheckFacts, InstallFacts, PublishFacts, Zenon DEF Inflate
<1>3. CASE UseMonitor(t)
  BY <1>3, TurnFacts, BlockFacts, UnlockFacts, HashFacts, WaitFacts, WakeFacts, WaitEndsFacts,
     RestoreFacts, ThrowFacts, NotifyFacts, Zenon DEF UseMonitor
<1> QED
  BY <1>1, <1>2, <1>3, SwapFacts, Zenon

-----------------------------------------------------------------------------
(* What a step of t does to the others. *)

Step(t) == Call(t) \/ Swap(t) \/ Inflate(t) \/ UseMonitor(t)

\* The steps of t that change the lock word.
LEMMA WordSteps ==
  ASSUME NEW t \in Thread, Step(t), ViewOf(t)
  PROVE  \/ lock_word' = lock_word
         \/ pc[t] = "cas" /\ lock_word = Unlocked
         \/ pc[t] = "store"
         \/ pc[t] = "publish" /\ lock_word' = Fat
<1>1. CASE Call(t)
  BY <1>1, Zenon DEF Call, MonitorEnter, MonitorExit, WaitOnObject, IdentityHashCode, DoNotify, word
<1>2. CASE Swap(t)
  BY <1>2, Zenon DEF Swap, CasUnlocked, StoreThin, ViewOf
<1>3. CASE Inflate(t)
  BY <1>3, Zenon DEF Inflate, RequestSuspend, OwnerStopped, SuspendTimedOut, BackToRunnable,
     Recheck, Install, Publish, ResumeOwner, word
<1>4. CASE UseMonitor(t)
  BY <1>4, Zenon DEF UseMonitor, Lock, Unblock, LockTurn, Block, Unlock, GetHashCode, Wait, WakeUp,
     WaitEnds, RestoreLock, ThrowInterrupted, Notify, NotifyAll, word
<1> QED
  BY <1>1, <1>2, <1>3, <1>4, Zenon DEF Step

\* A stopped owner stays stopped while its inflater has it as target.
LEMMA OthersTarget ==
  ASSUME Types, NEW t \in Thread, NEW s \in Thread, s # t, TargetOf(s), Frame(t)
  PROVE  TargetOf(s)'
<1>1. pc'[s] = pc[s] /\ seen'[s] = seen[s] /\ target'[s] = target[s]
  BY Zenon DEF Frame
<1>2. ASSUME target[s] # NoThread, pc[s] # "suspending" PROVE pc'[target[s]] \in SafePoint
  <2>1. pc[target[s]] \in SafePoint /\ target[s] \in Thread
    BY <1>2, Zenon DEF TargetOf, Types
  <2>2. CASE target[s] = t
    BY <2>1, <2>2, Zenon DEF Frame, MayRun, Suspenders
  <2>3. CASE target[s] # t
    BY <2>1, <2>3, Zenon DEF Frame
  <2> QED
    BY <2>2, <2>3
<1> QED
  BY <1>1, <1>2, Zenon DEF TargetOf, IsThin

\* What another thread relies on about the word outlives a step of t.
LEMMA OthersView ==
  ASSUME Types, NEW t \in Thread, NEW s \in Thread, s # t,
         TargetOf(t), TargetOf(s), ViewOf(t), ViewOf(s), Step(t), Frame(t)
  PROVE  ViewOf(s)'
<1>1. /\ pc'[s] = pc[s] /\ op'[s] = op[s] /\ seen'[s] = seen[s] /\ made'[s] = made[s]
      /\ target'[s] = target[s]
  BY Zenon DEF Frame
<1>2. CASE lock_word' = lock_word
  BY <1>1, <1>2, Zenon DEF ViewOf, Inflatable, OwnThin, IsThin
<1>3. CASE pc[t] = "cas" /\ lock_word = Unlocked
  <2>1. ~IsThin(lock_word) /\ lock_word # Fat
    BY <1>3, WordForms, Zenon DEF IsThin
  <2>2. pc[s] \notin {"store", "install", "publish", "fat", "block", "blocked", "waiting", "woken", "restore"}
    BY <1>3, <2>1, Zenon DEF ViewOf, Inflatable, OwnThin
  <2> QED
    BY <1>1, <2>2, Zenon DEF ViewOf
<1>4. CASE pc[t] = "store"
  <2>1. IsThin(lock_word) /\ lock_word.owner = t /\ lock_word # Fat /\ pc[t] \notin SafePoint
    BY <1>4, WordForms, Zenon DEF ViewOf, OwnThin, IsThin, SafePoint
  <2>2. pc[s] \notin {"install", "publish"}
    BY <2>1, NoThreadIsNone, Zenon DEF ViewOf, Inflatable, TargetOf
  <2>3. pc[s] \notin {"store", "fat", "block", "blocked", "waiting", "woken", "restore"}
    BY <2>1, Zenon DEF ViewOf, OwnThin
  <2> QED
    BY <1>1, <2>2, <2>3, Zenon DEF ViewOf
<1>5. CASE pc[t] = "publish" /\ lock_word' = Fat
  <2>1. Inflatable(t) /\ pc[t] # "suspending"
    BY <1>5, Zenon DEF ViewOf
  <2>2. pc[s] # "store"
    BY <2>1, NoThreadIsNone, ZenonT(40) DEF ViewOf, Inflatable, TargetOf, OwnThin, SafePoint
  <2>3. pc[s] \in {"install", "publish"} => Inflatable(s)'
    BY <1>1, <1>5, WordForms, Zenon DEF ViewOf, Inflatable, IsThin
  <2> QED
    BY <1>1, <1>5, <2>2, <2>3, Zenon DEF ViewOf, IsThin
<1> QED
  BY <1>2, <1>3, <1>4, <1>5, WordSteps, Zenon

-----------------------------------------------------------------------------
(* The forms of a step. *)

BlockedPc == {"block", "blocked"}

\* Going to sleep on monitor_contenders_, if the lock is still taken.
Blocks(t) ==
  /\ pc[t] = "block" /\ pc'[t] = "blocked"
  /\ contenders' = IF owner_ # NoThread THEN contenders \cup {t} ELSE contenders

\* What Notify and NotifyAll, called by the owner, do to the wait set.
Notifies ==
  \/ /\ \A i \in DOMAIN wait_set_ : ~wait_monitor[wait_set_[i]]
     /\ wait_set_' = <<>> /\ UNCHANGED asleep
  \/ \E k \in DOMAIN wait_set_ :
       /\ \A i \in DOMAIN wait_set_ : wait_monitor[wait_set_[i]] => k <= i
       /\ wait_set_' = SubSeq(wait_set_, k + 1, Len(wait_set_))
       /\ asleep' = asleep \ {wait_set_[k]}
  \/ wait_set_' = <<>> /\ asleep' = asleep \ NotifyLocked(Range(wait_set_))

\* No thread falls asleep, and none but t wakes up or has its wait fields changed.
Stirs(t) ==
  /\ \A u \in Thread : u # t => wait_monitor'[u] = wait_monitor[u] /\ interrupted'[u] = interrupted[u]
  /\ pc[t] = "waiting" => t \notin asleep
  /\ pc'[t] # "waiting"
  /\ pc'[t] = "woken" => pc[t] = "waiting" /\ UNCHANGED wait_monitor
  /\ UNCHANGED <<wait_set_, asleep>> \/ Notifies

\* A step that changes neither the owner of the monitor, nor its counts, nor who is counted.
Quiet(t) ==
  /\ UNCHANGED <<owner_, lock_count_, num_waiters_, saved>>
  /\ InWait(t)' <=> InWait(t)
  /\ pc[t] \notin {"blocked", "restore"} /\ pc'[t] # "restore"
  /\ pc'[t] \in BlockedPc <=> pc[t] \in BlockedPc
  /\ UNCHANGED contenders \/ Blocks(t)
  /\ Stirs(t)
  /\ UNCHANGED <<lock_word, hash_code_, depth>> \/ Swap(t) \/ GetHashCode(t)

\* The compare-and-swap of Publish succeeds.
Publishes(t) ==
  /\ pc[t] = "publish" /\ lock_word = seen[t] /\ seen[t] # Fat /\ lock_word' = Fat
  /\ owner_' = made[t].owner /\ lock_count_' = made[t].count /\ hash_code_' = made[t].hash
  /\ pc'[t] \in {"load", "resume"} /\ UNCHANGED <<num_waiters_, wait_set_, contenders, waiting, depth>>

\* A turn of Lock that takes, re-enters or fails to take the lock.
Turns(t) ==
  /\ pc[t] \in {"fat", "blocked"} /\ op[t] \in {"enter", "relock"}
  /\ \/ /\ owner_ \notin {NoThread, t} /\ UNCHANGED <<owner_, lock_count_, depth>>
        /\ pc'[t] = "block" /\ op'[t] = op[t]
        /\ num_waiters_' = IF pc[t] = "fat" THEN num_waiters_ + 1 ELSE (num_waiters_ - 1) + 1
     \/ /\ \/ owner_ = NoThread /\ owner_' = t /\ UNCHANGED lock_count_
           \/ owner_ = t /\ UNCHANGED owner_ /\ lock_count_' = lock_count_ + 1
        /\ IF op[t] = "enter"
           THEN pc'[t] = "idle" /\ depth' = [depth EXCEPT ![t] = @ + 1]
           ELSE pc'[t] = "restore" /\ UNCHANGED depth
        /\ num_waiters_' = IF pc[t] = "fat" THEN num_waiters_ ELSE num_waiters_ - 1
  /\ pc[t] = "blocked" => t \notin contenders
  /\ UNCHANGED <<lock_word, hash_code_, saved, contenders, wait_set_, wait_monitor, interrupted, asleep>>

\* One that gives it up, for good or to wait.
Releases(t) ==
  /\ pc[t] = "fat" /\ op[t] # "relock" /\ owner_ = t
  /\ UNCHANGED <<lock_word, hash_code_>>
  /\ \/ /\ pc'[t] = "idle" /\ UNCHANGED <<num_waiters_, saved>>
        /\ \/ owner_' = NoThread /\ lock_count_ = 0 /\ UNCHANGED lock_count_ /\ SignalContender
           \/ UNCHANGED <<owner_, contenders>> /\ lock_count_ # 0 /\ lock_count_' = lock_count_ - 1
        /\ UNCHANGED <<wait_set_, wait_monitor, interrupted, asleep>>
        /\ depth' = [depth EXCEPT ![t] = @ - 1]
     \/ /\ \/ pc'[t] = "waiting" /\ asleep' = asleep \cup {t} /\ ~interrupted[t]
           \/ pc'[t] = "woken" /\ UNCHANGED asleep
        /\ owner_' = NoThread /\ lock_count_' = 0 /\ SignalContender
        /\ num_waiters_' = num_waiters_ + 1 /\ saved' = [saved EXCEPT ![t] = lock_count_]
        /\ wait_set_' = Append(wait_set_, t)
        /\ wait_monitor' = [wait_monitor EXCEPT ![t] = TRUE] /\ UNCHANGED <<interrupted, depth>>

\* One that restores the count after a wait.
Restores(t) ==
  /\ pc[t] = "restore" /\ pc'[t] \in {"idle", "throw"}
  /\ owner_' = t /\ lock_count_' = saved[t] /\ num_waiters_' = num_waiters_ - 1
  /\ RemoveFromWaitSet(t) /\ saved' = [saved EXCEPT ![t] = 0]
  /\ UNCHANGED <<lock_word, hash_code_, contenders, wait_monitor, interrupted, asleep, depth>>

\* Calls are quiet.
LEMMA CallQuiet ==
  ASSUME Types, NEW t \in Thread, Call(t)
  PROVE  Quiet(t)
<1>1. pc[t] \in {"idle", "load"} /\ UNCHANGED <<word, monitor, waiting, depth>>
  BY Zenon DEF Call, Reads, MonitorEnter, MonitorExit, WaitOnObject, IdentityHashCode, DoNotify
<1>2. \/ Return(t)
      \/ \E o \in Op \ {"relock"}, x \in {"cas", "store", "install", "load", "search", "fat"} :
           Load(t, o, x)
  BY Zenon DEF Call, MonitorEnter, MonitorExit, WaitOnObject, IdentityHashCode, DoNotify, Op
<1>3. {"cas", "store", "install", "load", "search", "fat"} \subseteq PC
  BY Zenon DEF PC, SafePoint
<1>4. /\ pc'[t] \in {"cas", "store", "install", "load", "search", "fat", "idle"}
      /\ op'[t] # "relock"
  BY <1>2, <1>3, ReturnMoves, LoadMoves, ZenonT(40) DEF Moves
<1> QED
  BY <1>1, <1>4, Zenon DEF Quiet, Stirs, InWait, BlockedPc, word, monitor, waiting

\* Stores and swaps of the word are quiet for the monitor.
LEMMA SwapQuiet ==
  ASSUME Types, NEW t \in Thread, Swap(t)
  PROVE  Quiet(t)
<1>1. /\ pc[t] \in {"cas", "store"} /\ UNCHANGED <<monitor, waiting>>
      /\ Return(t) \/ Goto(t, "load")
  BY Zenon DEF Swap, CasUnlocked, StoreThin
<1>2. "load" \in PC
  BY Zenon DEF PC
<1>3. pc'[t] \in {"load", "idle"}
  BY <1>1, <1>2, GotoMoves, ReturnMoves, Zenon DEF Moves
<1> QED
  BY <1>1, <1>3, Zenon DEF Quiet, Stirs, InWait, BlockedPc, monitor, waiting

InflatePc == {"search", "suspending", "suspended", "recheck", "install", "publish", "resume", "load"}

\* The steps of an inflation but a successful Publish are quiet.
LEMMA InflateQuiet ==
  ASSUME Types, NEW t \in Thread, Inflate(t)
  PROVE  Quiet(t) \/ Publishes(t)
<1>1. PICK x \in InflatePc : Goto(t, x) \/ Load(t, op[t], x)
  BY Zenon DEF Inflate, RequestSuspend, OwnerStopped, SuspendTimedOut, BackToRunnable, Recheck,
     Install, Publish, ResumeOwner, InflatePc
<1>2. InflatePc \subseteq PC /\ op[t] \in Op
  BY Zenon DEF InflatePc, PC, SafePoint, Types
<1>3. pc'[t] \in InflatePc
  BY <1>1, <1>2, GotoMoves, LoadMoves, Zenon DEF Moves
<1>4. pc[t] \in InflatePc
  BY Zenon DEF Inflate, RequestSuspend, OwnerStopped, SuspendTimedOut, BackToRunnable, Recheck,
     Install, Publish, ResumeOwner, InflatePc
<1>5. UNCHANGED <<num_waiters_, wait_set_, contenders, waiting, depth>>
  BY Zenon DEF Inflate, RequestSuspend, OwnerStopped, SuspendTimedOut, BackToRunnable, Recheck,
     Install, Publish, ResumeOwner, monitor
<1>6. CASE UNCHANGED <<lock_word, owner_, lock_count_, hash_code_>>
  BY <1>3, <1>4, <1>5, <1>6, Zenon DEF Quiet, Stirs, InWait, BlockedPc, InflatePc, waiting
<1>7. CASE Publish(t) /\ ~UNCHANGED <<lock_word, owner_, lock_count_, hash_code_>>
  <2>1. Goto(t, "load") \/ Goto(t, "resume")
    BY <1>7, Zenon DEF Publish
  <2>2. pc'[t] \in {"load", "resume"}
    BY <1>2, <2>1, GotoMoves, Zenon DEF Moves, InflatePc
  <2> QED
    BY <1>5, <1>7, <2>2, Zenon DEF Publish, Publishes
<1> QED
  BY <1>6, <1>7, Zenon DEF Inflate, RequestSuspend, OwnerStopped, SuspendTimedOut, BackToRunnable,
     Recheck, Install, ResumeOwner, monitor, word

\* The operations on the monitor that end with Return and concern nobody else.
LEMMA ReturnQuiet ==
  ASSUME Types, NEW t \in Thread, Return(t), pc[t] = "throw" \/ (pc[t] = "fat" /\ op[t] # "relock"),
         UNCHANGED <<owner_, lock_count_, num_waiters_, contenders, saved, wait_monitor>>,
         \A u \in Thread : u # t => interrupted'[u] = interrupted[u],
         UNCHANGED <<wait_set_, asleep>> \/ Notifies,
         UNCHANGED <<lock_word, hash_code_, depth>> \/ GetHashCode(t)
  PROVE  Quiet(t)
<1>1. pc'[t] = "idle"
  BY ReturnMoves, Zenon DEF Moves
<1> QED
  BY <1>1, Zenon DEF Quiet, Stirs, InWait, BlockedPc

\* Notify and NotifyAll are quiet but for the wait set.
LEMMA NotifyQuiet ==
  ASSUME Types, NEW t \in Thread, Notify(t) \/ NotifyAll(t)
  PROVE  Quiet(t)
<1>1. /\ pc[t] = "fat" /\ op[t] \in {"notify", "notifyAll"} /\ Return(t)
      /\ UNCHANGED <<lock_word, owner_, lock_count_, num_waiters_, hash_code_, contenders,
                     wait_monitor, interrupted, saved, depth>>
  BY Zenon DEF Notify, NotifyAll, word
<1>2. UNCHANGED <<wait_set_, asleep>> \/ Notifies
  <2>1. CASE Notify(t)
    BY <2>1, Zenon DEF Notify, Notifies
  <2>2. CASE NotifyAll(t)
    BY <2>2, Zenon DEF NotifyAll, Notifies
  <2> QED
    BY <2>1, <2>2
<1> QED
  BY <1>1, <1>2, ReturnQuiet, Zenon

\* The other steps within the monitor that leave owner and counts are quiet.
LEMMA UseQuiet ==
  ASSUME Types, NEW t \in Thread,
         \/ Block(t) \/ GetHashCode(t) \/ WakeUp(t) \/ WaitEnds(t) \/ ThrowInterrupted(t)
         \/ ((Unlock(t) \/ Wait(t)) /\ owner_ # t)
  PROVE  Quiet(t)
<1>1. {"idle", "blocked", "woken"} \subseteq PC
  BY Zenon DEF PC, SafePoint
<1>2. CASE Block(t)
  <2>1. /\ pc[t] = "block" /\ Goto(t, "blocked")
        /\ contenders' = IF owner_ # NoThread THEN contenders \cup {t} ELSE contenders
        /\ UNCHANGED <<lock_word, owner_, lock_count_, num_waiters_, wait_set_, hash_code_, waiting, depth>>
    BY <1>2, Zenon DEF Block, word
  <2>2. pc'[t] = "blocked" /\ op'[t] = op[t]
    BY <1>1, <2>1, GotoMoves, Zenon DEF Moves
  <2> QED
    BY <2>1, <2>2, Zenon DEF Quiet, Blocks, Stirs, InWait, BlockedPc, waiting
<1>3. CASE WakeUp(t)
  <2>1. /\ pc[t] = "waiting" /\ t \notin asleep /\ Goto(t, "woken")
        /\ interrupted' = [interrupted EXCEPT ![t] = FALSE]
        /\ UNCHANGED <<lock_word, monitor, wait_monitor, asleep, saved, depth>>
    BY <1>3, Zenon DEF WakeUp, word
  <2>2. pc'[t] = "woken" /\ \A u \in Thread : u # t => interrupted'[u] = interrupted[u]
    BY <1>1, <2>1, GotoMoves, Update, Zenon DEF Moves, Types
  <2> QED
    BY <2>1, <2>2, Zenon DEF Quiet, Stirs, InWait, BlockedPc, monitor
<1>4. CASE WaitEnds(t)
  <2>1. /\ pc[t] = "woken" /\ pc' = [pc EXCEPT ![t] = "fat"] /\ op' = [op EXCEPT ![t] = "relock"]
        /\ wait_monitor' = [wait_monitor EXCEPT ![t] = FALSE]
        /\ UNCHANGED <<lock_word, monitor, interrupted, asleep, saved, depth>>
    BY <1>4, Zenon DEF WaitEnds, word
  <2>2. /\ pc'[t] = "fat" /\ op'[t] = "relock"
        /\ \A u \in Thread : u # t => wait_monitor'[u] = wait_monitor[u]
    BY <2>1, Update, Zenon DEF Types
  <2> QED
    BY <2>1, <2>2, Zenon DEF Quiet, Stirs, InWait, BlockedPc, monitor
<1>5. CASE GetHashCode(t)
  BY <1>5, ReturnQuiet, Zenon DEF GetHashCode, waiting
<1>6. CASE ThrowInterrupted(t)
  <2>1. \A u \in Thread : u # t => interrupted'[u] = interrupted[u]
    BY <1>6, Update, Zenon DEF ThrowInterrupted, Types
  <2> QED
    BY <1>6, <2>1, ReturnQuiet, Zenon DEF ThrowInterrupted, word, monitor
<1>7. CASE (Unlock(t) \/ Wait(t)) /\ owner_ # t
  BY <1>7, ReturnQuiet, Zenon DEF Unlock, Wait, word, monitor, waiting
<1> QED
  BY <1>2, <1>3, <1>4, <1>5, <1>6, <1>7, Zenon

\* Lock and Unblock take a turn.
LEMMA TurnForm ==
  ASSUME Types, NEW t \in Thread, ViewOf(t), Lock(t) \/ Unblock(t)
  PROVE  Turns(t)
<1>1. /\ pc[t] \in {"fat", "blocked"} /\ op[t] \in {"enter", "relock"}
      /\ pc[t] = "blocked" => t \notin contenders
      /\ LockTurn(t, IF pc[t] = "fat" THEN num_waiters_ ELSE num_waiters_ - 1)
      /\ UNCHANGED contenders
  BY Zenon DEF Lock, Unblock, ViewOf
<1>2. UNCHANGED <<lock_word, hash_code_, saved, wait_set_, wait_monitor, interrupted, asleep>>
  BY <1>1, Zenon DEF LockTurn, word, waiting
<1>3. {"block", "restore"} \subseteq PC
  BY Zenon DEF PC, SafePoint
<1>4. /\ Goto(t, "block") => pc'[t] = "block" /\ op'[t] = op[t]
      /\ Goto(t, "restore") => pc'[t] = "restore"
      /\ Return(t) => pc'[t] = "idle"
  BY <1>3, GotoMoves, ReturnMoves, Zenon DEF Moves
<1>5. CASE owner_ \notin {NoThread, t}
  BY <1>1, <1>2, <1>4, <1>5, Zenon DEF LockTurn, Turns
<1>6. CASE owner_ \in {NoThread, t}
  BY <1>1, <1>2, <1>4, <1>6, Zenon DEF LockTurn, Turns
<1> QED
  BY <1>5, <1>6

\* Unlock and Wait release the lock, or return at once.
LEMMA ReleaseForm ==
  ASSUME Types, NEW t \in Thread, owner_ = t, Unlock(t) \/ Wait(t)
  PROVE  Releases(t)
<1>1. pc[t] = "fat" /\ op[t] # "relock" /\ UNCHANGED <<lock_word, hash_code_>>
  BY Zenon DEF Unlock, Wait, word, monitor
<1>2. {"waiting", "woken"} \subseteq PC
  BY Zenon DEF PC, SafePoint
<1>3. CASE Unlock(t)
  <2>1. pc'[t] = "idle"
    BY <1>3, ReturnMoves, Zenon DEF Unlock, Moves
  <2> QED
    BY <1>1, <1>3, <2>1, Zenon DEF Unlock, Releases, waiting
<1>4. CASE Wait(t)
  <2>1. /\ Goto(t, "waiting") => pc'[t] = "waiting"
        /\ Goto(t, "woken") => pc'[t] = "woken"
    BY <1>2, GotoMoves, Zenon DEF Moves
  <2> QED
    BY <1>1, <1>4, <2>1, Zenon DEF Wait, Releases
<1> QED
  BY <1>3, <1>4

\* RestoreLock restores the count.
LEMMA RestoreForm ==
  ASSUME Types, NEW t \in Thread, RestoreLock(t)
  PROVE  Restores(t)
<1>1. "throw" \in PC
  BY Zenon DEF PC
<1>2. pc'[t] \in {"idle", "throw"}
  BY <1>1, GotoMoves, ReturnMoves, Zenon DEF RestoreLock, Moves
<1> QED
  BY <1>2, Zenon DEF RestoreLock, Restores, word

\* Every step is of one of these forms.
LEMMA StepForms ==
  ASSUME Types, NEW t \in Thread, ViewOf(t), Step(t)
  PROVE  Quiet(t) \/ Publishes(t) \/ Turns(t) \/ Releases(t) \/ Restores(t)
<1>1. CASE UseMonitor(t)
  BY <1>1, TurnForm, ReleaseForm, RestoreForm, UseQuiet, NotifyQuiet, Zenon DEF UseMonitor
<1> QED
  BY <1>1, CallQuiet, SwapQuiet, InflateQuiet, Zenon DEF Step

-----------------------------------------------------------------------------
(* The wait set. *)

\* The indices and the elements of a wait set.
LEMMA SetOfSeq ==
  ASSUME NEW s \in Seq(Thread)
  PROVE  DOMAIN s = 1..Len(s) /\ Len(s) \in Nat /\ \A i \in 1..Len(s) : s[i] \in Thread
BY SMT

\* Appending keeps the members and adds one.
LEMMA AppendKeeps ==
  ASSUME NEW s \in Seq(Thread), NEW t \in Thread
  PROVE  /\ Append(s, t) \in Seq(Thread)
         /\ t \in Range(Append(s, t)) /\ Range(s) \subseteq Range(Append(s, t))
BY SMT DEF Range

\* A suffix keeps the members behind the cut.
LEMMA SuffixKeeps ==
  ASSUME NEW s \in Seq(Thread), NEW k \in DOMAIN s
  PROVE  /\ SubSeq(s, k + 1, Len(s)) \in Seq(Thread)
         /\ \A i \in DOMAIN s : i <= k \/ s[i] \in Range(SubSeq(s, k + 1, Len(s)))
<1> DEFINE r == SubSeq(s, k + 1, Len(s))
<1>1. DOMAIN s = 1..Len(s) /\ Len(s) \in Nat
  BY SetOfSeq, Zenon
<1>2. /\ r \in Seq(Thread) /\ Len(r) = Len(s) - k
      /\ \A i \in 1..Len(s) - k : r[i] = s[k + i]
  BY <1>1, SMT
<1>3. DOMAIN r = 1..Len(s) - k
  BY <1>2, SetOfSeq, Zenon
<1> HIDE DEF r
<1>4. ASSUME NEW i \in DOMAIN s, ~(i <= k) PROVE s[i] \in Range(r)
  <2>1. i - k \in 1..Len(s) - k /\ k + (i - k) = i
    BY <1>1, <1>4, SMT
  <2> QED
    BY <1>2, <1>3, <2>1, Zenon DEF Range
<1> QED
  BY <1>2, <1>4, Zenon DEF r

\* Removing one entry keeps the others.
LEMMA RemoveKeeps ==
  ASSUME NEW s \in Seq(Thread), NEW k \in DOMAIN s, NEW r,
         r = [i \in 1..(Len(s) - 1) |-> IF i < k THEN s[i] ELSE s[i + 1]]
  PROVE  /\ r \in Seq(Thread)
         /\ \A i \in DOMAIN s : i = k \/ s[i] \in Range(r)
<1>1. DOMAIN s = 1..Len(s) /\ Len(s) \in Nat /\ \A i \in 1..Len(s) : s[i] \in Thread
  BY SetOfSeq, Zenon
<1>2. Len(s) - 1 \in Nat
  BY <1>1, SMT
<1>3. r \in [1..(Len(s) - 1) -> Thread]
  BY <1>1, SMT
<1>4. r \in Seq(Thread)
  BY <1>2, <1>3, SMT
<1>5. ASSUME NEW i \in DOMAIN s, i < k PROVE s[i] \in Range(r)
  <2>1. i \in 1..(Len(s) - 1)
    BY <1>1, <1>5, SMT
  <2> QED
    BY <1>5, <2>1, Zenon DEF Range
<1>6. ASSUME NEW i \in DOMAIN s, k < i PROVE s[i] \in Range(r)
  <2>1. i - 1 \in 1..(Len(s) - 1) /\ ~(i - 1 < k) /\ (i - 1) + 1 = i
    BY <1>1, <1>6, SMT
  <2> QED
    BY <2>1, Zenon DEF Range
<1>7. ASSUME NEW i \in DOMAIN s PROVE i < k \/ k < i \/ i = k
  BY <1>1, SMT
<1> QED
  BY <1>4, <1>5, <1>6, <1>7, Zenon
-----------------------------------------------------------------------------
(* The owner, the count and the number of waiters. *)

\* Nobody is in the monitor while the word does not lead to it.
LEMMA NobodyInside ==
  ASSUME NEW s \in Thread, ViewOf(s), lock_word # Fat
  PROVE  pc[s] \notin {"fat", "block", "blocked", "waiting", "woken", "restore"} /\ ~InWait(s)
BY Zenon DEF ViewOf, InWait

\* A step of t leaves where the others are.
LEMMA OthersStay ==
  ASSUME NEW t \in Thread, NEW s \in Thread, s # t, Frame(t)
  PROVE  (InWait(s)' <=> InWait(s)) /\ pc'[s] = pc[s] /\ saved'[s] = saved[s]
BY Zenon DEF Frame, InWait

\* The books of one thread.
BooksOf(s) == (pc[s] = "restore" => owner_ = s /\ lock_count_ = 0) /\ (InWait(s) => owner_ # s)

\* A step of t keeps the books of owner and count.
LEMMA StepBooks ==
  ASSUME Types, NEW t \in Thread, \A s \in Thread : TargetOf(s) /\ ViewOf(s), Books, Step(t), OwnFacts(t)
  PROVE  Books'
<1>1. Frame(t) /\ lock_word \in LockWord /\ seen[t] \in LockWord
  BY Zenon DEF OwnFacts, Types
<1> SUFFICES /\ owner_' = NoThread => lock_count_' = 0
             /\ BooksOf(t)'
             /\ \A s \in Thread : s # t => BooksOf(s)'
  BY Zenon DEF Books, BooksOf, InWait
<1>2. /\ owner_ = NoThread => lock_count_ = 0
      /\ \A s \in Thread : BooksOf(s)
  BY Zenon DEF Books, BooksOf
<1>3. CASE Quiet(t)
  BY <1>1, <1>2, <1>3, OthersStay, Zenon DEF Quiet, BooksOf
<1>4. CASE Publishes(t)
  <2>1. lock_word # Fat /\ Inflatable(t) /\ pc[t] = "publish"
        /\ made[t].count = IF IsThin(seen[t]) THEN seen[t].count ELSE 0
    BY <1>4, Zenon DEF Publishes, ViewOf
  <2>2. ASSUME owner_' = NoThread PROVE lock_count_' = 0
    BY <1>1, <1>4, <2>1, <2>2, WordCases, NoThreadIsNone, ZenonT(40) DEF Publishes, Inflatable, IsThin
  <2>3. BooksOf(t)'
    BY <1>4, Zenon DEF Publishes, BooksOf, InWait
  <2>4. ASSUME NEW s \in Thread, s # t PROVE BooksOf(s)'
    BY <1>1, <2>1, <2>4, NobodyInside, OthersStay, Zenon DEF BooksOf
  <2> QED
    BY <2>2, <2>3, <2>4
<1>5. CASE Turns(t)
  <2>1. (owner_' = NoThread => lock_count_' = 0) /\ BooksOf(t)'
    BY <1>2, <1>5, NoThreadIsNone, Zenon DEF Turns, BooksOf, InWait
  <2>2. ASSUME NEW s \in Thread, s # t PROVE BooksOf(s)'
    BY <1>1, <1>2, <1>5, <2>2, OthersStay, NoThreadIsNone, Zenon DEF Turns, BooksOf
  <2> QED
    BY <2>1, <2>2
<1>6. CASE Releases(t)
  <2>1. (owner_' = NoThread => lock_count_' = 0) /\ BooksOf(t)'
    BY <1>2, <1>6, NoThreadIsNone, Zenon DEF Releases, BooksOf, InWait
  <2>2. ASSUME NEW s \in Thread, s # t PROVE BooksOf(s)'
    BY <1>1, <1>2, <1>6, <2>2, OthersStay, NoThreadIsNone, Zenon DEF Releases, BooksOf
  <2> QED
    BY <2>1, <2>2
<1>7. CASE Restores(t)
  <2>1. (owner_' = NoThread => lock_count_' = 0) /\ BooksOf(t)'
    BY <1>2, <1>7, NoThreadIsNone, Zenon DEF Restores, BooksOf, InWait
  <2>2. ASSUME NEW s \in Thread, s # t PROVE BooksOf(s)'
    BY <1>1, <1>2, <1>7, <2>2, OthersStay, NoThreadIsNone, Zenon DEF Restores, BooksOf
  <2> QED
    BY <2>1, <2>2
<1> QED
  BY <1>3, <1>4, <1>5, <1>6, <1>7, StepForms, Zenon

-----------------------------------------------------------------------------
(* The threads asleep on monitor_contenders_. *)

\* A step of t strands no contender.
LEMMA StepContention ==
  ASSUME Types, NEW t \in Thread, \A s \in Thread : ViewOf(s), Contention, Step(t), OwnFacts(t)
  PROVE  Contention'
<1>1. \A s \in Thread : s # t => pc'[s] = pc[s]
  BY Zenon DEF OwnFacts, Frame
<1>2. \A s \in contenders : s \in Thread /\ pc[s] = "blocked"
  BY Zenon DEF Contention
<1>3. contenders # {} => lock_word = Fat
  BY <1>2, Zenon DEF ViewOf
<1>4. CASE Quiet(t)
  <2>1. /\ UNCHANGED owner_ /\ (pc'[t] \in BlockedPc <=> pc[t] \in BlockedPc) /\ pc[t] # "blocked"
        /\ UNCHANGED contenders \/ Blocks(t)
    BY <1>4, Zenon DEF Quiet
  <2>2. ASSUME NEW s \in contenders' PROVE s \in Thread /\ pc'[s] = "blocked"
    BY <1>1, <1>2, <2>1, <2>2, Zenon DEF Blocks
  <2>3. ASSUME owner_' = NoThread, contenders' # {}
        PROVE  \E w \in Thread \ contenders' : pc'[w] \in BlockedPc
    <3>1. contenders' = contenders
      BY <2>1, <2>3, Zenon DEF Blocks
    <3>2. PICK w \in Thread \ contenders : pc[w] \in BlockedPc
      BY <1>3, <2>1, <2>3, <3>1, Zenon DEF Contention, NoStrandedContender, BlockedPc
    <3> QED
      BY <1>1, <2>1, <3>1, <3>2, Zenon
  <2> QED
    BY <2>2, <2>3, Zenon DEF Contention, NoStrandedContender, BlockedPc
<1>5. CASE Publishes(t)
  BY <1>3, <1>5, Zenon DEF Publishes, Contention, NoStrandedContender
<1>6. CASE Turns(t)
  <2>1. UNCHANGED contenders /\ t \notin contenders /\ owner_' # NoThread
    BY <1>2, <1>6, NoThreadIsNone, Zenon DEF Turns
  <2> QED
    BY <1>1, <1>2, <2>1, Zenon DEF Contention, NoStrandedContender
<1>7. CASE Releases(t)
  <2>1. /\ t \notin contenders
        /\ UNCHANGED contenders \/ SignalContender
        /\ owner_' = NoThread => SignalContender
    BY <1>2, <1>7, NoThreadIsNone, Zenon DEF Releases
  <2>2. contenders' \subseteq contenders
    BY <2>1, Zenon DEF SignalContender
  <2>3. ASSUME NEW s \in contenders' PROVE s \in Thread /\ pc'[s] = "blocked"
    BY <1>1, <1>2, <2>1, <2>2, <2>3, Zenon
  <2>4. ASSUME owner_' = NoThread, contenders' # {}
        PROVE  \E w \in Thread \ contenders' : pc'[w] \in BlockedPc
    <3>1. PICK c \in contenders : contenders' = contenders \ {c}
      BY <2>1, <2>2, <2>4, Zenon DEF SignalContender
    <3> QED
      BY <1>1, <1>2, <2>1, <3>1, Zenon DEF BlockedPc
  <2> QED
    BY <2>3, <2>4, Zenon DEF Contention, NoStrandedContender, BlockedPc
<1>8. CASE Restores(t)
  <2>1. UNCHANGED contenders /\ t \notin contenders /\ owner_' # NoThread
    BY <1>2, <1>8, NoThreadIsNone, Zenon DEF Restores
  <2> QED
    BY <1>1, <1>2, <2>1, Zenon DEF Contention, NoStrandedContender
<1> QED
  BY <1>4, <1>5, <1>6, <1>7, <1>8, StepForms, Zenon

-----------------------------------------------------------------------------
(* The threads asleep in Wait. *)

\* Notify and NotifyAll take no sleeper off the wait set without waking it.
LEMMA NotifyKeeps ==
  ASSUME wait_set_ \in Seq(Thread), SleeperIsReachable, Notifies
  PROVE  /\ wait_set_' \in Seq(Thread) /\ asleep' \subseteq asleep
         /\ asleep' \subseteq Range(wait_set_')
<1>1. <<>> \in Seq(Thread)
  BY SMT
<1>2. \A s \in asleep : wait_monitor[s] /\ \E i \in DOMAIN wait_set_ : wait_set_[i] = s
  BY Zenon DEF SleeperIsReachable, Range
<1>3. CASE /\ \A i \in DOMAIN wait_set_ : ~wait_monitor[wait_set_[i]]
           /\ wait_set_' = <<>> /\ UNCHANGED asleep
  BY <1>1, <1>2, <1>3, Zenon
<1>4. CASE wait_set_' = <<>> /\ asleep' = asleep \ NotifyLocked(Range(wait_set_))
  BY <1>1, <1>2, <1>4, Zenon DEF NotifyLocked, Range
<1>5. ASSUME NEW k \in DOMAIN wait_set_,
             \A i \in DOMAIN wait_set_ : wait_monitor[wait_set_[i]] => k <= i,
             wait_set_' = SubSeq(wait_set_, k + 1, Len(wait_set_)),
             asleep' = asleep \ {wait_set_[k]}
      PROVE  wait_set_' \in Seq(Thread) /\ asleep' \subseteq Range(wait_set_')
  <2>1. /\ wait_set_' \in Seq(Thread)
        /\ \A i \in DOMAIN wait_set_ : i <= k \/ wait_set_[i] \in Range(wait_set_')
    BY <1>5, SuffixKeeps, Zenon
  <2>2. \A i \in DOMAIN wait_set_ : i <= k /\ k <= i => i = k
    <3>1. DOMAIN wait_set_ = 1..Len(wait_set_)
      BY SetOfSeq, Zenon
    <3> QED
      BY <3>1, SMT
  <2>3. ASSUME NEW s \in asleep' PROVE s \in Range(wait_set_')
    <3>1. PICK i \in DOMAIN wait_set_ : wait_set_[i] = s /\ wait_monitor[s]
      BY <1>2, <1>5, <2>3, Zenon
    <3>2. i # k /\ k <= i
      BY <1>5, <2>3, <3>1, Zenon
    <3> QED
      BY <2>1, <2>2, <3>1, <3>2, Zenon
  <2> QED
    BY <2>1, <2>3, Zenon
<1> QED
  BY <1>3, <1>4, <1>5, Zenon DEF Notifies

\* A step on which nobody falls asleep.
LEMMA NobodyFallsAsleep ==
  ASSUME NEW t \in Thread, Sleepers, t \notin asleep, \A s \in Thread : s # t => pc'[s] = pc[s],
         \A u \in Thread : u # t => wait_monitor'[u] = wait_monitor[u] /\ interrupted'[u] = interrupted[u],
         pc'[t] \in {"waiting", "woken"} => wait_monitor'[t],
         wait_set_' \in Seq(Thread), asleep' \subseteq asleep, asleep' \subseteq Range(wait_set_')
  PROVE  Sleepers'
<1>1. ASSUME NEW s \in asleep'
      PROVE  /\ s \in Thread /\ pc'[s] = "waiting" /\ wait_monitor'[s] /\ ~interrupted'[s]
             /\ s \in Range(wait_set_')
  BY <1>1, Zenon DEF Sleepers, SleeperIsReachable
<1>2. ASSUME NEW s \in Thread, pc'[s] \in {"waiting", "woken"} PROVE wait_monitor'[s]
  BY <1>2, Zenon DEF Sleepers
<1> QED
  BY <1>1, <1>2, Zenon DEF Sleepers, SleeperIsReachable, Range

\* A step of t keeps the sleepers reachable.
LEMMA StepSleepers ==
  ASSUME Types, NEW t \in Thread, ViewOf(t), Sleepers, Step(t), OwnFacts(t)
  PROVE  Sleepers'
<1>1. \A s \in Thread : s # t => pc'[s] = pc[s]
  BY Zenon DEF OwnFacts, Frame
<1>2. /\ \A s \in asleep : s \in Thread /\ pc[s] = "waiting" /\ s \in Range(wait_set_)
      /\ wait_set_ \in Seq(Thread)
  BY Zenon DEF Sleepers, SleeperIsReachable
<1>3. CASE /\ pc[t] # "waiting" /\ pc'[t] \notin {"waiting", "woken"}
           /\ UNCHANGED <<wait_set_, wait_monitor, interrupted, asleep>>
  BY <1>1, <1>2, <1>3, NobodyFallsAsleep, Zenon
<1>4. CASE Quiet(t)
  <2>1. Stirs(t) /\ t \notin asleep
    BY <1>2, <1>4, Zenon DEF Quiet, Stirs
  <2>2. pc'[t] \in {"waiting", "woken"} => wait_monitor'[t]
    BY <2>1, Zenon DEF Stirs, Sleepers
  <2>3. /\ wait_set_' \in Seq(Thread) /\ asleep' \subseteq asleep
        /\ asleep' \subseteq Range(wait_set_')
    <3>1. CASE UNCHANGED <<wait_set_, asleep>>
      BY <1>2, <3>1, Zenon
    <3>2. CASE Notifies
      BY <1>2, <3>2, NotifyKeeps, Zenon DEF Sleepers
    <3> QED
      BY <2>1, <3>1, <3>2, Zenon DEF Stirs
  <2> QED
    BY <1>1, <2>1, <2>2, <2>3, NobodyFallsAsleep, Zenon DEF Stirs
<1>5. CASE Publishes(t)
  BY <1>3, <1>5, Zenon DEF Publishes, waiting
<1>6. CASE Turns(t)
  BY <1>3, <1>6, Zenon DEF Turns
<1>7. CASE Releases(t) /\ pc'[t] = "idle"
  BY <1>3, <1>7, Zenon DEF Releases
<1>8. CASE Releases(t) /\ pc'[t] \in {"waiting", "woken"}
  <2>1. /\ wait_set_' = Append(wait_set_, t) /\ UNCHANGED interrupted
        /\ wait_monitor' = [wait_monitor EXCEPT ![t] = TRUE]
        /\ \/ pc'[t] = "waiting" /\ asleep' = asleep \cup {t} /\ ~interrupted[t]
           \/ UNCHANGED asleep
    BY <1>8, Zenon DEF Releases
  <2>2. wait_monitor'[t] /\ \A u \in Thread : u # t => wait_monitor'[u] = wait_monitor[u]
    BY <2>1, Update, Zenon DEF Types
  <2>3. /\ wait_set_' \in Seq(Thread) /\ t \in Range(wait_set_')
        /\ Range(wait_set_) \subseteq Range(wait_set_')
    BY <1>2, <2>1, AppendKeeps, Zenon
  <2>4. t \notin asleep
    BY <1>2, <1>8, Zenon DEF Releases
  <2>5. ASSUME NEW s \in asleep'
        PROVE  /\ s \in Thread /\ pc'[s] = "waiting" /\ wait_monitor'[s] /\ ~interrupted'[s]
               /\ s \in Range(wait_set_')
    <3>1. CASE s = t
      BY <2>1, <2>2, <2>3, <2>4, <2>5, <3>1, Zenon
    <3>2. CASE s # t
      <4>1. s \in asleep
        BY <2>1, <2>5, <3>2, Zenon
      <4> QED
        BY <1>1, <1>2, <2>1, <2>2, <2>3, <3>2, <4>1, Zenon DEF Sleepers, SleeperIsReachable
    <3> QED
      BY <3>1, <3>2
  <2>6. ASSUME NEW s \in Thread, pc'[s] \in {"waiting", "woken"} PROVE wait_monitor'[s]
    BY <1>1, <2>2, <2>6, Zenon DEF Sleepers
  <2> QED
    BY <2>3, <2>5, <2>6, Zenon DEF Sleepers, SleeperIsReachable, Range
<1>9. CASE Restores(t)
  <2>1. /\ t \notin asleep /\ pc'[t] \notin {"waiting", "woken"} /\ RemoveFromWaitSet(t)
        /\ UNCHANGED <<wait_monitor, interrupted, asleep>>
    BY <1>2, <1>9, Zenon DEF Restores
  <2>2. wait_set_' \in Seq(Thread) /\ asleep' \subseteq Range(wait_set_')
    <3>1. CASE UNCHANGED wait_set_
      BY <1>2, <2>1, <3>1, Zenon
    <3>2. ASSUME NEW k \in DOMAIN wait_set_, wait_set_[k] = t,
                 wait_set_' = [i \in 1..(Len(wait_set_) - 1) |->
                                IF i < k THEN wait_set_[i] ELSE wait_set_[i + 1]]
          PROVE  wait_set_' \in Seq(Thread) /\ asleep' \subseteq Range(wait_set_')
      <4>1. /\ wait_set_' \in Seq(Thread)
            /\ \A i \in DOMAIN wait_set_ : i = k \/ wait_set_[i] \in Range(wait_set_')
        BY <1>2, <3>2, RemoveKeeps, Zenon
      <4>2. \A s \in asleep : \E i \in DOMAIN wait_set_ : s = wait_set_[i]
        BY <1>2, Zenon DEF Range
      <4> QED
        BY <2>1, <3>2, <4>1, <4>2, Zenon
    <3> QED
      BY <2>1, <3>1, <3>2, Zenon DEF RemoveFromWaitSet
  <2> QED
    BY <1>1, <2>1, <2>2, NobodyFallsAsleep, Zenon
<1> QED
  <2>1. Releases(t) => pc'[t] \in {"idle", "waiting", "woken"}
    BY Zenon DEF Releases
  <2> QED
    BY <1>4, <1>5, <1>6, <1>7, <1>8, <1>9, <2>1, StepForms, Zenon

-----------------------------------------------------------------------------
(* What a step means to the Java code: a step of JavaMonitor, or none. *)

GivenUp == [t \in Thread |-> IF InWait(t) THEN saved[t] ELSE -1]

\* The Java code sees nothing of the step.
Unseen == UNCHANGED <<Owner, Count, GivenUp, HashOf, depth>>

\* The five steps it sees, with what they do to its nesting.
Seen(t) ==
  \/ JM!Enter(t) /\ depth' = [depth EXCEPT ![t] = @ + 1]
  \/ JM!Exit(t) /\ depth' = [depth EXCEPT ![t] = @ - 1]
  \/ (JM!Wait(t) \/ JM!WaitReturns(t)) /\ UNCHANGED depth
  \/ (\E h \in Hash : JM!ChooseHash(h)) /\ UNCHANGED depth

\* The steps of JavaMonitor, in terms of what the lock represents.
LEMMA SeenForms ==
  ASSUME NEW t \in Thread
  PROVE  /\ JM!Enter(t) <=>
              /\ GivenUp[t] = -1
              /\ \/ Owner = NoThread /\ Owner' = t /\ Count' = 0
                 \/ Owner = t /\ Owner' = t /\ Count' = Count + 1
              /\ UNCHANGED <<GivenUp, HashOf>>
         /\ JM!Exit(t) <=>
              /\ Owner = t
              /\ IF Count = 0 THEN Owner' = NoThread /\ Count' = 0
                              ELSE Owner' = t /\ Count' = Count - 1
              /\ UNCHANGED <<GivenUp, HashOf>>
         /\ JM!Wait(t) <=>
              /\ Owner = t /\ Owner' = NoThread /\ Count' = 0
              /\ GivenUp' = [GivenUp EXCEPT ![t] = Count] /\ UNCHANGED HashOf
         /\ JM!WaitReturns(t) <=>
              /\ GivenUp[t] # -1 /\ Owner = NoThread /\ Owner' = t /\ Count' = GivenUp[t]
              /\ GivenUp' = [GivenUp EXCEPT ![t] = -1] /\ UNCHANGED HashOf
         /\ \A h : JM!ChooseHash(h) <=>
              /\ HashOf = 0 /\ HashOf' = h /\ UNCHANGED <<Owner, Count, GivenUp>>
BY Zenon DEF JM!Enter, JM!Exit, JM!Wait, JM!WaitReturns, JM!ChooseHash, JM!NotWaiting, GivenUp

\* The lock as the word represents it.
LockView ==
  /\ lock_word = Fat => /\ Owner = owner_ /\ HashOf = hash_code_
                        /\ Count = IF owner_ # NoThread /\ pc[owner_] = "restore"
                                   THEN saved[owner_] ELSE lock_count_
  /\ IsThin(lock_word) => Owner = lock_word.owner /\ Count = lock_word.count /\ HashOf = 0
  /\ lock_word.state = "hash" => Owner = NoThread /\ Count = 0 /\ HashOf = lock_word.hash
  /\ lock_word = Unlocked => Owner = NoThread /\ Count = 0 /\ HashOf = 0

\* What the forms of the word say of owner, count and hash code, before and after a step.
LEMMA LockViews == LockView /\ LockView'
<1>1. Fat.state = "fat" /\ Unlocked.state = "unlocked"
  BY WordForms, Zenon
<1>2. LockView
  BY <1>1, Zenon DEF LockView, Owner, Count, HashOf, IsThin
<1>3. LockView'
  BY <1>1, Zenon DEF LockView, Owner, Count, HashOf, IsThin
<1> QED
  BY <1>2, <1>3

\* What wait() owes to each thread, after a step of t.
LEMMA GivenUpStays ==
  ASSUME NEW t \in Thread, Frame(t),
         (InWait(t)' <=> InWait(t)), InWait(t) => saved'[t] = saved[t]
  PROVE  GivenUp' = GivenUp
<1>1. \A s \in Thread : (InWait(s)' <=> InWait(s)) /\ (InWait(s) => saved'[s] = saved[s])
  BY OthersStay, Zenon
<1> QED
  BY <1>1, Zenon DEF GivenUp

\* ... when t enters or leaves wait().
LEMMA GivenUpMoves ==
  ASSUME NEW t \in Thread, Frame(t)
  PROVE  GivenUp' = [GivenUp EXCEPT ![t] = IF InWait(t)' THEN saved'[t] ELSE -1]
<1>1. \A s \in Thread : s # t => (InWait(s)' <=> InWait(s)) /\ saved'[s] = saved[s]
  BY OthersStay, Zenon
<1> QED
  BY <1>1, Zenon DEF GivenUp

\* What wait() owes to t.
LEMMA GivenUpOf ==
  ASSUME NEW t \in Thread
  PROVE  GivenUp[t] = IF InWait(t) THEN saved[t] ELSE -1
BY Zenon DEF GivenUp
\* A step that leaves word, owner, counts and hash code leaves the lock as it was.
LEMMA ViewStays ==
  ASSUME Types, NEW t \in Thread, Frame(t), pc[t] # "restore", pc'[t] # "restore",
         UNCHANGED <<lock_word, owner_, lock_count_, hash_code_, saved>>
  PROVE  UNCHANGED <<Owner, Count, HashOf>>
<1>1. owner_ # NoThread => (pc'[owner_] = "restore" <=> pc[owner_] = "restore")
  BY OthersStay, Zenon DEF Types
<1> QED
  BY <1>1, Zenon DEF Owner, Count, HashOf

\* The lock that a thin word represents.
LEMMA BecomesThin ==
  ASSUME NEW o, NEW c, lock_word' = Thin(o, c)
  PROVE  Owner' = o /\ Count' = c /\ HashOf' = 0
<1>1. /\ Thin(o, c).state = "thin" /\ Thin(o, c).owner = o /\ Thin(o, c).count = c
  BY WordForms, Zenon
<1>2. lock_word'.state = "thin" /\ lock_word'.owner = o /\ lock_word'.count = c
  BY <1>1, Zenon
<1> QED
  BY <1>2, LockViews, Zenon DEF LockView, IsThin

\* A successful compare-and-swap is an Enter or the choice of a hash code.
LEMMA CasSeen ==
  ASSUME Types, NEW t \in Thread, ViewOf(t), Frame(t), CasUnlocked(t), lock_word = seen[t],
         UNCHANGED GivenUp,
         \/ op[t] = "enter" /\ lock_word' = Thin(t, 0)
         \/ op[t] = "hash" /\ \E h \in Hash : lock_word' = HashWord(h),
         depth' = IF op[t] = "enter" THEN [depth EXCEPT ![t] = @ + 1] ELSE depth
  PROVE  Seen(t)
<1>1. Owner = NoThread /\ Count = 0 /\ HashOf = 0 /\ GivenUp[t] = -1
  BY LockViews, GivenUpOf, Zenon DEF LockView, CasUnlocked, ViewOf, InWait
<1>2. CASE op[t] = "enter" /\ lock_word' = Thin(t, 0)
  <2>1. Owner' = t /\ Count' = 0 /\ HashOf' = 0
    BY <1>2, BecomesThin, Zenon
  <2>2. JM!Enter(t)
    BY <1>1, <2>1, SeenForms, Zenon
  <2>3. depth' = [depth EXCEPT ![t] = @ + 1]
    BY <1>2, Zenon
  <2> QED
    BY <2>2, <2>3, Zenon DEF Seen
<1>3. CASE op[t] = "hash" /\ \E h \in Hash : lock_word' = HashWord(h)
  <2>1. PICK h \in Hash : lock_word' = HashWord(h)
    BY <1>3
  <2>2. Owner' = NoThread /\ Count' = 0 /\ HashOf' = h
    BY <2>1, LockViews, WordForms, Zenon DEF LockView
  <2>3. JM!ChooseHash(h)
    BY <1>1, <2>2, SeenForms, Zenon
  <2> QED
    BY <1>3, <2>3, Zenon DEF Seen
<1> QED
  BY <1>2, <1>3

\* A plain store is an Enter or an Exit.
LEMMA StoreSeen ==
  ASSUME Types, NEW t \in Thread, ViewOf(t), StoreThin(t), UNCHANGED GivenUp
  PROVE  Seen(t)
<1>1. /\ IsThin(lock_word) /\ lock_word.owner = t /\ lock_word = seen[t] /\ GivenUp[t] = -1
      /\ lock_word \in LockWord
  BY GivenUpOf, Zenon DEF StoreThin, ViewOf, OwnThin, InWait, Types
<1> DEFINE c == lock_word.count
<1>2. Owner = t /\ Count = c /\ HashOf = 0 /\ seen[t].count = c
  BY <1>1, LockViews, Zenon DEF LockView
<1>3. CASE op[t] = "enter" /\ lock_word' = Thin(t, c + 1) /\ depth' = [depth EXCEPT ![t] = @ + 1]
  <2>1. Owner' = t /\ Count' = c + 1 /\ HashOf' = 0
    BY <1>3, BecomesThin, Zenon
  <2>2. JM!Enter(t)
    BY <1>1, <1>2, <2>1, SeenForms, Zenon
  <2> QED
    BY <1>3, <2>2, Zenon DEF Seen
<1>4. CASE c # 0 /\ lock_word' = Thin(t, c - 1) /\ depth' = [depth EXCEPT ![t] = @ - 1]
  <2>1. Owner' = t /\ Count' = c - 1 /\ HashOf' = 0
    BY <1>4, BecomesThin, Zenon
  <2>2. JM!Exit(t)
    BY <1>1, <1>2, <1>4, <2>1, SeenForms, Zenon
  <2> QED
    BY <1>4, <2>2, Zenon DEF Seen
<1>5. CASE c = 0 /\ lock_word' = Unlocked /\ depth' = [depth EXCEPT ![t] = @ - 1]
  <2>1. Owner' = NoThread /\ Count' = 0 /\ HashOf' = 0
    BY <1>5, LockViews, Zenon DEF LockView
  <2>2. JM!Exit(t)
    BY <1>1, <1>2, <1>5, <2>1, SeenForms, Zenon
  <2> QED
    BY <1>5, <2>2, Zenon DEF Seen
<1> QED
  BY <1>2, <1>3, <1>4, <1>5, Zenon DEF StoreThin

\* GetHashCode chooses a hash code if there is none.
LEMMA HashSeen ==
  ASSUME Types, NEW t \in Thread, Frame(t), ViewOf(t), GetHashCode(t), UNCHANGED GivenUp
  PROVE  Unseen \/ Seen(t)
<1>1. lock_word = Fat /\ lock_word' = Fat /\ UNCHANGED <<owner_, lock_count_, saved, depth>>
      /\ pc[t] = "fat" /\ pc'[t] = "idle"
  BY ReturnMoves, Zenon DEF GetHashCode, ViewOf, word, waiting, Moves
<1>2. UNCHANGED <<Owner, Count>>
  <2>1. owner_ # NoThread => (pc'[owner_] = "restore" <=> pc[owner_] = "restore")
    BY <1>1, OthersStay, Zenon DEF Types
  <2> QED
    BY <1>1, <2>1, LockViews, Zenon DEF LockView
<1>3. HashOf = hash_code_ /\ HashOf' = hash_code_'
  BY <1>1, LockViews, Zenon DEF LockView
<1>4. CASE hash_code_ = 0 /\ hash_code_' \in Hash
  <2>1. JM!ChooseHash(hash_code_')
    BY <1>2, <1>3, <1>4, SeenForms, Zenon
  <2> QED
    BY <1>1, <1>4, <2>1, Zenon DEF Seen
<1>5. CASE hash_code_' = hash_code_
  BY <1>1, <1>2, <1>3, <1>5, Zenon DEF Unseen
<1> QED
  BY <1>4, <1>5, Zenon DEF GetHashCode

\* A quiet step is unseen, or it changes the word or the hash code.
LEMMA QuietSeen ==
  ASSUME Types, NEW t \in Thread, ViewOf(t), Frame(t), Quiet(t)
  PROVE  Unseen \/ Seen(t)
<1>1. /\ UNCHANGED GivenUp /\ pc[t] # "restore" /\ pc'[t] # "restore"
      /\ UNCHANGED <<owner_, lock_count_, saved>>
  BY GivenUpStays, Zenon DEF Quiet
<1>2. CASE UNCHANGED <<lock_word, hash_code_, depth>>
  BY <1>1, <1>2, ViewStays, Zenon DEF Unseen
<1>3. CASE CasUnlocked(t)
  <2>1. CASE UNCHANGED <<lock_word, depth>>
    BY <1>2, <1>3, <2>1, Zenon DEF CasUnlocked, monitor
  <2> QED
    BY <1>1, <1>3, <2>1, CasSeen, Zenon DEF CasUnlocked
<1> QED
  BY <1>1, <1>2, <1>3, StoreSeen, HashSeen, Zenon DEF Quiet, Swap

\* An inflated monitor says of the lock what the word said, but for a hash code it adds.
LEMMA PublishSeen ==
  ASSUME Types, NEW t \in Thread, \A s \in Thread : ViewOf(s), Frame(t), Publishes(t)
  PROVE  Unseen \/ Seen(t)
<1>1. /\ lock_word # Fat /\ lock_word = seen[t] /\ Inflatable(t) /\ lock_word' = Fat
      /\ made[t].count = IF IsThin(lock_word) THEN lock_word.count ELSE 0
      /\ lock_word \in LockWord /\ owner_' = made[t].owner /\ UNCHANGED depth
      /\ made[t].owner \in Thread \cup {NoThread} /\ made[t].hash \in Hash \cup {0}
  BY Zenon DEF Publishes, ViewOf, Types
<1>2. UNCHANGED GivenUp
  BY GivenUpStays, Zenon DEF Publishes, InWait
<1>3. owner_' # NoThread => pc'[owner_'] # "restore"
  BY <1>1, NobodyInside, OthersStay, Zenon DEF Publishes
<1>4. Owner' = made[t].owner /\ Count' = made[t].count /\ HashOf' = made[t].hash
  BY <1>1, <1>3, LockViews, Zenon DEF LockView, Publishes
<1>5. CASE IsThin(lock_word)
  <2>1. UNCHANGED <<Owner, Count>> /\ HashOf = 0
    BY <1>1, <1>4, <1>5, LockViews, Zenon DEF LockView, Inflatable
  <2>2. CASE made[t].hash = 0
    BY <1>1, <1>2, <1>4, <2>1, <2>2, Zenon DEF Unseen
  <2>3. CASE made[t].hash \in Hash
    <3>1. JM!ChooseHash(made[t].hash)
      BY <1>2, <1>4, <2>1, SeenForms, Zenon
    <3> QED
      BY <1>1, <2>3, <3>1, Zenon DEF Seen
  <2> QED
    BY <1>1, <2>2, <2>3
<1>6. CASE lock_word.state = "hash"
  <2>1. ~IsThin(lock_word)
    BY <1>6, Zenon DEF IsThin
  <2>2. UNCHANGED <<Owner, Count, HashOf>>
    BY <1>1, <1>4, <1>6, <2>1, LockViews, Zenon DEF LockView, Inflatable
  <2> QED
    BY <1>1, <1>2, <2>2, Zenon DEF Unseen
<1> QED
  BY <1>1, <1>5, <1>6, WordCases, Zenon DEF Inflatable, IsThin

\* A turn of Lock is an Enter, the return of a wait(), or unseen.
LEMMA TurnSeen ==
  ASSUME Types, NEW t \in Thread, ViewOf(t), Books, Frame(t), Turns(t)
  PROVE  Unseen \/ Seen(t)
<1>1. /\ lock_word = Fat /\ lock_word' = Fat /\ pc[t] \in {"fat", "blocked"}
      /\ UNCHANGED <<hash_code_, saved>> /\ saved[t] \in Nat
  BY Zenon DEF Turns, ViewOf, Types
<1>2. UNCHANGED HashOf /\ Owner = owner_ /\ Owner' = owner_'
  BY <1>1, LockViews, Zenon DEF LockView
<1>3. CASE owner_ \notin {NoThread, t} /\ pc'[t] = "block"
  <2>1. UNCHANGED <<owner_, lock_count_, depth>> /\ op'[t] = op[t]
    BY <1>3, Zenon DEF Turns
  <2>2. UNCHANGED GivenUp
    BY <1>1, <1>3, <2>1, GivenUpStays, Zenon DEF InWait
  <2> QED
    BY <1>1, <1>3, <2>1, <2>2, ViewStays, Zenon DEF Unseen, Turns
<1>4. CASE op[t] = "enter" /\ owner_ \in {NoThread, t}
  <2>1. pc'[t] = "idle" /\ depth' = [depth EXCEPT ![t] = @ + 1] /\ owner_' = t
    BY <1>4, Zenon DEF Turns
  <2>2. ~InWait(t) /\ ~InWait(t)'
    BY <1>1, <1>4, <2>1, Zenon DEF InWait
  <2>3. UNCHANGED GivenUp /\ GivenUp[t] = -1
    BY <2>2, GivenUpStays, GivenUpOf, Zenon
  <2>4. Count' = lock_count_'
    BY <1>1, <2>1, LockViews, Zenon DEF LockView
  <2>5. Count = lock_count_
    BY <1>1, <1>4, LockViews, Zenon DEF LockView
  <2>6. \/ owner_ = NoThread /\ lock_count_' = 0
        \/ owner_ = t /\ lock_count_' = lock_count_ + 1
    BY <1>4, NoThreadIsNone, Zenon DEF Turns, Books
  <2>7. JM!Enter(t)
    BY <1>2, <2>1, <2>3, <2>4, <2>5, <2>6, SeenForms, Zenon
  <2> QED
    BY <2>1, <2>7, Zenon DEF Seen
<1>5. CASE op[t] = "relock" /\ owner_ \in {NoThread, t}
  <2>1. InWait(t) /\ owner_ = NoThread
    BY <1>1, <1>5, Zenon DEF InWait, Books
  <2>2. pc'[t] = "restore" /\ UNCHANGED depth /\ owner_' = t /\ t # NoThread
    BY <1>5, <2>1, NoThreadIsNone, Zenon DEF Turns
  <2>3. Count' = saved[t]
    BY <1>1, <2>2, LockViews, Zenon DEF LockView
  <2>4. GivenUp[t] = saved[t] /\ GivenUp' = [GivenUp EXCEPT ![t] = -1]
    BY <2>1, <2>2, GivenUpMoves, GivenUpOf, Zenon DEF InWait
  <2>5. saved[t] # -1
    BY <1>1, SMT
  <2>6. JM!WaitReturns(t)
    BY <1>2, <2>1, <2>2, <2>3, <2>4, <2>5, SeenForms, Zenon
  <2> QED
    BY <2>2, <2>6, Zenon DEF Seen
<1> QED
  BY <1>3, <1>4, <1>5, Zenon DEF Turns

\* A release is an Exit or a Wait.
LEMMA ReleaseSeen ==
  ASSUME Types, NEW t \in Thread, ViewOf(t), Books, Frame(t), Releases(t)
  PROVE  Seen(t)
<1>1. /\ lock_word = Fat /\ lock_word' = Fat /\ pc[t] = "fat" /\ owner_ = t
      /\ UNCHANGED hash_code_ /\ ~InWait(t)
  BY Zenon DEF Releases, ViewOf, InWait
<1>2. /\ UNCHANGED HashOf /\ Owner = t /\ Owner' = owner_'
  BY <1>1, LockViews, Zenon DEF LockView
<1>3. Count = lock_count_
  BY <1>1, LockViews, Zenon DEF LockView
<1>4. pc'[t] # "restore" /\ owner_' \in {NoThread, t}
  BY <1>1, Zenon DEF Releases
<1>5. Count' = lock_count_'
  BY <1>1, <1>4, LockViews, Zenon DEF LockView
<1>6. CASE pc'[t] = "idle"
  <2>1. UNCHANGED GivenUp
    BY <1>1, <1>6, GivenUpStays, Zenon DEF InWait
  <2>2. /\ depth' = [depth EXCEPT ![t] = @ - 1]
        /\ \/ lock_count_ = 0 /\ owner_' = NoThread /\ lock_count_' = 0
           \/ lock_count_ # 0 /\ owner_' = t /\ lock_count_' = lock_count_ - 1
    BY <1>1, <1>6, Zenon DEF Releases
  <2>3. JM!Exit(t)
    BY <1>2, <1>3, <1>5, <2>1, <2>2, SeenForms, Zenon
  <2> QED
    BY <2>2, <2>3, Zenon DEF Seen
<1>7. CASE pc'[t] \in {"waiting", "woken"}
  <2>1. /\ UNCHANGED depth /\ owner_' = NoThread /\ lock_count_' = 0
        /\ saved' = [saved EXCEPT ![t] = lock_count_]
    BY <1>7, Zenon DEF Releases
  <2>2. saved'[t] = lock_count_
    BY <2>1, Zenon DEF Types
  <2>3. GivenUp' = [GivenUp EXCEPT ![t] = lock_count_]
    BY <1>7, <2>2, GivenUpMoves, Zenon DEF InWait
  <2>4. JM!Wait(t)
    BY <1>2, <1>3, <1>5, <2>1, <2>3, SeenForms, Zenon
  <2> QED
    BY <2>1, <2>4, Zenon DEF Seen
<1> QED
  BY <1>6, <1>7, Zenon DEF Releases

\* Restoring the count is unseen: wait() has returned with the turn that took the lock.
LEMMA RestoreSeen ==
  ASSUME Types, NEW t \in Thread, ViewOf(t), Books, Frame(t), Restores(t)
  PROVE  Unseen
<1>1. /\ lock_word = Fat /\ lock_word' = Fat /\ pc[t] = "restore" /\ owner_ = t /\ owner_' = t
      /\ UNCHANGED <<hash_code_, depth>> /\ pc'[t] # "restore" /\ lock_count_' = saved[t]
      /\ t # NoThread
  BY NoThreadIsNone, Zenon DEF Restores, ViewOf, Books
<1>2. UNCHANGED GivenUp
  BY GivenUpStays, Zenon DEF InWait, Restores
<1>3. UNCHANGED <<Owner, HashOf>> /\ Count = saved[t]
  BY <1>1, LockViews, Zenon DEF LockView
<1>4. Count' = lock_count_'
  BY <1>1, LockViews, Zenon DEF LockView
<1> QED
  BY <1>1, <1>2, <1>3, <1>4, Zenon DEF Unseen

\* A step of t is unseen or a step of JavaMonitor.
LEMMA StepSeen ==
  ASSUME Types, NEW t \in Thread, \A s \in Thread : ViewOf(s), Books, Step(t), Frame(t)
  PROVE  Unseen \/ Seen(t)
BY StepForms, QuietSeen, PublishSeen, TurnSeen, ReleaseSeen, RestoreSeen, Zenon

-----------------------------------------------------------------------------
(* Signals, time-outs and interrupts. *)

\* They change nothing but who sleeps and who is interrupted.
LEMMA EnvironmentFrame ==
  ASSUME Types, NEW t \in Thread, Environment(t)
  PROVE  /\ Types'
         /\ UNCHANGED <<lock_word, owner_, lock_count_, num_waiters_, wait_set_, hash_code_>>
         /\ UNCHANGED <<wait_monitor, saved, pc, op, seen, made, target, depth, fatal>>
         /\ contenders' \subseteq contenders /\ asleep' \subseteq asleep
<1>1. /\ UNCHANGED <<lock_word, owner_, lock_count_, num_waiters_, wait_set_, hash_code_>>
      /\ UNCHANGED <<wait_monitor, saved, pc, op, seen, made, target, depth, fatal>>
      /\ contenders' \subseteq contenders /\ asleep' \subseteq asleep
  BY Zenon DEF Environment, ContenderInterrupted, WaitTimesOut, Interrupt, Interrupted,
     word, monitor, waiting, control
<1>2. interrupted' \in [Thread -> BOOLEAN]
  <2>1. TRUE \in BOOLEAN /\ FALSE \in BOOLEAN /\ interrupted \in [Thread -> BOOLEAN]
    BY Zenon DEF Types
  <2>2. [interrupted EXCEPT ![t] = TRUE] \in [Thread -> BOOLEAN]
    BY <2>1, Update, Zenon
  <2>3. [interrupted EXCEPT ![t] = FALSE] \in [Thread -> BOOLEAN]
    BY <2>1, Update, Zenon
  <2> QED
    BY <2>1, <2>2, <2>3, Zenon DEF Environment, ContenderInterrupted, WaitTimesOut, Interrupt,
       Interrupted, waiting
<1> QED
  BY <1>1, <1>2, Zenon DEF Types

\* A signal, time-out or interrupt keeps the sleepers reachable.
LEMMA EnvironmentSleepers ==
  ASSUME Types, Sleepers, NEW t \in Thread, Environment(t)
  PROVE  Sleepers'
<1>1. /\ UNCHANGED <<wait_set_, wait_monitor, pc>> /\ asleep' \subseteq asleep
  BY EnvironmentFrame, Zenon
<1>2. ASSUME NEW s \in asleep' PROVE ~interrupted'[s]
  <2>1. s \in asleep /\ s \in Thread /\ ~interrupted[s] /\ wait_monitor[s]
    BY <1>1, Zenon DEF Sleepers, SleeperIsReachable
  <2>2. CASE UNCHANGED interrupted
    BY <2>1, <2>2, Zenon
  <2>3. CASE interrupted' = [interrupted EXCEPT ![t] = FALSE]
    BY <2>1, <2>3, Zenon DEF Types
  <2>4. CASE Interrupt(t)
    <3>1. s # t
      BY <1>2, <2>1, <2>4, Zenon DEF Interrupt, NotifyLocked
    <3> QED
      BY <2>1, <2>4, <3>1, Zenon DEF Interrupt, Types
  <2> QED
    BY <2>2, <2>3, <2>4, Zenon DEF Environment, ContenderInterrupted, WaitTimesOut, Interrupted, waiting
<1>3. SleeperIsReachable'
  BY <1>1, <1>2, Zenon DEF Sleepers, SleeperIsReachable
<1> QED
  BY <1>1, <1>3, Zenon DEF Sleepers

\* A signal, time-out or interrupt keeps the invariant, unseen.
LEMMA EnvironmentIInv ==
  ASSUME IInv, NEW t \in Thread, Environment(t)
  PROVE  IInv' /\ Unseen
<1>1. /\ Types'
      /\ UNCHANGED <<lock_word, owner_, lock_count_, num_waiters_, hash_code_>>
      /\ UNCHANGED <<saved, pc, op, seen, made, target, depth>>
      /\ contenders' \subseteq contenders
  BY EnvironmentFrame, Zenon DEF IInv
<1>2. \A s \in Thread : TargetOf(s)'
  BY <1>1, Zenon DEF IInv, TargetOf, IsThin
<1>3. \A s \in Thread : ViewOf(s)'
  BY <1>1, Zenon DEF IInv, ViewOf, OwnThin, IsThin, Inflatable
<1>4. \A s : InWait(s)' <=> InWait(s)
  BY <1>1, Zenon DEF InWait
<1>5. Books'
  BY <1>1, <1>4, Zenon DEF IInv, Books
<1>6. Blocked' = Blocked /\ Waiters' = Waiters
  BY <1>1, Zenon DEF Blocked, Waiters, InWait
<1>7. Counted'
  BY <1>1, <1>6, Zenon DEF IInv, Counted
<1>8. Contention'
  BY <1>1, Zenon DEF IInv, Contention, NoStrandedContender
<1>9. Sleepers'
  BY EnvironmentSleepers, Zenon DEF IInv
<1>10. Unseen
  BY <1>1, <1>4, Zenon DEF Unseen, Owner, Count, HashOf, GivenUp
<1> QED
  BY <1>1, <1>2, <1>3, <1>5, <1>7, <1>8, <1>9, <1>10, Zenon DEF IInv

-----------------------------------------------------------------------------
(* The number of waiters. *)

\* What the proofs use of Cardinality.
Sizes ==
  /\ Cardinality({}) = 0
  /\ \A A \in SUBSET Thread : Cardinality(A) \in Nat /\ (Cardinality(A) = 0 => A = {})
  /\ \A A \in SUBSET Thread, t \in Thread : t \notin A => Cardinality(A \cup {t}) = Cardinality(A) + 1

\* The size of a set after t may have joined or left it.
LEMMA Recount ==
  ASSUME Sizes, NEW A \in SUBSET Thread, NEW B \in SUBSET Thread, NEW t \in Thread,
         \A s \in Thread : s # t => (s \in B <=> s \in A)
  PROVE  /\ Cardinality(A) \in Nat
         /\ (t \in A <=> t \in B) => Cardinality(B) = Cardinality(A)
         /\ t \notin A /\ t \in B => Cardinality(B) = Cardinality(A) + 1
         /\ t \in A /\ t \notin B => Cardinality(B) = Cardinality(A) - 1
<1>1. Cardinality(A) \in Nat /\ Cardinality(B) \in Nat
  BY Zenon DEF Sizes
<1>2. CASE t \in A <=> t \in B
  <2>1. A = B
    BY <1>2, SMT
  <2> QED
    BY <1>1, <1>2, <2>1, Zenon
<1>3. CASE t \notin A /\ t \in B
  <2>1. B = A \cup {t}
    BY <1>3, Zenon
  <2> QED
    BY <1>1, <1>3, <2>1, Zenon DEF Sizes
<1>4. CASE t \in A /\ t \notin B
  <2>1. A = B \cup {t}
    BY <1>4, Zenon
  <2>2. Cardinality(A) = Cardinality(B) + 1
    BY <1>4, <2>1, Zenon DEF Sizes
  <2>3. Cardinality(B) = Cardinality(A) - 1
    BY <1>1, <2>2, SMT
  <2> QED
    BY <1>1, <1>4, <2>3, Zenon
<1> QED
  BY <1>2, <1>3, <1>4, Zenon

\* Only t may have joined or left the blocked and the waiting threads.
LEMMA Rosters ==
  ASSUME NEW t \in Thread, Frame(t)
  PROVE  /\ Blocked \in SUBSET Thread /\ Waiters \in SUBSET Thread
         /\ Blocked' \in SUBSET Thread /\ Waiters' \in SUBSET Thread
         /\ \A s \in Thread : s # t => (s \in Blocked' <=> s \in Blocked)
         /\ \A s \in Thread : s # t => (s \in Waiters' <=> s \in Waiters)
         /\ t \in Blocked <=> pc[t] \in BlockedPc
         /\ t \in Blocked' <=> pc'[t] \in BlockedPc
         /\ t \in Waiters <=> InWait(t) \/ pc[t] = "restore"
         /\ t \in Waiters' <=> InWait(t)' \/ pc'[t] = "restore"
<1>1. ASSUME NEW s \in Thread, s # t PROVE s \in Blocked' <=> s \in Blocked
  BY <1>1, OthersStay, Zenon DEF Blocked
<1>2. ASSUME NEW s \in Thread, s # t PROVE s \in Waiters' <=> s \in Waiters
  BY <1>2, OthersStay, Zenon DEF Waiters, InWait
<1> QED
  BY <1>1, <1>2, Zenon DEF Blocked, Waiters, BlockedPc, InWait

\* A step of t keeps num_waiters_ exact.
LEMMA StepCounted ==
  ASSUME Sizes, Types, NEW t \in Thread, TargetOf(t), ViewOf(t), Books, Counted, Step(t), OwnFacts(t)
  PROVE  Counted'
<1> DEFINE b == Cardinality(Blocked)
           w == Cardinality(Waiters)
<1>1. Frame(t) /\ num_waiters_ \in Int /\ num_waiters_ = b + w
  BY Zenon DEF OwnFacts, Types, Counted
<1>b. /\ b \in Nat
      /\ (t \in Blocked <=> t \in Blocked') => b' = b
      /\ t \notin Blocked /\ t \in Blocked' => b' = b + 1
      /\ t \in Blocked /\ t \notin Blocked' => b' = b - 1
  BY <1>1, Rosters, Recount, Zenon
<1>w. /\ w \in Nat
      /\ (t \in Waiters <=> t \in Waiters') => w' = w
      /\ t \notin Waiters /\ t \in Waiters' => w' = w + 1
      /\ t \in Waiters /\ t \notin Waiters' => w' = w - 1
  BY <1>1, Rosters, Recount, Zenon
<1> SUFFICES num_waiters_' = b' + w'
  BY Zenon DEF Counted
<1> HIDE DEF b, w
<1>3. CASE Quiet(t)
  <2>1. num_waiters_' = num_waiters_ /\ b' = b /\ w' = w
    BY <1>1, <1>b, <1>w, <1>3, Rosters, Zenon DEF Quiet
  <2> QED
    BY <1>1, <2>1, Zenon
<1>4. CASE Publishes(t)
  <2>1. pc'[t] \in {"load", "resume"} /\ pc[t] = "publish" /\ num_waiters_' = num_waiters_
    BY <1>4, Zenon DEF Publishes
  <2>2. pc'[t] \notin {"waiting", "woken", "fat", "block", "blocked", "restore"}
    BY <2>1, Zenon
  <2>3. b' = b /\ w' = w
    BY <1>1, <1>b, <1>w, <2>1, <2>2, Rosters, Zenon DEF InWait, BlockedPc
  <2> QED
    BY <1>1, <2>1, <2>3, Zenon
<1>5. CASE Turns(t)
  <2>1. w' = w
    <3>1. t \in Waiters' <=> t \in Waiters
      <4>1. CASE op[t] = "enter"
        BY <1>1, <1>5, <4>1, Rosters, Zenon DEF Turns, InWait
      <4>2. CASE op[t] = "relock"
        BY <1>1, <1>5, <4>2, Rosters, Zenon DEF Turns, InWait
      <4> QED
        BY <1>5, <4>1, <4>2, Zenon DEF Turns
    <3> QED
      BY <1>b, <1>w, <3>1, Zenon
  <2>2. CASE pc'[t] = "block" /\ pc[t] = "fat"
    <3>1. num_waiters_' = num_waiters_ + 1 /\ b' = b + 1
      BY <1>1, <1>b, <1>w, <1>5, <2>2, Rosters, Zenon DEF Turns, BlockedPc
    <3> QED
      BY <1>1, <1>b, <1>w, <2>1, <3>1, SMT
  <2>3. CASE pc'[t] = "block" /\ pc[t] = "blocked"
    <3>1. num_waiters_' = (num_waiters_ - 1) + 1 /\ b' = b
      BY <1>1, <1>b, <1>w, <1>5, <2>3, Rosters, Zenon DEF Turns, BlockedPc
    <3> QED
      BY <1>1, <1>b, <1>w, <2>1, <3>1, SMT
  <2>4. CASE pc'[t] \in {"idle", "restore"} /\ pc[t] = "fat"
    <3>1. num_waiters_' = num_waiters_ /\ b' = b
      BY <1>1, <1>b, <1>w, <1>5, <2>4, Rosters, Zenon DEF Turns, BlockedPc
    <3> QED
      BY <1>1, <2>1, <3>1, Zenon
  <2>5. CASE pc'[t] \in {"idle", "restore"} /\ pc[t] = "blocked"
    <3>1. num_waiters_' = num_waiters_ - 1 /\ b' = b - 1
      BY <1>1, <1>b, <1>w, <1>5, <2>5, Rosters, Zenon DEF Turns, BlockedPc
    <3> QED
      BY <1>1, <1>b, <1>w, <2>1, <3>1, SMT
  <2> QED
    BY <1>5, <2>2, <2>3, <2>4, <2>5, Zenon DEF Turns
<1>6. CASE Releases(t)
  <2>1. pc'[t] \notin BlockedPc /\ pc[t] \notin BlockedPc
    BY <1>6, Zenon DEF Releases, BlockedPc
  <2>2. b' = b
    BY <1>1, <1>b, <1>w, <2>1, Rosters, Zenon
  <2>3. t \notin Waiters
    BY <1>1, <1>6, Rosters, Zenon DEF Releases, InWait
  <2>4. CASE pc'[t] = "idle"
    <3>1. num_waiters_' = num_waiters_ /\ t \notin Waiters'
      BY <1>1, <1>6, <2>4, Rosters, Zenon DEF Releases, InWait
    <3> QED
      BY <1>1, <1>b, <1>w, <2>2, <2>3, <3>1, Zenon
  <2>5. CASE pc'[t] \in {"waiting", "woken"}
    <3>1. num_waiters_' = num_waiters_ + 1 /\ t \in Waiters'
      BY <1>1, <1>6, <2>5, Rosters, Zenon DEF Releases, InWait
    <3>2. w' = w + 1
      BY <1>b, <1>w, <2>3, <3>1, Zenon
    <3> QED
      BY <1>1, <1>b, <1>w, <2>2, <3>1, <3>2, SMT
  <2> QED
    BY <1>6, <2>4, <2>5, Zenon DEF Releases
<1>7. CASE Restores(t)
  <2>1. b' = b
    BY <1>1, <1>b, <1>w, <1>7, Rosters, Zenon DEF Restores, BlockedPc
  <2>2. w' = w - 1
    BY <1>1, <1>b, <1>w, <1>7, Rosters, Zenon DEF Restores, InWait
  <2>3. num_waiters_' = num_waiters_ - 1
    BY <1>7, Zenon DEF Restores
  <2> QED
    BY <1>1, <1>b, <1>w, <2>1, <2>2, <2>3, SMT
<1> QED
  BY <1>3, <1>4, <1>5, <1>6, <1>7, StepForms, Zenon

-----------------------------------------------------------------------------
(* Deflation. *)

\* With no waiters counted, and everybody at a safe point, nobody is in the monitor.
LEMMA MonitorIsIdle ==
  ASSUME Sizes, IInv, Deflate, NEW s \in Thread
  PROVE  /\ pc[s] \notin {"fat", "block", "blocked", "waiting", "woken", "restore"} /\ ~InWait(s)
         /\ pc[s] \notin {"cas", "store", "install", "publish"}
<1>1. pc[s] \in SafePoint /\ num_waiters_ = 0
  BY Zenon DEF Deflate, MayDeflate
<1>2. Blocked \in SUBSET Thread /\ Waiters \in SUBSET Thread
  BY Zenon DEF Blocked, Waiters
<1>3. Cardinality(Blocked) \in Nat /\ Cardinality(Waiters) \in Nat
  BY <1>2, Zenon DEF Sizes
<1>4. 0 = Cardinality(Blocked) + Cardinality(Waiters)
  BY <1>1, Zenon DEF IInv, Counted
<1>5. Cardinality(Blocked) = 0 /\ Cardinality(Waiters) = 0
  BY <1>3, <1>4, SMT
<1>6. Blocked = {} /\ Waiters = {}
  BY <1>2, <1>5, Zenon DEF Sizes
<1>7. pc[s] \notin {"block", "blocked", "restore"} /\ ~InWait(s)
  BY <1>6, Zenon DEF Blocked, Waiters
<1> QED
  BY <1>1, <1>7, Zenon DEF SafePoint, InWait

\* The word left says of the lock what the monitor said.
LEMMA DeflateSeen ==
  ASSUME Sizes, IInv, Deflate
  PROVE  Unseen /\ lock_word' \in LockWord
<1>1. /\ Types /\ Books /\ lock_word = Fat /\ lock_word' = Deflated /\ UNCHANGED <<pc, op, saved, depth>>
      /\ owner_ # NoThread => hash_code_ = 0 /\ lock_count_ <= kThinLockMaxCount
      /\ owner_ # NoThread => owner_ \in Thread
      /\ lock_count_ \in Nat /\ hash_code_ \in Hash \cup {0}
  BY WordCases, Zenon DEF IInv, Types, Deflate, MayDeflate, waiting, control
<1>2. owner_ # NoThread => pc[owner_] # "restore"
  BY <1>1, MonitorIsIdle, Zenon
<1>3. Owner = owner_ /\ Count = lock_count_ /\ HashOf = hash_code_
  BY <1>1, <1>2, LockViews, Zenon DEF LockView
<1>4. UNCHANGED GivenUp
  BY <1>1, Zenon DEF GivenUp, InWait
<1>5. CASE owner_ # NoThread
  <2>1. lock_word' = Thin(owner_, lock_count_)
    BY <1>1, <1>5, Zenon DEF Deflated
  <2>2. lock_count_ \in 0..kThinLockMaxCount
    BY <1>1, <1>5, MaxCountIsNat, SMT
  <2> QED
    BY <1>1, <1>3, <1>4, <1>5, <2>1, <2>2, BecomesThin, WordTypes, Zenon DEF Unseen
<1>6. CASE owner_ = NoThread /\ hash_code_ # 0
  <2>1. lock_word' = HashWord(hash_code_) /\ hash_code_ \in Hash /\ lock_count_ = 0
    BY <1>1, <1>6, Zenon DEF Deflated, Books
  <2>2. lock_word'.state = "hash" /\ lock_word'.hash = hash_code_
    BY <2>1, WordForms, Zenon
  <2>3. Owner' = NoThread /\ Count' = 0 /\ HashOf' = hash_code_
    BY <2>2, LockViews, Zenon DEF LockView
  <2> QED
    BY <1>1, <1>3, <1>4, <1>6, <2>1, <2>3, WordTypes, Zenon DEF Unseen
<1>7. CASE owner_ = NoThread /\ hash_code_ = 0
  <2>1. lock_word' = Unlocked /\ lock_count_ = 0
    BY <1>1, <1>7, Zenon DEF Deflated, Books
  <2>2. Owner' = NoThread /\ Count' = 0 /\ HashOf' = 0
    BY <2>1, LockViews, Zenon DEF LockView
  <2> QED
    BY <1>1, <1>3, <1>4, <1>7, <2>1, <2>2, WordTypes, Zenon DEF Unseen
<1> QED
  BY <1>5, <1>6, <1>7

\* Deflation keeps the invariant.
LEMMA DeflateIInv ==
  ASSUME Sizes, IInv, Deflate
  PROVE  IInv'
<1>1. /\ owner_' = NoThread /\ lock_count_' = 0 /\ hash_code_' = 0 /\ wait_set_' = <<>>
      /\ contenders' = {} /\ lock_word' \in LockWord
      /\ UNCHANGED <<num_waiters_, wait_monitor, interrupted, asleep, saved>>
      /\ UNCHANGED <<pc, op, seen, made, target, depth>>
  BY DeflateSeen, Zenon DEF Deflate, waiting, control
<1>2. 0 \in Nat
  OBVIOUS
<1>3. Types'
  BY <1>1, <1>2, Zenon DEF IInv, Types
<1>4. \A s \in Thread : TargetOf(s)'
  BY <1>1, Zenon DEF IInv, TargetOf, IsThin
<1>5. \A s \in Thread : ViewOf(s)'
  BY <1>1, MonitorIsIdle, Zenon DEF ViewOf
<1>6. \A s \in Thread : pc'[s] # "restore" /\ ~InWait(s)'
  BY <1>1, MonitorIsIdle, Zenon DEF InWait
<1>7. Books'
  BY <1>1, <1>6, Zenon DEF Books
<1>8. Blocked' = Blocked /\ Waiters' = Waiters
  BY <1>1, Zenon DEF Blocked, Waiters, InWait
<1>9. Counted'
  BY <1>1, <1>8, Zenon DEF IInv, Counted
<1>10. Contention'
  BY <1>1, Zenon DEF Contention, NoStrandedContender
<1>11. Sleepers'
  <2>1. <<>> \in Seq(Thread)
    BY SMT
  <2>2. asleep = {}
    BY MonitorIsIdle, Zenon DEF IInv, Sleepers
  <2> QED
    BY <1>1, <2>1, <2>2, Zenon DEF IInv, Sleepers, SleeperIsReachable
<1> QED
  BY <1>3, <1>4, <1>5, <1>7, <1>9, <1>10, <1>11, Zenon DEF IInv

-----------------------------------------------------------------------------
(* The inductive invariant, and what follows from it. *)

\* The invariant holds initially.
LEMMA InitIInv ==
  ASSUME Sizes, Init
  PROVE  IInv
<1>1. Types
  <2>1. Unlocked \in LockWord /\ "idle" \in PC /\ "none" \in Op
    BY WordTypes, Zenon DEF PC, SafePoint, Op
  <2>2. 0 \in Nat /\ 0 \in Int
    BY SMT
  <2>3. made \in [Thread -> [owner : Thread \cup {NoThread}, count : Nat, hash : Hash \cup {0}]]
    BY SMT DEF Init
  <2> QED
    BY <2>1, <2>2, <2>3, Zenon DEF Init, Types
<1>2. \A t \in Thread : pc[t] = "idle" /\ target[t] = NoThread /\ ~InWait(t)
  BY Zenon DEF Init, InWait
<1>3. \A t \in Thread : TargetOf(t) /\ ViewOf(t)
  BY <1>2, Zenon DEF TargetOf, ViewOf
<1>4. Books
  BY <1>2, Zenon DEF Init, Books
<1>5. Counted
  <2>1. Blocked = {} /\ Waiters = {}
    BY <1>2, Zenon DEF Blocked, Waiters
  <2>2. Cardinality({}) = 0 /\ num_waiters_ = 0
    BY Zenon DEF Sizes, Init
  <2>3. 0 = 0 + 0
    BY SMT
  <2> QED
    BY <2>1, <2>2, <2>3, Zenon DEF Counted
<1>6. Contention
  BY Zenon DEF Init, Contention, NoStrandedContender
<1>7. Sleepers
  <2>1. <<>> \in Seq(Thread)
    BY SMT
  <2> QED
    BY <1>2, <2>1, Zenon DEF Init, Sleepers, SleeperIsReachable
<1> QED
  BY <1>1, <1>3, <1>4, <1>5, <1>6, <1>7, Zenon DEF IInv

\* A step of t keeps the invariant, and is unseen or a step of JavaMonitor.
LEMMA StepIInv ==
  ASSUME Sizes, IInv, NEW t \in Thread, Step(t)
  PROVE  IInv' /\ (Unseen \/ Seen(t))
<1>1. Types /\ \A s \in Thread : TargetOf(s) /\ ViewOf(s)
  BY Zenon DEF IInv
<1>2. OwnFacts(t)
  BY <1>1, StepFacts, Zenon DEF Step
<1>3. Types' /\ Frame(t) /\ TargetOf(t)' /\ ViewOf(t)'
  BY <1>2, Zenon DEF OwnFacts
<1>4. \A s \in Thread : TargetOf(s)'
  BY <1>1, <1>3, OthersTarget, Zenon
<1>5. \A s \in Thread : ViewOf(s)'
  BY <1>1, <1>3, OthersView, Zenon
<1>6. Books /\ Counted /\ Contention /\ Sleepers
  BY Zenon DEF IInv
<1>7. Books'
  BY <1>1, <1>2, <1>6, StepBooks, Zenon
<1>8. Counted'
  BY <1>1, <1>2, <1>6, StepCounted, Zenon
<1>9. Contention'
  BY <1>1, <1>2, <1>6, StepContention, Zenon
<1>10. Sleepers'
  BY <1>1, <1>2, <1>6, StepSleepers, Zenon
<1>11. Unseen \/ Seen(t)
  BY <1>1, <1>3, <1>6, StepSeen, Zenon
<1> QED
  BY <1>3, <1>4, <1>5, <1>7, <1>8, <1>9, <1>10, <1>11, Zenon DEF IInv

\* A step that changes no variable.
LEMMA StutterIInv ==
  ASSUME IInv, UNCHANGED vars
  PROVE  IInv' /\ Unseen
<1>1. /\ UNCHANGED <<lock_word, owner_, lock_count_, num_waiters_, wait_set_, hash_code_, contenders>>
      /\ UNCHANGED <<wait_monitor, interrupted, asleep, saved>>
      /\ UNCHANGED <<pc, op, seen, made, target, depth>>
  BY Zenon DEF vars, word, monitor, waiting, control
<1>2. Types'
  BY <1>1, Zenon DEF IInv, Types
<1>3. \A s \in Thread : TargetOf(s)'
  BY <1>1, Zenon DEF IInv, TargetOf, IsThin
<1>4. \A s \in Thread : ViewOf(s)'
  BY <1>1, Zenon DEF IInv, ViewOf, OwnThin, IsThin, Inflatable
<1>5. \A s : InWait(s)' <=> InWait(s)
  BY <1>1, Zenon DEF InWait
<1>6. Books'
  BY <1>1, <1>5, Zenon DEF IInv, Books
<1>7. Blocked' = Blocked /\ Waiters' = Waiters
  BY <1>1, Zenon DEF Blocked, Waiters, InWait
<1>8. Counted'
  BY <1>1, <1>7, Zenon DEF IInv, Counted
<1>9. Contention'
  BY <1>1, Zenon DEF IInv, Contention, NoStrandedContender
<1>10. Sleepers'
  BY <1>1, Zenon DEF IInv, Sleepers, SleeperIsReachable
<1>11. Unseen
  BY <1>1, <1>5, Zenon DEF Unseen, Owner, Count, HashOf, GivenUp
<1> QED
  BY <1>2, <1>3, <1>4, <1>6, <1>8, <1>9, <1>10, <1>11, Zenon DEF IInv

\* Every step keeps the invariant, and is unseen or a step of JavaMonitor.
LEMMA NextIInv ==
  ASSUME Sizes, IInv, [Next]_vars
  PROVE  IInv' /\ (Unseen \/ \E t \in Thread : Seen(t))
<1>1. CASE \E t \in Thread : Step(t)
  BY <1>1, StepIInv, Zenon
<1>2. CASE \E t \in Thread : Environment(t)
  BY <1>2, EnvironmentIInv, Zenon
<1>3. CASE Deflate
  BY <1>3, DeflateIInv, DeflateSeen, Zenon
<1>4. CASE UNCHANGED vars
  BY <1>4, StutterIInv, Zenon
<1> QED
  BY <1>1, <1>2, <1>3, <1>4, Zenon DEF Next, Step

-----------------------------------------------------------------------------
(* The CHECKs.  That of FindThreadByThreadId holds because a thread that calls        *)
(* MonitorExit owns the lock, which is to say that the lock counts its entries right. *)

\* The lock, as the Java code sees it, has a count, and its owner is not in wait().
LockFacts(t) ==
  /\ Count \in Nat /\ GivenUp[t] \in Int
  /\ InWait(t) <=> GivenUp[t] # -1
  /\ Owner = t => GivenUp[t] = -1
  /\ Depth(t) = IF GivenUp[t] # -1 THEN GivenUp[t] + 1
                ELSE IF Owner = t THEN Count + 1 ELSE 0

\* These facts follow from the invariant.
LEMMA LockTypes ==
  ASSUME IInv, NEW t \in Thread
  PROVE  LockFacts(t)
<1>1. Types /\ ViewOf(t) /\ Books /\ lock_word \in LockWord /\ saved \in [Thread -> Nat]
  BY Zenon DEF IInv, Types
<1>2. lock_count_ \in Nat /\ saved[t] \in Nat
  BY <1>1, Zenon DEF Types
<1>3. saved[t] # -1 /\ -1 \in Int /\ saved[t] \in Int
  BY <1>2, SMT
<1>4. GivenUp[t] \in Int /\ (InWait(t) <=> GivenUp[t] # -1) /\ (InWait(t) => GivenUp[t] = saved[t])
  BY <1>3, GivenUpOf, Zenon
<1>5. Count \in Nat
  <2>1. CASE IsThin(lock_word)
    <3>1. Count \in 0..kThinLockMaxCount
      BY <1>1, <2>1, WordCases, LockViews, Zenon DEF LockView
    <3> QED
      BY <3>1, MaxCountIsNat, SMT
  <2>2. CASE lock_word = Fat
    <3>1. Count = IF owner_ # NoThread /\ pc[owner_] = "restore" THEN saved[owner_] ELSE lock_count_
      BY <2>2, LockViews, Zenon DEF LockView
    <3>2. owner_ # NoThread => saved[owner_] \in Nat
      BY <1>1, Zenon DEF Types
    <3> QED
      BY <1>2, <3>1, <3>2, Zenon
  <2>3. CASE lock_word = Unlocked \/ lock_word.state = "hash"
    <3>1. Count = 0 /\ 0 \in Nat
      BY <2>3, LockViews, Zenon DEF LockView
    <3> QED
      BY <3>1, Zenon
  <2> QED
    BY <1>1, <2>1, <2>2, <2>3, WordCases, Zenon DEF IsThin
<1>6. InWait(t) => Owner # t
  BY <1>1, LockViews, Zenon DEF LockView, ViewOf, InWait, Books
<1> QED
  BY <1>4, <1>5, <1>6, Zenon DEF Depth, LockFacts

\* ... for every thread ...
LEMMA AllLockFacts == IInv => \A t \in Thread : LockFacts(t)
BY LockTypes, Zenon

\* ... and after a step.
LEMMA NextLockFacts == IInv' => (\A t \in Thread : LockFacts(t))'
BY AllLockFacts, PTL

\* A thread that is inside the lock neither before nor after the step.
LEMMA OthersNest ==
  ASSUME NEW s \in Thread, LockFacts(s), LockFacts(s)', depth[s] = Depth(s),
         depth'[s] = depth[s], GivenUp'[s] = GivenUp[s],
         \/ Owner # s /\ Owner' # s
         \/ UNCHANGED <<Owner, Count>>
  PROVE  depth'[s] = Depth(s)'
BY Zenon DEF LockFacts

\* A step of JavaMonitor keeps the nesting of every thread counted.
LEMMA SeenNests ==
  ASSUME IInv, IInv', Nesting, NEW t \in Thread, Seen(t), NEW s \in Thread
  PROVE  depth'[s] = Depth(s)'
<1>1. /\ LockFacts(s) /\ LockFacts(s)' /\ LockFacts(t) /\ LockFacts(t)'
      /\ depth[s] = Depth(s) /\ depth[t] = Depth(t) /\ depth \in [Thread -> Int]
      /\ t # NoThread /\ s # NoThread /\ depth[t] \in Int
      /\ DOMAIN GivenUp = Thread
  BY AllLockFacts, NextLockFacts, NoThreadIsNone, Zenon DEF Nesting, IInv, Types, GivenUp
<1>2. CASE JM!Enter(t) /\ depth' = [depth EXCEPT ![t] = @ + 1]
  <2>1. /\ GivenUp[t] = -1 /\ UNCHANGED GivenUp /\ Owner' = t
        /\ \/ Owner = NoThread /\ Count' = 0
           \/ Owner = t /\ Count' = Count + 1
    BY <1>2, SeenForms, Zenon
  <2>2. CASE s # t
    <3>1. depth'[s] = depth[s] /\ Owner # s /\ Owner' # s
      BY <1>1, <1>2, <2>1, <2>2, Zenon
    <3> QED
      BY <1>1, <2>1, <3>1, OthersNest, Zenon
  <2>3. depth'[t] = depth[t] + 1 /\ Depth(t)' = Count' + 1
    BY <1>1, <1>2, <2>1, Zenon DEF LockFacts
  <2>4. Depth(t) = IF Owner = t THEN Count + 1 ELSE 0
    BY <1>1, <2>1, Zenon DEF LockFacts
  <2>5. depth[t] + 1 = Count' + 1
    BY <1>1, <2>1, <2>4, SMT
  <2> QED
    BY <2>2, <2>3, <2>5, Zenon
<1>3. CASE JM!Exit(t) /\ depth' = [depth EXCEPT ![t] = @ - 1]
  <2>1. /\ UNCHANGED GivenUp /\ Owner = t
        /\ IF Count = 0 THEN Owner' = NoThread ELSE Owner' = t /\ Count' = Count - 1
    BY <1>3, SeenForms, Zenon
  <2>2. CASE s # t
    <3>1. depth'[s] = depth[s] /\ Owner # s /\ Owner' # s
      BY <1>1, <1>3, <2>1, <2>2, Zenon
    <3> QED
      BY <1>1, <2>1, <3>1, OthersNest, Zenon
  <2>3. /\ depth'[t] = depth[t] - 1 /\ depth[t] = Count + 1 /\ Count \in Nat
        /\ Depth(t)' = IF Count = 0 THEN 0 ELSE Count' + 1
    BY <1>1, <1>3, <2>1, Zenon DEF LockFacts
  <2>4. (Count + 1) - 1 = IF Count = 0 THEN 0 ELSE (Count - 1) + 1
    BY <2>3, SMT
  <2> QED
    BY <2>1, <2>2, <2>3, <2>4, Zenon
<1>4. CASE JM!Wait(t) /\ UNCHANGED depth
  <2>1. Owner = t /\ Owner' = NoThread /\ GivenUp' = [GivenUp EXCEPT ![t] = Count]
    BY <1>4, SeenForms, Zenon
  <2>2. CASE s # t
    BY <1>1, <1>4, <2>1, <2>2, OthersNest, Zenon
  <2>3. GivenUp'[t] = Count /\ Depth(t) = Count + 1
    BY <1>1, <2>1, Zenon DEF LockFacts
  <2>4. Count # -1
    <3>1. Count \in Nat
      BY <1>1, Zenon DEF LockFacts
    <3> QED
      BY <3>1, SMT
  <2>5. Depth(t)' = Count + 1
    BY <1>1, <2>3, <2>4, Zenon DEF LockFacts
  <2> QED
    BY <1>1, <1>4, <2>2, <2>3, <2>5, Zenon
<1>5. CASE JM!WaitReturns(t) /\ UNCHANGED depth
  <2>1. /\ GivenUp[t] # -1 /\ Owner = NoThread /\ Owner' = t /\ Count' = GivenUp[t]
        /\ GivenUp' = [GivenUp EXCEPT ![t] = -1]
    BY <1>5, SeenForms, Zenon
  <2>2. CASE s # t
    BY <1>1, <1>5, <2>1, <2>2, OthersNest, Zenon
  <2>3. Depth(t) = GivenUp[t] + 1 /\ GivenUp'[t] = -1
    BY <1>1, <2>1, Zenon DEF LockFacts
  <2>4. Depth(t)' = Count' + 1
    BY <1>1, <2>1, <2>3, Zenon DEF LockFacts
  <2> QED
    BY <1>1, <1>5, <2>1, <2>2, <2>3, <2>4, Zenon
<1>6. CASE (\E h \in Hash : JM!ChooseHash(h)) /\ UNCHANGED depth
  <2>1. UNCHANGED <<Owner, Count, GivenUp>>
    BY <1>6, SeenForms, Zenon
  <2> QED
    BY <1>1, <1>6, <2>1, OthersNest, Zenon
<1> QED
  BY <1>2, <1>3, <1>4, <1>5, <1>6, Zenon DEF Seen

\* MonitorExit has no retry loop: it ends where it began, or stores, or uses the monitor.
ExitOf(t) == op[t] = "exit" => pc[t] \in {"store", "fat"}

\* A step of t keeps this.
LEMMA StepExit ==
  ASSUME Types, NEW t \in Thread, ViewOf(t), ExitOf(t), Step(t)
  PROVE  ExitOf(t)'
<1>1. ASSUME NEW o \in Op, NEW x \in PC, Load(t, o, x), o # "exit" \/ x \in {"store", "fat"}
      PROVE  ExitOf(t)'
  BY <1>1, LoadMoves, Zenon DEF ExitOf, Moves
<1>2. ASSUME NEW x \in PC, Goto(t, x), op[t] # "exit" PROVE ExitOf(t)'
  BY <1>2, GotoMoves, Zenon DEF ExitOf
<1>3. ASSUME Return(t) PROVE ExitOf(t)'
  BY <1>3, ReturnMoves, Zenon DEF ExitOf
<1>4. /\ {"enter", "exit", "wait", "notify", "notifyAll", "hash", "relock"} \subseteq Op
      /\ {"load", "cas", "store", "install", "fat", "search", "suspending", "suspended", "recheck",
          "resume", "publish", "block", "blocked", "restore", "woken", "waiting", "throw"} \subseteq PC
      /\ op \in [Thread -> Op]
  BY Zenon DEF Op, PC, SafePoint, Types
<1>5. CASE Call(t)
  <2>1. CASE MonitorEnter(t)
    BY <1>1, <1>4, <2>1, Zenon DEF MonitorEnter
  <2>2. CASE MonitorExit(t)
    BY <1>1, <1>3, <1>4, <2>2, Zenon DEF MonitorExit
  <2>3. CASE WaitOnObject(t)
    BY <1>1, <1>3, <1>4, <2>3, Zenon DEF WaitOnObject
  <2>4. CASE IdentityHashCode(t)
    BY <1>1, <1>3, <1>4, <2>4, Zenon DEF IdentityHashCode
  <2>5. CASE DoNotify(t, "notify") \/ DoNotify(t, "notifyAll")
    BY <1>1, <1>3, <1>4, <2>5, Zenon DEF DoNotify
  <2> QED
    BY <1>5, <2>1, <2>2, <2>3, <2>4, <2>5, Zenon DEF Call
<1>6. CASE Swap(t)
  BY <1>2, <1>3, <1>4, <1>6, Zenon DEF Swap, CasUnlocked, StoreThin, ExitOf
<1>7. CASE Inflate(t)
  <2>1. op[t] # "exit" /\ op[t] \in Op
    BY <1>4, <1>7, Zenon DEF ExitOf, Inflate, RequestSuspend, OwnerStopped, SuspendTimedOut,
       BackToRunnable, Recheck, Install, Publish, ResumeOwner
  <2>2. (\E x \in PC : Goto(t, x)) \/ Load(t, op[t], "publish")
    BY <1>4, <1>7, Zenon DEF Inflate, RequestSuspend, OwnerStopped, SuspendTimedOut,
       BackToRunnable, Recheck, Install, Publish, ResumeOwner
  <2> QED
    BY <1>1, <1>2, <1>4, <2>1, <2>2, Zenon
<1>8. CASE UseMonitor(t)
  <2>1. CASE Lock(t) \/ Unblock(t)
    <3>1. op[t] # "exit"
      BY <2>1, Zenon DEF Lock, Unblock, ExitOf
    <3> QED
      BY <1>2, <1>3, <1>4, <2>1, <3>1, Zenon DEF Lock, Unblock, LockTurn
  <2>2. CASE Block(t) \/ Wait(t) \/ WakeUp(t) \/ RestoreLock(t)
    <3>1. op[t] # "exit"
      BY <2>2, Zenon DEF Block, Wait, WakeUp, RestoreLock, ExitOf
    <3> QED
      BY <1>2, <1>3, <1>4, <2>2, <3>1, Zenon DEF Block, Wait, WakeUp, RestoreLock
  <2>3. CASE WaitEnds(t)
    BY <1>4, <2>3, Update, Zenon DEF WaitEnds, ExitOf
  <2>4. CASE Unlock(t) \/ GetHashCode(t) \/ ThrowInterrupted(t) \/ Notify(t) \/ NotifyAll(t)
    BY <1>3, <2>4, Zenon DEF Unlock, GetHashCode, ThrowInterrupted, Notify, NotifyAll
  <2> QED
    BY <1>8, <2>1, <2>2, <2>3, <2>4, Zenon DEF UseMonitor
<1> QED
  BY <1>5, <1>6, <1>7, <1>8, Zenon DEF Step

\* No step of t fails a CHECK.
LEMMA StepChecks ==
  ASSUME "exit" \notin Unowned, IInv, Nesting, NEW t \in Thread, ExitOf(t), Step(t)
  PROVE  UNCHANGED fatal
<1>1. Types /\ TargetOf(t) /\ ViewOf(t) /\ Books /\ LockFacts(t) /\ depth[t] = Depth(t)
  BY AllLockFacts, Zenon DEF IInv, Nesting
<1>2. CASE MonitorExit(t)
  <2>1. CASE OthersThin(t)
    <3>1. Owner # t
      BY <2>1, LockViews, Zenon DEF OthersThin, LockView
    <3>2. pc[t] = "idle" /\ depth[t] > 0
      BY <1>1, <1>2, Zenon DEF MonitorExit, Reads, ExitOf
    <3>3. Depth(t) = 0
      BY <3>1, <3>2, Zenon DEF Depth, InWait, BlockedPc
    <3> QED
      BY <1>1, <3>2, <3>3, SMT
  <2> QED
    BY <1>2, <2>1, Zenon DEF MonitorExit
<1>3. CASE Install(t)
  <2>1. Inflatable(t) /\ pc[t] = "install" /\ lock_word \in LockWord
    BY <1>1, <1>3, Zenon DEF Install, ViewOf, Types
  <2>2. made[t].owner \in {NoThread, t} \/ IsSuspended(made[t].owner)
    BY <1>1, <2>1, Zenon DEF Inflatable, TargetOf, IsSuspended, Suspenders
  <2>3. /\ lock_word.state # "unlocked"
        /\ IsThin(lock_word) => lock_word.owner = made[t].owner
        /\ lock_word.state = "hash" => lock_word.hash = made[t].hash
    BY <2>1, WordCases, Zenon DEF Inflatable
  <2> QED
    BY <1>3, <2>2, <2>3, Zenon DEF Install
<1>4. CASE Lock(t) \/ Unblock(t)
  BY <1>1, <1>4, Zenon DEF Lock, Unblock, LockTurn, Books
<1> QED
  BY <1>2, <1>3, <1>4, Zenon DEF Step, Call, MonitorEnter, WaitOnObject, IdentityHashCode, DoNotify,
     Swap, CasUnlocked, StoreThin, Inflate, RequestSuspend, OwnerStopped, SuspendTimedOut,
     BackToRunnable, Recheck, Publish, ResumeOwner, UseMonitor, Block, Unlock, GetHashCode, Wait,
     WakeUp, WaitEnds, RestoreLock, ThrowInterrupted, Notify, NotifyAll

-----------------------------------------------------------------------------
(* The theorems. *)

LOCAL F == INSTANCE FiniteSetTheorems

\* The cardinality of sets of threads is as the proofs use it.
LEMMA ThreadsAreCounted == Sizes
<1>1. \A S : F!IsFiniteSet(S) <=> IsFiniteSet(S)
  BY Zenon DEF F!IsFiniteSet, IsFiniteSet
<1>2. \A S : F!Cardinality(S) = Cardinality(S)
  BY Zenon DEF F!Cardinality, Cardinality
<1>3. F!IsFiniteSet(Thread)
  BY <1>1, ThreadIsFinite, Zenon
<1>4. ASSUME NEW A \in SUBSET Thread PROVE F!IsFiniteSet(A)
  BY <1>3, F!FS_Subset, Zenon
<1>5. ASSUME NEW A \in SUBSET Thread PROVE Cardinality(A) \in Nat /\ (Cardinality(A) = 0 => A = {})
  BY <1>2, <1>4, F!FS_CardinalityType, F!FS_EmptySet, ZenonT(40)
<1>6. ASSUME NEW A \in SUBSET Thread, NEW t \in Thread, t \notin A
      PROVE  Cardinality(A \cup {t}) = Cardinality(A) + 1
  BY <1>2, <1>4, <1>6, F!FS_AddElement, Zenon
<1>7. Cardinality({}) = 0
  BY <1>2, F!FS_EmptySet, Zenon
<1> QED
  BY <1>5, <1>6, <1>7, Zenon DEF Sizes

\* The inductive invariant holds in every state the lock can be in.
THEOREM SpecIInv == Spec => []IInv
<1>1. IInv /\ [Next]_vars => IInv'
  BY ThreadsAreCounted, NextIInv, Zenon
<1>2. Init => IInv
  BY ThreadsAreCounted, InitIInv, Zenon
<1> QED
  BY <1>1, <1>2, PTL DEF Spec

\* The owner of a thin lock that stores the lock word in MonitorEnter or MonitorExit finds
\* in it what it loaded (PlainStoreIsSafe): nobody else stores into its thin lock, and
\* whoever inflates it does so while the owner is stopped at a safe point.
THEOREM PlainStores == Spec => []PlainStoreIsSafe
<1>1. IInv => PlainStoreIsSafe
  BY Zenon DEF IInv, ViewOf, PlainStoreIsSafe
<1> QED
  BY <1>1, SpecIInv, PTL

\* A monitor stays while a thread is about to use it, blocked on it, waiting on it or on
\* its way back from a wait (MonitorOutlivesUsers): Deflate sees them in num_waiters_, or
\* sees that they are not stopped.
THEOREM MonitorsOutliveUsers == Spec => []MonitorOutlivesUsers
<1>1. IInv => MonitorOutlivesUsers
  BY Zenon DEF IInv, ViewOf, MonitorOutlivesUsers
<1> QED
  BY <1>1, SpecIInv, PTL

\* A free monitor with sleeping contenders has one awake (NoStrandedContender): Unlock and
\* Wait signal one, and Lock sleeps only while the lock is taken.
THEOREM ContendersAreNotStranded == Spec => []NoStrandedContender
<1>1. IInv => NoStrandedContender
  BY Zenon DEF IInv, Contention
<1> QED
  BY <1>1, SpecIInv, PTL

\* A thread asleep in Wait is where Notify, NotifyAll and Interrupt find it
\* (SleeperIsReachable).
THEOREM SleepersAreReachable == Spec => []SleeperIsReachable
<1>1. IInv => SleeperIsReachable
  BY Zenon DEF IInv, Sleepers
<1> QED
  BY <1>1, SpecIInv, PTL

\* Lock words, inflation, deflation and Wait implement the lock of JavaMonitor
\* (ImplementsJavaMonitor): every step of a thread or of the collector is one of its steps
\* or changes nothing that Java code can see.
THEOREM MonitorIsAJavaMonitor == Spec => ImplementsJavaMonitor
<1>1. ASSUME Init PROVE JM!Init
  <2>1. Owner = NoThread /\ Count = 0 /\ HashOf = 0
    BY <1>1, LockViews, Zenon DEF LockView, Init
  <2>2. \A t \in Thread : ~InWait(t)
    BY <1>1, Zenon DEF Init, InWait
  <2> QED
    BY <2>1, <2>2, Zenon DEF JM!Init, JM!NotWaiting
<1>2. ASSUME IInv, [Next]_vars PROVE [JM!Next]_(JM!vars)
  <2>1. CASE Unseen
    BY <2>1, Zenon DEF Unseen, GivenUp, JM!vars
  <2>2. CASE \E t \in Thread : Seen(t)
    BY <2>2, Zenon DEF Seen, JM!Next
  <2> QED
    BY <1>2, <2>1, <2>2, ThreadsAreCounted, NextIInv, ZenonT(40)
<1> QED
  BY <1>1, <1>2, SpecIInv, PTL DEF Spec, ImplementsJavaMonitor, JM!Spec

\* The lock counts the entries of its owner and of the threads in wait() as often as the
\* Java code made them, through every recursion, inflation, deflation and wait.
THEOREM NestingIsCounted == Spec => []Nesting
<1>1. ASSUME Init PROVE Nesting
  <2>1. Owner = NoThread
    BY <1>1, LockViews, Zenon DEF LockView, Init
  <2> QED
    BY <1>1, <2>1, NoThreadIsNone, ZenonT(40) DEF Init, Nesting, Depth, InWait
<1>2. ASSUME IInv, IInv', Nesting, [Next]_vars PROVE Nesting'
  <2>1. CASE Unseen
    <3>1. \A s \in Thread : LockFacts(s) /\ LockFacts(s)' /\ depth[s] = Depth(s)
      BY <1>2, AllLockFacts, NextLockFacts, Zenon DEF Nesting
    <3> QED
      BY <2>1, <3>1, OthersNest, Zenon DEF Unseen, Nesting
  <2>2. CASE \E t \in Thread : Seen(t)
    BY <1>2, <2>2, SeenNests, Zenon DEF Nesting
  <2> QED
    BY <1>2, <2>1, <2>2, ThreadsAreCounted, NextIInv, ZenonT(40)
<1> QED
  BY <1>1, <1>2, SpecIInv, PTL DEF Spec

\* No CHECK of Install, of the constructor of Monitor, of Lock or of FindThreadByThreadId
\* fails (NoCheckFails) as long as MonitorExit is called only by the owner, as compiled
\* Java code does.
THEOREM ChecksHold ==
  ASSUME "exit" \notin Unowned
  PROVE  Spec => []NoCheckFails
<1> DEFINE Exits == \A t \in Thread : ExitOf(t)
<1>1. ASSUME Init PROVE Exits /\ NoCheckFails
  BY <1>1, Zenon DEF Init, ExitOf, NoCheckFails
<1>2. ASSUME IInv, Nesting, Exits, NoCheckFails, [Next]_vars PROVE Exits' /\ NoCheckFails'
  <2>1. CASE \E t \in Thread : Step(t)
    <3>1. PICK t \in Thread : Step(t)
      BY <2>1
    <3>2. OwnFacts(t) /\ Types /\ ViewOf(t)
      BY <1>2, <3>1, StepFacts, Zenon DEF Step, IInv
    <3>3. ExitOf(t)' /\ \A s \in Thread : s # t => ExitOf(s)'
      BY <1>2, <3>1, <3>2, StepExit, Zenon DEF OwnFacts, Frame, ExitOf
    <3>4. UNCHANGED fatal
      BY <1>2, <3>1, StepChecks, Zenon
    <3> QED
      BY <1>2, <3>3, <3>4, Zenon DEF NoCheckFails
  <2>2. CASE UNCHANGED <<pc, op, fatal>>
    BY <1>2, <2>2, Zenon DEF ExitOf, NoCheckFails
  <2>3. CASE \E t \in Thread : Environment(t)
    BY <1>2, <2>2, <2>3, EnvironmentFrame, Zenon DEF IInv
  <2>4. CASE Deflate \/ UNCHANGED vars
    BY <2>2, <2>4, Zenon DEF Deflate, control, vars
  <2> QED
    BY <1>2, <2>1, <2>3, <2>4, Zenon DEF Next, Step
<1> HIDE DEF Exits
<1> QED
  BY <1>1, <1>2, SpecIInv, NestingIsCounted, PTL DEF Spec
=============================================================================
