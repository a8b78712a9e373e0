---------------------------- MODULE DebuggerProofs ----------------------------
(***************************************************************************)
(* DebuggerSuspension for every finite set of threads and any number of    *)
(* suspensions and collections, where none of the races named by Races     *)
(* happens: exact counts, no failing CHECK, invocations that leave the     *)
(* books as they were, nobody left suspended.                              *)
(*                                                                         *)
(* The two parts of a suspend count are numbers.  Counts says of what; the *)
(* rest of the invariant says who holds the event token (Tokens), which    *)
(* request is being processed (Session), whom the debugger has suspended   *)
(* (Suspensions), and how far the thread that a request is about has come  *)
(* in the hand-shake of an invocation (Invocation, Target).  Each part has *)
(* its own step lemma, NextTypes to NextTarget, which goes through the     *)
(* actions; most actions only move one thread from label to label and are  *)
(* covered by a lemma about such moves.                                    *)
(***************************************************************************)
EXTENDS DebuggerSuspension, TLAPS

(* Where a thread of the program and where the JDWP thread may be. *)
HoldingToken ==
    {"send", "suspendVM", "lockVM", "assertVM", "suspendSelf", "answer", "clearToken",
     "invoke", "invoking"}
ThreadPcs ==
    {"run", "detached", "suspendAll", "lock", "paused", "token", "asleep", "invokeToken"}
        \cup HoldingToken
StoppingVM == {"suspendVM", "lockVM", "assertVM"}
Pausing == {"suspendAll", "lock", "paused"}
Processing ==
    {"enter", "handle", "suspendPeer", "waitSuspended", "enterReply", "enterBalance", "reply",
     "balance", "resume", "transfer", "awaitInvoke", "end"} \cup StoppingVM
JdwpPcs == {"idle", "undo", "reqToken", "start"} \cup Pausing \cup Processing

Types ==
    /\ list \subseteq AllThread /\ Jdwp \in list
    /\ suspend_count \in [AllThread -> Int]
    /\ debug_suspend_count \in [AllThread -> Int]
    /\ suspend_all_count \in Int /\ debug_suspend_all_count \in Int
    /\ aborted \in BOOLEAN
    /\ event_thread_id \in Thread \cup {NoThread}
    /\ processing_request \in BOOLEAN
    /\ ready \in [Thread -> BOOLEAN] /\ invoke_needed \in [Thread -> BOOLEAN]
    /\ policy \in [Thread -> {"event", "all"}]
    /\ active \in BOOLEAN
    /\ request \in Request \cup {NoRequest}

(* A thread is detached, or runs managed code, only where it says so. *)
Places ==
    /\ pc \in [AllThread -> ThreadPcs \cup JdwpPcs]
    /\ \A t \in Thread : pc[t] \in ThreadPcs
    /\ pc[Jdwp] \in JdwpPcs
    /\ runnable \subseteq list
    /\ \A t \in Thread : t \notin list <=> pc[t] = "detached"
    /\ \A t \in Thread : t \in runnable => pc[t] \in {"run", "invoking"}

(* Who has the token, and what is being processed. *)
Tokens ==
    /\ \A t \in Thread : pc[t] \in HoldingToken <=> event_thread_id = t
    /\ processing_request <=> pc[Jdwp] \in Processing
    /\ pc[Jdwp] = "start" => event_thread_id = NoThread
    /\ pc[Jdwp] \in Processing => \A t \in Thread : pc[t] \notin StoppingVM

(* The request, by where the JDWP thread is. *)
RequestFits(label) ==
    /\ label \in Processing \cup {"reqToken", "start"} => request \in Request
    /\ label \in StoppingVM => request.kind \in {"VM_Suspend", "InvokeAll"}
    /\ label = "suspendPeer" => request.kind = "TR_Suspend"
    /\ label = "waitSuspended" => request.kind \in {"TR_Suspend", "InvokeAll", "InvokeSingle"}
    /\ label = "enterReply" => request.kind \in {"VM_Suspend", "TR_Suspend", "InvokeSingle"}
    /\ label \in {"enterBalance", "balance"} => request.kind = "InvokeAll"
    /\ label = "resume" => request.kind = "TR_Resume"
    /\ label \in {"transfer", "awaitInvoke"} => Invoking
    /\ label \in {"idle", "undo"} => request = NoRequest

(* The debugger is active while its requests are processed and when events are posted. *)
Session ==
    /\ RequestFits(pc[Jdwp])
    /\ pc[Jdwp] \in Processing \cup {"reqToken", "start"} => active
    /\ pc[Jdwp] \in Pausing \cup {"undo"} => ~active
    /\ ~active => \A t \in Thread : pc[t] \notin Posting

(* Every count is the sum of its parts. *)
Counts ==
    /\ PartsAreExact
    /\ ~aborted
    /\ debug_suspend_all_count >= 0
    /\ debug_suspend_count[Jdwp] = 0
    /\ \A t \in AllThread \ list : debug_suspend_count[t] = 0 /\ suspend_count[t] = 0

(* No debugger is there yet, or it is there and has not begun. *)
Detached ==
    \/ pc[Jdwp] = "idle" /\ ~active
    \/ pc[Jdwp] \in Pausing /\ request # NoRequest

(* Who is suspended by the debugger. *)
Suspensions ==
    /\ \A t \in runnable : debug_suspend_count[t] > 0 =>
          \/ \E s \in AllThread : pc[s] = "lockVM"
          \/ pc[Jdwp] = "waitSuspended" /\ target = t
    /\ \A s \in AllThread : pc[s] \in {"lockVM", "assertVM"} =>
          /\ debug_suspend_all_count > 0
          /\ \A t \in list \ {s, Jdwp} : debug_suspend_count[t] > 0
    /\ pc[Jdwp] \in {"enterBalance", "balance"} =>
          /\ debug_suspend_all_count > 0
          /\ \A t \in list \ {Jdwp} : debug_suspend_count[t] > 0
    /\ Detached => debug_suspend_all_count = 0 /\ \A t \in list : debug_suspend_count[t] = 0

(* A method the debugger asks for is not running yet. *)
Beginning == {"enter", "handle", "transfer"}

(* The invocation of a method. *)
Invocation ==
    /\ \A t \in Thread : ready[t] => pc[t] \in {"answer", "clearToken", "asleep"}
    /\ \A t \in Thread : pc[t] \in {"invokeToken", "invoke", "invoking"} => invoke_needed[t]
    /\ \A t \in Thread : invoke_needed[t] => target = t /\ pc[Jdwp] \in {"transfer", "awaitInvoke"}
    /\ pc[Jdwp] \in Processing => \A t \in Thread :
          pc[t] \in HoldingToken =>
             \/ pc[t] = "send"
             \/ t = target /\ pc[Jdwp] = "awaitInvoke"
             \/ t = target /\ pc[t] = "clearToken" /\ Invoking /\ pc[Jdwp] \notin Beginning

(* The thread a request is about has been found to be suspended, and is not yet resumed. *)
ToBeResumed ==
    /\ pc[Jdwp] \in Pausing \cup {"reqToken", "start", "enter", "handle", "resume"}
    /\ request.kind \in {"TR_Resume", "InvokeAll", "InvokeSingle"}

(* It has run a method for the debugger. *)
Invoked ==
    \/ /\ pc[Jdwp] \in {"waitSuspended", "enterReply"}
       /\ request.kind \in {"InvokeAll", "InvokeSingle"}
    \/ /\ pc[Jdwp] \in StoppingVM \cup {"enterBalance", "balance"}
       /\ request.kind = "InvokeAll"

(* What is known of the thread that a request is about. *)
Target ==
    /\ ToBeResumed => debug_suspend_count[target] > 0
    /\ pc[Jdwp] = "waitSuspended" => target \in list /\ debug_suspend_count[target] > 0
    /\ pc[Jdwp] = "transfer" =>
          /\ invoke_needed[target] /\ pc[target] = "asleep"
          /\ debug_suspend_count[target] = 1
    /\ pc[Jdwp] = "awaitInvoke" =>
          \/ /\ invoke_needed[target] /\ debug_suspend_count[target] = 0
             /\ pc[target] \in {"asleep", "invokeToken", "invoke", "invoking", "suspendSelf"}
          \/ /\ invoke_needed[target] /\ debug_suspend_count[target] = 1
             /\ pc[target] = "answer" /\ ready[target]
          \/ /\ ~invoke_needed[target] /\ debug_suspend_count[target] = 1
             /\ pc[target] \in {"clearToken", "asleep"} /\ ready[target]
    /\ Invoked =>
          /\ pc[target] \in {"clearToken", "asleep"} /\ ready[target] /\ ~invoke_needed[target]
          /\ debug_suspend_count[target] =
                IF pc[Jdwp] \in {"lockVM", "assertVM", "enterBalance", "balance"} THEN 2 ELSE 1

IInv ==
    Types /\ Places /\ Tokens /\ Session /\ Counts /\ Suspensions /\ Invocation /\ Target
----------------------------------------------------------------------------
USE DEF AllThread, lockVars, countVars, tokenVars, invokeVars, sessionVars

\* Which threads take which steps.
LEMMA Moves ==
    ASSUME Places, NEW t \in AllThread, NEW label, Goto(t, label),
           t \in Thread => label \in ThreadPcs, t = Jdwp => label \in JdwpPcs
    PROVE  /\ pc' \in [AllThread -> ThreadPcs \cup JdwpPcs]
           /\ \A u \in Thread : pc'[u] \in ThreadPcs
           /\ pc'[Jdwp] \in JdwpPcs
           /\ pc'[t] = label
           /\ \A u \in AllThread : u # t => pc'[u] = pc[u]
  <1>1. pc \in [AllThread -> ThreadPcs \cup JdwpPcs] /\ label \in ThreadPcs \cup JdwpPcs
    BY Zenon DEF Places
  <1>2. /\ pc' \in [AllThread -> ThreadPcs \cup JdwpPcs]
        /\ pc'[t] = label
        /\ \A u \in AllThread : u # t => pc'[u] = pc[u]
    BY <1>1, Zenon DEF Goto
  <1> QED  BY <1>2, DebuggerAssumption, Zenon DEF Places

\* Lemmas of ModifySuspendCount and UndoDebuggerSuspensions.
LEMMA Modified ==
    ASSUME Types, NEW S, NEW delta \in {1, -1}, NEW b \in BOOLEAN, ModifySuspendCount(S, delta, b)
    PROVE  /\ suspend_count' \in [AllThread -> Int]
           /\ debug_suspend_count' \in [AllThread -> Int]
           /\ aborted' \in BOOLEAN
           /\ \A u \in AllThread : u \notin S =>
                 suspend_count'[u] = suspend_count[u] /\ debug_suspend_count'[u] = debug_suspend_count[u]
           /\ \A u \in AllThread : u \in S =>
                 /\ suspend_count'[u] = suspend_count[u] + delta
                 /\ debug_suspend_count'[u] =
                       IF b THEN debug_suspend_count[u] + delta ELSE debug_suspend_count[u]
  <1>1. /\ \A u \in AllThread : suspend_count[u] \in Int /\ suspend_count[u] + delta \in Int
        /\ \A u \in AllThread : debug_suspend_count[u] \in Int /\ debug_suspend_count[u] + delta \in Int
    BY DEF Types
  <1>2. aborted' \in BOOLEAN
    BY Zenon DEF Types, ModifySuspendCount
  <1>3. /\ suspend_count' \in [AllThread -> Int]
        /\ debug_suspend_count' \in [AllThread -> Int]
    BY <1>1, Zenon DEF ModifySuspendCount
  <1> QED  BY <1>2, <1>3, Zenon DEF ModifySuspendCount

LEMMA Undone ==
    ASSUME Types, UndoDebuggerSuspensions
    PROVE  /\ suspend_count' \in [AllThread -> Int]
           /\ debug_suspend_count' \in [AllThread -> Int]
           /\ suspend_all_count' = suspend_all_count - debug_suspend_all_count
           /\ debug_suspend_all_count' = 0
           /\ suspend_all_count' \in Int
           /\ aborted' \in BOOLEAN
           /\ \A u \in AllThread \ (list \ {Jdwp}) :
                 suspend_count'[u] = suspend_count[u] /\ debug_suspend_count'[u] = debug_suspend_count[u]
           /\ \A u \in list \ {Jdwp} :
                 /\ suspend_count'[u] = suspend_count[u] - debug_suspend_count[u]
                 /\ debug_suspend_count'[u] = 0
  <1>1. /\ \A u \in AllThread : suspend_count[u] \in Int /\ debug_suspend_count[u] \in Int
        /\ \A u \in AllThread : suspend_count[u] - debug_suspend_count[u] \in Int
        /\ 0 \in Int
        /\ \A u \in list : u \in AllThread
    BY DEF Types
  <1>2. aborted' \in BOOLEAN
    BY Zenon DEF Types, UndoDebuggerSuspensions
  <1>3. /\ suspend_count' \in [AllThread -> Int]
        /\ debug_suspend_count' \in [AllThread -> Int]
    BY <1>1, Zenon DEF UndoDebuggerSuspensions
  <1>4. /\ suspend_all_count' = suspend_all_count - debug_suspend_all_count
        /\ debug_suspend_all_count' = 0
        /\ suspend_all_count' \in Int
    BY DEF Types, UndoDebuggerSuspensions
  <1> QED  BY <1>1, <1>2, <1>3, <1>4, Zenon DEF UndoDebuggerSuspensions

LEMMA ModifiedTypes ==
    ASSUME Types, NEW S, NEW delta \in {1, -1}, NEW b \in BOOLEAN, ModifySuspendCount(S, delta, b),
           suspend_all_count' \in Int, debug_suspend_all_count' \in Int,
           ready' \in [Thread -> BOOLEAN], active' \in BOOLEAN,
           UNCHANGED <<list, tokenVars, invoke_needed, policy, request>>
    PROVE  Types'
  <1>1. /\ suspend_count' \in [AllThread -> Int]
        /\ debug_suspend_count' \in [AllThread -> Int]
        /\ aborted' \in BOOLEAN
    BY Modified, Zenon
  <1> QED  BY <1>1, Zenon DEF Types

LEMMA NextTypes == ASSUME Types, Places, [Next]_vars PROVE Types'
  <1> USE DebuggerAssumption DEF Types
  <1>1. CASE UNCHANGED vars
    BY <1>1, Zenon DEF vars
  <1>2. ASSUME NEW t \in AllThread, ThreadStep(t) PROVE Types'
    <2>1. CASE TransitionFromSuspendedToRunnable(t) \/ LockMutators(t)
            \/ LockAndUnlockMutators(t) \/ AssertThreadsAreSuspended(t)
      BY <2>1, Zenon DEF TransitionFromSuspendedToRunnable, LockMutators, LockAndUnlockMutators,
         AssertThreadsAreSuspended
    <2>2. CASE SuspendAll(t)
      <3>1. suspend_all_count' \in Int
        BY <2>2 DEF SuspendAll
      <3> QED  BY <2>2, <3>1, ModifiedTypes, Zenon DEF SuspendAll
    <2>3. CASE ResumeAll(t)
      <3>1. active' \in BOOLEAN
        BY <2>3, Zenon DEF ResumeAll
      <3>2. suspend_all_count' \in Int
        BY <2>3 DEF ResumeAll
      <3> QED  BY <2>3, <3>1, <3>2, ModifiedTypes, Zenon DEF ResumeAll
    <2>4. CASE SuspendAllForDebugger(t)
      <3>1. suspend_all_count' \in Int /\ debug_suspend_all_count' \in Int
        BY <2>4 DEF SuspendAllForDebugger
      <3> QED  BY <2>4, <3>1, ModifiedTypes, Zenon DEF SuspendAllForDebugger
    <2>5. CASE SetWaitForEventThread(t)
      <3>1. t # Jdwp
        BY <2>5 DEF SetWaitForEventThread, Places, JdwpPcs, Processing, Pausing, StoppingVM
      <3> QED  BY <2>5, <3>1, Zenon DEF SetWaitForEventThread
    <2>6. CASE EventFinish(t) \/ ExecuteMethod(t) \/ AnswerInvoke(t) \/ ClearWaitForEventThread(t)
      <3>1. invoke_needed' \in [Thread -> BOOLEAN]
        BY <2>6, Zenon DEF EventFinish, ExecuteMethod, AnswerInvoke, ClearWaitForEventThread
      <3>2. event_thread_id' \in Thread \cup {NoThread}
        BY <2>6, Zenon DEF EventFinish, ExecuteMethod, AnswerInvoke, ClearWaitForEventThread
      <3> QED
        BY <2>6, <3>1, <3>2, Zenon
        DEF EventFinish, ExecuteMethod, AnswerInvoke, ClearWaitForEventThread
    <2>7. CASE SuspendSelf(t)
      BY <2>7, ModifiedTypes, Zenon DEF SuspendSelf
    <2>8. CASE Revive(t)
      BY <2>8, Zenon DEF Revive
    <2> QED
      BY <1>2, <2>1, <2>2, <2>3, <2>4, <2>5, <2>6, <2>7, <2>8 DEF ThreadStep
  <1>3. ASSUME NEW t \in Thread,
               \/ TransitionFromRunnableToSuspended(t) \/ MethodReturns(t)
               \/ BeginCollection(t) \/ PostEvent(t) \/ Register(t) \/ Unregister(t)
        PROVE  Types'
    <2>1. CASE TransitionFromRunnableToSuspended(t) \/ MethodReturns(t) \/ BeginCollection(t)
      BY <2>1, Zenon DEF TransitionFromRunnableToSuspended, MethodReturns, BeginCollection
    <2>2. CASE PostEvent(t)
      BY <2>2 DEF PostEvent, SuspendPolicy
    <2>3. CASE Register(t)
      BY <2>3 DEF Register
    <2>4. CASE Unregister(t)
      BY <2>4 DEF Unregister
    <2> QED  BY <1>3, <2>1, <2>2, <2>3, <2>4
  <1>4. CASE ReceiveRequest \/ Disconnect
    BY <1>4, Zenon DEF ReceiveRequest, Disconnect
  <1>5. CASE ProcessRequest
    <2>1. CASE WaitForEventThread \/ StartProcessingRequest \/ EnterHandler \/ HandleSuspend
               \/ ThreadIsSuspended \/ TR_Resume \/ InvokeAnswered \/ Reply \/ EndProcessingRequest
      BY <2>1, Zenon DEF WaitForEventThread, StartProcessingRequest, EnterHandler, HandleSuspend,
         ThreadIsSuspended, TR_Resume, InvokeAnswered, Reply, EndProcessingRequest
    <2>2. CASE VM_Resume
      <3>1. suspend_all_count - 1 \in Int /\ debug_suspend_all_count - 1 \in Int
        OBVIOUS
      <3>2. CASE debug_suspend_all_count > 0
        BY <2>2, <3>1, <3>2, ModifiedTypes, Zenon DEF VM_Resume, ResumeAllForDebugger
      <3>3. CASE ~(debug_suspend_all_count > 0)
        BY <2>2, <3>3, Zenon DEF VM_Resume, ResumeAllForDebugger
      <3> QED  BY <3>2, <3>3
    <2>3. CASE SuspendThreadByPeer
      <3>1. CASE target \in list
        BY <2>3, <3>1, ModifiedTypes, Zenon DEF SuspendThreadByPeer
      <3>2. CASE target \notin list
        BY <2>3, <3>2, Zenon DEF SuspendThreadByPeer
      <3> QED  BY <3>1, <3>2
    <2>4. CASE ResumeThread
      BY <2>4, ModifiedTypes, Zenon DEF ResumeThread, Resume
    <2>5. CASE InvokeMethod
      BY <2>5, Zenon DEF InvokeMethod
    <2>6. CASE TransferControl
      <3>1. CASE request.kind = "InvokeAll"
        BY <2>6, <3>1, Undone DEF TransferControl
      <3>2. CASE request.kind # "InvokeAll"
        BY <2>6, <3>2, ModifiedTypes, Zenon DEF TransferControl, Resume
      <3> QED  BY <3>1, <3>2
    <2>7. CASE UndoAfterDisconnect
      BY <2>7, Undone DEF UndoAfterDisconnect
    <2> QED  BY <1>5, <2>1, <2>2, <2>3, <2>4, <2>5, <2>6, <2>7 DEF ProcessRequest
  <1> QED  BY <1>1, <1>2, <1>3, <1>4, <1>5 DEF Next

----------------------------------------------------------------------------
LEMMA PlacesOnMove ==
    ASSUME Types, Places, NEW t \in AllThread, NEW label, Goto(t, label),
           t \in Thread => label \in ThreadPcs, t = Jdwp => label \in JdwpPcs,
           pc[t] # "detached", label # "detached", list' = list,
           \/ runnable' = runnable \ {t}
           \/ runnable' = runnable /\ pc[t] \notin {"run", "invoking"}
           \/ runnable' = runnable \cup {t} /\ (t \in Thread => label \in {"run", "invoking"})
    PROVE  Places'
  <1>1. /\ pc' \in [AllThread -> ThreadPcs \cup JdwpPcs]
        /\ \A u \in Thread : pc'[u] \in ThreadPcs
        /\ pc'[Jdwp] \in JdwpPcs
        /\ pc'[t] = label
        /\ \A u \in AllThread : u # t => pc'[u] = pc[u]
    BY Moves, Zenon
  <1>2. /\ runnable \subseteq list
        /\ \A u \in Thread : u \notin list <=> pc[u] = "detached"
        /\ \A u \in Thread : u \in runnable => pc[u] \in {"run", "invoking"}
        /\ t \in list
    BY Zenon DEF Places, Types
  <1>3. \A u \in Thread : u \notin list' <=> pc'[u] = "detached"
    BY <1>1, <1>2, Zenon
  <1>4. \A u \in Thread : u \in runnable' => pc'[u] \in {"run", "invoking"}
    <2> TAKE u \in Thread
    <2>1. CASE u = t
      BY <1>1, <1>2, <2>1
    <2>2. CASE u # t
      BY <1>1, <1>2, <2>2
    <2> QED  BY <2>1, <2>2
  <1>5. runnable' \subseteq list'
    BY <1>2, Zenon
  <1> QED  BY <1>1, <1>3, <1>4, <1>5, Zenon DEF Places

\* What ThreadStep(t) is for the JDWP thread and for the others.
LEMMA Actor ==
    ASSUME Places, NEW t \in AllThread, ThreadStep(t)
    PROVE  \/ /\ t \in Thread
              /\ \/ TransitionFromSuspendedToRunnable(t)
                 \/ SetWaitForEventThread(t) \/ EventFinish(t)
                 \/ SuspendSelf(t) \/ AnswerInvoke(t) \/ ClearWaitForEventThread(t)
                 \/ Revive(t) \/ ExecuteMethod(t)
           \/ SuspendAll(t) \/ LockMutators(t) \/ ResumeAll(t)
           \/ SuspendAllForDebugger(t) \/ LockAndUnlockMutators(t)
           \/ AssertThreadsAreSuspended(t)
  <1>1. pc[Jdwp] \notin {"run", "invoking", "token", "invokeToken", "send", "suspendSelf", "answer",
                         "clearToken", "asleep", "invoke"}
    BY DEF Places, JdwpPcs, Processing, Pausing, StoppingVM
  <1>2. t = Jdwp => /\ ~TransitionFromSuspendedToRunnable(t)
                    /\ ~SetWaitForEventThread(t) /\ ~EventFinish(t)
                    /\ ~SuspendSelf(t) /\ ~AnswerInvoke(t) /\ ~ClearWaitForEventThread(t)
                    /\ ~Revive(t) /\ ~ExecuteMethod(t)
    BY <1>1, Zenon DEF TransitionFromSuspendedToRunnable, SetWaitForEventThread, EventFinish,
       SuspendSelf, AnswerInvoke, ClearWaitForEventThread, Revive, ExecuteMethod
  <1> QED  BY <1>2, Zenon DEF ThreadStep

LEMMA NextPlaces == ASSUME Types, Places, [Next]_vars PROVE Places'
  <1>1. CASE UNCHANGED vars
    BY <1>1, Zenon DEF vars, Places
  <1> USE DEF ThreadPcs, JdwpPcs, HoldingToken, Processing, Pausing, StoppingVM
  <1>2. ASSUME NEW t \in AllThread, ThreadStep(t) PROVE Places'
    <2>1. CASE SuspendAll(t)
      BY <2>1, PlacesOnMove DEF SuspendAll
    <2>2. CASE LockMutators(t)
      BY <2>2, PlacesOnMove DEF LockMutators
    <2>3. CASE ResumeAll(t)
      BY <2>3, PlacesOnMove, DebuggerAssumption DEF ResumeAll
    <2>4. CASE SuspendAllForDebugger(t) \/ LockAndUnlockMutators(t)
      BY <2>4, PlacesOnMove, Zenon DEF SuspendAllForDebugger, LockAndUnlockMutators
    <2>5. CASE AssertThreadsAreSuspended(t)
      BY <2>5, PlacesOnMove, DebuggerAssumption DEF AssertThreadsAreSuspended
    <2>6. ASSUME t \in Thread PROVE t # Jdwp
      BY <2>6, DebuggerAssumption
    <2>7. CASE t \in Thread /\ TransitionFromSuspendedToRunnable(t)
      BY <2>7 DEF TransitionFromSuspendedToRunnable, EnterRunnable, Places, Types
    <2>8. CASE t \in Thread /\ (SetWaitForEventThread(t) \/ EventFinish(t))
      BY <2>6, <2>8, PlacesOnMove DEF SetWaitForEventThread, EventFinish
    <2>9. CASE t \in Thread /\ (SuspendSelf(t) \/ AnswerInvoke(t) \/ ClearWaitForEventThread(t))
      BY <2>6, <2>9, PlacesOnMove, Zenon DEF SuspendSelf, AnswerInvoke, ClearWaitForEventThread
    <2>10. CASE t \in Thread /\ Revive(t)
      BY <2>6, <2>10, PlacesOnMove DEF Revive
    <2>11. CASE t \in Thread /\ ExecuteMethod(t)
      BY <2>6, <2>11, PlacesOnMove DEF ExecuteMethod, EnterRunnable
    <2> QED
      BY <1>2, <2>1, <2>2, <2>3, <2>4, <2>5, <2>7, <2>8, <2>9, <2>10, <2>11, Actor, Zenon
  <1>3. ASSUME NEW t \in Thread,
               \/ TransitionFromRunnableToSuspended(t) \/ MethodReturns(t)
               \/ BeginCollection(t) \/ PostEvent(t) \/ Register(t) \/ Unregister(t)
        PROVE  Places'
    <2>1. t \in AllThread /\ t # Jdwp
      BY DebuggerAssumption
    <2>2. CASE TransitionFromRunnableToSuspended(t)
      BY <2>2, Zenon DEF TransitionFromRunnableToSuspended, LeaveRunnable, Places
    <2>3. CASE MethodReturns(t) \/ BeginCollection(t)
      BY <2>1, <2>3, PlacesOnMove DEF MethodReturns, BeginCollection, LeaveRunnable
    <2>4. CASE PostEvent(t)
      BY <2>1, <2>4, PlacesOnMove, Zenon DEF PostEvent, LeaveRunnable
    <2>5. CASE Register(t)
      BY <2>1, <2>5, Moves, ZenonT(40) DEF Register, Places, Types
    <2>6. CASE Unregister(t)
      BY <2>1, <2>6, Moves DEF Unregister, Places, Types
    <2> QED  BY <1>3, <2>2, <2>3, <2>4, <2>5, <2>6
  <1>4. Jdwp \in AllThread /\ Jdwp \notin Thread
    BY DebuggerAssumption, Zenon
  <1>5. CASE ReceiveRequest \/ Disconnect
    BY <1>4, <1>5, PlacesOnMove DEF ReceiveRequest, Disconnect
  <1>6. CASE ProcessRequest
    <2>1. CASE WaitForEventThread \/ StartProcessingRequest
      BY <1>4, <2>1, PlacesOnMove DEF WaitForEventThread, StartProcessingRequest
    <2>2. CASE EnterHandler \/ HandleSuspend
      BY <1>4, <2>2, PlacesOnMove DEF EnterHandler, EnterRunnable, HandleSuspend, LeaveRunnable
    <2>3. CASE ThreadIsSuspended \/ TR_Resume \/ InvokeAnswered
      BY <1>4, <2>3, PlacesOnMove DEF ThreadIsSuspended, TR_Resume, InvokeAnswered
    <2>4. CASE Reply \/ EndProcessingRequest
      BY <1>4, <2>4, PlacesOnMove DEF Reply, EndProcessingRequest, LeaveRunnable
    <2>5. CASE VM_Resume \/ ResumeThread \/ TransferControl \/ UndoAfterDisconnect
      BY <1>4, <2>5, PlacesOnMove DEF VM_Resume, ResumeThread, TransferControl, UndoAfterDisconnect
    <2>6. CASE SuspendThreadByPeer
      BY <1>4, <2>6, PlacesOnMove, Zenon DEF SuspendThreadByPeer
    <2>7. CASE InvokeMethod
      BY <1>4, <2>7, PlacesOnMove DEF InvokeMethod, LeaveRunnable
    <2> QED  BY <1>6, <2>1, <2>2, <2>3, <2>4, <2>5, <2>6, <2>7, Zenon DEF ProcessRequest
  <1> QED  BY <1>1, <1>2, <1>3, <1>5, <1>6, Zenon DEF Next

----------------------------------------------------------------------------
LEMMA TokensOnMove ==
    ASSUME Places, Tokens, NEW t \in Thread, NEW label \in ThreadPcs, Goto(t, label),
           label \in HoldingToken <=> event_thread_id' = t,
           \A u \in Thread \ {t} : event_thread_id' = u <=> event_thread_id = u,
           pc[Jdwp] = "start" => event_thread_id' = NoThread,
           label \in StoppingVM => pc[t] \in StoppingVM \/ pc[Jdwp] \notin Processing,
           processing_request' = processing_request
    PROVE  Tokens'
  <1>1. t \in AllThread /\ t # Jdwp /\ Jdwp \in AllThread
    BY DebuggerAssumption
  <1>2. /\ pc'[t] = label /\ pc'[Jdwp] = pc[Jdwp]
        /\ \A u \in Thread : u # t => pc'[u] = pc[u]
    BY <1>1, Moves, Zenon
  <1>3. \A u \in Thread : pc'[u] \in HoldingToken <=> event_thread_id' = u
    BY <1>2, Zenon DEF Tokens
  <1>4. pc'[Jdwp] \in Processing => \A u \in Thread : pc'[u] \notin StoppingVM
    BY <1>2, Zenon DEF Tokens
  <1>5. processing_request' <=> pc'[Jdwp] \in Processing
    BY <1>2, Zenon DEF Tokens
  <1> QED  BY <1>2, <1>3, <1>4, <1>5, Zenon DEF Tokens

LEMMA TokensOnJdwpMove ==
    ASSUME Places, Tokens, NEW label \in JdwpPcs, Goto(Jdwp, label),
           event_thread_id' = event_thread_id,
           processing_request' <=> label \in Processing,
           label = "start" => event_thread_id = NoThread,
           label \in Processing => pc[Jdwp] \in Processing \cup {"start"}
    PROVE  Tokens'
  <1>1. Jdwp \in AllThread /\ Jdwp \notin Thread /\ \A u \in Thread : u # NoThread
    BY DebuggerAssumption
  <1>2. /\ pc'[Jdwp] = label
        /\ \A u \in Thread : pc'[u] = pc[u]
    BY <1>1, Moves, Zenon
  <1>3. \A u \in Thread : pc'[u] \in HoldingToken <=> event_thread_id' = u
    BY <1>2, Zenon DEF Tokens
  <1>4. \A u \in Thread : pc[u] \in StoppingVM => pc[u] \in HoldingToken
    BY Zenon DEF StoppingVM, HoldingToken
  <1>5. label \in Processing => \A u \in Thread : pc[u] \notin StoppingVM
    BY <1>1, <1>4, Zenon DEF Tokens
  <1> QED  BY <1>2, <1>3, <1>5, Zenon DEF Tokens

LEMMA NextTokens ==
    ASSUME Races = {}, Types, Places, Tokens, Invocation, [Next]_vars
    PROVE  Tokens'
  <1>1. CASE UNCHANGED vars
    BY <1>1, Zenon DEF vars, Tokens
  <1> USE DEF ThreadPcs, JdwpPcs, HoldingToken, Processing, Pausing, StoppingVM
  <1>0. Jdwp \in AllThread /\ Jdwp \notin Thread /\ \A u \in Thread : u # NoThread
    BY DebuggerAssumption
  <1>2. ASSUME NEW t \in AllThread, ThreadStep(t) PROVE Tokens'
    <2>1. CASE SuspendAll(t) \/ LockMutators(t)
      <3>1. CASE t \in Thread
        BY <2>1, <3>1, TokensOnMove, Zenon DEF SuspendAll, LockMutators, Tokens
      <3>2. CASE t = Jdwp
        <4>1. /\ pc[Jdwp] \in Pausing /\ UNCHANGED tokenVars
              /\ Goto(Jdwp, "lock") \/ Goto(Jdwp, "paused")
          BY <2>1, <3>2, Zenon DEF SuspendAll, LockMutators
        <4> QED  BY <4>1, TokensOnJdwpMove DEF Tokens
      <3> QED  BY <3>1, <3>2
    <2>2. CASE ResumeAll(t)
      <3>1. CASE t \in Thread
        BY <1>0, <2>2, <3>1, TokensOnMove, Zenon DEF ResumeAll, Tokens
      <3>2. CASE t = Jdwp
        BY <2>2, <3>2, TokensOnJdwpMove DEF ResumeAll, Tokens
      <3> QED  BY <3>1, <3>2
    <2>3. CASE SuspendAllForDebugger(t) \/ LockAndUnlockMutators(t)
      <3>1. CASE t \in Thread
        BY <2>3, <3>1, TokensOnMove, Zenon DEF SuspendAllForDebugger, LockAndUnlockMutators, Tokens
      <3>2. CASE t = Jdwp
        BY <2>3, <3>2, TokensOnJdwpMove, Zenon DEF SuspendAllForDebugger, LockAndUnlockMutators, Tokens
      <3> QED  BY <3>1, <3>2
    <2>4. CASE AssertThreadsAreSuspended(t)
      <3>1. CASE t \in Thread
        BY <1>0, <2>4, <3>1, TokensOnMove, Zenon DEF AssertThreadsAreSuspended, Tokens
      <3>2. CASE t = Jdwp
        BY <2>4, <3>2, TokensOnJdwpMove DEF AssertThreadsAreSuspended, Tokens
      <3> QED  BY <3>1, <3>2
    <2>5. CASE TransitionFromSuspendedToRunnable(t)
      BY <2>5, Zenon DEF TransitionFromSuspendedToRunnable, Tokens
    <2>6. CASE t \in Thread /\ SetWaitForEventThread(t)
      BY <1>0, <2>6, TokensOnMove, Zenon DEF SetWaitForEventThread, Tokens
    <2>7. CASE t \in Thread /\ EventFinish(t)
      BY <2>7, TokensOnMove DEF EventFinish, Tokens
    <2>8. CASE t \in Thread /\ (SuspendSelf(t) \/ AnswerInvoke(t))
      BY <2>8, TokensOnMove, Zenon DEF SuspendSelf, AnswerInvoke, Tokens
    <2>9. CASE t \in Thread /\ ClearWaitForEventThread(t)
      BY <1>0, <2>9, TokensOnMove, Zenon DEF ClearWaitForEventThread, Tokens
    <2>10. CASE t \in Thread /\ Revive(t)
      BY <2>10, TokensOnMove, Zenon DEF Revive, Tokens
    <2>11. CASE t \in Thread /\ ExecuteMethod(t)
      BY <2>11, TokensOnMove DEF ExecuteMethod, Tokens
    <2> QED
      BY <1>2, <2>1, <2>2, <2>3, <2>4, <2>5, <2>6, <2>7, <2>8, <2>9, <2>10, <2>11, Actor, Zenon
  <1>3. ASSUME NEW t \in Thread,
               \/ TransitionFromRunnableToSuspended(t) \/ MethodReturns(t)
               \/ BeginCollection(t) \/ PostEvent(t) \/ Register(t) \/ Unregister(t)
        PROVE  Tokens'
    <2>1. CASE TransitionFromRunnableToSuspended(t)
      BY <2>1, Zenon DEF TransitionFromRunnableToSuspended, Tokens
    <2>2. CASE MethodReturns(t) \/ BeginCollection(t)
      BY <2>2, TokensOnMove, Zenon DEF MethodReturns, BeginCollection, Tokens
    <2>3. CASE PostEvent(t)
      <3>1. pc[t] = "run"
        BY <2>3, Zenon DEF PostEvent, Invocation
      <3> QED  BY <2>3, <3>1, TokensOnMove DEF PostEvent, Tokens
    <2>4. CASE Register(t) \/ Unregister(t)
      BY <2>4, TokensOnMove, Zenon DEF Register, Unregister, Tokens
    <2> QED  BY <1>3, <2>1, <2>2, <2>3, <2>4
  <1>5. CASE ReceiveRequest \/ Disconnect
    BY <1>5, TokensOnJdwpMove DEF ReceiveRequest, Disconnect, Tokens
  <1>6. CASE ProcessRequest
    <2>1. CASE WaitForEventThread \/ StartProcessingRequest
      BY <2>1, TokensOnJdwpMove DEF WaitForEventThread, StartProcessingRequest, Tokens
    <2>2. CASE EnterHandler \/ HandleSuspend
      BY <2>2, TokensOnJdwpMove, Zenon DEF EnterHandler, HandleSuspend, Tokens
    <2>3. CASE ThreadIsSuspended \/ TR_Resume \/ InvokeAnswered
      BY <2>3, TokensOnJdwpMove, Zenon DEF ThreadIsSuspended, TR_Resume, InvokeAnswered, Tokens
    <2>4. CASE Reply \/ EndProcessingRequest
      BY <2>4, TokensOnJdwpMove, Zenon DEF Reply, EndProcessingRequest, Tokens
    <2>5. CASE VM_Resume \/ ResumeThread \/ TransferControl \/ UndoAfterDisconnect
      BY <2>5, TokensOnJdwpMove DEF VM_Resume, ResumeThread, TransferControl, UndoAfterDisconnect, Tokens
    <2>6. CASE SuspendThreadByPeer
      BY <2>6, TokensOnJdwpMove, ZenonT(40) DEF SuspendThreadByPeer, Tokens
    <2>7. CASE InvokeMethod
      BY <2>7, TokensOnJdwpMove DEF InvokeMethod, Tokens
    <2> QED  BY <1>6, <2>1, <2>2, <2>3, <2>4, <2>5, <2>6, <2>7, Zenon DEF ProcessRequest
  <1> QED  BY <1>1, <1>2, <1>3, <1>5, <1>6, Zenon DEF Next

----------------------------------------------------------------------------
LEMMA SessionOnMove ==
    ASSUME Places, Session, NEW t \in Thread, NEW label \in ThreadPcs, Goto(t, label),
           label \in Posting => pc[t] \in Posting \/ active,
           UNCHANGED <<active, request>>
    PROVE  Session'
  <1>1. t \in AllThread /\ t # Jdwp /\ Jdwp \in AllThread
    BY DebuggerAssumption
  <1>2. /\ pc'[t] = label /\ pc'[Jdwp] = pc[Jdwp]
        /\ \A u \in Thread : u # t => pc'[u] = pc[u]
    BY <1>1, Moves, Zenon
  <1>3. ~active' => \A u \in Thread : pc'[u] \notin Posting
    BY <1>2, Zenon DEF Session
  <1>4. RequestFits(pc[Jdwp])'
    BY <1>2, Zenon DEF Session, RequestFits, Invoking
  <1> QED  BY <1>2, <1>3, <1>4, Zenon DEF Session

LEMMA SessionOnJdwpMove ==
    ASSUME Places, Session, NEW label \in JdwpPcs, Goto(Jdwp, label),
           RequestFits(label)',
           label \in Processing \cup {"reqToken", "start"} => active',
           label \in Pausing \cup {"undo"} => ~active',
           active => active' \/ \A u \in Thread : pc[u] \notin Posting
    PROVE  Session'
  <1>1. Jdwp \in AllThread /\ Jdwp \notin Thread
    BY DebuggerAssumption
  <1>2. /\ pc'[Jdwp] = label
        /\ \A u \in Thread : pc'[u] = pc[u]
    BY <1>1, Moves, Zenon
  <1>3. ~active' => \A u \in Thread : pc'[u] \notin Posting
    BY <1>2, Zenon DEF Session
  <1> QED  BY <1>2, <1>3, Zenon DEF Session

LEMMA NextSession ==
    ASSUME Races = {}, Types, Places, Session, Invocation, [Next]_vars
    PROVE  Session'
  <1>1. CASE UNCHANGED vars
    BY <1>1, Zenon DEF vars, Session, RequestFits, Invoking
  <1> USE DEF ThreadPcs, JdwpPcs, HoldingToken, Processing, Pausing, StoppingVM, Posting
  <1>0. Jdwp \in AllThread /\ Jdwp \notin Thread
    BY DebuggerAssumption
  <1>s. RequestFits(pc[Jdwp])
    BY Zenon DEF Session
  <1>2. ASSUME NEW t \in Thread, ThreadStep(t) PROVE Session'
    <2>1. CASE SuspendAll(t) \/ LockMutators(t) \/ ResumeAll(t)
      BY <1>0, <2>1, SessionOnMove, Zenon DEF SuspendAll, LockMutators, ResumeAll
    <2>2. CASE SuspendAllForDebugger(t) \/ LockAndUnlockMutators(t) \/ AssertThreadsAreSuspended(t)
      BY <1>0, <2>2, SessionOnMove, Zenon
      DEF SuspendAllForDebugger, LockAndUnlockMutators, AssertThreadsAreSuspended
    <2>3. CASE TransitionFromSuspendedToRunnable(t)
      BY <2>3, Zenon DEF TransitionFromSuspendedToRunnable, Session, RequestFits, Invoking
    <2>4. CASE SetWaitForEventThread(t) \/ EventFinish(t)
      BY <2>4, SessionOnMove DEF SetWaitForEventThread, EventFinish
    <2>5. CASE SuspendSelf(t) \/ AnswerInvoke(t) \/ ClearWaitForEventThread(t)
      BY <2>5, SessionOnMove, Zenon DEF SuspendSelf, AnswerInvoke, ClearWaitForEventThread
    <2>6. CASE Revive(t) \/ ExecuteMethod(t)
      BY <2>6, SessionOnMove DEF Revive, ExecuteMethod
    <2> QED  BY <1>2, <2>1, <2>2, <2>3, <2>4, <2>5, <2>6, Zenon DEF ThreadStep
  <1>3. ASSUME ThreadStep(Jdwp) PROVE Session'
    <2>1. CASE SuspendAll(Jdwp) \/ LockMutators(Jdwp)
      <3>1. /\ pc[Jdwp] \in Pausing /\ UNCHANGED <<active, request>>
            /\ Goto(Jdwp, "lock") \/ Goto(Jdwp, "paused")
        BY <2>1, Zenon DEF SuspendAll, LockMutators
      <3>2. RequestFits("lock")' /\ RequestFits("paused")'
        BY DEF RequestFits
      <3> QED  BY <3>1, <3>2, SessionOnJdwpMove DEF Session
    <2>2. CASE ResumeAll(Jdwp)
      <3>1. CASE request = NoRequest
        <4>1. Goto(Jdwp, "undo") /\ request' = NoRequest /\ active' = FALSE /\ ~active
          BY <2>2, <3>1, Zenon DEF ResumeAll, Session
        <4>2. RequestFits("undo")'
          BY <4>1 DEF RequestFits
        <4> QED  BY <4>1, <4>2, SessionOnJdwpMove
      <3>2. CASE request # NoRequest
        <4>1. Goto(Jdwp, "reqToken") /\ request' \in Request /\ active' = TRUE
          BY <2>2, <3>2, Zenon DEF ResumeAll, Types
        <4>2. RequestFits("reqToken")'
          BY <4>1, Zenon DEF RequestFits
        <4> QED  BY <4>1, <4>2, SessionOnJdwpMove
      <3> QED  BY <3>1, <3>2
    <2>3. CASE SuspendAllForDebugger(Jdwp) \/ LockAndUnlockMutators(Jdwp)
      <3>1. /\ pc[Jdwp] \in StoppingVM /\ UNCHANGED <<active, request>>
            /\ Goto(Jdwp, "lockVM") \/ Goto(Jdwp, "assertVM")
        BY <2>3, Zenon DEF SuspendAllForDebugger, LockAndUnlockMutators
      <3>2. RequestFits("lockVM")' /\ RequestFits("assertVM")'
        BY <1>s, <3>1, Zenon DEF RequestFits
      <3> QED  BY <3>1, <3>2, SessionOnJdwpMove DEF Session
    <2>4. CASE AssertThreadsAreSuspended(Jdwp)
      <3>1. /\ pc[Jdwp] = "assertVM" /\ UNCHANGED <<active, request>>
            /\ \/ Goto(Jdwp, "enterReply") /\ RequestFits("enterReply")'
               \/ Goto(Jdwp, "enterBalance") /\ RequestFits("enterBalance")'
        BY <1>s, <2>4 DEF AssertThreadsAreSuspended, RequestFits
      <3> QED  BY <3>1, SessionOnJdwpMove, Zenon DEF Session
    <2> QED  BY <1>0, <1>3, <2>1, <2>2, <2>3, <2>4, Actor, Zenon
  <1>4. ASSUME NEW t \in Thread,
               \/ TransitionFromRunnableToSuspended(t) \/ MethodReturns(t)
               \/ BeginCollection(t) \/ PostEvent(t) \/ Register(t) \/ Unregister(t)
        PROVE  Session'
    <2>1. CASE TransitionFromRunnableToSuspended(t)
      BY <2>1, Zenon DEF TransitionFromRunnableToSuspended, Session, RequestFits, Invoking
    <2>2. CASE MethodReturns(t)
      <3>1. invoke_needed[t]
        BY <2>2, Zenon DEF MethodReturns, Invocation
      <3>2. pc[Jdwp] \in {"transfer", "awaitInvoke"}
        BY <3>1, Zenon DEF Invocation
      <3>3. active
        BY <3>2, Zenon DEF Session
      <3> QED  BY <2>2, <3>3, SessionOnMove DEF MethodReturns
    <2>3. CASE BeginCollection(t) \/ PostEvent(t) \/ Register(t) \/ Unregister(t)
      BY <2>3, SessionOnMove, Zenon DEF BeginCollection, PostEvent, Register, Unregister
    <2> QED  BY <1>4, <2>1, <2>2, <2>3
  <1>5. CASE ReceiveRequest
    <2>1. RequestFits("suspendAll")' /\ RequestFits("reqToken")'
      BY <1>5 DEF ReceiveRequest, RequestFits
    <2> QED  BY <1>5, <2>1, SessionOnJdwpMove, Zenon DEF ReceiveRequest
  <1>6. CASE Disconnect
    <2>1. RequestFits("suspendAll")'
      BY DEF RequestFits
    <2> QED  BY <1>6, <2>1, SessionOnJdwpMove DEF Disconnect
  <1>7. CASE ProcessRequest
    <2>1. CASE WaitForEventThread \/ StartProcessingRequest
      <3>1. RequestFits("start")' /\ RequestFits("enter")'
        BY <1>s, <2>1, Zenon DEF WaitForEventThread, StartProcessingRequest, RequestFits
      <3> QED  BY <2>1, <3>1, SessionOnJdwpMove, Zenon DEF WaitForEventThread, StartProcessingRequest, Session
    <2>2. CASE EnterHandler
      <3>1. UNCHANGED <<active, request>> /\ pc[Jdwp] \in {"enter", "enterReply", "enterBalance"}
        BY <2>2, Zenon DEF EnterHandler
      <3>2. \/ Goto(Jdwp, "handle") /\ RequestFits("handle")'
            \/ Goto(Jdwp, "reply") /\ RequestFits("reply")'
            \/ Goto(Jdwp, "balance") /\ RequestFits("balance")'
        BY <1>s, <2>2, Zenon DEF EnterHandler, RequestFits
      <3> QED  BY <3>1, <3>2, SessionOnJdwpMove DEF Session
    <2>3. CASE HandleSuspend
      <3>1. \/ Goto(Jdwp, "suspendVM") /\ RequestFits("suspendVM")'
            \/ Goto(Jdwp, "suspendPeer") /\ RequestFits("suspendPeer")'
        BY <1>s, <2>3, Zenon DEF HandleSuspend, RequestFits
      <3> QED  BY <2>3, <3>1, SessionOnJdwpMove, Zenon DEF HandleSuspend, Session
    <2>4. CASE ThreadIsSuspended
      <3>1. \/ Goto(Jdwp, "suspendVM") /\ RequestFits("suspendVM")'
            \/ Goto(Jdwp, "enterReply") /\ RequestFits("enterReply")'
        BY <1>s, <2>4, Zenon DEF ThreadIsSuspended, RequestFits
      <3> QED  BY <2>4, <3>1, SessionOnJdwpMove, Zenon DEF ThreadIsSuspended, Session
    <2>5. CASE TR_Resume
      <3>1. \/ Goto(Jdwp, "resume") /\ RequestFits("resume")'
            \/ Goto(Jdwp, "reply") /\ RequestFits("reply")'
        BY <1>s, <2>5, Zenon DEF TR_Resume, RequestFits
      <3> QED  BY <2>5, <3>1, SessionOnJdwpMove, Zenon DEF TR_Resume, Session
    <2>6. CASE InvokeAnswered
      <3>1. RequestFits("waitSuspended")'
        BY <1>s, <2>6, Zenon DEF InvokeAnswered, RequestFits, Invoking
      <3> QED  BY <2>6, <3>1, SessionOnJdwpMove, Zenon DEF InvokeAnswered, Session
    <2>7. CASE Reply
      <3>1. RequestFits("end")'
        BY <1>s, <2>7 DEF Reply, RequestFits
      <3> QED  BY <2>7, <3>1, SessionOnJdwpMove, Zenon DEF Reply, Session
    <2>8. CASE EndProcessingRequest
      <3>1. RequestFits("idle")'
        BY <2>8, Zenon DEF EndProcessingRequest, RequestFits
      <3> QED  BY <2>8, <3>1, SessionOnJdwpMove DEF EndProcessingRequest
    <2>9. CASE VM_Resume \/ ResumeThread
      <3>1. RequestFits("reply")' /\ UNCHANGED <<active, request>> /\ pc[Jdwp] \in Processing
        BY <1>s, <2>9 DEF VM_Resume, ResumeThread, RequestFits
      <3> QED  BY <2>9, <3>1, SessionOnJdwpMove, Zenon DEF VM_Resume, ResumeThread, Session
    <2>10. CASE SuspendThreadByPeer
      <3>1. RequestFits("waitSuspended")' /\ RequestFits("enterReply")'
        BY <1>s, <2>10, Zenon DEF SuspendThreadByPeer, RequestFits
      <3> QED  BY <2>10, <3>1, SessionOnJdwpMove, Zenon DEF SuspendThreadByPeer, Session
    <2>11. CASE InvokeMethod
      <3>1. RequestFits("transfer")' /\ RequestFits("reply")'
        BY <1>s, <2>11, Zenon DEF InvokeMethod, RequestFits, Invoking
      <3> QED  BY <2>11, <3>1, SessionOnJdwpMove, Zenon DEF InvokeMethod, Session
    <2>12. CASE TransferControl
      <3>1. RequestFits("awaitInvoke")'
        BY <1>s, <2>12, Zenon DEF TransferControl, RequestFits, Invoking
      <3> QED  BY <2>12, <3>1, SessionOnJdwpMove DEF TransferControl, Session
    <2>13. CASE UndoAfterDisconnect
      <3>1. RequestFits("idle")'
        BY <1>s, <2>13, Zenon DEF UndoAfterDisconnect, RequestFits
      <3> QED  BY <2>13, <3>1, SessionOnJdwpMove, Zenon DEF UndoAfterDisconnect, Session
    <2> QED
      BY <1>7, <2>1, <2>2, <2>3, <2>4, <2>5, <2>6, <2>7, <2>8, <2>9, <2>10, <2>11, <2>12, <2>13,
         ZenonT(40) DEF ProcessRequest
  <1> QED  BY <1>1, <1>2, <1>3, <1>4, <1>5, <1>6, <1>7, Zenon DEF Next

----------------------------------------------------------------------------
\* The thread of a request is not the JDWP thread, and is a thread where one is needed.
LEMMA RequestThread ==
    ASSUME Types
    PROVE  /\ target # Jdwp
           /\ request.kind \in {"TR_Suspend", "TR_Resume", "InvokeAll", "InvokeSingle"}
                 => target \in Thread
  BY DebuggerAssumption DEF Types, Request, NoRequest, target

(* The debugger's part of a count is at most the count. *)
Covered == \A t \in AllThread : debug_suspend_count[t] <= suspend_count[t]

\* A thread the debugger has suspended is in the list and has a count.
LEMMA SuspendedHasCount ==
    ASSUME Types, Counts, Covered, NEW t \in AllThread, debug_suspend_count[t] > 0
    PROVE  t \in list /\ suspend_count[t] > 0 /\ t # Jdwp
  <1>1. t \in list
    BY DEF Counts
  <1>2. debug_suspend_count[t] <= suspend_count[t]
    BY Zenon DEF Covered
  <1>3. suspend_count[t] \in Int /\ debug_suspend_count[t] \in Int
    BY Zenon DEF Types
  <1>4. suspend_count[t] > 0
    BY <1>2, <1>3
  <1> QED  BY <1>1, <1>4 DEF Counts

----------------------------------------------------------------------------
LEMMA InvocationOnMove ==
    ASSUME Places, Invocation, NEW t \in Thread, NEW label \in ThreadPcs, Goto(t, label),
           \A u \in Thread \ {t} : ready'[u] = ready[u] /\ invoke_needed'[u] = invoke_needed[u],
           ready'[t] => label \in {"answer", "clearToken", "asleep"},
           label \in {"invokeToken", "invoke", "invoking"} => invoke_needed'[t],
           invoke_needed'[t] => invoke_needed[t],
           pc[Jdwp] \in Processing /\ label \in HoldingToken =>
              \/ label = "send"
              \/ t = target /\ pc[Jdwp] = "awaitInvoke"
              \/ t = target /\ label = "clearToken" /\ Invoking /\ pc[Jdwp] \notin Beginning,
           request' = request
    PROVE  Invocation'
  <1>1. t \in AllThread /\ t # Jdwp /\ Jdwp \in AllThread
    BY DebuggerAssumption
  <1>2. /\ pc'[t] = label /\ pc'[Jdwp] = pc[Jdwp]
        /\ \A u \in Thread : u # t => pc'[u] = pc[u]
    BY <1>1, Moves, Zenon
  <1>3. target' = target /\ Invoking' = Invoking
    BY DEF target, Invoking
  <1>4. /\ \A u \in Thread : ready'[u] => pc'[u] \in {"answer", "clearToken", "asleep"}
        /\ \A u \in Thread : pc'[u] \in {"invokeToken", "invoke", "invoking"} => invoke_needed'[u]
    BY <1>2, Zenon DEF Invocation
  <1>5. \A u \in Thread : invoke_needed'[u] => target' = u /\ pc'[Jdwp] \in {"transfer", "awaitInvoke"}
    BY <1>2, <1>3, Zenon DEF Invocation
  <1>6. pc'[Jdwp] \in Processing => \A u \in Thread :
          pc'[u] \in HoldingToken =>
             \/ pc'[u] = "send"
             \/ u = target' /\ pc'[Jdwp] = "awaitInvoke"
             \/ u = target' /\ pc'[u] = "clearToken" /\ Invoking' /\ pc'[Jdwp] \notin Beginning
    <2> SUFFICES ASSUME pc'[Jdwp] \in Processing, NEW u \in Thread, pc'[u] \in HoldingToken
                 PROVE  \/ pc'[u] = "send"
                        \/ u = target' /\ pc'[Jdwp] = "awaitInvoke"
                        \/ u = target' /\ pc'[u] = "clearToken" /\ Invoking' /\ pc'[Jdwp] \notin Beginning
      BY Zenon
    <2>1. CASE u = t
      BY <1>2, <1>3, <2>1, Zenon
    <2>2. CASE u # t
      BY <1>2, <1>3, <2>2 DEF Invocation
    <2> QED  BY <2>1, <2>2
  <1> QED  BY <1>4, <1>5, <1>6, Zenon DEF Invocation

LEMMA InvocationOnJdwpMove ==
    ASSUME Places, Invocation, NEW label \in JdwpPcs, Goto(Jdwp, label), ready' = ready,
           \A u \in Thread : invoke_needed[u] => invoke_needed'[u],
           \A u \in Thread : invoke_needed'[u] =>
              target' = u /\ label \in {"transfer", "awaitInvoke"},
           label \in Processing => \A u \in Thread : pc[u] \in HoldingToken =>
              \/ pc[u] = "send"
              \/ u = target' /\ label = "awaitInvoke"
              \/ u = target' /\ pc[u] = "clearToken" /\ Invoking' /\ label \notin Beginning
    PROVE  Invocation'
  <1>1. Jdwp \in AllThread /\ Jdwp \notin Thread
    BY DebuggerAssumption
  <1>2. /\ pc'[Jdwp] = label
        /\ \A u \in Thread : pc'[u] = pc[u]
    BY <1>1, Moves, Zenon
  <1>3. /\ \A u \in Thread : ready'[u] => pc'[u] \in {"answer", "clearToken", "asleep"}
        /\ \A u \in Thread : pc'[u] \in {"invokeToken", "invoke", "invoking"} => invoke_needed'[u]
    BY <1>2, Zenon DEF Invocation
  <1>4. pc'[Jdwp] \in Processing => \A u \in Thread :
          pc'[u] \in HoldingToken =>
             \/ pc'[u] = "send"
             \/ u = target' /\ pc'[Jdwp] = "awaitInvoke"
             \/ u = target' /\ pc'[u] = "clearToken" /\ Invoking' /\ pc'[Jdwp] \notin Beginning
    BY <1>2, Zenon
  <1> QED  BY <1>2, <1>3, <1>4, Zenon DEF Invocation

LEMMA NextInvocation ==
    ASSUME Types, Places, Tokens, Session, Invocation, Target, [Next]_vars
    PROVE  Invocation'
  <1>0. Jdwp \in AllThread /\ Jdwp \notin Thread
    BY DebuggerAssumption
  <1> USE DEF ThreadPcs, JdwpPcs, HoldingToken, Processing, Pausing, StoppingVM, Beginning
  <1>1. CASE UNCHANGED vars
    BY <1>1, Zenon DEF vars, Invocation, target, Invoking
  <1>t. ASSUME NEW t \in Thread
        PROVE  /\ ready[t] => pc[t] \in {"answer", "clearToken", "asleep"}
               /\ pc[t] \in {"invokeToken", "invoke", "invoking"} =>
                     invoke_needed[t] /\ target = t /\ pc[Jdwp] = "awaitInvoke"
               /\ pc[Jdwp] \in Processing /\ pc[t] \in {"suspendSelf", "answer"} =>
                     target = t /\ pc[Jdwp] = "awaitInvoke"
               /\ pc[t] \in StoppingVM => pc[Jdwp] \notin Processing
    <2>1. pc[t] \in {"invokeToken", "invoke", "invoking"} =>
             invoke_needed[t] /\ target = t /\ pc[Jdwp] \in {"transfer", "awaitInvoke"}
      BY Zenon DEF Invocation
    <2>2. pc[Jdwp] = "transfer" => pc[target] = "asleep"
      BY Zenon DEF Target
    <2>3. pc[t] \in {"invokeToken", "invoke", "invoking"} => pc[Jdwp] = "awaitInvoke"
      BY <2>1, <2>2, Zenon
    <2>4. pc[Jdwp] \in Processing /\ pc[t] \in {"suspendSelf", "answer"} =>
             target = t /\ pc[Jdwp] = "awaitInvoke"
      BY DEF Invocation
    <2>5. pc[t] \in StoppingVM => pc[Jdwp] \notin Processing
      BY Zenon DEF Tokens
    <2> QED  BY <2>1, <2>3, <2>4, <2>5, Zenon DEF Invocation
  <1>2. ASSUME NEW t \in Thread, ThreadStep(t) PROVE Invocation'
    <2>1. CASE SuspendAll(t) \/ LockMutators(t) \/ ResumeAll(t)
      BY <1>0, <1>t, <2>1, InvocationOnMove, Zenon DEF SuspendAll, LockMutators, ResumeAll
    <2>2. CASE SuspendAllForDebugger(t) \/ LockAndUnlockMutators(t) \/ AssertThreadsAreSuspended(t)
      BY <1>0, <1>t, <2>2, InvocationOnMove, Zenon
      DEF SuspendAllForDebugger, LockAndUnlockMutators, AssertThreadsAreSuspended
    <2>3. CASE TransitionFromSuspendedToRunnable(t)
      BY <2>3, Zenon DEF TransitionFromSuspendedToRunnable, Invocation, target, Invoking
    <2>4. CASE SetWaitForEventThread(t)
      BY <1>t, <2>4, InvocationOnMove, Zenon DEF SetWaitForEventThread
    <2>5. CASE EventFinish(t)
      <3>1. pc[Jdwp] \notin Processing
        BY <2>5, Zenon DEF EventFinish, Tokens
      <3> QED  BY <1>t, <2>5, <3>1, InvocationOnMove DEF EventFinish
    <2>6. CASE SuspendSelf(t)
      <3>1. ready'[t] /\ (\A u \in Thread \ {t} : ready'[u] = ready[u]) /\ invoke_needed' = invoke_needed
        BY <2>6, Zenon DEF SuspendSelf, Types
      <3> QED  BY <1>t, <2>6, <3>1, InvocationOnMove, Zenon DEF SuspendSelf
    <2>7. CASE AnswerInvoke(t)
      <3>1. /\ ~invoke_needed'[t] /\ ready' = ready
            /\ \A u \in Thread \ {t} : invoke_needed'[u] = invoke_needed[u]
        BY <2>7, Zenon DEF AnswerInvoke, Types
      <3> QED  BY <1>t, <2>7, <3>1, InvocationOnMove, Zenon DEF AnswerInvoke
    <2>8. CASE ClearWaitForEventThread(t)
      BY <1>t, <2>8, InvocationOnMove DEF ClearWaitForEventThread
    <2>9. CASE Revive(t)
      <3>1. ~ready'[t] /\ (\A u \in Thread \ {t} : ready'[u] = ready[u]) /\ invoke_needed' = invoke_needed
        BY <2>9, Zenon DEF Revive, Types
      <3> QED  BY <1>t, <2>9, <3>1, InvocationOnMove, Zenon DEF Revive
    <2>10. CASE ExecuteMethod(t)
      BY <1>t, <2>10, InvocationOnMove DEF ExecuteMethod
    <2> QED  BY <1>2, <2>1, <2>2, <2>3, <2>4, <2>5, <2>6, <2>7, <2>8, <2>9, <2>10, Zenon DEF ThreadStep
  <1>3. ASSUME NEW t \in Thread,
               \/ TransitionFromRunnableToSuspended(t) \/ MethodReturns(t)
               \/ BeginCollection(t) \/ PostEvent(t) \/ Register(t) \/ Unregister(t)
        PROVE  Invocation'
    <2>1. CASE TransitionFromRunnableToSuspended(t)
      BY <2>1, ZenonT(40) DEF TransitionFromRunnableToSuspended, Invocation, target, Invoking
    <2>2. CASE MethodReturns(t)
      BY <1>t, <2>2, InvocationOnMove, Zenon DEF MethodReturns
    <2>3. CASE BeginCollection(t) \/ PostEvent(t)
      BY <1>t, <2>3, InvocationOnMove, Zenon DEF BeginCollection, PostEvent
    <2>4. CASE Register(t) \/ Unregister(t)
      BY <1>t, <2>4, InvocationOnMove DEF Register, Unregister
    <2> QED  BY <1>3, <2>1, <2>2, <2>3, <2>4
  <1>j. /\ pc[Jdwp] \notin {"transfer", "awaitInvoke"} => \A u \in Thread : ~invoke_needed[u]
        /\ pc[Jdwp] \in Processing \ {"awaitInvoke"} => \A u \in Thread : pc[u] \in HoldingToken =>
              pc[u] = "send" \/ (u = target /\ pc[u] = "clearToken" /\ Invoking /\ pc[Jdwp] \notin Beginning)
    <2>1. pc[Jdwp] \notin {"transfer", "awaitInvoke"} => \A u \in Thread : ~invoke_needed[u]
      BY Zenon DEF Invocation
    <2> HIDE DEF Processing, HoldingToken, Beginning
    <2>2. pc[Jdwp] \in Processing \ {"awaitInvoke"} => \A u \in Thread : pc[u] \in HoldingToken =>
              pc[u] = "send" \/ (u = target /\ pc[u] = "clearToken" /\ Invoking /\ pc[Jdwp] \notin Beginning)
      BY Zenon DEF Invocation
    <2> QED  BY <2>1, <2>2, Zenon
  \* A step of the JDWP thread that leaves the request and the invocations alone.
  <1>k. ASSUME NEW label \in JdwpPcs, Goto(Jdwp, label), UNCHANGED <<ready, invoke_needed, request>>,
               label \in Beginning => pc[Jdwp] \in Beginning,
               \/ label \notin Processing /\ pc[Jdwp] \notin {"transfer", "awaitInvoke"}
               \/ pc[Jdwp] \in Processing \ {"transfer", "awaitInvoke"}
        PROVE  Invocation'
    <2>1. target' = target /\ Invoking' = Invoking
      BY <1>k DEF target, Invoking
    <2>2. \A u \in Thread : ~invoke_needed'[u]
      BY <1>j, <1>k, Zenon
    <2>3. label \in Processing => \A u \in Thread : pc[u] \in HoldingToken =>
              \/ pc[u] = "send"
              \/ u = target' /\ label = "awaitInvoke"
              \/ u = target' /\ pc[u] = "clearToken" /\ Invoking' /\ label \notin Beginning
      <3>1. pc[Jdwp] \in Processing \ {"transfer", "awaitInvoke"} => pc[Jdwp] \in Processing \ {"awaitInvoke"}
        BY Zenon
      <3> HIDE DEF Processing, HoldingToken, Beginning
      <3> QED  BY <1>j, <1>k, <2>1, <3>1, Zenon
    <2> HIDE DEF Processing, HoldingToken, JdwpPcs, Beginning
    <2> QED  BY <1>j, <1>k, <2>2, <2>3, InvocationOnJdwpMove, Zenon
  <1>4. ASSUME ThreadStep(Jdwp) PROVE Invocation'
    <2>1. CASE SuspendAll(Jdwp) \/ LockMutators(Jdwp)
      BY <1>k, <2>1, Zenon DEF SuspendAll, LockMutators
    <2>2. CASE ResumeAll(Jdwp)
      BY <1>k, <2>2 DEF ResumeAll
    <2>3. CASE SuspendAllForDebugger(Jdwp) \/ LockAndUnlockMutators(Jdwp) \/ AssertThreadsAreSuspended(Jdwp)
      BY <1>k, <2>3, Zenon DEF SuspendAllForDebugger, LockAndUnlockMutators, AssertThreadsAreSuspended
    <2> QED  BY <1>0, <1>4, <2>1, <2>2, <2>3, Actor, Zenon
  <1>5. CASE ReceiveRequest
    <2>1. /\ \A u \in Thread : ~invoke_needed'[u] /\ ~invoke_needed[u]
          /\ ready' = ready
      BY <1>5, <1>j, Zenon DEF ReceiveRequest
    <2> QED  BY <1>5, <2>1, InvocationOnJdwpMove, Zenon DEF ReceiveRequest
  <1>6. CASE Disconnect
    BY <1>6, <1>k DEF Disconnect
  <1>7. CASE ProcessRequest
    <2>1. CASE WaitForEventThread \/ UndoAfterDisconnect
      BY <1>k, <2>1, Zenon DEF WaitForEventThread, UndoAfterDisconnect
    <2>2. CASE StartProcessingRequest
      <3>1. /\ \A u \in Thread : ~invoke_needed'[u] /\ ~invoke_needed[u]
            /\ ready' = ready
        BY <2>2, <1>j DEF StartProcessingRequest
      <3>2. \A u \in Thread : pc[u] \notin HoldingToken
        BY <2>2, DebuggerAssumption, Zenon DEF StartProcessingRequest, Tokens
      <3> QED  BY <2>2, <3>1, <3>2, InvocationOnJdwpMove, Zenon DEF StartProcessingRequest
    <2>3. CASE EnterHandler
      BY <1>k, <2>3, Zenon DEF EnterHandler
    <2>4. CASE HandleSuspend \/ VM_Resume
      BY <1>k, <2>4 DEF HandleSuspend, VM_Resume
    <2>5. CASE SuspendThreadByPeer \/ ThreadIsSuspended
      BY <1>k, <2>5, Zenon DEF SuspendThreadByPeer, ThreadIsSuspended
    <2>6. CASE TR_Resume \/ ResumeThread \/ Reply
      BY <1>k, <2>6 DEF TR_Resume, ResumeThread, Reply
    <2>7. CASE InvokeMethod
      <3>1. CASE CanInvoke
        <4>0. target' = target /\ Invoking' = Invoking
          BY <2>7, Zenon DEF InvokeMethod, target, Invoking
        <4>1. target \in Thread
          BY <2>7, RequestThread DEF InvokeMethod, Invoking
        <4>2. /\ invoke_needed' = [invoke_needed EXCEPT ![target] = TRUE] /\ ready' = ready
              /\ Goto(Jdwp, "transfer") /\ pc[Jdwp] = "handle"
          BY <2>7, <3>1, Zenon DEF InvokeMethod
        <4>3. \A u \in Thread : ~invoke_needed[u]
          BY <1>j, <4>2
        <4>4. \A u \in Thread : invoke_needed'[u] => u = target
          BY <4>2, <4>3, Zenon DEF Types
        <4>5. \A u \in Thread : pc[u] \in HoldingToken =>
                 pc[u] = "send"
          BY <1>j, <4>0, <4>2, Zenon
        <4> QED  BY <4>0, <4>2, <4>3, <4>4, <4>5, InvocationOnJdwpMove, Zenon
      <3>2. CASE ~CanInvoke
        BY <1>k, <2>7, <3>2, Zenon DEF InvokeMethod
      <3> QED  BY <3>1, <3>2
    <2>8. CASE TransferControl
      <3>0. target' = target /\ Invoking' = Invoking
        BY <2>8 DEF TransferControl, target, Invoking
      <3>1. /\ UNCHANGED <<ready, invoke_needed>> /\ Goto(Jdwp, "awaitInvoke") /\ pc[Jdwp] = "transfer"
        BY <2>8, Zenon DEF TransferControl
      <3>2. \A u \in Thread : pc[u] \in HoldingToken =>
               pc[u] = "send"
        BY <1>j, <3>0, <3>1
      <3>3. \A u \in Thread : invoke_needed[u] => target' = u
        BY <3>0, Zenon DEF Invocation
      <3> QED  BY <3>0, <3>1, <3>2, <3>3, InvocationOnJdwpMove, Zenon
    <2>9. CASE InvokeAnswered
      <3>0. target' = target /\ Invoking' = Invoking
        BY <2>9, Zenon DEF InvokeAnswered, target, Invoking
      <3>1. /\ UNCHANGED <<ready, invoke_needed>> /\ Goto(Jdwp, "waitSuspended")
            /\ pc[Jdwp] = "awaitInvoke" /\ ~invoke_needed[target]
        BY <2>9 DEF InvokeAnswered
      <3>2. \A u \in Thread : ~invoke_needed[u]
        BY <3>1, Zenon DEF Invocation
      <3>3. pc[target] \in {"clearToken", "asleep"} /\ Invoking
        BY <3>1 DEF Target, Session, RequestFits
      <3>4. \A u \in Thread : pc[u] \in HoldingToken =>
               pc[u] = "send" \/ (u = target' /\ pc[u] = "clearToken" /\ Invoking')
        <4> SUFFICES ASSUME NEW u \in Thread, pc[u] \in HoldingToken
                     PROVE  pc[u] = "send" \/ (u = target /\ pc[u] = "clearToken" /\ Invoking)
          BY <3>0, Zenon
        <4>1. pc[u] = "send" \/ u = target
          BY <3>1 DEF Invocation
        <4>2. u = target => pc[u] = "clearToken"
          BY <3>3, Zenon
        <4> QED  BY <3>3, <4>1, <4>2, Zenon
      <3> QED  BY <3>0, <3>1, <3>2, <3>4, InvocationOnJdwpMove, Zenon
    <2>10. CASE EndProcessingRequest
      <3>1. /\ \A u \in Thread : ~invoke_needed'[u] /\ ~invoke_needed[u]
            /\ ready' = ready
        BY <2>10, <1>j DEF EndProcessingRequest
      <3> QED  BY <2>10, <3>1, InvocationOnJdwpMove, Zenon DEF EndProcessingRequest
    <2> QED
      BY <1>7, <2>1, <2>2, <2>3, <2>4, <2>5, <2>6, <2>7, <2>8, <2>9, <2>10, ZenonT(40) DEF ProcessRequest
  <1> QED  BY <1>0, <1>1, <1>2, <1>3, <1>4, <1>5, <1>6, <1>7, Zenon DEF Next

----------------------------------------------------------------------------
(* What a step of thread t leaves alone. *)
OnlyMoves(t) ==
    /\ UNCHANGED <<active, request>>
    /\ pc'[t] \in ThreadPcs
    /\ \A u \in AllThread \ {t} : pc'[u] = pc[u] /\ (u \in list' <=> u \in list)
    /\ \A u \in Thread \ {t} : ready'[u] = ready[u] /\ invoke_needed'[u] = invoke_needed[u]
    /\ \A u \in runnable' \ runnable : u = t /\ suspend_count[u] = 0
    /\ t \in list \ list' => ~(suspend_count[t] > 0)

(* It suspends the other threads for the debugger, or itself; it attaches and takes on the
   suspensions in force; or it goes on. *)
StopsVM(t) ==
    /\ pc[t] = "suspendVM" /\ pc'[t] = "lockVM"
    /\ debug_suspend_all_count' = debug_suspend_all_count + 1
    /\ \A u \in AllThread : debug_suspend_count'[u] =
          IF u \in list \ {t, Jdwp} THEN debug_suspend_count[u] + 1 ELSE debug_suspend_count[u]
StopsSelf(t) ==
    /\ pc[t] = "suspendSelf" /\ pc'[t] = "answer"
    /\ ready'[t] /\ invoke_needed'[t] = invoke_needed[t]
    /\ UNCHANGED <<list, runnable, debug_suspend_all_count>>
    /\ \A u \in AllThread : debug_suspend_count'[u] =
          IF u = t THEN debug_suspend_count[u] + 1 ELSE debug_suspend_count[u]
Attaches(t) ==
    /\ pc[t] = "detached" /\ pc'[t] = "run"
    /\ UNCHANGED <<runnable, debug_suspend_all_count>>
    /\ \A u \in AllThread : debug_suspend_count'[u] =
          IF u = t THEN debug_suspend_all_count ELSE debug_suspend_count[u]
Quiet == {"run", "suspendAll", "lock", "paused", "token", "send", "assertVM"}
GoesOn(t) ==
    /\ UNCHANGED <<debug_suspend_count, debug_suspend_all_count>>
    /\ t \in list' => t \in list
    /\ \/ pc[t] = "lockVM" /\ pc'[t] = "assertVM" /\ runnable = {} /\ runnable' = {}
       \/ pc[t] \in Quiet /\ pc'[t] \notin {"lockVM", "assertVM"}
       \/ /\ pc'[t] = pc[t] \/ <<pc[t], pc'[t]>> \in
                {<<"invokeToken", "invoke">>, <<"invoke", "invoking">>,
                 <<"invoking", "suspendSelf">>, <<"clearToken", "asleep">>}
          /\ ready'[t] = ready[t] /\ invoke_needed'[t] = invoke_needed[t] /\ list' = list
       \/ /\ pc[t] = "answer" /\ pc'[t] = "clearToken"
          /\ ready'[t] = ready[t] /\ ~invoke_needed'[t] /\ list' = list
       \/ /\ pc[t] = "asleep" /\ pc'[t] = IF invoke_needed[t] THEN "invokeToken" ELSE "run"
          /\ ~ready'[t] /\ invoke_needed'[t] = invoke_needed[t] /\ list' = list
          /\ suspend_count[t] = 0

StepOf(t) ==
    \/ ThreadStep(t)
    \/ TransitionFromRunnableToSuspended(t) \/ MethodReturns(t)
    \/ BeginCollection(t) \/ PostEvent(t) \/ Register(t) \/ Unregister(t)

LEMMA ThreadSteps ==
    ASSUME Types, Places, Invocation, NEW t \in Thread, StepOf(t)
    PROVE  OnlyMoves(t) /\ (StopsVM(t) \/ StopsSelf(t) \/ Attaches(t) \/ GoesOn(t))
  <1>0. t \in AllThread /\ t # Jdwp /\ Jdwp \in AllThread
    BY DebuggerAssumption
  <1>m. ASSUME NEW label \in ThreadPcs, Goto(t, label), UNCHANGED <<active, request>>,
               \A u \in AllThread \ {t} : u \in list' <=> u \in list,
               \A u \in Thread \ {t} : ready'[u] = ready[u] /\ invoke_needed'[u] = invoke_needed[u],
               \A u \in runnable' \ runnable : u = t /\ suspend_count[u] = 0,
               t \in list \ list' => ~(suspend_count[t] > 0)
        PROVE  OnlyMoves(t) /\ pc'[t] = label
    <2>1. pc'[t] = label /\ \A u \in AllThread : u # t => pc'[u] = pc[u]
      BY <1>0, <1>m, Moves, Zenon
    <2> QED  BY <1>m, <2>1, Zenon DEF OnlyMoves
  <1> USE DEF ThreadPcs, HoldingToken
  <1>1. CASE SuspendAll(t) \/ LockMutators(t) \/ ResumeAll(t)
    <2>1. OnlyMoves(t) /\ pc[t] \in Quiet /\ pc'[t] \notin {"lockVM", "assertVM"} /\ list' = list
      <3>1. CASE SuspendAll(t)
        BY <1>m, <3>1 DEF SuspendAll, Quiet
      <3>2. CASE LockMutators(t)
        BY <1>m, <3>2 DEF LockMutators, Quiet
      <3>3. CASE ResumeAll(t)
        BY <1>0, <1>m, <3>3 DEF ResumeAll, Quiet
      <3> QED  BY <1>1, <3>1, <3>2, <3>3, Zenon
    <2>2. debug_suspend_count' = debug_suspend_count
      BY <1>1 DEF SuspendAll, LockMutators, ResumeAll, ModifySuspendCount, Types
    <2>3. debug_suspend_all_count' = debug_suspend_all_count
      BY <1>1, Zenon DEF SuspendAll, LockMutators, ResumeAll
    <2> QED  BY <2>1, <2>2, <2>3, Zenon DEF GoesOn
  <1>2. CASE SuspendAllForDebugger(t)
    <2>1. OnlyMoves(t) /\ pc[t] = "suspendVM" /\ pc'[t] = "lockVM"
      BY <1>2, <1>m, Zenon DEF SuspendAllForDebugger
    <2>2. \A u \in AllThread : debug_suspend_count'[u] =
             IF u \in list \ {t, Jdwp} THEN debug_suspend_count[u] + 1 ELSE debug_suspend_count[u]
      BY <1>2, Zenon DEF SuspendAllForDebugger, ModifySuspendCount
    <2> QED  BY <1>2, <2>1, <2>2, Zenon DEF SuspendAllForDebugger, StopsVM
  <1>3. CASE LockAndUnlockMutators(t) \/ AssertThreadsAreSuspended(t)
    <2>1. OnlyMoves(t) /\ list' = list /\ UNCHANGED countVars
      BY <1>0, <1>3, <1>m, ZenonT(40) DEF LockAndUnlockMutators, AssertThreadsAreSuspended
    <2>2. \/ pc[t] = "lockVM" /\ pc'[t] = "assertVM" /\ runnable = {} /\ runnable' = {}
          \/ pc[t] \in Quiet /\ pc'[t] \notin {"lockVM", "assertVM"}
      BY <1>0, <1>3, <1>m DEF LockAndUnlockMutators, AssertThreadsAreSuspended, Quiet
    <2> QED  BY <2>1, <2>2, Zenon DEF GoesOn
  <1>4. CASE TransitionFromSuspendedToRunnable(t) \/ TransitionFromRunnableToSuspended(t)
    <2>1. \A u \in runnable' \ runnable : u = t /\ suspend_count[u] = 0
      BY <1>4 DEF TransitionFromSuspendedToRunnable, TransitionFromRunnableToSuspended,
         EnterRunnable, LeaveRunnable, CanRun
    <2>2. UNCHANGED <<list, countVars, tokenVars, invokeVars, sessionVars, pc>>
      BY <1>4, Zenon DEF TransitionFromSuspendedToRunnable, TransitionFromRunnableToSuspended
    <2>3. pc[t] \in ThreadPcs
      BY ZenonT(40) DEF Places
    <2> QED  BY <2>1, <2>2, <2>3, Zenon DEF OnlyMoves, GoesOn
  <1>5. CASE SetWaitForEventThread(t) \/ ExecuteMethod(t) \/ ClearWaitForEventThread(t)
    <2>0. \A u \in runnable' \ runnable : u = t /\ suspend_count[u] = 0
      BY <1>5 DEF SetWaitForEventThread, ExecuteMethod, EnterRunnable, CanRun,
         ClearWaitForEventThread
    <2>1. OnlyMoves(t) /\ list' = list /\ UNCHANGED countVars /\ UNCHANGED invokeVars
      BY <1>5, <1>m, <2>0, Zenon DEF SetWaitForEventThread, ExecuteMethod, ClearWaitForEventThread
    <2>2. \/ pc[t] \in Quiet /\ pc'[t] \notin {"lockVM", "assertVM"}
          \/ <<pc[t], pc'[t]>> \in
                {<<"invokeToken", "invoke">>, <<"invoke", "invoking">>, <<"clearToken", "asleep">>}
      BY <1>5, <1>m, <2>0 DEF SetWaitForEventThread, ExecuteMethod, ClearWaitForEventThread, Quiet
    <2> QED  BY <2>1, <2>2, Zenon DEF GoesOn
  <1>6. CASE EventFinish(t) \/ BeginCollection(t)
    <2>1. OnlyMoves(t) /\ list' = list /\ UNCHANGED countVars
      BY <1>6, <1>m, Zenon DEF EventFinish, BeginCollection, LeaveRunnable
    <2>2. pc[t] \in Quiet /\ pc'[t] \notin {"lockVM", "assertVM"}
      BY <1>6, <1>m DEF EventFinish, BeginCollection, LeaveRunnable, Quiet
    <2> QED  BY <2>1, <2>2, ZenonT(40) DEF GoesOn
  <1>7. CASE SuspendSelf(t)
    <2>0. ready'[t] /\ (\A u \in Thread \ {t} : ready'[u] = ready[u]) /\ invoke_needed' = invoke_needed
      BY <1>7, ZenonT(40) DEF SuspendSelf, Types
    <2>1. OnlyMoves(t) /\ pc[t] = "suspendSelf" /\ pc'[t] = "answer"
      BY <1>7, <1>m, <2>0, Zenon DEF SuspendSelf
    <2>2. \A u \in AllThread : debug_suspend_count'[u] =
             IF u = t THEN debug_suspend_count[u] + 1 ELSE debug_suspend_count[u]
      BY <1>7 DEF SuspendSelf, ModifySuspendCount
    <2> QED  BY <1>7, <2>0, <2>1, <2>2, Zenon DEF SuspendSelf, StopsSelf
  <1>8. CASE AnswerInvoke(t)
    <2>0. /\ ~invoke_needed'[t] /\ ready' = ready
          /\ \A u \in Thread \ {t} : invoke_needed'[u] = invoke_needed[u]
      BY <1>8, Zenon DEF AnswerInvoke, Types
    <2>1. OnlyMoves(t) /\ pc[t] = "answer" /\ pc'[t] = "clearToken"
      BY <1>8, <1>m, <2>0 DEF AnswerInvoke
    <2> QED  BY <1>8, <2>0, <2>1, Zenon DEF AnswerInvoke, GoesOn
  <1>9. CASE Revive(t)
    <2>0. ~ready'[t] /\ (\A u \in Thread \ {t} : ready'[u] = ready[u]) /\ invoke_needed' = invoke_needed
      BY <1>9, ZenonT(40) DEF Revive, Types
    <2>1. OnlyMoves(t) /\ pc[t] = "asleep" /\ pc'[t] = IF invoke_needed[t] THEN "invokeToken" ELSE "run"
      BY <1>9, <1>m, <2>0 DEF Revive
    <2> QED  BY <1>9, <2>0, <2>1, Zenon DEF Revive, GoesOn
  <1>10. CASE MethodReturns(t)
    <2>1. OnlyMoves(t) /\ pc[t] = "invoking" /\ pc'[t] = "suspendSelf"
      BY <1>10, <1>m DEF MethodReturns, LeaveRunnable
    <2> QED  BY <1>10, <2>1, Zenon DEF MethodReturns, GoesOn
  <1>11. CASE PostEvent(t)
    <2>0. pc[t] = "run"
      BY <1>11, Zenon DEF PostEvent, Invocation
    <2>1. OnlyMoves(t) /\ pc[t] \in Quiet /\ pc'[t] = "token"
      BY <1>11, <1>m, <2>0, Zenon DEF PostEvent, LeaveRunnable, Quiet
    <2> QED  BY <1>11, <2>1, Zenon DEF PostEvent, GoesOn
  <1>12. CASE Register(t)
    <2>0. t \notin list
      BY <1>12, ZenonT(40) DEF Register, Places
    <2>1. OnlyMoves(t) /\ pc[t] = "detached" /\ pc'[t] = "run"
      BY <1>12, <1>m, <2>0 DEF Register
    <2>2. \A u \in AllThread : debug_suspend_count'[u] =
             IF u = t THEN debug_suspend_all_count ELSE debug_suspend_count[u]
      BY <1>0, <1>12, ZenonT(40) DEF Register, Types
    <2> QED  BY <1>12, <2>1, <2>2, Zenon DEF Register, Attaches
  <1>13. CASE Unregister(t)
    <2>0. ~(suspend_count[t] > 0)
      BY <1>13, ZenonT(40) DEF Unregister, IsSuspended
    <2>1. OnlyMoves(t) /\ pc[t] \in Quiet /\ pc'[t] = "detached"
      BY <1>13, <1>m, <2>0, Zenon DEF Unregister, Quiet
    <2> QED  BY <1>13, <2>1 DEF Unregister, GoesOn
  <1> QED
    BY <1>1, <1>2, <1>3, <1>4, <1>5, <1>6, <1>7, <1>8, <1>9, <1>10, <1>11, <1>12, <1>13, ZenonT(40)
    DEF StepOf, ThreadStep

\* No thread takes back a suspension of the debugger: only the JDWP thread does.
LEMMA ThreadKeepsSuspended ==
    ASSUME Types, Places, Counts, Covered, NEW t \in Thread,
           StopsVM(t) \/ StopsSelf(t) \/ Attaches(t) \/ GoesOn(t),
           NEW u \in AllThread, debug_suspend_count[u] > 0
    PROVE  debug_suspend_count'[u] > 0
  <1>0. debug_suspend_count[u] \in Int
    BY Zenon DEF Types
  <1>1. CASE StopsVM(t)
    BY <1>0, <1>1 DEF StopsVM
  <1>2. CASE StopsSelf(t)
    BY <1>0, <1>2 DEF StopsSelf
  <1>3. CASE Attaches(t)
    <2>1. pc[t] = "detached" => t \notin list
      BY Zenon DEF Places
    <2>2. u # t
      BY <1>3, <2>1, SuspendedHasCount, Zenon DEF Attaches
    <2> QED  BY <1>3, <2>2, Zenon DEF Attaches
  <1>4. CASE GoesOn(t)
    BY <1>4, Zenon DEF GoesOn
  <1> QED  BY <1>1, <1>2, <1>3, <1>4

LEMMA ThreadSuspensions ==
    ASSUME Types, Types', Places, Session, Counts, Covered, Suspensions,
           NEW t \in Thread, OnlyMoves(t),
           StopsVM(t) \/ StopsSelf(t) \/ Attaches(t) \/ GoesOn(t)
    PROVE  Suspensions'
  <1>0. t \in AllThread /\ t # Jdwp /\ Jdwp \in AllThread
    BY DebuggerAssumption
  <1>1. \A u \in AllThread : debug_suspend_count[u] > 0 => debug_suspend_count'[u] > 0
    BY ThreadKeepsSuspended, ZenonT(40)
  <1>2. debug_suspend_all_count > 0 => debug_suspend_all_count' > 0
    BY DEF StopsVM, StopsSelf, Attaches, GoesOn, Types
  <1>3. /\ \A u \in AllThread \ {t} : pc'[u] = pc[u] /\ (u \in list' <=> u \in list)
        /\ pc'[Jdwp] = pc[Jdwp] /\ target' = target
        /\ list \subseteq AllThread /\ list' \subseteq AllThread
    BY <1>0, Zenon DEF OnlyMoves, target, Types
  \* Where everyone was suspended, everyone still is.
  <1>4. ASSUME NEW s \in AllThread, debug_suspend_all_count > 0,
               \A u \in list \ {s, Jdwp} : debug_suspend_count[u] > 0
        PROVE  /\ debug_suspend_all_count' > 0
               /\ \A u \in list' \ {s, Jdwp} : debug_suspend_count'[u] > 0
    <2> SUFFICES ASSUME NEW u \in list', u # s, u # Jdwp
                 PROVE  debug_suspend_count'[u] > 0
      BY <1>2, <1>4, Zenon
    <2>1. CASE u \in list
      BY <1>1, <1>3, <1>4, <2>1, Zenon
    <2>2. CASE u \notin list
      <3>1. u = t
        BY <1>3, <2>2, ZenonT(40)
      <3>2. Attaches(t)
        BY <2>2, <3>1, Zenon DEF StopsVM, StopsSelf, GoesOn, OnlyMoves, Places
      <3> QED  BY <1>0, <1>4, <3>1, <3>2, Zenon DEF Attaches
    <2> QED  BY <2>1, <2>2
  <1>5. ASSUME NEW u \in runnable', debug_suspend_count'[u] > 0
        PROVE  \/ \E s \in AllThread : pc'[s] = "lockVM"
               \/ pc'[Jdwp] = "waitSuspended" /\ target' = u
    <2>0. u \in runnable => /\ u \in AllThread
                            /\ u = t => pc[t] \in {"run", "invoking"}
      BY <1>3, Zenon DEF Places
    <2>1. CASE StopsVM(t)
      BY <1>0, <2>1, Zenon DEF StopsVM
    <2>2. CASE ~StopsVM(t) /\ ~(pc[t] = "lockVM" /\ runnable' = {})
      <3>1. u \in runnable /\ debug_suspend_count[u] > 0
        <4>1. CASE u \in runnable
          <5>1. u = t => ~StopsSelf(t) /\ ~Attaches(t)
            BY <2>0, <4>1, Zenon DEF StopsSelf, Attaches
          <5>2. debug_suspend_count'[u] = debug_suspend_count[u]
            BY <2>0, <2>2, <4>1, <5>1, Zenon DEF StopsSelf, Attaches, GoesOn
          <5> QED  BY <1>5, <4>1, <5>2, ZenonT(40)
        <4>2. CASE u \notin runnable
          <5>1. u = t /\ suspend_count[u] = 0
            BY <1>5, <4>2, Zenon DEF OnlyMoves
          <5>2. GoesOn(t)
            BY <1>5, <2>2, <4>2, Zenon DEF StopsSelf, Attaches
          <5>3. debug_suspend_count[u] > 0
            BY <1>5, <5>2, Zenon DEF GoesOn
          <5>4. suspend_count[t] > 0
            BY <1>0, <5>1, <5>3, SuspendedHasCount, Zenon
          <5> QED  BY <5>1, <5>4
        <4> QED  BY <4>1, <4>2
      <3>2. \/ \E s \in AllThread : pc[s] = "lockVM"
            \/ pc[Jdwp] = "waitSuspended" /\ target = u
        BY <3>1, Zenon DEF Suspensions
      <3>3. pc[t] = "lockVM" => pc'[t] = "lockVM"
        <4>1. ~(runnable' = {})
          BY <1>5, Zenon
        <4> QED  BY <2>2, <4>1 DEF StopsSelf, Attaches, GoesOn, Quiet
      <3> QED  BY <1>3, <3>2, <3>3, Zenon
    <2>3. CASE pc[t] = "lockVM" /\ runnable' = {}
      BY <1>5, <2>3, Zenon
    <2> QED  BY <2>1, <2>2, <2>3, Zenon
  <1>6. ASSUME NEW s \in AllThread, pc'[s] \in {"lockVM", "assertVM"}
        PROVE  /\ debug_suspend_all_count' > 0
               /\ \A u \in list' \ {s, Jdwp} : debug_suspend_count'[u] > 0
    <2>1. CASE pc[s] \in {"lockVM", "assertVM"}
      BY <1>4, <2>1, Zenon DEF Suspensions
    <2>2. CASE pc[s] \notin {"lockVM", "assertVM"}
      <3>1. s = t
        BY <1>3, <1>6, <2>2, Zenon
      <3>2. StopsVM(t)
        BY <1>6, <2>2, <3>1, ZenonT(40) DEF StopsSelf, Attaches, GoesOn
      <3>3. debug_suspend_all_count' > 0
        BY <3>2 DEF StopsVM, Types, Counts
      <3>4. \A u \in list' \ {t, Jdwp} : debug_suspend_count'[u] > 0
        <4> TAKE u \in list' \ {t, Jdwp}
        <4>1. u \in list \ {t, Jdwp} /\ u \in AllThread
          BY <1>3, Zenon
        <4>2. debug_suspend_count[u] >= 0 /\ debug_suspend_count[u] \in Int
          BY <4>1, Zenon DEF Counts, PartsAreExact, Types
        <4>3. debug_suspend_count'[u] = debug_suspend_count[u] + 1
          BY <3>2, <4>1, Zenon DEF StopsVM
        <4> QED  BY <4>2, <4>3
      <3> QED  BY <3>1, <3>3, <3>4, Zenon
    <2> QED  BY <2>1, <2>2
  <1>7. ASSUME pc'[Jdwp] \in {"enterBalance", "balance"}
        PROVE  /\ debug_suspend_all_count' > 0
               /\ \A u \in list' \ {Jdwp} : debug_suspend_count'[u] > 0
    <2>1. /\ debug_suspend_all_count > 0
          /\ \A u \in list \ {Jdwp} : debug_suspend_count[u] > 0
      BY <1>3, <1>7, Zenon DEF Suspensions
    <2>2. /\ debug_suspend_all_count' > 0
          /\ \A u \in list' \ {Jdwp, Jdwp} : debug_suspend_count'[u] > 0
      BY <1>0, <1>4, <2>1, Zenon
    <2> QED  BY <2>2, Zenon
  <1>8. ASSUME Detached'
        PROVE  debug_suspend_all_count' = 0 /\ \A u \in list' : debug_suspend_count'[u] = 0
    <2>1. Detached
      BY <1>3, <1>8, Zenon DEF Detached, OnlyMoves
    <2>2. debug_suspend_all_count = 0 /\ \A u \in list : debug_suspend_count[u] = 0
      BY <2>1, Zenon DEF Suspensions
    <2>3. ~active
      BY <2>1, Zenon DEF Detached, Session
    <2>4. pc[t] \notin Posting
      BY <2>3, Zenon DEF Session
    <2>5. ~StopsVM(t) /\ ~StopsSelf(t)
      BY <2>4, Zenon DEF StopsVM, StopsSelf, Posting
    <2>6. CASE Attaches(t)
      BY <1>3, <2>2, <2>6, Zenon DEF Attaches
    <2>7. CASE GoesOn(t)
      <3>1. list' \subseteq list
        BY <1>3, <2>7, Zenon DEF GoesOn
      <3> QED  BY <2>2, <2>7, <3>1, Zenon DEF GoesOn
    <2> QED  BY <2>5, <2>6, <2>7
  <1> QED  BY <1>5, <1>6, <1>7, <1>8, Zenon DEF Suspensions

LEMMA SuspensionsOnJdwpMove ==
    ASSUME Places, Suspensions, Counts', NEW label \in JdwpPcs, Goto(Jdwp, label), list' = list,
           \A u \in runnable' \ {Jdwp} : u \in runnable,
           \A u \in runnable' \ {Jdwp} : debug_suspend_count'[u] > 0 =>
              \/ debug_suspend_count[u] > 0
              \/ label = "lockVM" \/ (label = "waitSuspended" /\ target' = u),
           pc[Jdwp] = "lockVM" => runnable' = {},
           pc[Jdwp] = "waitSuspended" => target \notin runnable',
           label \in {"lockVM", "assertVM", "enterBalance", "balance"} =>
              /\ debug_suspend_all_count' > 0
              /\ \A u \in list \ {Jdwp} : debug_suspend_count'[u] > 0,
           \/ \A s \in Thread : pc[s] \notin {"lockVM", "assertVM"}
           \/ UNCHANGED <<debug_suspend_count, debug_suspend_all_count>>,
           Detached' => debug_suspend_all_count' = 0 /\ \A u \in list : debug_suspend_count'[u] = 0
    PROVE  Suspensions'
  <1>1. Jdwp \in AllThread /\ Jdwp \notin Thread
    BY DebuggerAssumption, Zenon
  <1>2. /\ pc'[Jdwp] = label
        /\ \A u \in Thread : pc'[u] = pc[u]
    BY <1>1, Moves, Zenon
  <1>3. ~(debug_suspend_count'[Jdwp] > 0)
    <2>1. debug_suspend_count'[Jdwp] = 0
      BY Zenon DEF Counts
    <2> QED  BY <2>1
  <1>4. ASSUME NEW u \in runnable', debug_suspend_count'[u] > 0
        PROVE  \/ \E s \in AllThread : pc'[s] = "lockVM"
               \/ pc'[Jdwp] = "waitSuspended" /\ target' = u
    <2>1. u # Jdwp /\ u \in runnable
      BY <1>3, <1>4, Zenon
    <2>2. CASE debug_suspend_count[u] > 0
      <3>1. \/ \E s \in AllThread : pc[s] = "lockVM"
            \/ pc[Jdwp] = "waitSuspended" /\ target = u
        BY <2>1, <2>2, Zenon DEF Suspensions
      <3>2. \E s \in Thread : pc[s] = "lockVM"
        BY <1>4, <3>1, Zenon
      <3> QED  BY <1>2, <3>2, Zenon
    <2>3. CASE label = "lockVM" \/ (label = "waitSuspended" /\ target' = u)
      BY <1>1, <1>2, <2>3, Zenon
    <2> QED  BY <1>4, <2>1, <2>2, <2>3, Zenon
  <1>5. ASSUME NEW s \in AllThread, pc'[s] \in {"lockVM", "assertVM"}
        PROVE  /\ debug_suspend_all_count' > 0
               /\ \A u \in list' \ {s, Jdwp} : debug_suspend_count'[u] > 0
    <2>1. CASE s = Jdwp
      BY <1>2, <1>5, <2>1, Zenon
    <2>2. CASE s \in Thread
      BY <1>2, <1>5, <2>2, Zenon DEF Suspensions
    <2> QED  BY <2>1, <2>2, ZenonT(40)
  <1>6. pc'[Jdwp] \in {"enterBalance", "balance"} =>
          /\ debug_suspend_all_count' > 0
          /\ \A u \in list' \ {Jdwp} : debug_suspend_count'[u] > 0
    BY <1>2
  <1> QED  BY <1>4, <1>5, <1>6, ZenonT(40) DEF Suspensions

\* The same for the steps that change no count of the debugger's.
LEMMA SuspensionsOnPlainMove ==
    ASSUME Places, Suspensions, Counts', NEW label \in JdwpPcs, Goto(Jdwp, label), list' = list,
           \A u \in runnable' \ {Jdwp} : u \in runnable,
           pc[Jdwp] = "lockVM" => runnable' = {},
           pc[Jdwp] = "waitSuspended" => target \notin runnable',
           UNCHANGED <<debug_suspend_count, debug_suspend_all_count>>,
           label = "assertVM" => pc[Jdwp] \in {"lockVM", "assertVM"},
           label \in {"enterBalance", "balance"} =>
              pc[Jdwp] \in {"lockVM", "assertVM", "enterBalance", "balance"},
           label # "lockVM",
           Detached' => Detached
    PROVE  Suspensions'
  <1>1. Jdwp \in AllThread
    BY DebuggerAssumption, Zenon
  <1>2. pc[Jdwp] \in {"lockVM", "assertVM", "enterBalance", "balance"} =>
              /\ debug_suspend_all_count > 0
              /\ \A u \in list \ {Jdwp} : debug_suspend_count[u] > 0
    <2>1. pc[Jdwp] \in {"lockVM", "assertVM"} =>
              /\ debug_suspend_all_count > 0
              /\ \A u \in list \ {Jdwp, Jdwp} : debug_suspend_count[u] > 0
      BY <1>1, Zenon DEF Suspensions
    <2>2. pc[Jdwp] \in {"enterBalance", "balance"} =>
              /\ debug_suspend_all_count > 0
              /\ \A u \in list \ {Jdwp} : debug_suspend_count[u] > 0
      BY Zenon DEF Suspensions
    <2> QED  BY <2>1, <2>2
  <1>3. label \in {"lockVM", "assertVM", "enterBalance", "balance"} =>
              pc[Jdwp] \in {"lockVM", "assertVM", "enterBalance", "balance"}
    BY Zenon
  <1>4. Detached => debug_suspend_all_count = 0 /\ \A u \in list : debug_suspend_count[u] = 0
    BY Zenon DEF Suspensions
  <1> QED  BY <1>2, <1>3, <1>4, SuspensionsOnJdwpMove, Zenon

LEMMA NextSuspensions ==
    ASSUME Types, Types', Places, Tokens, Session, Counts, Counts', Covered, Suspensions,
           Invocation, Target, [Next]_vars
    PROVE  Suspensions'
  <1>0. Jdwp \in AllThread /\ Jdwp \notin Thread
    BY DebuggerAssumption
  <1>1. CASE UNCHANGED vars
    BY <1>1, Zenon DEF vars, Suspensions, Detached, target
  <1>2. ASSUME NEW t \in Thread, StepOf(t) PROVE Suspensions'
    BY <1>2, ThreadSteps, ThreadSuspensions, Zenon
  <1>j. ASSUME NEW label \in JdwpPcs, Goto(Jdwp, label) PROVE pc'[Jdwp] = label
    BY <1>0, <1>j, Moves, Zenon
  <1>r. runnable \subseteq list
    BY Zenon DEF Places
  <1>s. RequestFits(pc[Jdwp])
    BY Zenon DEF Session
  <1> USE DEF JdwpPcs, Processing, Pausing, StoppingVM
  <1>3. ASSUME ThreadStep(Jdwp) PROVE Suspensions'
    <2>1. CASE SuspendAll(Jdwp) \/ LockMutators(Jdwp) \/ ResumeAll(Jdwp)
      <3>1. UNCHANGED <<debug_suspend_count, debug_suspend_all_count>>
        BY <2>1 DEF SuspendAll, LockMutators, ResumeAll, ModifySuspendCount, Types
      <3>2. UNCHANGED <<list, runnable, request>>
        BY <2>1, Zenon DEF SuspendAll, LockMutators, ResumeAll
      <3>3. \E label \in {"lock", "paused", "reqToken", "undo"} : Goto(Jdwp, label)
        BY <2>1, Zenon DEF SuspendAll, LockMutators, ResumeAll
      <3>4. pc[Jdwp] \in Pausing
        BY <2>1, ZenonT(40) DEF SuspendAll, LockMutators, ResumeAll
      <3>5. Detached' => Detached
        BY <1>j, <3>2, <3>3, <3>4, ZenonT(40) DEF Detached
      <3> QED  BY <3>1, <3>2, <3>3, <3>4, <3>5, SuspensionsOnPlainMove, Zenon
    <2>2. CASE SuspendAllForDebugger(Jdwp)
      <3>1. /\ list' = list /\ runnable' = runnable /\ pc[Jdwp] = "suspendVM"
            /\ Goto(Jdwp, "lockVM") /\ ModifySuspendCount(list \ {Jdwp, Jdwp}, 1, TRUE)
            /\ debug_suspend_all_count' = debug_suspend_all_count + 1
        BY <2>2, Zenon DEF SuspendAllForDebugger
      <3>2. debug_suspend_all_count' > 0
        BY <3>1 DEF Types, Counts
      <3>3. \A u \in list \ {Jdwp} : debug_suspend_count'[u] > 0
        <4> TAKE u \in list \ {Jdwp}
        <4>1. u \in list \ {Jdwp, Jdwp} /\ u \in AllThread
          BY Zenon DEF Types
        <4>2. debug_suspend_count[u] >= 0 /\ debug_suspend_count[u] \in Int
          BY <4>1, Zenon DEF Counts, PartsAreExact, Types
        <4>3. debug_suspend_count'[u] = debug_suspend_count[u] + 1
          BY <3>1, <4>1, Modified, ZenonT(40)
        <4> QED  BY <4>2, <4>3
      <3>4. \A s \in Thread : pc[s] \notin {"lockVM", "assertVM"}
        BY <3>1 DEF Tokens
      <3>5. ~Detached'
        BY <1>j, <3>1 DEF Detached
      <3> QED  BY <3>1, <3>2, <3>3, <3>4, <3>5, SuspensionsOnJdwpMove, Zenon
    <2>3. CASE LockAndUnlockMutators(Jdwp) \/ AssertThreadsAreSuspended(Jdwp)
      <3>1. UNCHANGED <<list, runnable, debug_suspend_count, debug_suspend_all_count>>
        BY <2>3, Zenon DEF LockAndUnlockMutators, AssertThreadsAreSuspended
      <3>2. \/ pc[Jdwp] = "lockVM" /\ Goto(Jdwp, "assertVM") /\ runnable = {}
            \/ pc[Jdwp] = "assertVM" /\ Goto(Jdwp, "enterReply")
            \/ pc[Jdwp] = "assertVM" /\ Goto(Jdwp, "enterBalance")
        BY <2>3, Zenon DEF LockAndUnlockMutators, AssertThreadsAreSuspended
      <3>3. ~Detached'
        BY <1>j, <3>2, Zenon DEF Detached
      <3> QED  BY <3>1, <3>2, <3>3, SuspensionsOnPlainMove
    <2> QED  BY <1>0, <1>3, <2>1, <2>2, <2>3, Actor, Zenon
  <1>4. CASE ReceiveRequest
    <2>1. UNCHANGED <<list, runnable, active, debug_suspend_count, debug_suspend_all_count>>
      BY <1>4, Zenon DEF ReceiveRequest
    <2>2. /\ pc[Jdwp] = "idle"
          /\ (active /\ Goto(Jdwp, "reqToken")) \/ (~active /\ Goto(Jdwp, "suspendAll"))
      BY <1>4, Zenon DEF ReceiveRequest
    <2>3. Detached' => Detached
      BY <1>j, <2>1, <2>2, Zenon DEF Detached
    <2> QED  BY <2>1, <2>2, <2>3, SuspensionsOnPlainMove
  <1>5. CASE Disconnect
    <2>1. UNCHANGED <<list, runnable, debug_suspend_count, debug_suspend_all_count>>
      BY <1>5, Zenon DEF Disconnect
    <2>2. pc[Jdwp] = "idle" /\ request' = NoRequest /\ Goto(Jdwp, "suspendAll")
      BY <1>5, <1>s, Zenon DEF Disconnect, RequestFits
    <2>3. ~Detached'
      BY <1>j, <2>2, Zenon DEF Detached
    <2> QED  BY <2>1, <2>2, <2>3, SuspensionsOnPlainMove
  <1>p. pc[Jdwp] \in Processing => \A s \in Thread : pc[s] \notin {"lockVM", "assertVM"}
    BY Zenon DEF Tokens
  \* The debugger's counts go down while a request is processed.
  <1>l. ASSUME NEW label \in {"reply", "awaitInvoke"}, Goto(Jdwp, label), UNCHANGED <<list, runnable>>,
               pc[Jdwp] \in {"handle", "resume", "balance", "transfer"},
               \A u \in list \ {Jdwp} : debug_suspend_count'[u] > 0 => debug_suspend_count[u] > 0
        PROVE  Suspensions'
    <2>1. ~Detached'
      BY <1>j, <1>l, Zenon DEF Detached
    <2>2. \A s \in Thread : pc[s] \notin {"lockVM", "assertVM"}
      BY <1>p, <1>l
    <2> QED  BY <1>l, <1>r, <2>1, <2>2, SuspensionsOnJdwpMove, Zenon
  <1>6. CASE ProcessRequest
    <2>1. CASE WaitForEventThread \/ StartProcessingRequest
      <3>1. UNCHANGED <<list, runnable, debug_suspend_count, debug_suspend_all_count>>
        BY <2>1, Zenon DEF WaitForEventThread, StartProcessingRequest
      <3>2. \/ pc[Jdwp] = "reqToken" /\ Goto(Jdwp, "start")
            \/ pc[Jdwp] = "start" /\ Goto(Jdwp, "enter")
        BY <2>1, Zenon DEF WaitForEventThread, StartProcessingRequest
      <3>3. ~Detached'
        BY <1>j, <3>2, Zenon DEF Detached
      <3> QED  BY <3>1, <3>2, <3>3, SuspensionsOnPlainMove
    <2>2. CASE EnterHandler \/ HandleSuspend
      <3>1. UNCHANGED <<list, debug_suspend_count, debug_suspend_all_count>>
        BY <2>2, Zenon DEF EnterHandler, HandleSuspend
      <3>2. \/ pc[Jdwp] = "enter" /\ Goto(Jdwp, "handle")
            \/ pc[Jdwp] = "enterReply" /\ Goto(Jdwp, "reply")
            \/ pc[Jdwp] = "enterBalance" /\ Goto(Jdwp, "balance")
            \/ pc[Jdwp] = "handle" /\ Goto(Jdwp, "suspendVM")
            \/ pc[Jdwp] = "handle" /\ Goto(Jdwp, "suspendPeer")
        BY <2>2, Zenon DEF EnterHandler, HandleSuspend
      <3>3. ~Detached'
        BY <1>j, <3>2 DEF Detached
      <3>4. \A u \in runnable' \ {Jdwp} : u \in runnable
        BY <2>2, Zenon DEF EnterHandler, HandleSuspend, EnterRunnable, LeaveRunnable
      <3> QED  BY <3>1, <3>2, <3>3, <3>4, SuspensionsOnPlainMove
    <2>3. CASE VM_Resume
      <3>1. /\ UNCHANGED <<list, runnable>> /\ pc[Jdwp] = "handle" /\ Goto(Jdwp, "reply")
        BY <2>3, Zenon DEF VM_Resume
      <3>2. ASSUME NEW u \in list \ {Jdwp}, debug_suspend_count'[u] > 0
            PROVE  debug_suspend_count[u] > 0
        <4>0. u \in AllThread /\ debug_suspend_count[u] \in Int
          BY Zenon DEF Types
        <4>1. debug_suspend_count'[u] \in {debug_suspend_count[u], debug_suspend_count[u] + (-1)}
          BY <2>3, <4>0 DEF VM_Resume, ResumeAllForDebugger, ModifySuspendCount
        <4> QED  BY <3>2, <4>0, <4>1
      <3> QED  BY <1>l, <3>1, <3>2
    <2>4. CASE SuspendThreadByPeer
      <3>1. /\ UNCHANGED <<list, runnable, request>> /\ pc[Jdwp] = "suspendPeer"
        BY <2>4, ZenonT(40) DEF SuspendThreadByPeer
      <3>2. CASE target \in list
        <4>1. Goto(Jdwp, "waitSuspended") /\ ModifySuspendCount({target}, 1, TRUE)
          BY <2>4, <3>2, Zenon DEF SuspendThreadByPeer
        <4>2. \A u \in runnable \ {Jdwp} : u = target' \/ debug_suspend_count'[u] = debug_suspend_count[u]
          <5>1. target' = target
            BY <3>1, Zenon DEF target
          <5>2. \A u \in runnable : u \in AllThread
            BY <1>r, Zenon DEF Types
          <5>3. \A u \in AllThread : u \notin {target} => debug_suspend_count'[u] = debug_suspend_count[u]
            BY <4>1, Modified, Zenon
          <5> QED  BY <5>1, <5>2, <5>3, Zenon
        <4>3. ~Detached'
          BY <1>j, <4>1, Zenon DEF Detached
        <4> QED  BY <1>p, <3>1, <4>1, <4>2, <4>3, SuspensionsOnJdwpMove, Zenon
      <3>3. CASE target \notin list
        <4>1. Goto(Jdwp, "enterReply") /\ UNCHANGED <<debug_suspend_count, debug_suspend_all_count>>
          BY <2>4, <3>3, Zenon DEF SuspendThreadByPeer
        <4>3. ~Detached'
          BY <1>j, <4>1, Zenon DEF Detached
        <4> QED  BY <3>1, <4>1, <4>3, SuspensionsOnPlainMove
      <3> QED  BY <3>2, <3>3
    <2>5. CASE ThreadIsSuspended \/ TR_Resume
      <3>1. UNCHANGED <<list, runnable, debug_suspend_count, debug_suspend_all_count>>
        BY <2>5, Zenon DEF ThreadIsSuspended, TR_Resume
      <3>2. \/ /\ pc[Jdwp] = "waitSuspended" /\ (target \in list => IsSuspended(target))
               /\ Goto(Jdwp, "suspendVM") \/ Goto(Jdwp, "enterReply")
            \/ pc[Jdwp] = "handle" /\ (Goto(Jdwp, "resume") \/ Goto(Jdwp, "reply"))
        BY <2>5, ZenonT(40) DEF ThreadIsSuspended, TR_Resume
      <3>3. ~Detached'
        BY <1>j, <3>2, Zenon DEF Detached
      <3>4. pc[Jdwp] = "waitSuspended" => target \notin runnable'
        BY <1>r, <3>1, <3>2, Zenon DEF IsSuspended
      <3> QED  BY <3>1, <3>2, <3>3, <3>4, SuspensionsOnPlainMove
    <2>6. CASE \/ ResumeThread
               \/ TransferControl /\ request.kind # "InvokeAll"
      <3>1. /\ UNCHANGED <<list, runnable>> /\ pc[Jdwp] \in {"resume", "balance", "transfer"}
            /\ Goto(Jdwp, "reply") \/ Goto(Jdwp, "awaitInvoke")
            /\ ModifySuspendCount({target} \cap list, -1, TRUE)
        BY <2>6, ZenonT(40) DEF ResumeThread, TransferControl, Resume
      <3>2. ASSUME NEW u \in list \ {Jdwp}, debug_suspend_count'[u] > 0
            PROVE  debug_suspend_count[u] > 0
        <4>0. u \in AllThread /\ debug_suspend_count[u] \in Int
          BY Zenon DEF Types
        <4>1. debug_suspend_count'[u] \in {debug_suspend_count[u], debug_suspend_count[u] + (-1)}
          BY <3>1, <4>0, Zenon DEF ModifySuspendCount
        <4> QED  BY <3>2, <4>0, <4>1
      <3> QED  BY <1>l, <3>1, <3>2
    <2>7. CASE TransferControl /\ request.kind = "InvokeAll"
      <3>1. /\ UNCHANGED <<list, runnable>> /\ pc[Jdwp] = "transfer" /\ Goto(Jdwp, "awaitInvoke")
            /\ UndoDebuggerSuspensions
        BY <2>7, Zenon DEF TransferControl
      <3>2. \A u \in list \ {Jdwp} : ~(debug_suspend_count'[u] > 0)
        <4>1. \A u \in list \ {Jdwp} : debug_suspend_count'[u] = 0
          BY <3>1, Undone, Zenon
        <4> QED  BY <4>1
      <3> QED  BY <1>l, <3>1, <3>2
    <2>8. CASE InvokeMethod \/ InvokeAnswered \/ Reply
      <3>1. UNCHANGED <<list, debug_suspend_count, debug_suspend_all_count>>
        BY <2>8, Zenon DEF InvokeMethod, InvokeAnswered, Reply
      <3>2. \/ pc[Jdwp] = "handle" /\ Goto(Jdwp, "transfer")
            \/ pc[Jdwp] = "handle" /\ Goto(Jdwp, "reply")
            \/ pc[Jdwp] = "awaitInvoke" /\ Goto(Jdwp, "waitSuspended")
            \/ pc[Jdwp] = "reply" /\ Goto(Jdwp, "end")
        BY <2>8, Zenon DEF InvokeMethod, InvokeAnswered, Reply
      <3>3. ~Detached'
        BY <1>j, <3>2, Zenon DEF Detached
      <3>4. \A u \in runnable' \ {Jdwp} : u \in runnable
        BY <2>8, Zenon DEF InvokeMethod, InvokeAnswered, Reply, LeaveRunnable
      <3> QED  BY <3>1, <3>2, <3>3, <3>4, SuspensionsOnPlainMove
    <2>9. CASE EndProcessingRequest
      <3>1. UNCHANGED <<list, runnable, active, debug_suspend_count, debug_suspend_all_count>>
        BY <2>9, Zenon DEF EndProcessingRequest
      <3>2. pc[Jdwp] = "end" /\ Goto(Jdwp, "idle") /\ active
        BY <2>9, Zenon DEF EndProcessingRequest, Session
      <3>3. ~Detached'
        BY <1>j, <3>1, <3>2, Zenon DEF Detached
      <3> QED  BY <3>1, <3>2, <3>3, SuspensionsOnPlainMove
    <2>10. CASE UndoAfterDisconnect
      <3>1. /\ UNCHANGED <<list, runnable>> /\ pc[Jdwp] = "undo" /\ Goto(Jdwp, "idle")
            /\ UndoDebuggerSuspensions
        BY <2>10, Zenon DEF UndoAfterDisconnect
      <3>2. \A u \in list : debug_suspend_count'[u] = 0
        BY <3>1, Undone, Zenon DEF Counts
      <3>3. \A u \in list : ~(debug_suspend_count'[u] > 0)
        BY <3>2
      <3>4. debug_suspend_all_count' = 0
        BY <3>1, Undone, Zenon
      <3>5. \A s \in Thread : pc[s] \notin {"lockVM", "assertVM"}
        BY <3>1 DEF Session, Posting
      <3> QED  BY <1>r, <3>1, <3>2, <3>3, <3>4, <3>5, SuspensionsOnJdwpMove, Zenon
    <2> QED
      BY <1>6, <2>1, <2>2, <2>3, <2>4, <2>5, <2>6, <2>7, <2>8, <2>9, <2>10, ZenonT(40) DEF ProcessRequest
  <1> QED  BY <1>0, <1>1, <1>2, <1>3, <1>4, <1>5, <1>6, Zenon DEF Next, StepOf

----------------------------------------------------------------------------
LEMMA ThreadTarget ==
    ASSUME Types, Places, Tokens, Session, Counts, Covered, Invocation, Target,
           NEW t \in Thread, OnlyMoves(t),
           StopsVM(t) \/ StopsSelf(t) \/ Attaches(t) \/ GoesOn(t)
    PROVE  Target'
  <1>0. t \in AllThread /\ t # Jdwp /\ Jdwp \in AllThread
    BY DebuggerAssumption
  <1>1. /\ pc'[Jdwp] = pc[Jdwp] /\ request' = request /\ target' = target
        /\ ToBeResumed' = ToBeResumed /\ Invoked' = Invoked
    BY <1>0, Zenon DEF OnlyMoves, target, ToBeResumed, Invoked
  <1>s. RequestFits(pc[Jdwp])
    BY Zenon DEF Session
  <1>2. ToBeResumed \/ Invoked \/ pc[Jdwp] \in {"waitSuspended", "transfer", "awaitInvoke"}
           => target \in Thread /\ target \in AllThread
    BY <1>s, RequestThread, Zenon DEF ToBeResumed, Invoked, RequestFits, Invoking
  <1>3. Invoked \/ pc[Jdwp] \in {"waitSuspended", "transfer", "awaitInvoke"} => pc[Jdwp] \in Processing
    BY DEF Invoked, Processing, StoppingVM
  <1>4. ToBeResumed => debug_suspend_count'[target] > 0
    BY <1>2, ThreadKeepsSuspended, Zenon DEF Target
  <1>5. ASSUME pc[Jdwp] = "waitSuspended"
        PROVE  target \in list' /\ debug_suspend_count'[target] > 0
    <2>1. target \in AllThread /\ target \in list /\ debug_suspend_count[target] > 0
      BY <1>2, <1>5, Zenon DEF Target
    <2>2. suspend_count[target] > 0
      BY <2>1, SuspendedHasCount, Zenon
    <2>3. target \in list'
      BY <2>1, <2>2, Zenon DEF OnlyMoves
    <2> QED  BY <2>1, <2>3, ThreadKeepsSuspended, Zenon
  <1>6. ASSUME pc[Jdwp] \in Processing
        PROVE  /\ ~StopsVM(t)
               /\ StopsSelf(t) => t = target /\ pc[Jdwp] = "awaitInvoke"
    <2>1. pc[t] \notin StoppingVM
      BY <1>6, Zenon DEF Tokens
    <2>2. pc[t] = "suspendSelf" => t = target /\ pc[Jdwp] = "awaitInvoke"
      BY <1>6, Zenon DEF Invocation, HoldingToken
    <2> QED  BY <2>1, <2>2, Zenon DEF StopsVM, StopsSelf, StoppingVM
  \* Nobody else changes what is known of the thread.
  <1>7. ASSUME pc[Jdwp] \in Processing, target \in Thread, t # target
        PROVE  /\ pc'[target] = pc[target] /\ ready'[target] = ready[target]
               /\ invoke_needed'[target] = invoke_needed[target]
               /\ debug_suspend_count'[target] = debug_suspend_count[target]
    <2>1. target \in AllThread \ {t} /\ target \in Thread \ {t}
      BY <1>7
    <2>2. debug_suspend_count'[target] = debug_suspend_count[target]
      BY <1>6, <1>7, <2>1, ZenonT(40) DEF Attaches, GoesOn
    <2> QED  BY <2>1, <2>2, Zenon DEF OnlyMoves
  \* The thread stays where it is while it is suspended ...
  <1>8. ASSUME pc[Jdwp] \in Processing, t = target, pc[t] \in {"clearToken", "asleep"},
               debug_suspend_count[t] > 0
        PROVE  /\ pc'[t] \in {"clearToken", "asleep"} /\ (pc[t] = "asleep" => pc'[t] = "asleep")
               /\ ready'[t] = ready[t] /\ invoke_needed'[t] = invoke_needed[t]
               /\ debug_suspend_count'[t] = debug_suspend_count[t]
    <2>1. suspend_count[t] > 0
      BY <1>0, <1>8, SuspendedHasCount, Zenon
    <2>2. ~(suspend_count[t] = 0)
      BY <2>1
    <2>3. GoesOn(t)
      BY <1>6, <1>8, Zenon DEF StopsSelf, Attaches
    <2>4. pc[t] \notin Quiet
      BY <1>8 DEF Quiet
    <2> QED  BY <1>8, <2>2, <2>3, <2>4, Zenon DEF GoesOn
  \* ... and goes through the invocation once it is not.
  <1>9. ASSUME pc[Jdwp] = "awaitInvoke", t = target,
               pc[t] \in {"asleep", "invokeToken", "invoke", "invoking", "suspendSelf"},
               invoke_needed[t], debug_suspend_count[t] = 0
        PROVE  \/ /\ invoke_needed'[t] /\ debug_suspend_count'[t] = 0
                  /\ pc'[t] \in {"asleep", "invokeToken", "invoke", "invoking", "suspendSelf"}
               \/ /\ invoke_needed'[t] /\ debug_suspend_count'[t] = 1
                  /\ pc'[t] = "answer" /\ ready'[t]
    <2>1. GoesOn(t) \/ StopsSelf(t)
      BY <1>9, Zenon DEF StopsVM, Attaches
    <2>2. pc[t] \notin Quiet
      BY <1>9, Zenon DEF Quiet
    <2>3. CASE StopsSelf(t)
      <3>1. debug_suspend_count'[t] = debug_suspend_count[t] + 1
        BY <1>0, <2>3, Zenon DEF StopsSelf
      <3> QED  BY <1>9, <2>3, <3>1 DEF StopsSelf
    <2>4. CASE GoesOn(t)
      BY <1>9, <2>2, <2>4, Zenon DEF GoesOn
    <2> QED  BY <2>1, <2>3, <2>4, ZenonT(40)
  <1>10. ASSUME pc[Jdwp] = "awaitInvoke", t = target, pc[t] = "answer", ready[t], invoke_needed[t],
                debug_suspend_count[t] = 1
         PROVE  /\ ready'[t] /\ debug_suspend_count'[t] = 1
                /\ \/ pc'[t] = "answer" /\ invoke_needed'[t]
                   \/ pc'[t] = "clearToken" /\ ~invoke_needed'[t]
    <2>1. GoesOn(t)
      BY <1>10, ZenonT(40) DEF StopsVM, Attaches, StopsSelf
    <2>2. pc[t] \notin Quiet
      BY <1>10 DEF Quiet
    <2> QED  BY <1>10, <2>1, <2>2, Zenon DEF GoesOn
  <1>11. pc[Jdwp] = "transfer" =>
          /\ invoke_needed'[target] /\ pc'[target] = "asleep"
          /\ debug_suspend_count'[target] = 1
    <2> SUFFICES ASSUME pc[Jdwp] = "transfer"
                 PROVE  /\ invoke_needed'[target] /\ pc'[target] = "asleep"
                        /\ debug_suspend_count'[target] = 1
      OBVIOUS
    <2>1. /\ target \in Thread /\ pc[Jdwp] \in Processing
          /\ invoke_needed[target] /\ pc[target] = "asleep" /\ debug_suspend_count[target] = 1
      BY <1>2, <1>3, ZenonT(40) DEF Target
    <2>2. debug_suspend_count[target] > 0
      BY <2>1
    <2>3. CASE t = target
      BY <1>8, <2>1, <2>2, <2>3, Zenon
    <2>4. CASE t # target
      BY <1>7, <2>1, <2>4, Zenon
    <2> QED  BY <2>3, <2>4, Zenon
  <1>12. pc[Jdwp] = "awaitInvoke" =>
          \/ /\ invoke_needed'[target] /\ debug_suspend_count'[target] = 0
             /\ pc'[target] \in {"asleep", "invokeToken", "invoke", "invoking", "suspendSelf"}
          \/ /\ invoke_needed'[target] /\ debug_suspend_count'[target] = 1
             /\ pc'[target] = "answer" /\ ready'[target]
          \/ /\ ~invoke_needed'[target] /\ debug_suspend_count'[target] = 1
             /\ pc'[target] \in {"clearToken", "asleep"} /\ ready'[target]
    <2> SUFFICES ASSUME pc[Jdwp] = "awaitInvoke"
                 PROVE  \/ /\ invoke_needed'[target] /\ debug_suspend_count'[target] = 0
                           /\ pc'[target] \in {"asleep", "invokeToken", "invoke", "invoking", "suspendSelf"}
                        \/ /\ invoke_needed'[target] /\ debug_suspend_count'[target] = 1
                           /\ pc'[target] = "answer" /\ ready'[target]
                        \/ /\ ~invoke_needed'[target] /\ debug_suspend_count'[target] = 1
                           /\ pc'[target] \in {"clearToken", "asleep"} /\ ready'[target]
      BY Zenon
    <2>0. target \in Thread /\ pc[Jdwp] \in Processing
      BY <1>2, <1>3, Zenon
    <2>1. \/ /\ invoke_needed[target] /\ debug_suspend_count[target] = 0
             /\ pc[target] \in {"asleep", "invokeToken", "invoke", "invoking", "suspendSelf"}
          \/ /\ invoke_needed[target] /\ debug_suspend_count[target] = 1
             /\ pc[target] = "answer" /\ ready[target]
          \/ /\ ~invoke_needed[target] /\ debug_suspend_count[target] = 1
             /\ pc[target] \in {"clearToken", "asleep"} /\ ready[target]
      BY Zenon DEF Target
    <2>2. CASE t # target
      BY <1>7, <2>0, <2>1, <2>2, Zenon
    <2>3. CASE t = target /\ invoke_needed[t] /\ debug_suspend_count[t] = 0
      <3>1. pc[t] \in {"asleep", "invokeToken", "invoke", "invoking", "suspendSelf"}
        BY <2>1, <2>3
      <3> QED  BY <1>9, <2>3, <3>1, ZenonT(40)
    <2>4. CASE t = target /\ invoke_needed[t] /\ debug_suspend_count[t] = 1
      <3>1. pc[t] = "answer" /\ ready[t]
        BY <2>1, <2>4
      <3> QED  BY <1>10, <2>4, <3>1, Zenon
    <2>5. CASE t = target /\ ~invoke_needed[t]
      <3>1. debug_suspend_count[t] = 1 /\ pc[t] \in {"clearToken", "asleep"} /\ ready[t]
        BY <2>1, <2>5, Zenon
      <3>2. debug_suspend_count[t] > 0
        BY <3>1
      <3> QED  BY <1>8, <2>0, <2>5, <3>1, <3>2, Zenon
    <2> QED  BY <2>1, <2>2, <2>3, <2>4, <2>5, ZenonT(40)
  <1>13. Invoked =>
          /\ pc'[target] \in {"clearToken", "asleep"} /\ ready'[target] /\ ~invoke_needed'[target]
          /\ debug_suspend_count'[target] =
                IF pc[Jdwp] \in {"lockVM", "assertVM", "enterBalance", "balance"} THEN 2 ELSE 1
    <2> SUFFICES ASSUME Invoked
                 PROVE  /\ pc'[target] \in {"clearToken", "asleep"} /\ ready'[target]
                        /\ ~invoke_needed'[target]
                        /\ debug_suspend_count'[target] =
                             IF pc[Jdwp] \in {"lockVM", "assertVM", "enterBalance", "balance"} THEN 2 ELSE 1
      BY Zenon
    <2>1. target \in Thread /\ pc[Jdwp] \in Processing
      BY <1>2, <1>3, Zenon
    <2>2. /\ pc[target] \in {"clearToken", "asleep"} /\ ready[target] /\ ~invoke_needed[target]
          /\ debug_suspend_count[target] =
                IF pc[Jdwp] \in {"lockVM", "assertVM", "enterBalance", "balance"} THEN 2 ELSE 1
      BY Zenon DEF Target
    <2>3. debug_suspend_count[target] > 0
      BY <2>2
    <2>4. CASE t = target
      BY <1>8, <2>1, <2>2, <2>3, <2>4, Zenon
    <2>5. CASE t # target
      BY <1>7, <2>1, <2>2, <2>5, Zenon
    <2> QED  BY <2>4, <2>5
  <1> QED  BY <1>1, <1>4, <1>5, <1>11, <1>12, <1>13, Zenon DEF Target

LEMMA NextTarget ==
    ASSUME Races = {}, Types, Places, Tokens, Session, Counts, Covered, Invocation, Target,
           [Next]_vars
    PROVE  Target'
  <1>0. Jdwp \in AllThread /\ Jdwp \notin Thread
    BY DebuggerAssumption
  <1>1. CASE UNCHANGED vars
    BY <1>1, Zenon DEF vars, Target, ToBeResumed, Invoked, target
  <1>2. ASSUME NEW t \in Thread, StepOf(t) PROVE Target'
    BY <1>2, ThreadSteps, ThreadTarget, Zenon
  <1>s. RequestFits(pc[Jdwp])
    BY Zenon DEF Session
  <1>t. request' = request => target' = target
    BY DEF target
  <1>v. Invoked => target \in Thread
    BY RequestThread DEF Invoked
  <1>j. ASSUME NEW label \in JdwpPcs, Goto(Jdwp, label)
        PROVE  pc'[Jdwp] = label /\ \A u \in Thread : pc'[u] = pc[u]
    BY <1>0, <1>j, Moves, Zenon
  <1> USE DEF JdwpPcs, Processing, Pausing, StoppingVM
  \* The steps after which nothing is claimed of the thread.
  <1>n. ASSUME NEW label \in {"reply", "end", "idle", "undo", "suspendPeer"}, Goto(Jdwp, label),
               UNCHANGED <<list, ready>>
        PROVE  Target'
    BY <1>j, <1>n, Zenon DEF Target, ToBeResumed, Invoked
  \* The steps before the handler, which leave the request and the debugger's counts alone.
  <1>b. ASSUME NEW label \in Pausing \cup {"reqToken", "start", "enter", "handle", "resume"},
               Goto(Jdwp, label), UNCHANGED <<list, ready, request, debug_suspend_count>>,
               pc[Jdwp] \in Pausing \cup {"reqToken", "start", "enter", "handle", "resume"}
        PROVE  Target'
    <2>1. request.kind \in {"TR_Resume", "InvokeAll", "InvokeSingle"} => debug_suspend_count[target] > 0
      BY <1>b, Zenon DEF Target, ToBeResumed
    <2>2. pc'[Jdwp] = label /\ target' = target
      BY <1>b, <1>j, <1>t, Zenon
    <2>3. pc'[Jdwp] \notin {"waitSuspended", "transfer", "awaitInvoke"} /\ ~Invoked'
      BY <1>b, <2>2 DEF Invoked
    <2>4. ToBeResumed' => debug_suspend_count'[target'] > 0
      BY <1>b, <2>1, <2>2, Zenon DEF ToBeResumed
    <2> QED  BY <2>3, <2>4, Zenon DEF Target
  \* The steps after a method has returned.
  <1>i. ASSUME NEW label \in {"waitSuspended", "enterReply", "enterBalance", "balance"} \cup StoppingVM,
               Goto(Jdwp, label), UNCHANGED <<list, ready, invoke_needed, request, debug_suspend_count>>,
               \/ label \notin {"waitSuspended"} /\ request.kind \notin {"InvokeAll", "InvokeSingle"}
               \/ /\ Invoked /\ label # "waitSuspended"
                  /\ request.kind = "InvokeSingle" => label \notin StoppingVM \cup {"enterBalance", "balance"}
                  /\ label \in {"lockVM", "assertVM", "enterBalance", "balance"} <=>
                        pc[Jdwp] \in {"lockVM", "assertVM", "enterBalance", "balance"}
        PROVE  Target'
    <2>1. CASE label \notin {"waitSuspended"} /\ request.kind \notin {"InvokeAll", "InvokeSingle"}
      <3>1. pc'[Jdwp] = label
        BY <1>i, <1>j, Zenon
      <3>2. /\ pc'[Jdwp] \notin {"waitSuspended", "transfer", "awaitInvoke"}
            /\ ~Invoked' /\ ~ToBeResumed'
        BY <1>i, <2>1, <3>1 DEF Invoked, ToBeResumed
      <3> QED  BY <3>2, Zenon DEF Target
    <2>2. CASE Invoked /\ label # "waitSuspended"
               /\ (label \in {"lockVM", "assertVM", "enterBalance", "balance"} <=>
                        pc[Jdwp] \in {"lockVM", "assertVM", "enterBalance", "balance"})
      <3>1. /\ pc[target] \in {"clearToken", "asleep"} /\ ready[target] /\ ~invoke_needed[target]
            /\ debug_suspend_count[target] =
                IF pc[Jdwp] \in {"lockVM", "assertVM", "enterBalance", "balance"} THEN 2 ELSE 1
        BY <2>2, Zenon DEF Target
      <3>2. debug_suspend_count[target] =
                IF label \in {"lockVM", "assertVM", "enterBalance", "balance"} THEN 2 ELSE 1
        BY <2>2, <3>1, ZenonT(40)
      <3>3. pc'[Jdwp] = label /\ target' = target /\ pc'[target] = pc[target]
        BY <1>i, <1>j, <1>t, <1>v, <2>2, Zenon
      <3>4. pc'[Jdwp] \notin {"waitSuspended", "transfer", "awaitInvoke"} /\ ~ToBeResumed'
        BY <1>i, <2>2, <3>3 DEF ToBeResumed
      <3> QED  BY <1>i, <3>1, <3>2, <3>3, <3>4, Zenon DEF Target
    <2> QED  BY <1>i, <2>1, <2>2, Zenon
  <1>3. ASSUME ThreadStep(Jdwp) PROVE Target'
    <2>1. CASE SuspendAll(Jdwp) \/ LockMutators(Jdwp) \/ ResumeAll(Jdwp)
      <3>1. debug_suspend_count' = debug_suspend_count
        BY <2>1 DEF SuspendAll, LockMutators, ResumeAll, ModifySuspendCount, Types
      <3>2. UNCHANGED <<list, ready, request>>
        BY <2>1, Zenon DEF SuspendAll, LockMutators, ResumeAll
      <3>3. \E label \in {"lock", "paused", "reqToken", "undo"} : Goto(Jdwp, label)
        BY <2>1, Zenon DEF SuspendAll, LockMutators, ResumeAll
      <3>4. pc[Jdwp] \in Pausing
        BY <2>1, Zenon DEF SuspendAll, LockMutators, ResumeAll
      <3> QED  BY <1>b, <1>n, <3>1, <3>2, <3>3, <3>4, Zenon
    <2>2. CASE SuspendAllForDebugger(Jdwp)
      <3>1. /\ UNCHANGED <<list, ready, invoke_needed, request>> /\ pc[Jdwp] = "suspendVM"
            /\ Goto(Jdwp, "lockVM") /\ ModifySuspendCount(list \ {Jdwp, Jdwp}, 1, TRUE)
        BY <2>2, ZenonT(40) DEF SuspendAllForDebugger
      <3>2. CASE request.kind = "InvokeAll"
        <4>1. Invoked
          BY <3>1, <3>2 DEF Invoked
        <4>2. /\ pc[target] \in {"clearToken", "asleep"} /\ ready[target] /\ ~invoke_needed[target]
              /\ debug_suspend_count[target] = 1
          BY <3>1, <4>1, Zenon DEF Target
        <4>3. target \in Thread /\ target \in AllThread /\ target \in list /\ target # Jdwp
          BY <1>0, <1>v, <4>1, <4>2, ZenonT(40) DEF Places
        <4>4. debug_suspend_count'[target] = debug_suspend_count[target] + 1
          <5>1. target \in list \ {Jdwp, Jdwp}
            BY <4>3, Zenon
          <5> QED  BY <3>1, <4>3, <5>1 DEF ModifySuspendCount
        <4>5. debug_suspend_count'[target] = 2
          BY <4>2, <4>4
        <4> QED  BY <1>t, <3>1, <4>2, <4>3, <4>5, <1>j DEF Target, ToBeResumed, Invoked
      <3>3. CASE request.kind # "InvokeAll"
        BY <3>1, <3>3, <1>j DEF Target, ToBeResumed, Invoked
      <3> QED  BY <3>2, <3>3
    <2>3. CASE LockAndUnlockMutators(Jdwp) \/ AssertThreadsAreSuspended(Jdwp)
      <3>1. UNCHANGED <<list, ready, invoke_needed, request, debug_suspend_count>>
        BY <2>3, Zenon DEF LockAndUnlockMutators, AssertThreadsAreSuspended
      <3>2. \/ pc[Jdwp] = "lockVM" /\ Goto(Jdwp, "assertVM")
            \/ pc[Jdwp] = "assertVM" /\ Goto(Jdwp, "enterReply") /\ request.kind = "VM_Suspend"
            \/ pc[Jdwp] = "assertVM" /\ Goto(Jdwp, "enterBalance") /\ request.kind # "VM_Suspend"
        BY <2>3, Zenon DEF LockAndUnlockMutators, AssertThreadsAreSuspended
      <3>3. /\ request.kind \in {"VM_Suspend", "InvokeAll"}
            /\ request.kind = "InvokeAll" => Invoked
        BY <1>s, <3>2, Zenon DEF RequestFits, Invoked
      <3> QED  BY <1>i, <3>1, <3>2, <3>3
    <2> QED  BY <1>0, <1>3, <2>1, <2>2, <2>3, Actor, ZenonT(40)
  <1>4. CASE ReceiveRequest
    <2>1. UNCHANGED <<list, ready, debug_suspend_count>>
      BY <1>4, Zenon DEF ReceiveRequest
    <2>2. Goto(Jdwp, "reqToken") \/ Goto(Jdwp, "suspendAll")
      BY <1>4, Zenon DEF ReceiveRequest
    <2>3. request'.kind \in {"TR_Resume", "InvokeAll", "InvokeSingle"} => debug_suspend_count[target'] > 0
      BY <1>4, Zenon DEF ReceiveRequest, target
    <2> QED  BY <2>1, <2>2, <2>3, <1>j DEF Target, ToBeResumed, Invoked
  <1>5. CASE Disconnect
    <2>1. UNCHANGED <<list, ready>> /\ request' = NoRequest /\ Goto(Jdwp, "suspendAll")
      BY <1>5, <1>s, Zenon DEF Disconnect, RequestFits
    <2>2. request'.kind \notin {"TR_Resume", "InvokeAll", "InvokeSingle"}
      BY <2>1 DEF NoRequest
    <2> QED  BY <2>1, <2>2, <1>j DEF Target, ToBeResumed, Invoked
  <1>6. CASE ProcessRequest
    <2>1. CASE WaitForEventThread \/ StartProcessingRequest
      BY <1>b, <2>1 DEF WaitForEventThread, StartProcessingRequest
    <2>2. CASE EnterHandler
      <3>1. UNCHANGED <<list, ready, invoke_needed, request, debug_suspend_count>>
        BY <2>2, Zenon DEF EnterHandler
      <3>2. CASE pc[Jdwp] = "enter" /\ Goto(Jdwp, "handle")
        BY <1>b, <3>1, <3>2, Zenon
      <3>3. CASE pc[Jdwp] = "enterReply" /\ Goto(Jdwp, "reply")
        BY <1>n, <3>1, <3>3, Zenon
      <3>4. CASE pc[Jdwp] = "enterBalance" /\ Goto(Jdwp, "balance")
        <4>1. Invoked /\ request.kind = "InvokeAll"
          BY <1>s, <3>4, Zenon DEF RequestFits, Invoked
        <4> QED  BY <1>i, <3>1, <3>4, <4>1, Zenon
      <3> QED  BY <2>2, <3>2, <3>3, <3>4 DEF EnterHandler
    <2>3. CASE HandleSuspend
      <3>1. /\ UNCHANGED <<list, ready, invoke_needed, request, debug_suspend_count>>
            /\ request.kind \in {"VM_Suspend", "TR_Suspend"}
            /\ Goto(Jdwp, "suspendVM") \/ Goto(Jdwp, "suspendPeer")
        BY <2>3, Zenon DEF HandleSuspend
      <3> QED  BY <1>i, <1>n, <3>1
    <2>4. CASE VM_Resume
      BY <1>n, <2>4, Zenon DEF VM_Resume
    <2>5. CASE SuspendThreadByPeer
      <3>1. UNCHANGED <<list, ready, invoke_needed, request>> /\ request.kind = "TR_Suspend"
        BY <1>s, <2>5, Zenon DEF SuspendThreadByPeer, RequestFits
      <3>2. CASE target \in list
        <4>1. Goto(Jdwp, "waitSuspended") /\ ModifySuspendCount({target}, 1, TRUE)
          BY <2>5, <3>2, Zenon DEF SuspendThreadByPeer
        <4>2. target \in AllThread /\ target \in {target}
          BY <3>2, Zenon DEF Types
        <4>3. debug_suspend_count'[target] = debug_suspend_count[target] + 1
          BY <4>1, <4>2, Modified, Zenon
        <4>4. debug_suspend_count[target] >= 0 /\ debug_suspend_count[target] \in Int
          BY <3>2, <4>2, Zenon DEF Counts, PartsAreExact, Types
        <4>5. debug_suspend_count'[target] > 0
          BY <4>3, <4>4
        <4> QED  BY <1>t, <3>1, <3>2, <4>1, <4>5, <1>j DEF Target, ToBeResumed, Invoked
      <3>3. CASE target \notin list
        <4>1. Goto(Jdwp, "enterReply") /\ debug_suspend_count' = debug_suspend_count
          BY <2>5, <3>3, Zenon DEF SuspendThreadByPeer
        <4> QED  BY <1>i, <3>1, <4>1
      <3> QED  BY <3>2, <3>3, Zenon
    <2>6. CASE ThreadIsSuspended
      <3>1. /\ UNCHANGED <<list, ready, invoke_needed, request, debug_suspend_count>>
            /\ pc[Jdwp] = "waitSuspended"
            /\ \/ Goto(Jdwp, "suspendVM") /\ request.kind = "InvokeAll"
               \/ Goto(Jdwp, "enterReply") /\ request.kind # "InvokeAll"
        BY <2>6, Zenon DEF ThreadIsSuspended
      <3>2. request.kind \in {"InvokeAll", "InvokeSingle"} => Invoked
        BY <3>1, Zenon DEF Invoked
      <3> QED  BY <1>i, <3>1, <3>2
    <2>7. CASE TR_Resume
      <3>1. /\ UNCHANGED <<list, ready, request, debug_suspend_count>> /\ pc[Jdwp] = "handle"
            /\ Goto(Jdwp, "resume") \/ Goto(Jdwp, "reply")
        BY <2>7, Zenon DEF TR_Resume
      <3> QED  BY <1>b, <1>n, <3>1
    <2>8. CASE ResumeThread \/ Reply \/ EndProcessingRequest \/ UndoAfterDisconnect
      BY <1>n, <2>8 DEF ResumeThread, Reply, EndProcessingRequest, UndoAfterDisconnect
    <2>9. CASE InvokeMethod
      <3>1. CASE ~CanInvoke
        BY <1>n, <2>9, <3>1, ZenonT(40) DEF InvokeMethod
      <3>2. CASE CanInvoke
        <4>1. /\ UNCHANGED <<list, ready, request, debug_suspend_count>> /\ pc[Jdwp] = "handle"
              /\ Goto(Jdwp, "transfer")
              /\ request.kind \in {"InvokeAll", "InvokeSingle"}
              /\ invoke_needed' = [invoke_needed EXCEPT ![target] = TRUE]
          BY <2>9, <3>2, Zenon DEF InvokeMethod, Invoking
        <4>2. target \in Thread /\ target \in list /\ target \in AllThread
          BY <3>2, <4>1, RequestThread DEF CanInvoke
        <4>3. invoke_needed'[target]
          BY <4>1, <4>2, Zenon DEF Types
        <4>4. pc[target] = "asleep"
          <5>1. pc[target] \in {"answer", "clearToken", "asleep"}
            BY <3>2, <4>2, Zenon DEF CanInvoke, Invocation
          <5>2. pc[target] \in HoldingToken => pc[target] = "send"
            BY <4>1, <4>2, Zenon DEF Invocation, Beginning
          <5> QED  BY <5>1, <5>2 DEF HoldingToken
        <4>5. debug_suspend_count[target] > 0
          BY <4>1, Zenon DEF Target, ToBeResumed
        <4>6. debug_suspend_count[target] = 1
          <5>1. suspend_count[target] <= 1
            BY <3>2, Zenon DEF CanInvoke
          <5>2. debug_suspend_count[target] <= suspend_count[target]
            BY <4>2, Zenon DEF Covered
          <5>3. suspend_count[target] \in Int /\ debug_suspend_count[target] \in Int
            BY <4>2, ZenonT(40) DEF Types
          <5> QED  BY <4>5, <5>1, <5>2, <5>3
        <4> QED  BY <1>t, <4>1, <4>2, <4>3, <4>4, <4>6, <1>j DEF Target, ToBeResumed, Invoked
      <3> QED  BY <3>1, <3>2
    <2>10. CASE TransferControl
      <3>1. /\ UNCHANGED <<list, ready, invoke_needed, request>> /\ pc[Jdwp] = "transfer"
            /\ Goto(Jdwp, "awaitInvoke")
        BY <2>10, Zenon DEF TransferControl
      <3>2. invoke_needed[target] /\ pc[target] = "asleep" /\ debug_suspend_count[target] = 1
        BY <3>1, Zenon DEF Target
      <3>3. request.kind \in {"InvokeAll", "InvokeSingle"}
        BY <1>s, <3>1, Zenon DEF RequestFits, Invoking
      <3>4. target \in Thread /\ target \in AllThread /\ target \in list /\ target # Jdwp
        BY <1>0, <3>2, <3>3, RequestThread, Zenon DEF Places
      <3>5. debug_suspend_count'[target] = 0
        <4>1. CASE request.kind = "InvokeAll"
          BY <2>10, <3>4, <4>1, Undone, Zenon DEF TransferControl
        <4>2. CASE request.kind # "InvokeAll"
          <5>1. ModifySuspendCount({target} \cap list, -1, TRUE)
            BY <2>10, <4>2, Zenon DEF TransferControl, Resume
          <5>2. debug_suspend_count'[target] = debug_suspend_count[target] + (-1)
            BY <3>4, <5>1, Zenon DEF ModifySuspendCount
          <5> QED  BY <3>2, <5>2
        <4> QED  BY <4>1, <4>2
      <3> QED  BY <1>t, <3>1, <3>2, <3>4, <3>5, <1>j DEF Target, ToBeResumed, Invoked
    <2>11. CASE InvokeAnswered
      <3>1. /\ UNCHANGED <<list, ready, invoke_needed, request, debug_suspend_count>>
            /\ pc[Jdwp] = "awaitInvoke" /\ Goto(Jdwp, "waitSuspended") /\ ~invoke_needed[target]
        BY <2>11, Zenon DEF InvokeAnswered
      <3>2. pc[target] \in {"clearToken", "asleep"} /\ ready[target] /\ debug_suspend_count[target] = 1
        BY <3>1, Zenon DEF Target
      <3>3. request.kind \in {"InvokeAll", "InvokeSingle"}
        BY <1>s, <3>1, Zenon DEF RequestFits, Invoking
      <3>4. target \in Thread /\ target \in list
        BY <3>2, <3>3, RequestThread, Zenon DEF Places
      <3>5. debug_suspend_count[target] > 0
        BY <3>2
      <3> QED  BY <1>t, <3>1, <3>2, <3>3, <3>4, <3>5, <1>j DEF Target, ToBeResumed, Invoked
    <2> QED
      BY <1>6, <2>1, <2>2, <2>3, <2>4, <2>5, <2>6, <2>7, <2>8, <2>9, <2>10, <2>11, ZenonT(40)
      DEF ProcessRequest
  <1> QED  BY <1>0, <1>1, <1>2, <1>3, <1>4, <1>5, <1>6, Zenon DEF Next, StepOf

----------------------------------------------------------------------------
(* The counts, as cardinalities of sets of threads. *)

INSTANCE FiniteSetTheorems

LEMMA StoppersCounted ==
    /\ IsFiniteSet(Stoppers) /\ Cardinality(Stoppers) \in Nat
    /\ \A u : Cardinality(Stoppers \ {u}) \in Nat
  <1>1. IsFiniteSet(AllThread)
    BY DebuggerAssumption, FS_AddElement, Zenon
  <1>2. Stoppers \subseteq AllThread
    BY Zenon DEF Stoppers
  <1>3. IsFiniteSet(Stoppers)
    BY <1>1, <1>2, FS_Subset, Zenon
  <1>4. \A u : IsFiniteSet(Stoppers \ {u})
    BY <1>3, FS_Difference, Zenon
  <1> QED  BY <1>3, <1>4, FS_CardinalityType, Zenon

LEMMA StoppersStay ==
    ASSUME Places, NEW t \in AllThread, NEW label, Goto(t, label),
           pc[t] \in {"lock", "paused"} <=> label \in {"lock", "paused"}
    PROVE  Stoppers' = Stoppers
  <1>1. pc' = [pc EXCEPT ![t] = label] /\ pc \in [AllThread -> ThreadPcs \cup JdwpPcs]
    BY Zenon DEF Places, Goto
  <1>2. \A u \in AllThread : pc'[u] \in {"lock", "paused"} <=> pc[u] \in {"lock", "paused"}
    BY <1>1, Zenon
  <1> QED  BY <1>2, Zenon DEF Stoppers

(* One more thread stops the others: it counts for all but itself. *)
CountsForOthers(A, t) ==
    /\ Cardinality(A \cup {t}) = Cardinality(A) + 1
    /\ Cardinality((A \cup {t}) \ {t}) = Cardinality(A \ {t})
    /\ \A u : u # t => Cardinality((A \cup {t}) \ {u}) = Cardinality(A \ {u}) + 1

LEMMA StopperCounted ==
    ASSUME NEW A, IsFiniteSet(A), NEW t, t \notin A
    PROVE  CountsForOthers(A, t)
  <1>1. Cardinality(A \cup {t}) = Cardinality(A) + 1
    BY FS_AddElement, Zenon
  <1>2. (A \cup {t}) \ {t} = A \ {t}
    BY Zenon
  <1>3. ASSUME NEW u, u # t
        PROVE  Cardinality((A \cup {t}) \ {u}) = Cardinality(A \ {u}) + 1
    <2>1. (A \cup {t}) \ {u} = (A \ {u}) \cup {t} /\ t \notin A \ {u}
      BY <1>3, Zenon
    <2>2. IsFiniteSet(A \ {u})
      BY FS_Difference, Zenon
    <2> QED  BY <2>1, <2>2, FS_AddElement, Zenon
  <1> QED  BY <1>1, <1>2, <1>3, Zenon DEF CountsForOthers

LEMMA StopperJoins ==
    ASSUME Places, NEW t \in AllThread, Goto(t, "lock"), pc[t] = "suspendAll"
    PROVE  t \notin Stoppers /\ Stoppers' = Stoppers \cup {t}
  <1>1. pc'[t] = "lock" /\ \A u \in AllThread : u # t => pc'[u] = pc[u]
    BY Zenon DEF Places, Goto
  <1> QED  BY <1>1, Zenon DEF Stoppers

LEMMA StopperLeaves ==
    ASSUME Places, NEW t \in AllThread, NEW label, Goto(t, label), pc[t] = "paused",
           label \notin {"lock", "paused"}
    PROVE  t \notin Stoppers' /\ Stoppers = Stoppers' \cup {t}
  <1>1. pc'[t] = label /\ \A u \in AllThread : u # t => pc'[u] = pc[u]
    BY Zenon DEF Places, Goto
  <1> QED  BY <1>1 DEF Stoppers

LEMMA CountsCovered == ASSUME Types, Counts PROVE Covered
  <1> SUFFICES ASSUME NEW t \in AllThread PROVE debug_suspend_count[t] <= suspend_count[t]
    BY Zenon DEF Covered
  <1>1. suspend_count[t] \in Int /\ debug_suspend_count[t] \in Int
    BY Zenon DEF Types
  <1>2. CASE t \in list
    <2>1. Cardinality(Stoppers \ {t}) \in Nat
      BY StoppersCounted, Zenon
    <2>2. suspend_count[t] - debug_suspend_count[t] = Cardinality(Stoppers \ {t})
      BY <1>2, Zenon DEF Counts, PartsAreExact
    <2> QED  BY <1>1, <2>1, <2>2
  <1>3. CASE t \notin list
    <2>1. debug_suspend_count[t] = 0 /\ suspend_count[t] = 0
      BY <1>3, Zenon DEF Counts
    <2> QED  BY <2>1
  <1> QED  BY <1>2, <1>3, Zenon

LEMMA CountsFrame ==
    ASSUME Counts, UNCHANGED <<list, countVars>>, Stoppers' = Stoppers
    PROVE  Counts'
  <1>1. PartsAreExact'
    BY Zenon DEF Counts, PartsAreExact
  <1> QED  BY <1>1, Zenon DEF Counts

\* The debugger's part of some counts goes up or down by one, together with the count.
LEMMA DebuggerModifies ==
    ASSUME Types, Counts, NEW S \in SUBSET (list \ {Jdwp}), NEW delta \in {1, -1},
           ModifySuspendCount(S, delta, TRUE),
           delta = -1 => \A u \in S : debug_suspend_count[u] > 0,
           suspend_all_count' - debug_suspend_all_count' =
               suspend_all_count - debug_suspend_all_count,
           debug_suspend_all_count' >= 0,
           list' = list, Stoppers' = Stoppers
    PROVE  Counts'
  <1>1. /\ \A u \in AllThread : u \notin S =>
              suspend_count'[u] = suspend_count[u] /\ debug_suspend_count'[u] = debug_suspend_count[u]
        /\ \A u \in AllThread : u \in S =>
              /\ suspend_count'[u] = suspend_count[u] + delta
              /\ debug_suspend_count'[u] = debug_suspend_count[u] + delta
    BY Modified, ZenonT(40)
  <1>2. ASSUME NEW u \in list
        PROVE  /\ debug_suspend_count'[u] >= 0
               /\ suspend_count'[u] - debug_suspend_count'[u] = Cardinality(Stoppers \ {u})
    <2>1. u \in AllThread /\ suspend_count[u] \in Int /\ debug_suspend_count[u] \in Int
      BY Zenon DEF Types
    <2>2. /\ debug_suspend_count[u] >= 0
          /\ suspend_count[u] - debug_suspend_count[u] = Cardinality(Stoppers \ {u})
      BY Zenon DEF Counts, PartsAreExact
    <2>3. Cardinality(Stoppers \ {u}) \in Nat
      BY StoppersCounted, Zenon
    <2>4. CASE u \in S
      BY <1>1, <2>1, <2>2, <2>3, <2>4
    <2>5. CASE u \notin S
      BY <1>1, <2>1, <2>2, <2>5, Zenon
    <2> QED  BY <2>4, <2>5
  <1>3. PartsAreExact'
    <2>1. suspend_all_count' - debug_suspend_all_count' = Cardinality(Stoppers')
      BY Zenon DEF Counts, PartsAreExact
    <2> QED  BY <1>2, <2>1, Zenon DEF PartsAreExact
  <1>4. ~aborted'
    <2>1. ~aborted
      BY Zenon DEF Counts
    <2>2. CASE delta = -1
      <3>1. \A u \in S : suspend_count[u] > 0 /\ suspend_count[u] \in Int
        BY <2>2, CountsCovered, SuspendedHasCount, Zenon DEF Types
      <3>2. ~(\E u \in S : suspend_count[u] <= 0)
        BY <3>1
      <3> QED  BY <2>1, <3>2, Zenon DEF ModifySuspendCount
    <2>3. CASE delta = 1
      <3>1. ~(delta < 0)
        BY <2>3
      <3> QED  BY <2>1, <3>1, Zenon DEF ModifySuspendCount
    <2> QED  BY <2>2, <2>3, Zenon
  <1>5. debug_suspend_count'[Jdwp] = 0
    BY <1>1, Zenon DEF Counts
  <1>6. \A u \in AllThread \ list : debug_suspend_count'[u] = 0 /\ suspend_count'[u] = 0
    BY <1>1, Zenon DEF Counts
  <1> QED  BY <1>3, <1>4, <1>5, <1>6, Zenon DEF Counts

LEMMA UndoKeepsCounts ==
    ASSUME Types, Counts, UndoDebuggerSuspensions, list' = list, Stoppers' = Stoppers
    PROVE  Counts'
  <1>1. ASSUME NEW u \in list
        PROVE  /\ debug_suspend_count'[u] = 0
               /\ suspend_count'[u] - debug_suspend_count'[u] = Cardinality(Stoppers \ {u})
    <2>1. u \in AllThread /\ suspend_count[u] \in Int /\ debug_suspend_count[u] \in Int
      BY Zenon DEF Types
    <2>2. /\ suspend_count[u] - debug_suspend_count[u] = Cardinality(Stoppers \ {u})
          /\ debug_suspend_count[Jdwp] = 0
      BY Zenon DEF Counts, PartsAreExact
    <2>3. CASE u = Jdwp
      BY <2>1, <2>2, <2>3, Undone, Zenon
    <2>4. CASE u # Jdwp
      <3>1. suspend_count'[u] = suspend_count[u] - debug_suspend_count[u] /\ debug_suspend_count'[u] = 0
        BY <2>4, Undone, Zenon
      <3> QED  BY <2>1, <2>2, <3>1
    <2> QED  BY <2>3, <2>4, Zenon
  <1>2. PartsAreExact'
    <2>1. suspend_all_count' - debug_suspend_all_count' = Cardinality(Stoppers')
      <3>1. /\ suspend_all_count' = suspend_all_count - debug_suspend_all_count
            /\ debug_suspend_all_count' = 0
        BY Undone, Zenon
      <3>2. /\ suspend_all_count - debug_suspend_all_count = Cardinality(Stoppers)
            /\ suspend_all_count \in Int /\ debug_suspend_all_count \in Int
        BY Zenon DEF Counts, PartsAreExact, Types
      <3> QED  BY <3>1, <3>2
    <2>2. \A u \in list : debug_suspend_count'[u] >= 0
      <3>1. 0 >= 0
        OBVIOUS
      <3> QED  BY <1>1, <3>1, Zenon
    <2> QED  BY <1>1, <2>1, <2>2, Zenon DEF PartsAreExact
  <1>3. ~aborted'
    <2>1. \A u \in list \ {Jdwp} : debug_suspend_count[u] > 0 =>
             suspend_count[u] > 0 /\ suspend_count[u] \in Int
      BY CountsCovered, SuspendedHasCount, Zenon DEF Types
    <2>2. ~(\E u \in list \ {Jdwp} : debug_suspend_count[u] > 0 /\ suspend_count[u] <= 0)
      BY <2>1
    <2> QED  BY <2>2, Zenon DEF Counts, UndoDebuggerSuspensions
  <1>4. /\ debug_suspend_all_count' = 0 /\ debug_suspend_count'[Jdwp] = 0
        /\ \A u \in AllThread \ list : debug_suspend_count'[u] = 0 /\ suspend_count'[u] = 0
    BY Undone, Zenon DEF Counts
  <1>5. debug_suspend_all_count' >= 0
    BY <1>4
  <1> QED  BY <1>2, <1>3, <1>4, <1>5, Zenon DEF Counts

LEMMA SuspendAllKeepsCounts ==
    ASSUME Types, Places, Counts, NEW t \in AllThread, SuspendAll(t)
    PROVE  Counts'
  <1>1. /\ t \notin Stoppers /\ Stoppers' = Stoppers \cup {t}
        /\ list' = list /\ debug_suspend_all_count' = debug_suspend_all_count
        /\ suspend_all_count' = suspend_all_count + 1
        /\ ModifySuspendCount(list \ {t}, 1, FALSE)
    BY StopperJoins, Zenon DEF SuspendAll
  <1>2. /\ \A u \in AllThread : debug_suspend_count'[u] = debug_suspend_count[u]
        /\ \A u \in AllThread : u \notin list \ {t} => suspend_count'[u] = suspend_count[u]
        /\ \A u \in AllThread : u \in list \ {t} => suspend_count'[u] = suspend_count[u] + 1
    BY <1>1, Modified, ZenonT(40)
  <1>3. /\ Cardinality(Stoppers') = Cardinality(Stoppers) + 1
        /\ Cardinality(Stoppers' \ {t}) = Cardinality(Stoppers \ {t})
        /\ \A u : u # t => Cardinality(Stoppers' \ {u}) = Cardinality(Stoppers \ {u}) + 1
    <2>1. IsFiniteSet(Stoppers) /\ t \notin Stoppers
      BY <1>1, StoppersCounted, Zenon
    <2>2. CountsForOthers(Stoppers, t)
      BY <2>1, StopperCounted, Zenon
    <2>3. Stoppers' = Stoppers \cup {t}
      BY <1>1
    <2> QED  BY <2>2, <2>3, Zenon DEF CountsForOthers
  <1>4. ASSUME NEW u \in list
        PROVE  suspend_count'[u] - debug_suspend_count'[u] = Cardinality(Stoppers' \ {u})
    <2>1. u \in AllThread /\ suspend_count[u] \in Int /\ debug_suspend_count[u] \in Int
      BY Zenon DEF Types
    <2>2. suspend_count[u] - debug_suspend_count[u] = Cardinality(Stoppers \ {u})
      BY Zenon DEF Counts, PartsAreExact
    <2>3. CASE u = t
      BY <1>2, <1>3, <2>1, <2>2, <2>3, Zenon
    <2>4. CASE u # t
      <3>1. suspend_count'[u] = suspend_count[u] + 1 /\ debug_suspend_count'[u] = debug_suspend_count[u]
        BY <1>2, <2>1, <2>4, Zenon
      <3>2. Cardinality(Stoppers' \ {u}) = Cardinality(Stoppers \ {u}) + 1
        BY <1>3, <2>4, Zenon
      <3> QED  BY <2>1, <2>2, <3>1, <3>2
    <2> QED  BY <2>3, <2>4
  <1>5. suspend_all_count' - debug_suspend_all_count' = Cardinality(Stoppers')
    <2>1. /\ suspend_all_count - debug_suspend_all_count = Cardinality(Stoppers)
          /\ suspend_all_count \in Int /\ debug_suspend_all_count \in Int
      BY Zenon DEF Counts, PartsAreExact, Types
    <2> QED  BY <1>1, <1>3, <2>1
  <1>6. PartsAreExact'
    <2>1. \A u \in list : u \in AllThread /\ debug_suspend_count[u] >= 0
      BY Zenon DEF Counts, PartsAreExact, Types
    <2> QED  BY <1>1, <1>2, <1>4, <1>5, <2>1, Zenon DEF PartsAreExact
  <1>7. ~aborted'
    <2>1. ~(1 < 0)
      OBVIOUS
    <2> QED  BY <1>1, <2>1, Zenon DEF Counts, ModifySuspendCount
  <1>8. /\ debug_suspend_count'[Jdwp] = 0
        /\ \A u \in AllThread \ list : debug_suspend_count'[u] = 0 /\ suspend_count'[u] = 0
    BY <1>2, Zenon DEF Counts
  <1> QED  BY <1>1, <1>6, <1>7, <1>8, Zenon DEF Counts

LEMMA ResumeAllKeepsCounts ==
    ASSUME Types, Places, Counts, NEW t \in AllThread, ResumeAll(t)
    PROVE  Counts'
  <1>1. /\ t \notin Stoppers' /\ Stoppers = Stoppers' \cup {t}
        /\ list' = list /\ debug_suspend_all_count' = debug_suspend_all_count
        /\ suspend_all_count' = suspend_all_count - 1
        /\ ModifySuspendCount(list \ {t}, -1, FALSE)
    BY StopperLeaves, Zenon DEF ResumeAll
  <1>2. /\ \A u \in AllThread : debug_suspend_count'[u] = debug_suspend_count[u]
        /\ \A u \in AllThread : u \notin list \ {t} => suspend_count'[u] = suspend_count[u]
        /\ \A u \in AllThread : u \in list \ {t} => suspend_count'[u] = suspend_count[u] + (-1)
    BY <1>1, Modified, ZenonT(40)
  <1>a. IsFiniteSet(Stoppers')
    <2>1. Stoppers' \subseteq Stoppers
      BY <1>1, Zenon
    <2> QED  BY <2>1, StoppersCounted, FS_Subset, Zenon
  <1>3. /\ Cardinality(Stoppers) = Cardinality(Stoppers') + 1
        /\ Cardinality(Stoppers \ {t}) = Cardinality(Stoppers' \ {t})
        /\ \A u : u # t => Cardinality(Stoppers \ {u}) = Cardinality(Stoppers' \ {u}) + 1
    <2>0. t \notin Stoppers'
      BY <1>1
    <2>1. CountsForOthers(Stoppers', t)
      BY <1>a, <2>0, StopperCounted, Zenon
    <2>2. Stoppers = Stoppers' \cup {t}
      BY <1>1
    <2> QED  BY <2>1, <2>2, Zenon DEF CountsForOthers
  <1>b. Cardinality(Stoppers') \in Nat /\ \A u : Cardinality(Stoppers' \ {u}) \in Nat
    <2>1. \A u : IsFiniteSet(Stoppers' \ {u})
      BY <1>a, FS_Difference, Zenon
    <2> QED  BY <1>a, <2>1, FS_CardinalityType, Zenon
  <1>4. ASSUME NEW u \in list
        PROVE  /\ suspend_count'[u] - debug_suspend_count'[u] = Cardinality(Stoppers' \ {u})
               /\ u # t => suspend_count[u] > 0
    <2>1. u \in AllThread /\ suspend_count[u] \in Int /\ debug_suspend_count[u] \in Int
      BY Zenon DEF Types
    <2>2. /\ suspend_count[u] - debug_suspend_count[u] = Cardinality(Stoppers \ {u})
          /\ debug_suspend_count[u] >= 0
      BY Zenon DEF Counts, PartsAreExact
    <2>3. CASE u = t
      BY <1>2, <1>3, <2>1, <2>2, <2>3, Zenon
    <2>4. CASE u # t
      <3>1. suspend_count'[u] = suspend_count[u] + (-1) /\ debug_suspend_count'[u] = debug_suspend_count[u]
        BY <1>2, <2>1, <2>4, Zenon
      <3>2. /\ Cardinality(Stoppers \ {u}) = Cardinality(Stoppers' \ {u}) + 1
            /\ Cardinality(Stoppers' \ {u}) \in Nat
        BY <1>3, <1>b, <2>4, Zenon
      <3> QED  BY <2>1, <2>2, <3>1, <3>2
    <2> QED  BY <2>3, <2>4, Zenon
  <1>5. suspend_all_count' - debug_suspend_all_count' = Cardinality(Stoppers')
    <2>1. /\ suspend_all_count - debug_suspend_all_count = Cardinality(Stoppers)
          /\ suspend_all_count \in Int /\ debug_suspend_all_count \in Int
      BY Zenon DEF Counts, PartsAreExact, Types
    <2> QED  BY <1>1, <1>3, <1>b, <2>1
  <1>6. PartsAreExact'
    <2>1. \A u \in list : u \in AllThread /\ debug_suspend_count[u] >= 0
      BY Zenon DEF Counts, PartsAreExact, Types
    <2> QED  BY <1>1, <1>2, <1>4, <1>5, <2>1, Zenon DEF PartsAreExact
  <1>7. ~aborted'
    <2>1. \A u \in list \ {t} : suspend_count[u] > 0 /\ suspend_count[u] \in Int
      BY <1>4, Zenon DEF Types
    <2>2. ~(\E u \in list \ {t} : suspend_count[u] <= 0)
      BY <2>1
    <2> QED  BY <1>1, <2>2, Zenon DEF Counts, ModifySuspendCount
  <1>8. /\ debug_suspend_count'[Jdwp] = 0
        /\ \A u \in AllThread \ list : debug_suspend_count'[u] = 0 /\ suspend_count'[u] = 0
    BY <1>2, Zenon DEF Counts
  <1> QED  BY <1>1, <1>6, <1>7, <1>8, Zenon DEF Counts

LEMMA RegisterKeepsCounts ==
    ASSUME Types, Places, Counts, NEW t \in Thread, Register(t)
    PROVE  Counts'
  <1>0. t \in AllThread /\ t # Jdwp /\ Jdwp \in AllThread
    BY DebuggerAssumption, Zenon
  <1>1. Stoppers' = Stoppers
    BY <1>0, StoppersStay, Zenon DEF Register
  <1>2. Cardinality(Stoppers \ {t}) = Cardinality(Stoppers)
    <2>1. t \notin Stoppers
      BY Zenon DEF Stoppers, Register
    <2>2. Stoppers \ {t} = Stoppers
      BY <2>1, Zenon
    <2> QED  BY <2>2, Zenon
  <1>3. /\ suspend_count'[t] = suspend_all_count /\ debug_suspend_count'[t] = debug_suspend_all_count
        /\ \A u \in AllThread : u # t =>
              suspend_count'[u] = suspend_count[u] /\ debug_suspend_count'[u] = debug_suspend_count[u]
    BY <1>0, Zenon DEF Types, Register
  <1>4. /\ list' = list \cup {t} /\ aborted' = aborted
        /\ suspend_all_count' = suspend_all_count /\ debug_suspend_all_count' = debug_suspend_all_count
    BY Zenon DEF Register
  <1>5. /\ suspend_all_count - debug_suspend_all_count = Cardinality(Stoppers)
        /\ \A u \in list : debug_suspend_count[u] >= 0 /\
              suspend_count[u] - debug_suspend_count[u] = Cardinality(Stoppers \ {u})
        /\ debug_suspend_all_count >= 0
    BY Zenon DEF Counts, PartsAreExact
  <1>6. ASSUME NEW u \in list'
        PROVE  /\ debug_suspend_count'[u] >= 0
               /\ suspend_count'[u] - debug_suspend_count'[u] = Cardinality(Stoppers \ {u})
    <2>1. CASE u = t
      BY <1>2, <1>3, <1>5, <2>1, Zenon
    <2>2. CASE u # t
      <3>1. u \in list /\ u \in AllThread
        BY <1>4, <2>2, Zenon DEF Types
      <3> QED  BY <1>3, <1>5, <2>2, <3>1, Zenon
    <2> QED  BY <2>1, <2>2, Zenon
  <1>7. PartsAreExact'
    BY <1>1, <1>4, <1>5, <1>6, Zenon DEF PartsAreExact
  <1>8. \A u \in AllThread \ list' : debug_suspend_count'[u] = 0 /\ suspend_count'[u] = 0
    BY <1>3, <1>4, Zenon DEF Counts
  <1>9. debug_suspend_count'[Jdwp] = 0
    BY <1>0, <1>3, Zenon DEF Counts
  <1> QED  BY <1>4, <1>7, <1>8, <1>9, Zenon DEF Counts

LEMMA UnregisterKeepsCounts ==
    ASSUME Types, Places, Counts, NEW t \in Thread, Unregister(t)
    PROVE  Counts'
  <1>0. t \in AllThread /\ t # Jdwp /\ Jdwp \in AllThread
    BY DebuggerAssumption
  <1>1. Stoppers' = Stoppers
    BY <1>0, StoppersStay, Zenon DEF Unregister
  <1>2. t \in list
    BY Zenon DEF Places, Unregister
  <1>3. debug_suspend_count[t] = 0 /\ suspend_count[t] = 0
    <2>1. /\ debug_suspend_count[t] >= 0
          /\ suspend_count[t] - debug_suspend_count[t] = Cardinality(Stoppers \ {t})
      BY <1>2, Zenon DEF Counts, PartsAreExact
    <2>2. Cardinality(Stoppers \ {t}) \in Nat
      BY StoppersCounted, Zenon
    <2>3. suspend_count[t] \in Int /\ debug_suspend_count[t] \in Int
      BY <1>0, Zenon DEF Types
    <2>4. ~(suspend_count[t] > 0)
      BY Zenon DEF Unregister, IsSuspended
    <2> QED  BY <2>1, <2>2, <2>3, <2>4
  <1>4. list' = list \ {t} /\ UNCHANGED countVars
    BY Zenon DEF Unregister
  <1>5. PartsAreExact'
    BY <1>1, <1>4, Zenon DEF Counts, PartsAreExact
  <1>6. \A u \in AllThread \ list' : debug_suspend_count'[u] = 0 /\ suspend_count'[u] = 0
    BY <1>3, <1>4, Zenon DEF Counts
  <1> QED  BY <1>4, <1>5, <1>6, Zenon DEF Counts

LEMMA NextCounts ==
    ASSUME Types, Places, Session, Counts, Target, [Next]_vars
    PROVE  Counts'
  <1>0. Jdwp \in AllThread /\ Jdwp \notin Thread
    BY DebuggerAssumption
  <1>1. CASE UNCHANGED vars
    <2>1. Stoppers' = Stoppers
      BY <1>1, Zenon DEF vars, Stoppers
    <2> QED  BY <1>1, <2>1, CountsFrame, Zenon DEF vars
  <1>2. ASSUME NEW t \in AllThread, ThreadStep(t) PROVE Counts'
    <2>1. CASE SuspendAll(t)
      BY <2>1, SuspendAllKeepsCounts, Zenon
    <2>2. CASE ResumeAll(t)
      BY <2>2, ResumeAllKeepsCounts, Zenon
    <2>3. CASE LockMutators(t) \/ LockAndUnlockMutators(t) \/ AssertThreadsAreSuspended(t)
      <3>1. Stoppers' = Stoppers
        BY <2>3, StoppersStay, Zenon DEF LockMutators, LockAndUnlockMutators, AssertThreadsAreSuspended
      <3> QED  BY <2>3, <3>1, CountsFrame, Zenon
               DEF LockMutators, LockAndUnlockMutators, AssertThreadsAreSuspended
    <2>4. CASE TransitionFromSuspendedToRunnable(t)
      <3>1. Stoppers' = Stoppers
        BY <2>4, Zenon DEF TransitionFromSuspendedToRunnable, Stoppers
      <3> QED  BY <2>4, <3>1, CountsFrame, Zenon DEF TransitionFromSuspendedToRunnable
    <2>5. CASE SetWaitForEventThread(t) \/ EventFinish(t) \/ AnswerInvoke(t)
               \/ ClearWaitForEventThread(t)
      <3>1. Stoppers' = Stoppers
        BY <2>5, StoppersStay, Zenon DEF SetWaitForEventThread, EventFinish, AnswerInvoke, ClearWaitForEventThread
      <3> QED  BY <2>5, <3>1, CountsFrame, Zenon
               DEF SetWaitForEventThread, EventFinish, AnswerInvoke, ClearWaitForEventThread
    <2>6. CASE Revive(t) \/ ExecuteMethod(t)
      <3>1. Stoppers' = Stoppers
        BY <2>6, StoppersStay, Zenon DEF Revive, ExecuteMethod
      <3> QED  BY <2>6, <3>1, CountsFrame, ZenonT(40) DEF Revive, ExecuteMethod
    <2>7. CASE SuspendAllForDebugger(t)
      <3>1. Stoppers' = Stoppers
        BY <2>7, StoppersStay, Zenon DEF SuspendAllForDebugger
      <3>2. /\ suspend_all_count' = suspend_all_count + 1
            /\ debug_suspend_all_count' = debug_suspend_all_count + 1
            /\ ModifySuspendCount(list \ {t, Jdwp}, 1, TRUE) /\ list' = list
        BY <2>7, Zenon DEF SuspendAllForDebugger
      <3>3. /\ suspend_all_count' - debug_suspend_all_count'
                  = suspend_all_count - debug_suspend_all_count
            /\ debug_suspend_all_count' >= 0
        BY <3>2 DEF Types, Counts
      <3>4. list \ {t, Jdwp} \in SUBSET (list \ {Jdwp}) /\ 1 # -1
        OBVIOUS
      <3> QED  BY <3>1, <3>2, <3>3, <3>4, DebuggerModifies, Zenon
    <2>8. CASE t \in Thread /\ SuspendSelf(t)
      <3>1. Stoppers' = Stoppers
        BY <2>8, StoppersStay, Zenon DEF SuspendSelf
      <3>2. /\ UNCHANGED <<suspend_all_count, debug_suspend_all_count, list>>
            /\ ModifySuspendCount({t}, 1, TRUE)
        BY <2>8, Zenon DEF SuspendSelf
      <3>3. t \in list /\ t # Jdwp
        BY <1>0, <2>8, Zenon DEF SuspendSelf, Places
      <3>4. {t} \in SUBSET (list \ {Jdwp}) /\ 1 # -1
        BY <3>3
      <3> QED  BY <3>1, <3>2, <3>4, DebuggerModifies, Zenon DEF Counts
    <2> QED
      BY <1>2, <2>1, <2>2, <2>3, <2>4, <2>5, <2>6, <2>7, <2>8, Actor, Zenon
  <1>3. ASSUME NEW t \in Thread,
               \/ TransitionFromRunnableToSuspended(t) \/ MethodReturns(t)
               \/ BeginCollection(t) \/ PostEvent(t) \/ Register(t) \/ Unregister(t)
        PROVE  Counts'
    <2>1. CASE TransitionFromRunnableToSuspended(t)
      <3>1. Stoppers' = Stoppers
        BY <2>1, Zenon DEF TransitionFromRunnableToSuspended, Stoppers
      <3> QED  BY <2>1, <3>1, CountsFrame, Zenon DEF TransitionFromRunnableToSuspended
    <2>2. CASE MethodReturns(t) \/ BeginCollection(t) \/ PostEvent(t)
      <3>1. Stoppers' = Stoppers
        BY <2>2, StoppersStay, Zenon DEF MethodReturns, BeginCollection, PostEvent
      <3> QED  BY <2>2, <3>1, CountsFrame, Zenon DEF MethodReturns, BeginCollection, PostEvent
    <2> QED
      BY <1>3, <2>1, <2>2, RegisterKeepsCounts, UnregisterKeepsCounts, Zenon
  <1>4. CASE ReceiveRequest \/ Disconnect
    <2>1. Stoppers' = Stoppers
      BY <1>0, <1>4, StoppersStay, Zenon DEF ReceiveRequest, Disconnect
    <2> QED  BY <1>4, <2>1, CountsFrame, Zenon DEF ReceiveRequest, Disconnect
  <1>5. CASE ProcessRequest
    <2>1. CASE WaitForEventThread \/ StartProcessingRequest \/ EnterHandler \/ HandleSuspend
      <3>1. Stoppers' = Stoppers
        BY <1>0, <2>1, StoppersStay
        DEF WaitForEventThread, StartProcessingRequest, EnterHandler, HandleSuspend
      <3> QED  BY <2>1, <3>1, CountsFrame, Zenon
               DEF WaitForEventThread, StartProcessingRequest, EnterHandler, HandleSuspend
    <2>2. CASE ThreadIsSuspended \/ TR_Resume \/ InvokeAnswered \/ Reply \/ EndProcessingRequest
               \/ InvokeMethod
      <3>1. Stoppers' = Stoppers
        BY <1>0, <2>2, StoppersStay, Zenon
        DEF ThreadIsSuspended, TR_Resume, InvokeAnswered, Reply, EndProcessingRequest, InvokeMethod
      <3> QED  BY <2>2, <3>1, CountsFrame, ZenonT(40)
        DEF ThreadIsSuspended, TR_Resume, InvokeAnswered, Reply, EndProcessingRequest, InvokeMethod
    <2>3. CASE VM_Resume
      <3>1. Stoppers' = Stoppers /\ list' = list
        BY <1>0, <2>3, StoppersStay, Zenon DEF VM_Resume
      <3>2. CASE debug_suspend_all_count > 0
        <4> DEFINE S == {t \in list \ {Jdwp} : debug_suspend_count[t] # 0}
        <4>1. /\ suspend_all_count' = suspend_all_count - 1
              /\ debug_suspend_all_count' = debug_suspend_all_count - 1
              /\ ModifySuspendCount(S, -1, TRUE)
          BY <2>3, <3>2, Zenon DEF VM_Resume, ResumeAllForDebugger
        <4>2. /\ suspend_all_count' - debug_suspend_all_count'
                    = suspend_all_count - debug_suspend_all_count
              /\ debug_suspend_all_count' >= 0
          BY <3>2, <4>1 DEF Types
        <4>3. \A u \in S : debug_suspend_count[u] > 0
          <5>1. \A u \in S : debug_suspend_count[u] # 0 /\ debug_suspend_count[u] \in Int
                              /\ debug_suspend_count[u] >= 0
            BY Zenon DEF Types, Counts, PartsAreExact
          <5> QED  BY <5>1
        <4>4. S \in SUBSET (list \ {Jdwp})
          OBVIOUS
        <4> HIDE DEF S
        <4> QED  BY <3>1, <4>1, <4>2, <4>3, <4>4, DebuggerModifies, Zenon
      <3>3. CASE ~(debug_suspend_all_count > 0)
        BY <2>3, <3>1, <3>3, CountsFrame, Zenon DEF VM_Resume, ResumeAllForDebugger
      <3> QED  BY <3>2, <3>3, Zenon
    <2>4. CASE SuspendThreadByPeer
      <3>1. Stoppers' = Stoppers
        BY <1>0, <2>4, StoppersStay, Zenon DEF SuspendThreadByPeer
      <3>2. CASE target \in list
        <4>1. {target} \in SUBSET (list \ {Jdwp}) /\ 1 # -1
          BY <3>2, RequestThread
        <4>2. /\ UNCHANGED <<suspend_all_count, debug_suspend_all_count, list>>
              /\ ModifySuspendCount({target}, 1, TRUE)
          BY <2>4, <3>2, Zenon DEF SuspendThreadByPeer
        <4> QED  BY <3>1, <4>1, <4>2, DebuggerModifies, Zenon DEF Counts
      <3>3. CASE target \notin list
        BY <2>4, <3>1, <3>3, CountsFrame, Zenon DEF SuspendThreadByPeer
      <3> QED  BY <3>2, <3>3, Zenon
    <2>5. CASE \/ ResumeThread
               \/ TransferControl /\ request.kind # "InvokeAll"
      <3>1. Stoppers' = Stoppers
        BY <1>0, <2>5, StoppersStay, Zenon DEF ResumeThread, TransferControl
      <3>2. /\ UNCHANGED <<suspend_all_count, debug_suspend_all_count, list>>
            /\ ModifySuspendCount({target} \cap list, -1, TRUE)
            /\ pc[Jdwp] \in {"resume", "balance", "transfer"}
        BY <2>5, Zenon DEF ResumeThread, TransferControl, Resume
      <3>3. debug_suspend_count[target] > 0
        <4>1. RequestFits(pc[Jdwp])
          BY Zenon DEF Session
        <4>2. pc[Jdwp] = "resume" => ToBeResumed
          BY <4>1, Zenon DEF RequestFits, ToBeResumed
        <4>3. pc[Jdwp] = "balance" => Invoked
          BY <4>1, Zenon DEF RequestFits, Invoked
        <4>4. pc[Jdwp] = "balance" => debug_suspend_count[target] = 2
          BY <4>3, Zenon DEF Target
        <4> QED  BY <3>2, <4>2, <4>4 DEF Target
      <3>4. {target} \cap list \in SUBSET (list \ {Jdwp})
        BY RequestThread
      <3>5. \A u \in {target} \cap list : debug_suspend_count[u] > 0
        BY <3>3, Zenon
      <3> QED  BY <3>1, <3>2, <3>4, <3>5, DebuggerModifies, Zenon DEF Counts
    <2>6. CASE \/ UndoAfterDisconnect
               \/ TransferControl /\ request.kind = "InvokeAll"
      <3>1. Stoppers' = Stoppers
        BY <1>0, <2>6, StoppersStay, Zenon DEF UndoAfterDisconnect, TransferControl
      <3> QED  BY <2>6, <3>1, UndoKeepsCounts, Zenon DEF UndoAfterDisconnect, TransferControl
    <2> QED  BY <1>5, <2>1, <2>2, <2>3, <2>4, <2>5, <2>6, Zenon DEF ProcessRequest
  <1> QED  BY <1>1, <1>2, <1>3, <1>4, <1>5, Zenon DEF Next

----------------------------------------------------------------------------
LEMMA InitIInv == Init => IInv
  <1> SUFFICES ASSUME Init PROVE IInv
    OBVIOUS
  <1>0. Jdwp \in AllThread /\ Jdwp \notin Thread /\ NoThread \notin Thread
    BY DebuggerAssumption, Zenon
  <1>1. pc[Jdwp] = "idle" /\ \A t \in Thread : t \in AllThread /\ pc[t] = "run"
    BY <1>0, Zenon DEF Init
  <1>2. Types
    <2>1. 0 \in Int
      OBVIOUS
    <2>2. suspend_count \in [AllThread -> Int] /\ debug_suspend_count \in [AllThread -> Int]
      BY <2>1, Zenon DEF Init
    <2>3. ready \in [Thread -> BOOLEAN] /\ invoke_needed \in [Thread -> BOOLEAN]
      BY Zenon DEF Init
    <2>4. policy \in [Thread -> {"event", "all"}]
      BY Zenon DEF Init
    <2> QED  BY <1>0, <2>1, <2>2, <2>3, <2>4, Zenon DEF Types, Init
  <1>3. Places
    <2>1. \A t \in AllThread : pc[t] \in ThreadPcs \cup JdwpPcs
      BY <1>1 DEF ThreadPcs, JdwpPcs
    <2>2. pc \in [AllThread -> ThreadPcs \cup JdwpPcs]
      BY <2>1, Zenon DEF Init
    <2>3. \A t \in Thread : t \in list
      BY Zenon DEF Init
    <2>4. runnable \subseteq list
      BY Zenon DEF Init
    <2> QED  BY <1>1, <2>2, <2>3, <2>4, Zenon DEF Places, ThreadPcs, JdwpPcs
  <1>4. Tokens
    BY <1>0, <1>1, Zenon DEF Tokens, HoldingToken, Processing, StoppingVM, Init
  <1>5. Session
    BY <1>1, Zenon DEF Session, RequestFits, Processing, StoppingVM, Pausing, Posting, Init
  <1>6. Counts
    <2>1. Stoppers = {}
      BY <1>1, Zenon DEF Stoppers
    <2>2. \A u : Stoppers \ {u} = {}
      BY <2>1
    <2>3. Cardinality(Stoppers) = 0 /\ \A u : Cardinality(Stoppers \ {u}) = 0
      BY <2>1, <2>2, FS_EmptySet, Zenon
    <2>4. PartsAreExact
      BY <2>3 DEF PartsAreExact, Init
    <2> QED  BY <1>0, <2>4 DEF Counts, Init
  <1>7. Suspensions
    <2>1. \A u \in AllThread : debug_suspend_count[u] = 0
      BY Zenon DEF Init
    <2>2. \A u \in runnable : ~(debug_suspend_count[u] > 0)
      BY <2>1 DEF Init
    <2>3. \A u \in AllThread : pc[u] \notin {"lockVM", "assertVM"}
      BY <1>1, Zenon
    <2>4. pc[Jdwp] \notin {"enterBalance", "balance"}
      BY <1>1, Zenon
    <2>5. debug_suspend_all_count = 0 /\ \A u \in list : debug_suspend_count[u] = 0
      BY <2>1, ZenonT(40) DEF Init
    <2> QED  BY <2>2, <2>3, <2>4, <2>5, Zenon DEF Suspensions
  <1>8. Invocation
    <2>1. \A t \in Thread : ~ready[t] /\ ~invoke_needed[t]
      BY ZenonT(40) DEF Init
    <2> QED  BY <1>1, <2>1, Zenon DEF Invocation, Processing, StoppingVM
  <1>9. Target
    BY <1>1, Zenon DEF Target, ToBeResumed, Invoked, Pausing, StoppingVM
  <1> QED  BY <1>2, <1>3, <1>4, <1>5, <1>6, <1>7, <1>8, <1>9, Zenon DEF IInv

LEMMA NextIInv == ASSUME Races = {}, IInv, [Next]_vars PROVE IInv'
  <1>1. Types /\ Places /\ Tokens /\ Session /\ Counts /\ Suspensions /\ Invocation /\ Target
    BY Zenon DEF IInv
  <1>c. Covered
    BY <1>1, CountsCovered, Zenon
  <1>2. Types' /\ Places'
    BY <1>1, NextTypes, NextPlaces, Zenon
  <1>3. Tokens' /\ Session'
    BY <1>1, NextTokens, NextSession, Zenon
  <1>4. Counts'
    BY <1>1, NextCounts, Zenon
  <1>5. Invocation' /\ Target'
    BY <1>1, <1>c, NextInvocation, NextTarget, Zenon
  <1>6. Suspensions'
    BY <1>1, <1>2, <1>4, <1>c, NextSuspensions, Zenon
  <1> QED  BY <1>2, <1>3, <1>4, <1>5, <1>6, Zenon DEF IInv

LEMMA SpecIInv == ASSUME Races = {} PROVE Spec => []IInv
  <1>1. Init => IInv
    BY InitIInv, Zenon
  <1>2. IInv /\ [Next]_vars => IInv'
    BY NextIInv, Zenon
  <1> QED  BY <1>1, <1>2, PTL DEF Spec

\* A thread the debugger has suspended has stopped, unless somebody still waits for that.
LEMMA SuspendedHasStopped ==
    ASSUME IInv, NEW t \in AllThread, debug_suspend_count[t] > 0,
           \A s \in AllThread : pc[s] # "lockVM", pc[Jdwp] # "waitSuspended"
    PROVE  IsSuspended(t)
  <1>1. suspend_count[t] > 0
    BY CountsCovered, SuspendedHasCount, Zenon DEF IInv
  <1>2. t \notin runnable
    BY Zenon DEF IInv, Suspensions
  <1> QED  BY <1>1, <1>2, Zenon DEF IsSuspended

\* While the JDWP thread processes a request, it alone suspends all threads for the debugger.
LEMMA OneStopsTheVM ==
    ASSUME IInv, NEW s \in AllThread, pc[s] \in StoppingVM
    PROVE  \A u \in AllThread : u # s => pc[u] \notin StoppingVM
  <1>1. /\ \A t \in Thread : pc[t] \in HoldingToken <=> event_thread_id = t
        /\ pc[Jdwp] \in Processing => \A t \in Thread : pc[t] \notin StoppingVM
    BY Zenon DEF IInv, Tokens
  <1>2. StoppingVM \subseteq Processing /\ StoppingVM \subseteq HoldingToken
    BY Zenon DEF Processing, StoppingVM, HoldingToken
  <1>3. CASE s = Jdwp
    BY <1>1, <1>2, <1>3, Zenon
  <1>4. CASE s \in Thread
    <2>1. pc[Jdwp] \notin StoppingVM
      BY <1>1, <1>2, <1>4, Zenon
    <2>2. \A u \in Thread : pc[u] \in StoppingVM => u = s
      BY <1>1, <1>2, <1>4, Zenon
    <2> QED  BY <2>1, <2>2, Zenon
  <1> QED  BY <1>3, <1>4, Zenon

\* The two parts of every suspend count are exact: what is not the debugger's is the number of
\* other threads inside SuspendAll/ResumeAll, however SuspendAllForDebugger,
\* ResumeAllForDebugger, UndoDebuggerSuspensions, Register and the rest interleave.
THEOREM SuspendCountsAreExact == ASSUME Races = {} PROVE Spec => []PartsAreExact
  <1>1. IInv => PartsAreExact
    BY Zenon DEF IInv, Counts
  <1> QED  BY <1>1, SpecIInv, PTL

\* No CHECK of the debugger's code fails: ModifySuspendCount never meets a zero count,
\* AssertThreadsAreSuspended finds every other thread suspended, ClearWaitForEventThread finds
\* the token with the thread, and a thread that is waited for or resumed is suspended.
THEOREM DebuggerChecksHold == ASSUME Races = {} PROVE Spec => []NoCheckFails
  <1>1. ASSUME IInv PROVE NoCheckFails
    <2>0. Types /\ Places /\ Tokens /\ Session /\ Counts /\ Suspensions /\ Target
      BY <1>1, Zenon DEF IInv
    <2>s. RequestFits(pc[Jdwp])
      BY <2>0, Zenon DEF Session
    <2>1. ASSUME NEW s \in AllThread, pc[s] = "assertVM", NEW t \in list \ {s, Jdwp}
          PROVE  IsSuspended(t)
      <3>1. t \in AllThread /\ debug_suspend_count[t] > 0
        BY <2>0, <2>1, Zenon DEF Suspensions, Types
      <3>2. \A u \in AllThread : u # s => pc[u] \notin StoppingVM
        BY <1>1, <2>1, OneStopsTheVM, Zenon DEF StoppingVM
      <3>3. \A u \in AllThread : pc[u] # "lockVM"
        BY <2>1, <3>2, Zenon DEF StoppingVM
      <3>4. pc[Jdwp] # "waitSuspended"
        <4>1. CASE s = Jdwp
          BY <2>1, <4>1, Zenon
        <4>2. CASE s \in Thread
          BY <2>0, <2>1, <4>2, Zenon DEF Tokens, Processing, StoppingVM
        <4> QED  BY <4>1, <4>2, Zenon
      <3> QED  BY <1>1, <3>1, <3>3, <3>4, SuspendedHasStopped, Zenon
    <2>2. \A t \in Thread : pc[t] = "clearToken" => event_thread_id = t
      BY <2>0, Zenon DEF Tokens, HoldingToken
    <2>c. Covered
      BY <2>0, CountsCovered, Zenon
    <2>3. pc[Jdwp] = "waitSuspended" /\ target \in list => suspend_count[target] > 0
      BY <2>0, <2>c, SuspendedHasCount, Zenon DEF Target, Types
    <2>4. ASSUME pc[Jdwp] \in {"resume", "balance", "transfer"}
          PROVE  IsSuspended(target)
      <3>1. request.kind \in {"TR_Resume", "InvokeAll", "InvokeSingle"}
        BY <2>s, <2>4, Zenon DEF RequestFits, Invoking
      <3>2. target \in AllThread
        BY <2>0, <3>1, RequestThread, Zenon
      <3>3. debug_suspend_count[target] > 0
        <4>1. pc[Jdwp] = "resume" => ToBeResumed
          BY <3>1, Zenon DEF ToBeResumed
        <4>2. pc[Jdwp] = "balance" => Invoked
          BY <2>s, Zenon DEF RequestFits, Invoked
        <4>3. pc[Jdwp] = "balance" => debug_suspend_count[target] = 2
          BY <2>0, <4>2, Zenon DEF Target
        <4>4. pc[Jdwp] = "transfer" => debug_suspend_count[target] = 1
          BY <2>0, Zenon DEF Target
        <4>5. pc[Jdwp] = "resume" => debug_suspend_count[target] > 0
          BY <2>0, <4>1, Zenon DEF Target
        <4> QED  BY <2>4, <4>3, <4>4, <4>5
      <3>4. \A s \in AllThread : pc[s] # "lockVM"
        BY <2>0, <2>4, Zenon DEF Tokens, Processing, StoppingVM
      <3> QED  BY <1>1, <2>4, <3>2, <3>3, <3>4, SuspendedHasStopped, Zenon
    <2>5. ~aborted
      BY <2>0, Zenon DEF Counts
    <2> QED  BY <2>1, <2>2, <2>3, <2>4, <2>5, Zenon DEF NoCheckFails
  <1>2. IInv => NoCheckFails
    BY <1>1, Zenon
  <1> QED  BY <1>2, SpecIInv, PTL

\* InvokeMethod leaves the books as they were: the thread that ran the method is asleep in
\* SuspendByPolicy again, ready for the next one and suspended once, and where all threads
\* were resumed for it all are suspended again.
THEOREM InvocationsKeepBooks == ASSUME Races = {} PROVE Spec => []InvokeKeepsBooks
  <1>1. ASSUME IInv PROVE InvokeKeepsBooks
    <2>0. Suspensions /\ Target /\ RequestFits(pc[Jdwp])
      BY <1>1, Zenon DEF IInv, Session
    <2>1. pc[Jdwp] = "balance" => Invoked
      BY <2>0, Zenon DEF RequestFits, Invoked
    <2>2. pc[Jdwp] = "enterReply" /\ request.kind = "InvokeSingle" => Invoked
      BY DEF Invoked
    <2>3. Invoked => /\ ready[target]
                     /\ pc[target] \in {"clearToken", "asleep"}
                     /\ ~invoke_needed[target]
      BY <2>0, ZenonT(40) DEF Target
    <2>4. pc[Jdwp] = "balance" => debug_suspend_count[target] = 2
      BY <2>0, <2>1, Zenon DEF Target
    <2>5. pc[Jdwp] = "enterReply" /\ request.kind = "InvokeSingle" => debug_suspend_count[target] = 1
      BY <2>0, <2>2, Zenon DEF Target
    <2>6. pc[Jdwp] = "balance" => \A t \in list \ {Jdwp} : debug_suspend_count[t] > 0
      BY <2>0, Zenon DEF Suspensions
    <2> QED  BY <2>1, <2>2, <2>3, <2>4, <2>5, <2>6, Zenon DEF InvokeKeepsBooks
  <1>2. IInv => InvokeKeepsBooks
    BY <1>1
  <1> QED  BY <1>2, SpecIInv, PTL

\* When the debugger has gone and UndoDebuggerSuspensions has run, no thread is left with a
\* suspension of its, and none that attaches later takes one on.
THEOREM NobodyLeftSuspended == ASSUME Races = {} PROVE Spec => []NoneLeftSuspended
  <1>1. IInv => NoneLeftSuspended
    BY ZenonT(40) DEF IInv, Suspensions, Detached, NoneLeftSuspended
  <1> QED  BY <1>1, SpecIInv, PTL

\* A request is not processed between the sending of an event and the suspension of the thread
\* that sent it, as ProcessRequest's comment asks: it takes one of the races to break this.
THEOREM EventsSuspendFirst == ASSUME Races = {} PROVE Spec => []EventSuspendsFirst
  <1>1. ASSUME IInv PROVE EventSuspendsFirst
    <2> SUFFICES ASSUME processing_request, NEW t \in Thread,
                        pc[t] \in {"suspendVM", "lockVM", "assertVM", "suspendSelf"}
                 PROVE  invoke_needed[t]
      BY Zenon DEF EventSuspendsFirst
    <2>1. pc[Jdwp] \in Processing /\ pc[t] \notin StoppingVM
      BY <1>1, Zenon DEF IInv, Tokens
    <2>2. pc[t] = "suspendSelf"
      BY <2>1, Zenon DEF StoppingVM
    <2>3. t = target /\ pc[Jdwp] = "awaitInvoke"
      BY <1>1, <2>1, <2>2, Zenon DEF IInv, Invocation, HoldingToken
    <2> QED  BY <1>1, <2>2, <2>3, Zenon DEF IInv, Target
  <1>2. IInv => EventSuspendsFirst
    BY <1>1
  <1> QED  BY <1>2, SpecIInv, PTL
=============================================================================
