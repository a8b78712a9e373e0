------------------------ MODULE DebuggerSuspension ------------------------
(***************************************************************************)
(* The debugger's suspension of threads: the JDWP thread that processes    *)
(* the debugger's requests, the threads that post events and suspend       *)
(* themselves until the debugger lets them go on, the methods the debugger *)
(* has an event thread invoke, and the collector that suspends the same    *)
(* threads for its own purpose.                                            *)
(*                                                                         *)
(* A thread's suspend count has an ordinary part and a debugger's part.    *)
(* ThreadSuspension models how one count stops a thread; here a transition *)
(* to Runnable is one step, and what is studied is who raises and lowers   *)
(* the two parts, and the two hand-shakes between an event thread and the  *)
(* JDWP thread: the event token (event_thread_id_) and the processing of   *)
(* requests (processing_request_).                                         *)
(***************************************************************************)
EXTENDS Integers, FiniteSets

CONSTANTS
    Thread,          \* the threads of the program
    Collector,       \* those that run collections
    EventThread,     \* those that reach breakpoints
    Jdwp,            \* the JDWP thread (Dbg::GetDebugThread())
    NoThread,
    MaxDebugSuspends,  \* bound on the suspensions a debugger asks for
    MaxCollections,    \* bound on the number of collections
    Races              \* the races the code leaves open that may happen

\* "overtake": an event begins after the JDWP thread has found none in
\* progress and before it marks a request as being processed; "intrude": one
\* begins while another thread is to invoke a method for the debugger;
\* "careless": the debugger resumes, or has a method invoked in, a thread it
\* has not suspended; "abrupt": it goes away while an event is being posted.
AllRaces == {"overtake", "intrude", "careless", "abrupt"}

ASSUME DebuggerAssumption ==
    /\ Collector \subseteq Thread
    /\ EventThread \subseteq Thread
    /\ Jdwp \notin Thread
    /\ NoThread \notin Thread \cup {Jdwp}
    /\ MaxDebugSuspends \in Nat /\ MaxCollections \in Nat
    /\ Races \subseteq AllRaces
    /\ IsFiniteSet(Thread)

VARIABLES
    list,                     \* ThreadList::list_
    runnable,                 \* the threads in state kRunnable
    holder,                   \* the exclusive holder of mutator_lock_
    suspend_count,            \* tls32_.suspend_count of each thread
    debug_suspend_count,      \* tls32_.debug_suspend_count of each thread
    suspend_all_count,        \* ThreadList::suspend_all_count_
    debug_suspend_all_count,  \* ThreadList::debug_suspend_all_count_
    aborted,                  \* ModifySuspendCount met a count already zero
    event_thread_id,          \* JdwpState::event_thread_id_
    processing_request,       \* JdwpState::processing_request_
    ready,                    \* DebugInvokeReq::ready of each thread
    invoke_needed,            \* DebugInvokeReq::invoke_needed of each thread
    policy,                   \* the suspend policy of a thread's event
    active,                   \* gDebuggerActive, with events registered
    request,                  \* the request the JDWP thread processes
    collections,              \* the collections begun so far
    pc                        \* where each thread is

lockVars == <<runnable, holder>>
countVars == <<suspend_count, debug_suspend_count, suspend_all_count,
               debug_suspend_all_count, aborted>>
tokenVars == <<event_thread_id, processing_request>>
invokeVars == <<ready, invoke_needed, policy>>
sessionVars == <<active, request, collections>>
vars == <<list, lockVars, countVars, tokenVars, invokeVars, sessionVars, pc>>

AllThread == Thread \cup {Jdwp}

NoRequest == [kind |-> "none", thread |-> NoThread]
Request ==
    [kind : {"VM_Suspend", "VM_Resume"}, thread : {NoThread}]
        \cup [kind : {"TR_Suspend", "TR_Resume"}, thread : Thread]
        \cup [kind : {"InvokeAll", "InvokeSingle"}, thread : Thread]

target == request.thread
Invoking == request.kind \in {"InvokeAll", "InvokeSingle"}

Goto(t, label) == pc' = [pc EXCEPT ![t] = label]

IsSuspended(t) == t \notin runnable /\ suspend_count[t] > 0

Init ==
    /\ list = AllThread
    /\ runnable = Thread
    /\ holder = NoThread
    /\ suspend_count = [t \in AllThread |-> 0]
    /\ debug_suspend_count = [t \in AllThread |-> 0]
    /\ suspend_all_count = 0
    /\ debug_suspend_all_count = 0
    /\ aborted = FALSE
    /\ event_thread_id = NoThread
    /\ processing_request = FALSE
    /\ ready = [t \in Thread |-> FALSE]
    /\ invoke_needed = [t \in Thread |-> FALSE]
    /\ policy = [t \in Thread |-> "event"]
    /\ active = FALSE
    /\ request = NoRequest
    /\ collections = 0
    /\ pc = [t \in AllThread |-> IF t = Jdwp THEN "idle" ELSE "run"]

----------------------------------------------------------------------------
(* Suspend counts and thread states *)

\* Thread::ModifySuspendCount on every thread of S, under
\* thread_suspend_count_lock_; lowering a count that is already zero aborts.
ModifySuspendCount(S, delta, for_debugger) ==
    /\ suspend_count' = [t \in AllThread |->
          IF t \in S THEN suspend_count[t] + delta ELSE suspend_count[t]]
    /\ debug_suspend_count' = [t \in AllThread |->
          IF t \in S /\ for_debugger
          THEN debug_suspend_count[t] + delta ELSE debug_suspend_count[t]]
    /\ aborted' = (aborted
                      \/ (delta < 0 /\ \E t \in S : suspend_count[t] <= 0))

\* ThreadList::Resume(thread, true).
Resume(t) ==
    /\ ModifySuspendCount({t} \cap list, -1, TRUE)
    /\ UNCHANGED <<suspend_all_count, debug_suspend_all_count>>

\* TransitionFromSuspendedToRunnable: no suspend request is pending and the
\* shared lock on mutator_lock_ is free to take.
CanRun(t) == suspend_count[t] = 0 /\ holder = NoThread

EnterRunnable(t) ==
    /\ CanRun(t)
    /\ runnable' = runnable \cup {t}
    /\ UNCHANGED holder

LeaveRunnable(t) ==
    /\ runnable' = runnable \ {t}
    /\ UNCHANGED holder

\* A thread running managed code calls native code or answers a suspend
\* request; a method run for the debugger does only the latter.
TransitionFromRunnableToSuspended(t) ==
    /\ pc[t] = "run" \/ (pc[t] = "invoking" /\ suspend_count[t] > 0)
    /\ t \in runnable
    /\ LeaveRunnable(t)
    /\ UNCHANGED <<list, countVars, tokenVars, invokeVars, sessionVars, pc>>

TransitionFromSuspendedToRunnable(t) ==
    /\ pc[t] \in {"run", "invoking"}
    /\ t \notin runnable
    /\ EnterRunnable(t)
    /\ UNCHANGED <<list, countVars, tokenVars, invokeVars, sessionVars, pc>>

\* ThreadList::Register: a thread that attaches takes on the suspensions of
\* all threads that are in force, each to its part of the count.
Register(t) ==
    /\ pc[t] = "detached"
    /\ list' = list \cup {t}
    /\ suspend_count' = [suspend_count EXCEPT ![t] = suspend_all_count]
    /\ debug_suspend_count' =
           [debug_suspend_count EXCEPT ![t] = debug_suspend_all_count]
    /\ Goto(t, "run")
    /\ UNCHANGED <<lockVars, suspend_all_count, debug_suspend_all_count,
                   aborted, tokenVars, invokeVars, sessionVars>>

\* ThreadList::Unregister tries until no suspend request is pending.
Unregister(t) ==
    /\ pc[t] = "run"
    /\ t \notin runnable
    /\ ~IsSuspended(t)
    /\ list' = list \ {t}
    /\ Goto(t, "detached")
    /\ UNCHANGED <<lockVars, countVars, tokenVars, invokeVars, sessionVars>>

----------------------------------------------------------------------------
(* Stopping all threads, for a collection and for the debugger *)

\* A runnable collector begins a collection.
BeginCollection(t) ==
    /\ t \in Collector
    /\ pc[t] = "run"
    /\ t \in runnable
    /\ collections < MaxCollections
    /\ LeaveRunnable(t)
    /\ collections' = collections + 1
    /\ Goto(t, "suspendAll")
    /\ UNCHANGED <<list, countVars, tokenVars, invokeVars, active, request>>

\* ThreadList::SuspendAll, by a collector or by the JDWP thread (GoActive,
\* Disconnected): raise the counts ...
SuspendAll(t) ==
    /\ pc[t] = "suspendAll"
    /\ suspend_all_count' = suspend_all_count + 1
    /\ ModifySuspendCount(list \ {t}, 1, FALSE)
    /\ Goto(t, "lock")
    /\ UNCHANGED <<list, lockVars, debug_suspend_all_count, tokenVars,
                   invokeVars, sessionVars>>

\* ... then take mutator_lock_ exclusively.
LockMutators(t) ==
    /\ pc[t] = "lock"
    /\ runnable = {} /\ holder = NoThread
    /\ holder' = t
    /\ Goto(t, "paused")
    /\ UNCHANGED <<list, runnable, countVars, tokenVars, invokeVars,
                   sessionVars>>

\* ThreadList::ResumeAll.  The JDWP thread has set gDebuggerActive meanwhile:
\* GoActive goes on with the request, Disconnected with the undoing.
ResumeAll(t) ==
    /\ pc[t] = "paused"
    /\ holder' = NoThread
    /\ suspend_all_count' = suspend_all_count - 1
    /\ ModifySuspendCount(list \ {t}, -1, FALSE)
    /\ active' = IF t = Jdwp THEN request # NoRequest ELSE active
    /\ Goto(t, IF t # Jdwp THEN "run"
               ELSE IF request # NoRequest THEN "reqToken" ELSE "undo")
    /\ UNCHANGED <<list, runnable, debug_suspend_all_count, tokenVars,
                   invokeVars, request, collections>>

\* ThreadList::SuspendAllForDebugger, by an event thread or the JDWP thread:
\* raise the counts of all but itself and the JDWP thread ...
SuspendAllForDebugger(t) ==
    /\ pc[t] = "suspendVM"
    /\ suspend_all_count' = suspend_all_count + 1
    /\ debug_suspend_all_count' = debug_suspend_all_count + 1
    /\ ModifySuspendCount(list \ {t, Jdwp}, 1, TRUE)
    /\ Goto(t, "lockVM")
    /\ UNCHANGED <<list, lockVars, tokenVars, invokeVars, sessionVars>>

\* ... take mutator_lock_ exclusively and release it ...
LockAndUnlockMutators(t) ==
    /\ pc[t] = "lockVM"
    /\ runnable = {} /\ holder = NoThread
    /\ Goto(t, "assertVM")
    /\ UNCHANGED <<list, lockVars, countVars, tokenVars, invokeVars,
                   sessionVars>>

\* ... and assert that the threads are suspended.
AssertThreadsAreSuspended(t) ==
    /\ pc[t] = "assertVM"
    /\ Goto(t, IF t # Jdwp THEN "suspendSelf"
               ELSE IF request.kind = "VM_Suspend" THEN "enterReply"
               ELSE "enterBalance")
    /\ UNCHANGED <<list, lockVars, countVars, tokenVars, invokeVars,
                   sessionVars>>

\* Mistaken variant: every thread is resumed, those the debugger has already
\* resumed one by one included.
ResumeAllForDebugger_Everyone ==
    IF debug_suspend_all_count > 0
    THEN /\ suspend_all_count' = suspend_all_count - 1
         /\ debug_suspend_all_count' = debug_suspend_all_count - 1
         /\ ModifySuspendCount(list \ {Jdwp}, -1, TRUE)
    ELSE UNCHANGED countVars

\* ThreadList::ResumeAllForDebugger, by the JDWP thread.  A thread the
\* debugger has resumed by itself is passed over.
ResumeAllForDebugger ==
    IF debug_suspend_all_count > 0
    THEN /\ suspend_all_count' = suspend_all_count - 1
         /\ debug_suspend_all_count' = debug_suspend_all_count - 1
         /\ ModifySuspendCount(
                {t \in list \ {Jdwp} : debug_suspend_count[t] # 0}, -1, TRUE)
    ELSE UNCHANGED countVars

\* Mistaken variant: the suspensions kept for attaching threads remain.
UndoDebuggerSuspensions_KeepsAllCount ==
    /\ suspend_count' = [t \in AllThread |-> IF t \in list \ {Jdwp}
          THEN suspend_count[t] - debug_suspend_count[t] ELSE suspend_count[t]]
    /\ debug_suspend_count' = [t \in AllThread |->
          IF t \in list \ {Jdwp} THEN 0 ELSE debug_suspend_count[t]]
    /\ UNCHANGED <<suspend_all_count, debug_suspend_all_count, aborted>>

\* ThreadList::UndoDebuggerSuspensions, by the JDWP thread: the debugger's
\* part of every count goes.
UndoDebuggerSuspensions ==
    /\ suspend_all_count' = suspend_all_count - debug_suspend_all_count
    /\ debug_suspend_all_count' = 0
    /\ suspend_count' = [t \in AllThread |-> IF t \in list \ {Jdwp}
          THEN suspend_count[t] - debug_suspend_count[t] ELSE suspend_count[t]]
    /\ debug_suspend_count' = [t \in AllThread |->
          IF t \in list \ {Jdwp} THEN 0 ELSE debug_suspend_count[t]]
    /\ aborted' = (aborted \/ \E t \in list \ {Jdwp} :
                      debug_suspend_count[t] > 0 /\ suspend_count[t] <= 0)

----------------------------------------------------------------------------
(* An event thread *)

\* SP_EVENT_THREAD or SP_ALL, as the debugger asked when it registered the
\* event.
SuspendPolicy ==
    {"event"} \cup {p \in {"all"} : debug_suspend_all_count < MaxDebugSuspends}

\* A breakpoint is reached: PostLocationEvent builds the event, unless the
\* thread is invoking a method for the debugger, and
\* SendRequestAndPossiblySuspend leaves kRunnable to send it.
PostEvent(t) ==
    /\ t \in EventThread
    /\ pc[t] \in {"run", "invoking"}
    /\ t \in runnable
    /\ active
    /\ ~invoke_needed[t]
    /\ LeaveRunnable(t)
    /\ \E p \in SuspendPolicy : policy' = [policy EXCEPT ![t] = p]
    /\ Goto(t, "token")
    /\ UNCHANGED <<list, countVars, tokenVars, ready, invoke_needed,
                   sessionVars>>

\* SetWaitForEventThread(threadId): take the event token when it is free,
\* before an event is sent and before a method is invoked.
SetWaitForEventThread(t) ==
    /\ pc[t] \in {"token", "invokeToken"}
    /\ event_thread_id = NoThread
    /\ pc[Jdwp] = "start" => "overtake" \in Races
    /\ pc[t] = "token" /\ processing_request /\ Invoking
          => "intrude" \in Races
    /\ event_thread_id' = t
    /\ Goto(t, IF pc[t] = "token" THEN "send" ELSE "invoke")
    /\ UNCHANGED <<list, lockVars, countVars, processing_request, invokeVars,
                   sessionVars>>

\* Mistaken variant: an event is sent while a request is being processed.
EventFinish_NoWait(t) ==
    /\ pc[t] = "send"
    /\ Goto(t, IF policy[t] = "all" THEN "suspendVM" ELSE "suspendSelf")
    /\ UNCHANGED <<list, lockVars, countVars, tokenVars, invokeVars,
                   sessionVars>>

\* EventFinish waits until no request is being processed and sends the
\* event; SuspendByPolicy then suspends the other threads or only this one.
EventFinish(t) ==
    /\ pc[t] = "send"
    /\ ~processing_request
    /\ Goto(t, IF policy[t] = "all" THEN "suspendVM" ELSE "suspendSelf")
    /\ UNCHANGED <<list, lockVars, countVars, tokenVars, invokeVars,
                   sessionVars>>

\* Mistaken variant: the thread is marked ready for the first method only.
SuspendSelf_ReadyOnce(t) ==
    /\ pc[t] = "suspendSelf"
    /\ ready' = [ready EXCEPT ![t] = ~invoke_needed[t]]
    /\ ModifySuspendCount({t}, 1, TRUE)
    /\ Goto(t, "answer")
    /\ UNCHANGED <<list, lockVars, suspend_all_count, debug_suspend_all_count,
                   tokenVars, invoke_needed, policy, sessionVars>>

\* SuspendSelfForDebugger raises the thread's own count (SuspendByPolicy has
\* just marked it ready) ...
SuspendSelf(t) ==
    /\ pc[t] = "suspendSelf"
    /\ ready' = [ready EXCEPT ![t] = TRUE]
    /\ ModifySuspendCount({t}, 1, TRUE)
    /\ Goto(t, "answer")
    /\ UNCHANGED <<list, lockVars, suspend_all_count, debug_suspend_all_count,
                   tokenVars, invoke_needed, policy, sessionVars>>

\* ... tells the JDWP thread that a method it waits for has returned ...
AnswerInvoke(t) ==
    /\ pc[t] = "answer"
    /\ invoke_needed' = [invoke_needed EXCEPT ![t] = FALSE]
    /\ Goto(t, "clearToken")
    /\ UNCHANGED <<list, lockVars, countVars, tokenVars, ready, policy,
                   sessionVars>>

\* ... gives the token up ...
ClearWaitForEventThread(t) ==
    /\ pc[t] = "clearToken"
    /\ event_thread_id' = NoThread
    /\ Goto(t, "asleep")
    /\ UNCHANGED <<list, lockVars, countVars, processing_request, invokeVars,
                   sessionVars>>

\* ... and sleeps until its count is zero.  SuspendByPolicy then looks for a
\* method to invoke.
Revive(t) ==
    /\ pc[t] = "asleep"
    /\ suspend_count[t] = 0
    /\ ready' = [ready EXCEPT ![t] = FALSE]
    /\ policy' = [policy EXCEPT ![t] = "event"]
    /\ Goto(t, IF invoke_needed[t] THEN "invokeToken" ELSE "run")
    /\ UNCHANGED <<list, lockVars, countVars, tokenVars, invoke_needed,
                   sessionVars>>

\* Dbg::ExecuteMethod, from its transition to kRunnable ...
ExecuteMethod(t) ==
    /\ pc[t] = "invoke"
    /\ EnterRunnable(t)
    /\ Goto(t, "invoking")
    /\ UNCHANGED <<list, countVars, tokenVars, invokeVars, sessionVars>>

\* ... to the return of the method; SuspendByPolicy suspends again.
MethodReturns(t) ==
    /\ pc[t] = "invoking"
    /\ t \in runnable
    /\ LeaveRunnable(t)
    /\ Goto(t, "suspendSelf")
    /\ UNCHANGED <<list, countVars, tokenVars, invokeVars, sessionVars>>

----------------------------------------------------------------------------
(* The JDWP thread *)

\* The debugger sends a request; the first of a session makes the debugger
\* active (GoActive), which stops all threads for a moment.  A debugger
\* resumes, or has a method invoked in, a thread it has suspended.
ReceiveRequest ==
    /\ pc[Jdwp] = "idle"
    /\ request' \in Request
    /\ request'.kind = "VM_Suspend"
          => debug_suspend_all_count < MaxDebugSuspends
    /\ request'.kind = "TR_Suspend"
          => debug_suspend_count[request'.thread] < MaxDebugSuspends
    /\ request'.kind \in {"TR_Resume", "InvokeAll", "InvokeSingle"}
          => \/ debug_suspend_count[request'.thread] > 0
             \/ "careless" \in Races
    /\ Goto(Jdwp, IF active THEN "reqToken" ELSE "suspendAll")
    /\ UNCHANGED <<list, lockVars, countVars, tokenVars, invokeVars, active,
                   collections>>

\* SetWaitForEventThread(0): wait until no event is in progress.
WaitForEventThread ==
    /\ pc[Jdwp] = "reqToken"
    /\ event_thread_id = NoThread
    /\ Goto(Jdwp, "start")
    /\ UNCHANGED <<list, lockVars, countVars, tokenVars, invokeVars,
                   sessionVars>>

StartProcessingRequest ==
    /\ pc[Jdwp] = "start"
    /\ processing_request' = TRUE
    /\ Goto(Jdwp, "enter")
    /\ UNCHANGED <<list, lockVars, countVars, event_thread_id, invokeVars,
                   sessionVars>>

\* The JDWP thread's transitions to kRunnable: before the handler, and after
\* the waits inside the handlers.
EnterHandler ==
    /\ pc[Jdwp] \in {"enter", "enterReply", "enterBalance"}
    /\ EnterRunnable(Jdwp)
    /\ Goto(Jdwp, CASE pc[Jdwp] = "enter" -> "handle"
                    [] pc[Jdwp] = "enterReply" -> "reply"
                    [] pc[Jdwp] = "enterBalance" -> "balance")
    /\ UNCHANGED <<list, countVars, tokenVars, invokeVars, sessionVars>>

\* VM_Suspend and TR_Suspend leave kRunnable to wait for the threads.
HandleSuspend ==
    /\ pc[Jdwp] = "handle"
    /\ request.kind \in {"VM_Suspend", "TR_Suspend"}
    /\ LeaveRunnable(Jdwp)
    /\ Goto(Jdwp, IF request.kind = "VM_Suspend" THEN "suspendVM"
                  ELSE "suspendPeer")
    /\ UNCHANGED <<list, countVars, tokenVars, invokeVars, sessionVars>>

VM_Resume ==
    /\ pc[Jdwp] = "handle"
    /\ request.kind = "VM_Resume"
    /\ ResumeAllForDebugger
    /\ Goto(Jdwp, "reply")
    /\ UNCHANGED <<list, lockVars, tokenVars, invokeVars, sessionVars>>

\* SuspendThreadByPeer, called by Dbg::SuspendThread.  Every turn of its loop
\* makes the JDWP thread runnable, and it asks for a suspension only while
\* nobody asks for its own.
SuspendThreadByPeer ==
    /\ pc[Jdwp] = "suspendPeer"
    /\ CanRun(Jdwp)
    /\ IF target \in list
       THEN /\ ModifySuspendCount({target}, 1, TRUE)
            /\ Goto(Jdwp, "waitSuspended")
       ELSE /\ UNCHANGED <<suspend_count, debug_suspend_count, aborted>>
            /\ Goto(Jdwp, "enterReply")
    /\ UNCHANGED <<list, lockVars, suspend_all_count, debug_suspend_all_count,
                   tokenVars, invokeVars, sessionVars>>

\* The loop ends when the thread is suspended.  An invocation for which all
\* threads were resumed goes on to suspend them again.
ThreadIsSuspended ==
    /\ pc[Jdwp] = "waitSuspended"
    /\ CanRun(Jdwp)
    /\ target \in list => IsSuspended(target)
    /\ Goto(Jdwp, IF request.kind = "InvokeAll" THEN "suspendVM"
                  ELSE "enterReply")
    /\ UNCHANGED <<list, lockVars, countVars, tokenVars, invokeVars,
                   sessionVars>>

\* Dbg::ResumeThread looks at the thread's count ...
TR_Resume ==
    /\ pc[Jdwp] = "handle"
    /\ request.kind = "TR_Resume"
    /\ Goto(Jdwp, IF target \in list /\ suspend_count[target] > 0
                  THEN "resume" ELSE "reply")
    /\ UNCHANGED <<list, lockVars, countVars, tokenVars, invokeVars,
                   sessionVars>>

\* ... and resumes it.  So does InvokeMethod at its end, to balance the
\* suspension of all threads.
ResumeThread ==
    /\ pc[Jdwp] \in {"resume", "balance"}
    /\ Resume(target)
    /\ Goto(Jdwp, "reply")
    /\ UNCHANGED <<list, lockVars, tokenVars, invokeVars, sessionVars>>

\* Mistaken variant: a thread that is suspended more than once is accepted.
CanInvoke_TooDeep == target \in list /\ ready[target]

\* The thread is stopped by an event, and suspended at most once.
CanInvoke == target \in list /\ ready[target] /\ suspend_count[target] <= 1

\* Dbg::InvokeMethod leaves the invocation in the thread's mailbox, or
\* rejects it.
InvokeMethod ==
    /\ pc[Jdwp] = "handle"
    /\ Invoking
    /\ IF CanInvoke
       THEN /\ invoke_needed' = [invoke_needed EXCEPT ![target] = TRUE]
            /\ LeaveRunnable(Jdwp)
            /\ Goto(Jdwp, "transfer")
       ELSE /\ Goto(Jdwp, "reply")
            /\ UNCHANGED <<invoke_needed, lockVars>>
    /\ UNCHANGED <<list, countVars, tokenVars, ready, policy, sessionVars>>

\* It resumes the event thread, or every thread ...
TransferControl ==
    /\ pc[Jdwp] = "transfer"
    /\ IF request.kind = "InvokeAll" THEN UndoDebuggerSuspensions
       ELSE Resume(target)
    /\ Goto(Jdwp, "awaitInvoke")
    /\ UNCHANGED <<list, lockVars, tokenVars, invokeVars, sessionVars>>

\* ... and waits for the answer.
InvokeAnswered ==
    /\ pc[Jdwp] = "awaitInvoke"
    /\ ~invoke_needed[target]
    /\ Goto(Jdwp, "waitSuspended")
    /\ UNCHANGED <<list, lockVars, countVars, tokenVars, invokeVars,
                   sessionVars>>

Reply ==
    /\ pc[Jdwp] = "reply"
    /\ LeaveRunnable(Jdwp)
    /\ Goto(Jdwp, "end")
    /\ UNCHANGED <<list, countVars, tokenVars, invokeVars, sessionVars>>

EndProcessingRequest ==
    /\ pc[Jdwp] = "end"
    /\ processing_request' = FALSE
    /\ request' = NoRequest
    /\ Goto(Jdwp, "idle")
    /\ UNCHANGED <<list, lockVars, countVars, event_thread_id, invokeVars,
                   active, collections>>

\* The steps of posting an event, before the thread has suspended itself.
Posting == {"token", "send", "suspendVM", "lockVM", "assertVM", "suspendSelf"}

\* The debugger goes away: ResetState unregisters its events (the JDWP
\* thread is runnable meanwhile), Disconnected stops all threads ...
Disconnect ==
    /\ pc[Jdwp] = "idle"
    /\ active
    /\ "abrupt" \in Races \/ \A t \in Thread : pc[t] \notin Posting
    /\ CanRun(Jdwp)
    /\ active' = FALSE
    /\ Goto(Jdwp, "suspendAll")
    /\ UNCHANGED <<list, lockVars, countVars, tokenVars, invokeVars, request,
                   collections>>

\* ... and the suspensions are undone.
UndoAfterDisconnect ==
    /\ pc[Jdwp] = "undo"
    /\ UndoDebuggerSuspensions
    /\ Goto(Jdwp, "idle")
    /\ UNCHANGED <<list, lockVars, tokenVars, invokeVars, sessionVars>>

----------------------------------------------------------------------------
\* The steps a thread takes by itself once it is able to.
ThreadStep(t) ==
    \/ TransitionFromSuspendedToRunnable(t)
    \/ SuspendAll(t) \/ LockMutators(t) \/ ResumeAll(t)
    \/ SuspendAllForDebugger(t) \/ LockAndUnlockMutators(t)
    \/ AssertThreadsAreSuspended(t)
    \/ SetWaitForEventThread(t) \/ EventFinish(t)
    \/ SuspendSelf(t) \/ AnswerInvoke(t) \/ ClearWaitForEventThread(t)
    \/ Revive(t) \/ ExecuteMethod(t)

\* A thread answers a suspend request, as compiled code does at its next
\* suspend check.
AnswerSuspendRequest(t) ==
    suspend_count[t] > 0 /\ TransitionFromRunnableToSuspended(t)

\* The steps of the JDWP thread while it processes a request.
ProcessRequest ==
    \/ WaitForEventThread \/ StartProcessingRequest \/ EnterHandler
    \/ HandleSuspend \/ VM_Resume \/ SuspendThreadByPeer \/ ThreadIsSuspended
    \/ TR_Resume \/ ResumeThread
    \/ InvokeMethod \/ TransferControl \/ InvokeAnswered
    \/ Reply \/ EndProcessingRequest \/ UndoAfterDisconnect

Next ==
    \/ \E t \in AllThread : ThreadStep(t)
    \/ \E t \in Thread :
          \/ TransitionFromRunnableToSuspended(t) \/ MethodReturns(t)
          \/ BeginCollection(t) \/ PostEvent(t)
          \/ Register(t) \/ Unregister(t)
    \/ ReceiveRequest \/ ProcessRequest \/ Disconnect

Spec == Init /\ [][Next]_vars

\* A thread that can go on does; it answers suspend requests; a method the
\* debugger invokes returns.  When events, collections and requests happen
\* is up to the program and the debugger.
Fairness ==
    /\ \A t \in AllThread : WF_vars(ThreadStep(t))
    /\ \A t \in Thread :
          WF_vars(AnswerSuspendRequest(t)) /\ WF_vars(MethodReturns(t))
    /\ WF_vars(ProcessRequest)

FairSpec == Spec /\ Fairness

----------------------------------------------------------------------------
TypeOK ==
    /\ list \subseteq AllThread
    /\ runnable \subseteq list
    /\ holder \in AllThread \cup {NoThread}
    /\ suspend_count \in [AllThread -> Nat]
    /\ debug_suspend_count \in [AllThread -> Nat]
    /\ suspend_all_count \in Nat /\ debug_suspend_all_count \in Nat
    /\ event_thread_id \in Thread \cup {NoThread}
    /\ processing_request \in BOOLEAN
    /\ ready \in [Thread -> BOOLEAN] /\ invoke_needed \in [Thread -> BOOLEAN]
    /\ policy \in [Thread -> {"event", "all"}]
    /\ active \in BOOLEAN /\ aborted \in BOOLEAN
    /\ request \in Request \cup {NoRequest}
    /\ collections \in 0..MaxCollections

\* The threads that are stopping the others for a reason of their own.
Stoppers == {t \in AllThread : pc[t] \in {"lock", "paused"}}

\* The two parts of the suspend counts are exact: the ordinary part of a
\* thread's count is the number of other threads inside
\* SuspendAll/ResumeAll, whatever the debugger has added and taken away.
\* (thread.h: "How much of 'suspend_count_' is by request of the debugger,
\* used to set things right when the debugger detaches.")
PartsAreExact ==
    /\ suspend_all_count - debug_suspend_all_count = Cardinality(Stoppers)
    /\ \A t \in list :
          /\ debug_suspend_count[t] >= 0
          /\ suspend_count[t] - debug_suspend_count[t]
                = Cardinality(Stoppers \ {t})

\* No CHECK of the debugger's code fails: ModifySuspendCount never lowers a
\* count that is zero; after SuspendAllForDebugger every other thread is
\* suspended; the token is held by the thread that gives it up; a thread
\* that is waited for has a count, and one that is resumed is suspended.
NoCheckFails ==
    /\ ~aborted
    /\ \A s \in AllThread : pc[s] = "assertVM" =>
          \A t \in list \ {s, Jdwp} : IsSuspended(t)
    /\ \A t \in Thread : pc[t] = "clearToken" => event_thread_id = t
    /\ pc[Jdwp] = "waitSuspended" /\ target \in list
          => suspend_count[target] > 0
    /\ pc[Jdwp] \in {"resume", "balance"} => IsSuspended(target)
    /\ pc[Jdwp] = "transfer" /\ request.kind = "InvokeSingle"
          => IsSuspended(target)

\* While a request is processed no thread is between the sending of an event
\* and its own suspension; only the thread that invokes a method for the
\* request is. (ProcessRequest: "wait until the initiating thread has suspended
\* itself before processing messages from the debugger.")
EventSuspendsFirst ==
    processing_request => \A t \in Thread :
        pc[t] \in {"suspendVM", "lockVM", "assertVM", "suspendSelf"}
            => invoke_needed[t]

\* When InvokeMethod has run its method, the thread it ran in is back asleep
\* in SuspendByPolicy, ready for the next one, suspended by the debugger
\* exactly once as before ("to keep the books straight"); if all threads were
\* resumed for it, all are suspended again.
InvokeKeepsBooks ==
    /\ pc[Jdwp] = "balance" => debug_suspend_count[target] = 2
    /\ pc[Jdwp] = "balance" \/ (pc[Jdwp] = "enterReply"
                                   /\ request.kind = "InvokeSingle") =>
          /\ ready[target]
          /\ pc[target] \in {"clearToken", "asleep"}
          /\ ~invoke_needed[target]
    /\ pc[Jdwp] = "enterReply" /\ request.kind = "InvokeSingle"
          => debug_suspend_count[target] = 1
    /\ pc[Jdwp] = "balance" =>
          \A t \in list \ {Jdwp} : debug_suspend_count[t] > 0

\* Once the debugger has gone and its suspensions are undone, it suspends no
\* thread, nor one that attaches later. (jdwp_main.cc: "if we had threads
\* suspended, resume them now")
NoneLeftSuspended ==
    pc[Jdwp] = "idle" /\ ~active =>
        \A t \in list : debug_suspend_count[t] = 0

\* The debugger is answered: no wait of the JDWP thread (for the event token,
\* for threads to stop, for an invoked method to return, for a collection)
\* lasts for ever.
RequestsReturn == processing_request ~> ~processing_request
============================================================================
