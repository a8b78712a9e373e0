------------------------ MODULE ClassInitialization ------------------------
(***************************************************************************)
(* Class verification and initialization (ClassLinker::InitializeClass,    *)
(* WaitForInitializeClass and VerifyClass, Class::SetStatus): threads that *)
(* need a class initialized, the lock of each class, the status it goes    *)
(* through, and the static initializers, which run without the lock and    *)
(* may need other classes in turn.  The runtime, not the compiler, is      *)
(* modelled: verification is enabled and soft failures count as verified.  *)
(*                                                                         *)
(* A thread has a stack of calls.  What a call does from locking a class   *)
(* to its next call, wait or unlock is one step: a class's status only     *)
(* changes under its lock.                                                 *)
(***************************************************************************)
EXTENDS Integers, Sequences, Threads

CONSTANTS
    Initializer,  \* the threads that need classes
    Class,
    None,     \* no class
    Super,    \* Super[c]: c's superclass, or None
    Uses,     \* the uses that may be in effect: in each, u[c] is the set of
              \* classes that c's <clinit> needs initialized
    RacingFailures  \* whether a class may fail while a subclass is verified

ASSUME InitializerAssumption ==
    /\ Initializer \subseteq Thread
    /\ None \notin Class
    /\ Super \in [Class -> Class \cup {None}]
    /\ Uses \subseteq [Class -> SUBSET Class]

VARIABLES
    status,         \* Class::status_
    clinit_thread,  \* Class::clinit_thread_id_
    lock,           \* the thread that holds the class's lock
    uses,           \* which of Uses it is
    flaw,           \* what is wrong with the class, if anything
    stack,          \* the calls a thread is in, innermost first
    success,        \* what the thread's last call returned
    aborted,        \* a CHECK has failed
    clinit_runs     \* how often <clinit> was begun, counted to 2

classVars == <<status, clinit_thread, lock>>
inputVars == <<uses, flaw>>
classInitVars == <<classVars, inputVars, stack, success, aborted, clinit_runs>>

Flaw == {"none", "verify", "descriptors", "clinit"}

ClassesInit ==
    /\ status = [c \in Class |-> "Resolved"]
    /\ clinit_thread = [c \in Class |-> NoThread]
    /\ lock = [c \in Class |-> NoThread]
    /\ uses \in Uses
    /\ flaw \in {f \in [Class -> Flaw] :
                    \A c, d \in Class : f[c] # "none" /\ f[d] # "none" => c = d}
    /\ stack = [t \in Initializer |-> <<>>]
    /\ success = [t \in Initializer |-> TRUE]
    /\ aborted = FALSE
    /\ clinit_runs = [c \in Class |-> 0]

----------------------------------------------------------------------------
CallClass(op, c) == [op |-> op, class |-> c, pc |-> "begin", used |-> {}]

Top(t) == Head(stack[t])

AtStep(t, op, pc) ==
    /\ ~aborted /\ stack[t] # <<>>
    /\ Top(t).op = op /\ Top(t).pc = pc

\* The stacks once t's innermost call is at pc, has made a call, or has
\* returned.
GoTo(t, pc) == [stack EXCEPT ![t][1].pc = pc]

CallFrom(t, pc, op, c) ==
    [stack EXCEPT ![t] = <<CallClass(op, c), [@[1] EXCEPT !.pc = pc]>> \o Tail(@)]

ReturnFromClass(t) == [stack EXCEPT ![t] = Tail(@)]

Returned(t, ok) == success' = [success EXCEPT ![t] = ok]

IsVerified(c) == status[c] \in {"Verified", "Initializing", "Initialized"}

CanLock(c) == lock[c] = NoThread
Lock(t, c) == lock' = [lock EXCEPT ![c] = t]
Unlock(c) == lock' = [lock EXCEPT ![c] = NoThread]

\* NotifyAll: the threads that wait for c contend for its lock again.
Notify(stacks, c) ==
    [t \in Initializer |->
        IF /\ stacks[t] # <<>>
           /\ Head(stacks[t]).class = c /\ Head(stacks[t]).pc = "wait"
        THEN [stacks[t] EXCEPT ![1].pc = "woken"]
        ELSE stacks[t]]

\* Class::SetStatus, by a thread whose stacks are about to be the ones given.
SetStatus(c, new, stacks) ==
    /\ status' = [status EXCEPT ![c] = new]
    /\ stack' = Notify(stacks, c)

----------------------------------------------------------------------------
(* InitializeClass *)

\* Code calls EnsureInitialized.
EnsureInitialized(t, c) ==
    /\ ~aborted /\ stack[t] = <<>>
    /\ status[c] # "Initialized"
    /\ stack' = [stack EXCEPT ![t] = <<CallClass("init", c)>>]
    /\ UNCHANGED <<classVars, inputVars, success, aborted, clinit_runs>>

\* The check without the lock.
CheckInitialized(t) ==
    /\ AtStep(t, "init", "begin")
    /\ IF status[Top(t).class] = "Initialized"
       THEN stack' = ReturnFromClass(t) /\ Returned(t, TRUE)
       ELSE stack' = GoTo(t, "lock") /\ UNCHANGED success
    /\ UNCHANGED <<classVars, inputVars, aborted, clinit_runs>>

\* Take the lock and look again; verify the class if that has not been done.
LockClass(t) ==
    LET c == Top(t).class IN
    /\ AtStep(t, "init", "lock")
    /\ CanLock(c)
    /\ IF status[c] \in {"Initialized", "Error"}
       THEN /\ stack' = ReturnFromClass(t)
            /\ Returned(t, status[c] = "Initialized")
            /\ UNCHANGED lock
       ELSE /\ Lock(t, c)
            /\ stack' = IF IsVerified(c) THEN GoTo(t, "verified")
                        ELSE CallFrom(t, "verified", "verify", c)
            /\ UNCHANGED success
    /\ UNCHANGED <<status, clinit_thread, inputVars, aborted, clinit_runs>>

\* Mistaken variant: whoever finds the class kStatusInitializing goes on.
BeingInitialized_Anyone(t, c) == stack' = ReturnFromClass(t) /\ Returned(t, TRUE)

\* The class is kStatusInitializing: by this thread, which goes on, or by
\* another, which is waited for.
BeingInitialized(t, c) ==
    IF clinit_thread[c] = t
    THEN stack' = ReturnFromClass(t) /\ Returned(t, TRUE)
    ELSE stack' = GoTo(t, "wait") /\ UNCHANGED success

\* Unless RacingFailures, a class does not fail to be initialized while a
\* thread that verifies a subclass of it has released its lock already.
MayFail(c) ==
    \/ RacingFailures
    \/ \A t \in Initializer :
          stack[t] # <<>> =>
              ~ /\ Top(t).op = "verify" /\ Top(t).pc = "body"
                /\ Super[Top(t).class] = c

\* The class has been verified, or has failed to be (anything else fails a
\* CHECK); begin to initialize it.
BeginInitialization(t) ==
    LET c == Top(t).class IN
    /\ AtStep(t, "init", "verified")
    /\ \/ /\ status[c] \notin {"Initializing", "Verified"}
          /\ aborted' = (status[c] # "Error")
          /\ stack' = ReturnFromClass(t) /\ Returned(t, FALSE)
          /\ Unlock(c)
          /\ UNCHANGED <<status, clinit_thread>>
       \/ /\ status[c] = "Initializing"
          /\ BeingInitialized(t, c)
          /\ Unlock(c)
          /\ UNCHANGED <<status, clinit_thread, aborted>>
       \/ /\ status[c] = "Verified" /\ flaw[c] = "descriptors" /\ MayFail(c)
          /\ SetStatus(c, "Error", ReturnFromClass(t)) /\ Returned(t, FALSE)
          /\ Unlock(c)
          /\ UNCHANGED <<clinit_thread, aborted>>
       \/ /\ status[c] = "Verified" /\ flaw[c] # "descriptors"
          /\ clinit_thread' = [clinit_thread EXCEPT ![c] = t]
          /\ SetStatus(c, "Initializing", GoTo(t, "super"))
          /\ Unlock(c)
          /\ UNCHANGED <<success, aborted>>
    /\ UNCHANGED <<inputVars, clinit_runs>>

\* WaitForInitializeClass, from the return of the wait, which needs the lock.
WaitForInitializeClass(t) ==
    LET c == Top(t).class IN
    /\ AtStep(t, "init", "woken")
    /\ CanLock(c)
    /\ CASE status[c] = "Initializing" ->
                stack' = GoTo(t, "wait") /\ UNCHANGED <<success, aborted>>
         [] status[c] \in {"Error", "Initialized"} ->
                /\ stack' = ReturnFromClass(t)
                /\ Returned(t, status[c] = "Initialized")
                /\ UNCHANGED aborted
         [] OTHER -> aborted' = TRUE /\ UNCHANGED <<stack, success>>
    /\ UNCHANGED <<classVars, inputVars, clinit_runs>>

\* The wait returns for no reason, or because Java code notified the class.
InitializerWakesEarly(t) ==
    /\ AtStep(t, "init", "wait")
    /\ stack' = GoTo(t, "woken")
    /\ UNCHANGED <<classVars, inputVars, success, aborted, clinit_runs>>

\* <clinit> is about to run.
RunClinit(t, c) ==
    /\ stack' = GoTo(t, "clinit")
    /\ clinit_runs' = [clinit_runs EXCEPT ![c] = IF @ = 0 THEN 1 ELSE 2]

\* Initialize the superclass first.
InitializeSuper(t) ==
    LET c == Top(t).class IN
    /\ AtStep(t, "init", "super")
    /\ IF Super[c] = None \/ status[Super[c]] = "Initialized"
       THEN RunClinit(t, c)
       ELSE /\ stack' = CallFrom(t, "superDone", "init", Super[c])
            /\ UNCHANGED clinit_runs
    /\ UNCHANGED <<classVars, inputVars, success, aborted>>

SuperInitialized(t) ==
    LET c == Top(t).class IN
    /\ AtStep(t, "init", "superDone")
    /\ CASE success[t] -> RunClinit(t, c) /\ UNCHANGED aborted
         [] ~success[t] /\ status[Super[c]] = "Error" ->
                stack' = GoTo(t, "failed") /\ UNCHANGED <<aborted, clinit_runs>>
         [] OTHER -> aborted' = TRUE /\ UNCHANGED <<stack, clinit_runs>>
    /\ UNCHANGED <<classVars, inputVars, success>>

\* <clinit> needs another class; if that fails, so does <clinit>.
ClinitUses(t, u) ==
    LET f == Top(t) IN
    /\ AtStep(t, "init", "clinit")
    /\ u \in uses[f.class] \ f.used
    /\ stack' = [stack EXCEPT ![t] =
                    <<CallClass("init", u),
                      [f EXCEPT !.pc = "used", !.used = f.used \cup {u}]>> \o Tail(@)]
    /\ UNCHANGED <<classVars, inputVars, success, aborted, clinit_runs>>

ClinitGoesOn(t) ==
    /\ AtStep(t, "init", "used")
    /\ stack' = GoTo(t, IF success[t] THEN "clinit" ELSE "failed")
    /\ UNCHANGED <<classVars, inputVars, success, aborted, clinit_runs>>

ClinitReturns(t) ==
    LET f == Top(t) IN
    /\ AtStep(t, "init", "clinit")
    /\ f.used = uses[f.class]
    /\ stack' = GoTo(t, IF flaw[f.class] = "clinit" THEN "failed" ELSE "done")
    /\ UNCHANGED <<classVars, inputVars, success, aborted, clinit_runs>>

\* Lock the class again to set its final status.
FinishInitialization(t) ==
    LET c == Top(t).class
        ok == Top(t).pc = "done"
    IN  /\ AtStep(t, "init", "done") \/ AtStep(t, "init", "failed")
        /\ CanLock(c)
        /\ ok \/ MayFail(c)
        /\ SetStatus(c, IF ok THEN "Initialized" ELSE "Error", ReturnFromClass(t))
        /\ Returned(t, ok)
        /\ UNCHANGED <<lock, clinit_thread, inputVars, aborted, clinit_runs>>

----------------------------------------------------------------------------
(* VerifyClass: the caller holds the class's lock *)

BeginVerification(t) ==
    LET c == Top(t).class IN
    /\ AtStep(t, "verify", "begin")
    /\ CASE IsVerified(c) \/ status[c] = "Error" ->
                stack' = ReturnFromClass(t) /\ UNCHANGED <<status, aborted>>
         [] status[c] = "Resolved" ->
                SetStatus(c, "Verifying", GoTo(t, "super")) /\ UNCHANGED aborted
         [] OTHER -> aborted' = TRUE /\ UNCHANGED <<stack, status>>
    /\ UNCHANGED <<lock, clinit_thread, inputVars, success, clinit_runs>>

\* Mistaken variant: the superclass is not locked.
VerifySuper_NoLock(t) ==
    LET s == Super[Top(t).class] IN
    /\ AtStep(t, "verify", "super")
    /\ stack' = IF s = None THEN GoTo(t, "body")
                ELSE IF IsVerified(s) \/ status[s] = "Error"
                THEN GoTo(t, "superDone")
                ELSE CallFrom(t, "superDone", "verify", s)
    /\ UNCHANGED <<classVars, inputVars, success, aborted, clinit_runs>>

\* Lock the superclass, and verify it if that has not been done.
VerifySuper(t) ==
    LET s == Super[Top(t).class] IN
    /\ AtStep(t, "verify", "super")
    /\ IF s = None
       THEN stack' = GoTo(t, "body") /\ UNCHANGED lock
       ELSE /\ CanLock(s)
            /\ Lock(t, s)
            /\ stack' = IF IsVerified(s) \/ status[s] = "Error"
                        THEN GoTo(t, "superDone")
                        ELSE CallFrom(t, "superDone", "verify", s)
    /\ UNCHANGED <<status, clinit_thread, inputVars, success, aborted,
                   clinit_runs>>

\* A class with an erroneous superclass is rejected.  The superclass's lock is
\* released.
SuperVerified(t) ==
    LET c == Top(t).class IN
    /\ AtStep(t, "verify", "superDone")
    /\ Unlock(Super[c])
    /\ IF IsVerified(Super[c])
       THEN stack' = GoTo(t, "body") /\ UNCHANGED status
       ELSE SetStatus(c, "Error", ReturnFromClass(t))
    /\ UNCHANGED <<clinit_thread, inputVars, success, aborted, clinit_runs>>

\* The class itself; its superclass is looked at once more.
VerifyBody(t) ==
    LET c == Top(t).class IN
    /\ AtStep(t, "verify", "body")
    /\ CASE flaw[c] = "verify" ->
                SetStatus(c, "Error", ReturnFromClass(t)) /\ UNCHANGED aborted
         [] flaw[c] # "verify" /\ (Super[c] = None \/ IsVerified(Super[c])) ->
                SetStatus(c, "Verified", ReturnFromClass(t)) /\ UNCHANGED aborted
         [] OTHER -> aborted' = TRUE /\ UNCHANGED <<stack, status>>
    /\ UNCHANGED <<lock, clinit_thread, inputVars, success, clinit_runs>>

----------------------------------------------------------------------------
InitializerStep(t) ==
    \/ CheckInitialized(t) \/ LockClass(t) \/ BeginInitialization(t)
    \/ WaitForInitializeClass(t)
    \/ InitializeSuper(t) \/ SuperInitialized(t)
    \/ ClinitGoesOn(t) \/ ClinitReturns(t) \/ FinishInitialization(t)
    \/ BeginVerification(t) \/ VerifySuper(t) \/ SuperVerified(t)
    \/ VerifyBody(t)
    \/ \E u \in Class : ClinitUses(t, u)

ClassesNext ==
    \E t \in Initializer :
        \/ InitializerStep(t)
        \/ InitializerWakesEarly(t)
        \/ \E c \in Class : EnsureInitialized(t, c)

ClassesSpec == ClassesInit /\ [][ClassesNext]_classInitVars

ClassesFairness == \A t \in Initializer : WF_classInitVars(InitializerStep(t))

ClassesFairSpec == ClassesSpec /\ ClassesFairness

----------------------------------------------------------------------------
\* The class is initialized, or t is initializing it.
ReadyFor(t, c) ==
    \/ status[c] = "Initialized"
    \/ status[c] = "Initializing" /\ clinit_thread[c] = t

\* A static initializer runs at most once, in the thread that the class
\* records, after its superclass's; and where it has gone on after needing
\* another class, that class is initialized or is being initialized by the
\* same thread.  (The test in InitializeClass that is made without the lock,
\* the wait for another thread and the recursive call are the ways past it.)
ClinitRunsInOrder ==
    /\ \A c \in Class : clinit_runs[c] <= 1
    /\ \A t \in Initializer : \A i \in DOMAIN stack[t] :
          LET f == stack[t][i] IN
          f.op = "init" /\ f.pc = "clinit" =>
              /\ clinit_thread[f.class] = t
              /\ Super[f.class] # None => ReadyFor(t, Super[f.class])
              /\ \A u \in f.used : ReadyFor(t, u)

\* No CHECK of the class linker fails: a class's status is always one that the
\* code under its lock expects, and a superclass is not erroneous when the
\* class that was verified after it becomes verified.
ClassChecksHold == ~aborted

\* The classes that c's initialization needs.
Needs(c) == uses[c] \cup {s \in {Super[c]} : s # None}

\* No class needs itself, directly or through others.
NoCycle ==
    \A S \in (SUBSET Class) \ {{}} : \E c \in S : Needs(c) \cap S = {}

\* The thread is in a call that must return.  (Static initializers that need
\* each other in a cycle may block two threads for ever; the language allows
\* that.)
MustReturn(t) == NoCycle /\ stack[t] # <<>>
=============================================================================
