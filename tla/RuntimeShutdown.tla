--------------------------- MODULE RuntimeShutdown ---------------------------
(***************************************************************************)
(* The end of the runtime against the beginning and the end of threads:    *)
(* ~Runtime with StartThreadBirth and EndThreadBirth (runtime/runtime.cc), *)
(* Thread::CreateNativeThread, CreateCallback and Attach                   *)
(* (runtime/thread.cc), and of ThreadList (runtime/thread_list.cc)         *)
(* Register, Unregister, the destructor, WaitForOtherNonDaemonThreadsToExit*)
(* and SuspendAllDaemonThreads.                                            *)
(*                                                                         *)
(* Everything under runtime_shutdown_lock_ or thread_list_lock_ is one     *)
(* step.  A wait on a condition variable ends when it is signalled or for  *)
(* no reason.  The other parts of ~Runtime, Thread::Destroy and the thread *)
(* ids are not modelled here.                                              *)
(***************************************************************************)
EXTENDS Integers, FiniteSets, Threads

CONSTANTS
    Daemon,     \* the threads that attach as daemons
    MaxBirths   \* bound on the number of births

VARIABLES
    threads_being_born,     \* threads_being_born_
    shutting_down_started,  \* shutting_down_started_
    shutting_down,          \* shutting_down_
    list,                   \* ThreadList::list_, less the destroying thread
    daemon_suspend_count,          \* the daemons SuspendAllDaemonThreads suspends
    births,                 \* births so far
    child,                  \* the thread each thread is about to create
    rt_pc,                     \* where each thread is
    destroyer               \* where the thread that destroys the runtime is

runtimeVars == <<threads_being_born, shutting_down_started, shutting_down>>
listVars == <<list, daemon_suspend_count>>
shutdownVars == <<runtimeVars, listVars, births, child, rt_pc, destroyer>>

\* The threads that exist at first have attached.
ShutdownInit ==
    /\ threads_being_born = 0
    /\ shutting_down_started = FALSE /\ shutting_down = FALSE
    /\ list \in SUBSET Thread
    /\ daemon_suspend_count = [t \in Thread |-> 0]
    /\ births = 0
    /\ child = [t \in Thread |-> NoThread]
    /\ rt_pc = [t \in Thread |-> IF t \in list THEN "run" ELSE "none"]
    /\ destroyer = "running"

RtGoto(t, label) == rt_pc' = [rt_pc EXCEPT ![t] = label]

\* SuspendAllDaemonThreads keeps thread_list_lock_ while it waits for the
\* daemons.
ListIsFree == destroyer # "awaitDaemons"

----------------------------------------------------------------------------
(* Births *)

\* The broadcast of EndThreadBirth, with the count it has left.
WakeIfLast(born) ==
    destroyer' = IF /\ destroyer = "birthsAsleep"
                    /\ shutting_down_started /\ born = 0
                 THEN "births" ELSE destroyer

EndThreadBirth ==
    /\ threads_being_born' = threads_being_born - 1
    /\ WakeIfLast(threads_being_born')
    /\ UNCHANGED <<shutting_down_started, shutting_down>>

\* c does not exist yet, and nobody is about to create it.
Unborn(c) == rt_pc[c] = "none" /\ \A t \in Thread : child[t] # c

\* CreateNativeThread: the birth begins, unless the runtime is shutting down
\* (then the caller gets an InternalError).
StartThreadBirth(t, c) ==
    /\ rt_pc[t] = "run" /\ Unborn(c) /\ births < MaxBirths
    /\ ~shutting_down
    /\ threads_being_born' = threads_being_born + 1
    /\ births' = births + 1
    /\ child' = [child EXCEPT ![t] = c]
    /\ RtGoto(t, "create")
    /\ UNCHANGED <<shutting_down_started, shutting_down, listVars, destroyer>>

\* pthread_create succeeds ...
PthreadCreate(t) ==
    /\ rt_pc[t] = "create"
    /\ rt_pc' = [rt_pc EXCEPT ![t] = "run", ![child[t]] = "callback"]
    /\ child' = [child EXCEPT ![t] = NoThread]
    /\ UNCHANGED <<runtimeVars, listVars, births, destroyer>>

\* ... or fails, and the birth is over.
PthreadCreateFails(t) ==
    /\ rt_pc[t] = "create"
    /\ RtGoto(t, "run")
    /\ child' = [child EXCEPT ![t] = NoThread]
    /\ EndThreadBirth
    /\ UNCHANGED <<listVars, births>>

\* CreateCallback: Init, which registers the thread, and the end of the birth.
CreateCallback(c) ==
    /\ rt_pc[c] = "callback" /\ ListIsFree
    /\ list' = list \cup {c}
    /\ RtGoto(c, "run")
    /\ EndThreadBirth
    /\ UNCHANGED <<daemon_suspend_count, births, child>>

\* Mistaken variant: attaching is no birth.
Attach_Unchecked(c) ==
    /\ Unborn(c) /\ births < MaxBirths /\ ListIsFree
    /\ destroyer # "gone"
    /\ list' = list \cup {c}
    /\ births' = births + 1
    /\ RtGoto(c, "run")
    /\ UNCHANGED <<runtimeVars, daemon_suspend_count, child, destroyer>>

\* Attach: beginning, Init and end of the birth under the lock, unless the
\* runtime is shutting down.
Attach(c) ==
    /\ Unborn(c) /\ births < MaxBirths /\ ListIsFree
    /\ ~shutting_down
    /\ list' = list \cup {c}
    /\ births' = births + 1
    /\ RtGoto(c, "run")
    /\ WakeIfLast(threads_being_born)
    /\ UNCHANGED <<runtimeVars, daemon_suspend_count, child>>

----------------------------------------------------------------------------
(* Unregister *)

\* The thread's run method has returned, or native code detaches it.
CallUnregister(t) ==
    /\ rt_pc[t] = "run"
    /\ RtGoto(t, "unregister")
    /\ UNCHANGED <<runtimeVars, listVars, births, child, destroyer>>

\* The thread leaves the list, unless it is to be suspended: then it tries
\* again.
RemoveFromList(t) ==
    /\ rt_pc[t] = "unregister" /\ ListIsFree
    /\ daemon_suspend_count[t] = 0
    /\ list' = list \ {t}
    /\ RtGoto(t, "removed")
    /\ UNCHANGED <<runtimeVars, daemon_suspend_count, births, child, destroyer>>

\* thread_exit_cond_.Signal.  The native thread may attach again.
SignalExit(t) ==
    /\ rt_pc[t] = "removed" /\ ListIsFree
    /\ RtGoto(t, "none")
    /\ destroyer' = IF destroyer = "exitsAsleep" THEN "exits" ELSE destroyer
    /\ UNCHANGED <<runtimeVars, listVars, births, child>>

----------------------------------------------------------------------------
(* ~Runtime *)

\* Births may still begin while the destroyer waits for others to end.
StartShutdown ==
    /\ destroyer = "running"
    /\ shutting_down_started' = TRUE
    /\ destroyer' = "births"
    /\ UNCHANGED <<threads_being_born, shutting_down, listVars, births, child, rt_pc>>

WaitForBirths ==
    /\ destroyer = "births"
    /\ IF threads_being_born > 0
       THEN destroyer' = "birthsAsleep" /\ UNCHANGED shutting_down
       ELSE destroyer' = "exits" /\ shutting_down' = TRUE
    /\ UNCHANGED <<threads_being_born, shutting_down_started, listVars, births,
                   child, rt_pc>>

\* ~ThreadList detaches the destroying thread (not in list here) and waits
\* for the threads that are no daemons: WaitForOtherNonDaemonThreadsToExit.
WaitForOtherNonDaemonThreadsToExit ==
    /\ destroyer = "exits"
    /\ destroyer' = IF list \subseteq Daemon THEN "suspendDaemons" ELSE "exitsAsleep"
    /\ UNCHANGED <<runtimeVars, listVars, births, child, rt_pc>>

\* SuspendAllDaemonThreads: raise the counts ...
SuspendAllDaemonThreads ==
    /\ destroyer = "suspendDaemons"
    /\ daemon_suspend_count' = [t \in Thread |->
                            daemon_suspend_count[t] + IF t \in list THEN 1 ELSE 0]
    /\ destroyer' = "awaitDaemons"
    /\ UNCHANGED <<runtimeVars, list, births, child, rt_pc>>

\* ... and give the daemons time to stop, ten times at most, whether they do
\* or not.  The thread list is deleted.
DeleteThreadList ==
    /\ destroyer = "awaitDaemons"
    /\ destroyer' = "gone"
    /\ UNCHANGED <<runtimeVars, listVars, births, child, rt_pc>>

DestroyerWakesEarly ==
    /\ destroyer \in {"birthsAsleep", "exitsAsleep"}
    /\ destroyer' = IF destroyer = "birthsAsleep" THEN "births" ELSE "exits"
    /\ UNCHANGED <<runtimeVars, listVars, births, child, rt_pc>>

----------------------------------------------------------------------------
RuntimeThreadStep(t) ==
    \/ PthreadCreate(t) \/ PthreadCreateFails(t)
    \/ CreateCallback(t)
    \/ RemoveFromList(t) \/ SignalExit(t)

DestroyerStep ==
    \/ WaitForBirths \/ WaitForOtherNonDaemonThreadsToExit
    \/ SuspendAllDaemonThreads \/ DeleteThreadList

ShutdownNext ==
    \/ \E t \in Thread : RuntimeThreadStep(t) \/ Attach(t) \/ CallUnregister(t)
    \/ \E t, c \in Thread : StartThreadBirth(t, c)
    \/ StartShutdown \/ DestroyerStep \/ DestroyerWakesEarly

ShutdownSpec == ShutdownInit /\ [][ShutdownNext]_shutdownVars

\* Threads and destroyer go on with what they have begun, and threads that are
\* no daemons end.
MustStep(t) == RuntimeThreadStep(t) \/ (t \notin Daemon /\ CallUnregister(t))

ShutdownFairSpec ==
    ShutdownSpec /\ WF_shutdownVars(DestroyerStep) /\ \A t \in Thread : WF_shutdownVars(MustStep(t))

----------------------------------------------------------------------------
\* The CHECKs of shutdown and what they are for.  No thread comes to life
\* after births were said to be over (CreateCallback, thread.cc:160;
\* thread_list.cc:858), and when the thread list is deleted every thread that
\* has not left it is a daemon that was told to suspend.
ShutdownIsOrderly ==
    /\ shutting_down =>
          /\ threads_being_born = 0
          /\ \A t \in Thread : rt_pc[t] \notin {"create", "callback"}
    /\ destroyer \in {"awaitDaemons", "gone"} =>
          \A t \in Thread :
             \/ rt_pc[t] \in {"none", "removed"}
             \/ t \in Daemon /\ daemon_suspend_count[t] > 0

\* ~Runtime is at work.
ShuttingDown == destroyer \notin {"running", "gone"}
==============================================================================
