----------------------------- MODULE ThreadPool -----------------------------
(***************************************************************************)
(* ThreadPool (runtime/thread_pool.cc): worker threads that share a queue  *)
(* of tasks, and the owner that fills it, starts and stops the workers,    *)
(* waits for the queue to be worked off and destroys the pool.  A task may *)
(* add further tasks, as the mark-sweep collector's do.                    *)
(*                                                                         *)
(* Everything between locking and unlocking task_queue_lock_ is one step.  *)
(* Tasks are counted, not named.  A worker asleep on                       *)
(* task_queue_condition_ wakes up because it was signalled or for no       *)
(* reason.                                                                 *)
(***************************************************************************)
EXTENDS Integers, FiniteSets

CONSTANTS
    Worker,
    MaxTasks  \* bound on the number of tasks added

ASSUME WorkerAssumption == IsFiniteSet(Worker)

VARIABLES
    tasks,          \* how many tasks tasks_ holds
    started,        \* started_
    pool_shutting_down,  \* shutting_down_
    waiting_count,  \* waiting_count_
    max_active_workers,  \* max_active_workers_
    added,          \* tasks added so far
    worker,         \* where each worker is
    owner           \* where the owner is

queueVars == <<tasks, started, pool_shutting_down, waiting_count,
               max_active_workers, added>>
poolVars == <<queueVars, worker, owner>>

\* ThreadPool's constructor returns when all workers have attached.
PoolInit ==
    /\ tasks = 0
    /\ started = FALSE
    /\ pool_shutting_down = FALSE
    /\ waiting_count = 0
    /\ max_active_workers = Cardinality(Worker)
    /\ added = 0
    /\ worker = [w \in Worker |-> "get"]
    /\ owner = "idle"

Asleep == {w \in Worker : worker[w] = "asleep"}

\* task_queue_condition_.Broadcast
WakeAll(workers) ==
    [w \in Worker |-> IF workers[w] = "asleep" THEN "woken" ELSE workers[w]]

\* AddTask: signal a worker if one waits.
AddTask ==
    /\ added < MaxTasks
    /\ added' = added + 1
    /\ tasks' = tasks + 1
    /\ IF started /\ waiting_count # 0 /\ Asleep # {}
       THEN \E w \in Asleep : worker' = [worker EXCEPT ![w] = "woken"]
       ELSE UNCHANGED worker
    /\ UNCHANGED <<started, pool_shutting_down, waiting_count, max_active_workers>>

----------------------------------------------------------------------------
(* The workers *)

TryGetTaskLocked == started /\ tasks > 0

\* completion_condition_.Broadcast
WakeOwner == owner' = IF owner = "waitAsleep" THEN "wait" ELSE owner

\* Mistaken variant: the worker looks before it counts itself.
IsLastToWait_NotCounted(waiting) ==
    waiting = Cardinality(Worker) /\ tasks = 0

\* The worker that goes to sleep when the others wait already finds nothing
\* left to do.
IsLastToWait(waiting) == waiting + 1 = Cardinality(Worker) /\ tasks = 0

\* GetTask, from its beginning or from the return of the condition's Wait: a
\* task, unless too many workers are active already; or else sleep, after
\* waking the owner if this was the last active worker and nothing is left to
\* do; or nullptr when the pool shuts down.
GetTask(w) ==
    LET waiting == IF worker[w] = "woken" THEN waiting_count - 1
                                          ELSE waiting_count
        active == Cardinality(Worker) - waiting
    IN  /\ worker[w] \in {"get", "woken"}
        /\ CASE pool_shutting_down ->
                    /\ worker' = [worker EXCEPT ![w] = "exited"]
                    /\ waiting_count' = waiting
                    /\ UNCHANGED <<tasks, owner>>
             [] ~pool_shutting_down /\ active <= max_active_workers
                               /\ TryGetTaskLocked ->
                    /\ worker' = [worker EXCEPT ![w] = "run"]
                    /\ waiting_count' = waiting
                    /\ tasks' = tasks - 1
                    /\ UNCHANGED owner
             [] OTHER ->
                    /\ worker' = [worker EXCEPT ![w] = "asleep"]
                    /\ waiting_count' = waiting + 1
                    /\ IF IsLastToWait(waiting)
                       THEN WakeOwner ELSE UNCHANGED owner
                    /\ UNCHANGED tasks
        /\ UNCHANGED <<started, pool_shutting_down, max_active_workers, added>>

\* ThreadPoolWorker::Run: the task ends, and the worker asks for the next.
RunTask(w) ==
    /\ worker[w] = "run"
    /\ worker' = [worker EXCEPT ![w] = "get"]
    /\ UNCHANGED <<queueVars, owner>>

TaskAddsTask(w) == worker[w] = "run" /\ AddTask /\ UNCHANGED owner

WorkerWakesEarly(w) ==
    /\ worker[w] = "asleep"
    /\ worker' = [worker EXCEPT ![w] = "woken"]
    /\ UNCHANGED <<queueVars, owner>>

----------------------------------------------------------------------------
(* The owner *)

OwnerAddsTask == owner \in {"idle", "ownTask"} /\ AddTask /\ UNCHANGED owner

SetMaxActiveWorkers(threads) ==
    /\ owner = "idle"
    /\ max_active_workers' = threads
    /\ UNCHANGED <<tasks, started, pool_shutting_down, waiting_count, added,
                   worker, owner>>

StartWorkers ==
    /\ owner = "idle"
    /\ started' = TRUE
    /\ worker' = WakeAll(worker)
    /\ UNCHANGED <<tasks, pool_shutting_down, waiting_count, max_active_workers,
                   added, owner>>

StopWorkers ==
    /\ owner = "idle"
    /\ started' = FALSE
    /\ UNCHANGED <<tasks, pool_shutting_down, waiting_count, max_active_workers,
                   added, worker, owner>>

\* The owner calls Wait once it has started the workers, with or without
\* do_work.
CallWait ==
    /\ owner = "idle" /\ started
    /\ owner' \in {"doWork", "wait"}
    /\ UNCHANGED <<queueVars, worker>>

\* Wait's do_work loop: TryGetTask, and run the task.
DoWork ==
    /\ owner = "doWork"
    /\ IF TryGetTaskLocked
       THEN tasks' = tasks - 1 /\ owner' = "ownTask"
       ELSE owner' = "wait" /\ UNCHANGED tasks
    /\ UNCHANGED <<started, pool_shutting_down, waiting_count, max_active_workers,
                   added, worker>>

RunOwnTask ==
    /\ owner = "ownTask"
    /\ owner' = "doWork"
    /\ UNCHANGED <<queueVars, worker>>

\* Mistaken variant: an empty queue is enough.
Wait_QueueOnly ==
    /\ owner = "wait"
    /\ owner' = IF ~pool_shutting_down /\ tasks # 0
                THEN "waitAsleep" ELSE "waited"
    /\ UNCHANGED <<queueVars, worker>>

\* Wait's second loop.
Wait ==
    /\ owner = "wait"
    /\ owner' = IF ~pool_shutting_down
                   /\ (waiting_count # Cardinality(Worker) \/ tasks # 0)
                THEN "waitAsleep" ELSE "waited"
    /\ UNCHANGED <<queueVars, worker>>

WaitReturns ==
    /\ owner = "waited"
    /\ owner' = "idle"
    /\ UNCHANGED <<queueVars, worker>>

\* ~ThreadPool tells the workers to shut down ...
PoolShutDown ==
    /\ owner = "idle"
    /\ pool_shutting_down' = TRUE
    /\ worker' = WakeAll(worker)
    /\ owner' = "join"
    /\ UNCHANGED <<tasks, started, waiting_count, max_active_workers, added>>

\* ... and joins them.
Join ==
    /\ owner = "join"
    /\ \A w \in Worker : worker[w] = "exited"
    /\ owner' = "gone"
    /\ UNCHANGED <<queueVars, worker>>

----------------------------------------------------------------------------
WorkerStep(w) == GetTask(w) \/ RunTask(w)

OwnerStep == DoWork \/ RunOwnTask \/ Wait \/ WaitReturns \/ Join

PoolNext ==
    \/ \E w \in Worker : WorkerStep(w) \/ TaskAddsTask(w) \/ WorkerWakesEarly(w)
    \/ OwnerStep
    \/ OwnerAddsTask
    \/ \E threads \in 1..Cardinality(Worker) : SetMaxActiveWorkers(threads)
    \/ StartWorkers \/ StopWorkers \/ CallWait \/ PoolShutDown

PoolSpec == PoolInit /\ [][PoolNext]_poolVars

\* Tasks end, and workers and owner go on with what they have begun.
PoolFairSpec ==
    PoolSpec /\ WF_poolVars(OwnerStep) /\ \A w \in Worker : WF_poolVars(WorkerStep(w))

----------------------------------------------------------------------------
\* When Wait returns, every task that was added has been finished: none is
\* queued, in a worker's hands, or with a worker that has been signalled for
\* it (thread_pool.h: "Wait for all tasks currently on queue to get
\* completed").
WaitMeansDone ==
    owner = "waited" => tasks = 0 /\ \A w \in Worker : worker[w] # "run"

\* The owner is in Wait or in the destructor.
OwnerInCall == owner \in {"doWork", "ownTask", "wait", "waitAsleep", "join"}
=============================================================================
