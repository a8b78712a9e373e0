----------------------------- MODULE MCServices -----------------------------
(***************************************************************************)
(* Seven components, instantiated for TLC: checkpoints, the rule for       *)
(* moving collections, class initialization, the thread pool, runtime      *)
(* shutdown, native libraries and the indirect reference table.  A         *)
(* behaviour is a behaviour of one of them; the variables of the others    *)
(* keep their initial values.                                              *)
(***************************************************************************)
EXTENDS Checkpoint, MovingGc, ThreadPool, ClassInitialization,
        RuntimeShutdown, NativeLibraries, IndirectReferenceTable, TLC

CONSTANTS Base, Derived, Helper, Library, Dependency

ASSUME RolesAssumption ==
    /\ Requester = Thread /\ Worker = Thread
    /\ Initializer = Loader /\ Initializer # {} /\ Initializer \subseteq Thread

VARIABLE component

allVars == <<component, checkpointVars, movingGcVars, poolVars, classInitVars,
             shutdownVars, nativeLibraryVars, tableVars>>

SuperOf == (Derived :> Base) @@ [c \in {Base, Helper} |-> None]

\* Both classes' initializers need Helper; or Derived's needs Helper, and
\* Base's its own subclass.
Tree == (Helper :> {}) @@ [c \in {Base, Derived} |-> {Helper}]
Cycle == Base :> {Derived} @@ Derived :> {Helper} @@ Helper :> {}
UsesOfClasses == {Tree, Cycle}

LoadsOf == Library :> {Library, Dependency} @@ Dependency :> {}

ServicesInit ==
    /\ component \in {"checkpoint", "gc", "pool", "classes", "shutdown",
                      "libraries", "table"}
    /\ CheckpointInit
    /\ component # "checkpoint" => cp_pc = [t \in Thread |-> "native"]
    /\ GcInit /\ (component # "gc" => collector_type = "CMS")
    /\ PoolInit
    /\ ClassesInit
    /\ component # "classes" =>
          uses = Tree /\ flaw = [c \in Class |-> "none"]
    /\ ShutdownInit /\ (component # "shutdown" => list = {})
    /\ LibrariesInit
    /\ TableInit /\ (component # "table" => kind = "local")

CheckpointOnly ==
    /\ component = "checkpoint"
    /\ UNCHANGED <<component, movingGcVars, poolVars, classInitVars, shutdownVars,
                   nativeLibraryVars, tableVars>>
GcOnly ==
    /\ component = "gc"
    /\ UNCHANGED <<component, checkpointVars, poolVars, classInitVars, shutdownVars,
                   nativeLibraryVars, tableVars>>
PoolOnly ==
    /\ component = "pool"
    /\ UNCHANGED <<component, checkpointVars, movingGcVars, classInitVars, shutdownVars,
                   nativeLibraryVars, tableVars>>
ClassesOnly ==
    /\ component = "classes"
    /\ UNCHANGED <<component, checkpointVars, movingGcVars, poolVars, shutdownVars,
                   nativeLibraryVars, tableVars>>
ShutdownOnly ==
    /\ component = "shutdown"
    /\ UNCHANGED <<component, checkpointVars, movingGcVars, poolVars, classInitVars,
                   nativeLibraryVars, tableVars>>
LibrariesOnly ==
    /\ component = "libraries"
    /\ UNCHANGED <<component, checkpointVars, movingGcVars, poolVars, classInitVars,
                   shutdownVars, tableVars>>
TableOnly ==
    /\ component = "table"
    /\ UNCHANGED <<component, checkpointVars, movingGcVars, poolVars, classInitVars,
                   shutdownVars, nativeLibraryVars>>

ServicesNext ==
    \/ CheckpointOnly /\ CheckpointNext
    \/ GcOnly /\ GcNext
    \/ PoolOnly /\ PoolNext
    \/ ClassesOnly /\ ClassesNext
    \/ ShutdownOnly /\ ShutdownNext
    \/ LibrariesOnly /\ LibrariesNext
    \/ TableOnly /\ TableNext

\* The fairness of each component's FairSpec: the components have their
\* threads in common.
ServicesFairness ==
    /\ \A t \in Thread :
          WF_allVars(\/ CheckpointOnly /\ RuntimeStep(t)
                     \/ GcOnly /\ GcThreadStep(t)
                     \/ PoolOnly /\ WorkerStep(t)
                     \/ ShutdownOnly /\ MustStep(t)
                     \/ /\ t \in Initializer
                        /\ \/ ClassesOnly /\ InitializerStep(t)
                           \/ LibrariesOnly /\ LoaderStep(t))
    /\ \A t \in Thread :
          WF_allVars(\/ CheckpointOnly /\ RequesterStep(t)
                     \/ PoolOnly /\ OwnerStep
                     \/ ShutdownOnly /\ DestroyerStep)
    /\ Settled

ServicesSpec == ServicesInit /\ [][ServicesNext]_allVars /\ ServicesFairness

----------------------------------------------------------------------------
\* A call into the component at work is in progress: a checkpoint, a wait for
\* a collection, the pool owner's Wait or destructor, InitializeClass,
\* ~Runtime, or LoadNativeLibrary.  The threads of MovingGc are
\* interchangeable, and so are those of ClassInitialization and
\* NativeLibraries: any one will do.
CallInProgress ==
    LET t == CHOOSE u \in Initializer : TRUE IN
    CASE component = "checkpoint" ->
             \E r \in Thread : Requesting(r)
      [] component = "gc" -> AwaitsGc(t)
      [] component = "pool" -> OwnerInCall
      [] component = "classes" -> MustReturn(t)
      [] component = "shutdown" -> ShuttingDown
      [] component = "libraries" -> Loading(t)
      [] component = "table" -> FALSE

\* Calls return.  Every checkpoint completes and its requester gets past the
\* barrier; no thread waits for ever for a collection (WaitForGcToComplete);
\* the owner of a pool is woken by the last worker to run out of work, however
\* few may be active, and can join the workers; threads that need a class,
\* whether its initialization fails or not, are woken, and do not block each
\* other where they lock a class and its superclass; shutdown misses neither
\* the end of the last birth nor the exit of the last thread that is no
\* daemon; and threads that wait for a library's JNI_OnLoad get its result.
CallsReturn == CallInProgress ~> ~CallInProgress
=============================================================================
