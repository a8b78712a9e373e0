CONSTANTS
    Thread = {t1, t2, t3}
    NoThread = NoThread
    Requester = {t1, t2, t3}
    Dumper = {t1}
    Sampler = {t2}
    kMaxCheckpoints = 3
    MaxRounds = 1
    MaxGcs = 2
    Worker = {t1, t2, t3}
    MaxTasks = 4
    Initializer = {t1, t2}
    Class = {Base, Derived, Helper}
    None = NoClass
    Super <- SuperOf
    Uses <- UsesOfClasses
    Base = Base
    Derived = Derived
    Helper = Helper
    RacingFailures = FALSE
    Daemon = {t3}
    MaxBirths = 3
    Loader = {t1, t2}
    Path = {Library, Dependency}
    Loads <- LoadsOf
    NotLoaded = NotLoaded
    Library = Library
    Dependency = Dependency
    ClassLoader = {l1, l2}
    Object = {o1, o2, Cleared}
    Null = Null
    ClearedJniWeakGlobal = Cleared
    max_entries = 4
    kIRTPrevCount = 2
    MaxFrames = 2
SPECIFICATION ServicesSpec
INVARIANTS
    SubjectIsSuspended
    EveryThreadRanOnce
    CriticalArrayStays
    WaitMeansDone
    ClinitRunsInOrder
    ClassChecksHold
    ShutdownIsOrderly
    OnLoadDecides
    RefsResolve
PROPERTIES
    CallsReturn
CHECK_DEADLOCK FALSE
