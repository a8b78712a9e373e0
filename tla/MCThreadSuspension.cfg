CONSTANTS
    Thread = {t1, t2, t3}
    None = None
    ThreadId = {1, 2, 3}
    Collector = {t1}
    Inflater = {t2, t3}
SPECIFICATION FairSpec
INVARIANTS
    WorldStopped
    CountsAreExact
    SuspendedThreadStays
    UniqueThreadIds
    NoSuspendCycle
PROPERTIES
    SuspendAllSucceeds
    EveryoneResumes
