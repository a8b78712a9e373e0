CONSTANTS
    Thread = {t1, t2, t3}
    NoThread = NoThread
    Recursive = TRUE
    SpuriousCas = FALSE
    MaxRecursion = 2
    MaxSignals = 1
SPECIFICATION FairSpec
INVARIANTS
    OwnerRecorded
    BroadcastReachesAll
PROPERTIES
    SignalNotLost
    FreeMutexIsTaken
