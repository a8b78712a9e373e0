CONSTANTS
    Thread = {t1, t2, t3}
    NoThread = NoThread
    SpuriousCas = FALSE
SPECIFICATION FairSpec
INVARIANTS
    StateCountsHolders
PROPERTIES
    FreeLockIsTaken
