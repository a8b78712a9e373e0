CONSTANTS
    Thread = {t1, t2}
    Collector = {t2}
    EventThread = {t1, t2}
    Jdwp = jdwp
    NoThread = NoThread
    MaxDebugSuspends = 1
    MaxCollections = 1
    Races = {}
SPECIFICATION FairSpec
INVARIANTS
    PartsAreExact
    NoCheckFails
    InvokeKeepsBooks
    

    
