SPECIFICATION FairSpec
CONSTANTS
  t1 = t1
  t2 = t2
  t3 = t3
  NoThread = NoThread
  Thread <- TwoThreads
  Hash <- TwoHashes
  kThinLockMaxCount = 1
  MaxDepth = 3
  Unowned <- Waits
INVARIANTS
    NoCheckFails
    PlainStoreIsSafe
PROPERTIES
    ImplementsJavaMonitor
    
    WokenWaiterProceeds
