SPECIFICATION Spec
CONSTANTS
  t1 = t1
  t2 = t2
  t3 = t3
  NoThread = NoThread
  Thread <- ThreeThreads
  Hash <- OneHash
  kThinLockMaxCount = 0
  MaxDepth = 1
  Unowned <- AllOwned
INVARIANTS
  MonitorOutlivesUsers
  NoStrandedContender
  SleeperIsReachable
SYMMETRY Symmetric
