SPECIFICATION MCFairSpec
CONSTANTS
  NoObject = NoObject
  Object <- Objects
  Reference <- References
  String <- Strings
  Mutator = {t1}
  ReferenceKinds = {"soft", "weak", "finalizer", "phantom"}
  GcTypes = {"sticky", "full"}
  Concurrent = {TRUE, FALSE}
  Address <- AddressOf
  PreemptedGet = FALSE
  MaxWork = 3
INVARIANTS
  ReachableIsAllocated
  WeaksAreValid
  GarbageIsFreed

  
