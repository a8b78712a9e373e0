SPECIFICATION MCSpec
CONSTANTS
  NoObject = NoObject
  Object <- Objects
  Reference <- References
  String <- Strings
  Mutator = {t1}
  ReferenceKinds = {"soft", "weak", "finalizer", "phantom"}
  GcTypes = {"sticky", "full"}
  Concurrent = {TRUE}
  Address <- AddressOf
  PreemptedGet = TRUE
  MaxWork = 2
INVARIANTS
  FastPathIsSafe
