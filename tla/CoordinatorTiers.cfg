SPECIFICATION Spec
CONSTANTS
  FunctionId = {f}
  Generation = {1}
  PrimarySpecialization = {1}
  Specialization <- Fingerprints
  ArtifactBytes <- UnitSize
  MaxCodeBytes = 9
  MaxMetadataBytes = 9
  MaxBytes = 9
  SeparateLimits = FALSE
  ReclaimBudget = {9}
  MaxPins = 1
  Ineligible = {}
  OverLimit = {}
  CallGraph <- NoCalls
  Guard = {1, 2}
  Observed = {1, 2}
  Numeric = {1}
  SidePathFingerprint <- SmallFingerprint
  MaxAttempts = 2
  MaxQueueLen = 2
  StablePathExits = 1
  DemoteExits = 2
  CompilerMayMislabel = FALSE
  MaxClock = 2
  MaxAttemptId = 3
  MaxInstability = 2
CHECK_DEADLOCK FALSE
INVARIANTS
  PublishedCodeIsRunnable
  ActiveHasRequest
