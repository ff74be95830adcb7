SPECIFICATION Spec
CONSTANTS
  FunctionId = {f, g}
  Generation = {1}
  PrimarySpecialization = {1}
  Specialization = {1}
  ArtifactBytes <- UnitSize
  MaxCodeBytes = 2
  MaxMetadataBytes = 2
  MaxBytes = 2
  SeparateLimits = FALSE
  ReclaimBudget = {9}
  MaxPins = 1
  Ineligible = {}
  OverLimit = {}
  CallGraph <- AllCalls
  Guard = {}
  Observed = {}
  Numeric = {}
  SidePathFingerprint <- SmallFingerprint
  MaxAttempts = 1
  MaxQueueLen = 1
  StablePathExits = 1
  DemoteExits = 2
  CompilerMayMislabel = TRUE
  MaxClock = 0
  MaxAttemptId = 4
  MaxInstability = 0
SYMMETRY Symmetry
CHECK_DEADLOCK FALSE
INVARIANTS
  PublishedCodeIsRunnable
  InstalledRestsOnValid
