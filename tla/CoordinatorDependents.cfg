SPECIFICATION Spec
CONSTANTS
  FunctionId = {f, g}
  Generation = {1}
  PrimarySpecialization = {1}
  Specialization = {1}
  ArtifactBytes <- UnitSize
  MaxCodeBytes = 9
  MaxMetadataBytes = 9
  MaxBytes = 9
  SeparateLimits = FALSE
  ReclaimBudget = {9}
  MaxPins = 1
  Ineligible = {}
  OverLimit = {}
  CallGraph <- AllCalls
  Guard = {}
  Observed = {}
  Numeric = {}
  SidePathFingerprint <- SmallFingerprint
  MaxAttempts = 1
  MaxQueueLen = 2
  StablePathExits = 1
  DemoteExits = 2
  CompilerMayMislabel = FALSE
  MaxClock = 0
  MaxAttemptId = 4
  MaxInstability = 0
CHECK_DEADLOCK FALSE
INVARIANTS
  InstalledRestsOnUnretired
