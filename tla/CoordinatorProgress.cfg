SPECIFICATION FairSpec
CONSTANTS
  FunctionId = {f}
  Generation = {1, 2, 3}
  PrimarySpecialization = {1}
  Specialization = {1}
  ArtifactBytes <- UnitSize
  MaxCodeBytes = 9
  MaxMetadataBytes = 9
  MaxBytes = 9
  SeparateLimits = FALSE
  ReclaimBudget = {1}
  MaxPins = 1
  Ineligible <- ThirdGeneration
  OverLimit <- SecondGenerationOptimizing
  CallGraph <- NoCalls
  Guard = {}
  Observed = {}
  Numeric = {}
  SidePathFingerprint <- SmallFingerprint
  MaxAttempts = 1
  MaxQueueLen = 2
  StablePathExits = 1
  DemoteExits = 2
  CompilerMayMislabel = FALSE
  MaxClock = 0
  MaxAttemptId = 3
  MaxInstability = 0
CHECK_DEADLOCK FALSE
INVARIANTS
  RetiredIsInert
PROPERTIES
  RequestsAreDecided
  RetiredCodeIsReclaimed
