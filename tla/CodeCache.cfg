SPECIFICATION Spec
CONSTANTS
  FunctionId = {f, g}
  Generation = {1}
  Specialization = {1, 2}
  ArtifactBytes <- UnitSizes
  MaxCodeBytes = 3
  MaxMetadataBytes = 2
  MaxBytes = 5
  SeparateLimits = TRUE
  ReclaimBudget = {1, 9}
  MaxPins = 1
  Owner = {o1, o2}
  Code = {c1, c2, c3}
  States = 2
  Lens = {0, 1, 2}
  Limits = {3}
  HeapPages = 4
  MaxClones = 2
  MaxHandles = 1
SYMMETRY Symmetry
CHECK_DEADLOCK FALSE
INVARIANTS
  CodeInUseIsResident
  ChargeIsExact
  ChargeIsWithinLimits
  ReclaimableIsRequested
  MappedCodeIsApart
  QuotaBoundsMappedPages
PROPERTIES
  FailureEndsInstallation
  InvalidatedEvictedFirst
