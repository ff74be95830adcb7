CONSTANTS
  f1 = f1
  f2 = f2
  Caller = f1
  Callee = f2
  Function = {f1, f2}
  MaxSpecialized = 1
  Loads <- MCLoads
  Interval = 2
  MaxRejections = 2
  ElementSamples = 1
  NoRetry = 100
  MaxLosses = 1
  Identity = {i1, i2, i3}
  Layout = {l1, l2}
  PolymorphicLimit = 2
  MaxShapeVersion = 6
  MaxU64 = 9999
  Profiles <- MCProfiles
  TrialWindow = 2
  TrialRuns = 2
  Elapsed = {0, 4, 5, 40}
  MaxRuns = 3
SPECIFICATION MCSpec
CHECK_DEADLOCK FALSE
INVARIANTS
  ShortcutsLoseNothing
  SpecializationsFitEveryEvent
  OptimizePays
PROPERTIES
  VersionTracksLiveFeedback
  ShapeVersionIsExact
  LossMeansEveryRunWasSlow
  CandidateIsQueued
