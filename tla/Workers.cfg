SPECIFICATION FairSpec
CONSTANTS
  Job = {1, 2, 3, 4}
  NoJob = NoJob
  Worker = {w1, w2}
  SnapshotBytes <- OwnBytes
  InlineBytes <- UnitBytes
  IrFactor = 2
  MaxSnapshotBytes = 3
  MaxIrBytes = 6
  MaxPendingJobs = 1
  MaxCompletions = 1
  DrainBudget = 2
  Reclaimable = 1
CHECK_DEADLOCK FALSE
INVARIANTS
  UsageIsExact
  PendingCoversChannel
PROPERTIES
  WorkersImplementService
  RequestsAreDecided
  ShutdownCompletes
