SPECIFICATION FairSpec
CONSTANTS
  Task = {t1}
  With = {w1}
  Idle = {i1}
  Drive = drive
  Owner = {o1, o2}
  Nobody = Nobody
  MaxJobs = 1
CHECK_DEADLOCK FALSE
PROPERTIES
  ContextIsFreedOnce
  IdleLeavesNothing
  WokenFutureServesTasks
  WithCompletes
