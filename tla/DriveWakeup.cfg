SPECIFICATION FairSpec
CONSTANTS
  Task = {t1}
  With = {w1}
  Idle = {}
  Drive = drive
  Owner = {o1}
  Nobody = Nobody
  MaxJobs = 1
CHECK_DEADLOCK FALSE
PROPERTY DriveServesTasks
