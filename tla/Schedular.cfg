SPECIFICATION FairSpec
CONSTANTS
  Task = {t1, t2}
  Thread = {w1, w2}
  Stub = Stub
  Null = Null
CHECK_DEADLOCK FALSE
INVARIANTS
  TasksLiveAsLongAsUsed
  PoppedIsQueued
PROPERTIES
  SchedularImplementsTaskQueue
