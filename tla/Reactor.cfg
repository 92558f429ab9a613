SPECIFICATION RSpec
CONSTANTS
  MaxEntries = 2
  MaxNow = 2
  MaxRuns = 2
  PerSecond = 2
  Delays = {0, 1}
  SkipThreshold = 0
  Workers = {v, w}
  MaxTasks = 2
  MaxWork = 2
INVARIANTS
  RTypeOK
CHECK_DEADLOCK FALSE
PROPERTIES
  LeavesRunOrLate
  RunsInDeadlineOrder
  EntriesServed
  StartsInOrder
  TasksStart
  StopReturns
  EntriesPostToLivePool
