SPECIFICATION Spec
CONSTANTS
  Args <- MCArgs
  Views <- MCViews
  Bytes = {2}
  None = None
  MaxTime = 2
  MaxNs = 5
  Threshold = 1
  MinUsages = {1, 2}
  PageSize = 1
INVARIANTS
  DataFlowIsTrue
  TimelinesAreTrue
  EntityListIsExact
  StatisticsCountTasks
  
CHECK_DEADLOCK FALSE
