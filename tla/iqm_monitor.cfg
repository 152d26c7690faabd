SPECIFICATION Spec
CONSTANTS
  n1 = n1  r1 = r1
  Task = {n1, r1}
  Resumable = {r1}
  NoTask = NoTask
  MayStop = TRUE
INVARIANTS ReportsAreInOrder EveryJobIsMonitored CancelIsNotLost
CHECK_DEADLOCK FALSE
