SPECIFICATION FairSpec
CONSTANTS
  n1 = n1  r1 = r1
  Task = {n1}
  Resumable = {}
  NoTask = NoTask
  MayStop = FALSE
PROPERTIES EndIsReported CancelEndsJob
CHECK_DEADLOCK FALSE
