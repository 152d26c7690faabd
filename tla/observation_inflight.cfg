SPECIFICATION Spec
CONSTANTS
  t1 = t1  t2 = t2  s1 = s1  m1 = m1  m2 = m2
  Task = {t1, t2}
  Session = {}
  Machine = {m1, m2}
  Of <- MCOf
  time_limit <- MCTimeLimit
  Admin = {}
  Limit = {2}
  InitialLimit = 3
  MaxItems = 2
  MaxTime = 1
  MaxFaults = 2
  MayOverlap = FALSE
  MayStopSuspended = TRUE
INVARIANT InFlightIsRunning
CHECK_DEADLOCK FALSE
