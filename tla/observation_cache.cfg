SPECIFICATION Spec
CONSTANTS
  t1 = t1  t2 = t2  s1 = s1  m1 = m1  m2 = m2
  Task = {t1, t2}
  Session = {s1}
  Machine = {m1, m2}
  Of <- MCOf
  time_limit <- MCTimeLimit
  Admin = {a1}
  Limit = {2}
  InitialLimit = 3
  MaxItems = 2
  MaxTime = 2
  MaxFaults = 1
  MayOverlap = TRUE
  MayStopSuspended = FALSE
INVARIANT CacheIsCurrent
CHECK_DEADLOCK FALSE
