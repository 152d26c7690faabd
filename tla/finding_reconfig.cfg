SPECIFICATION ReconfigSpec
CONSTANTS
  p1 = p1  q1 = q1  s1 = s1  u1 = u1
  Task = {p1, q1}
  Session = {s1}
  User = {u1}
  Parent <- MCParent
  Owner <- MCOwner
  Project = Project
  NoSession = NoSession
  QueueSize = 2
  MaxCrashes = 0
  MaxShutdowns = 0
  MaxSuspensions = 0
  May <- MCMayAll
  JobReports = {"cancelled"}
  MaxAdmins = 1
  MaySuspend = {}
INVARIANT CancelFindsItsTask
CHECK_DEADLOCK FALSE
