SPECIFICATION Spec
CONSTANTS
  p1 = p1  p2 = p2  q1 = q1  s1 = s1  s2 = s2  u1 = u1  u2 = u2
  Task = {p1, p2, q1}
  Session = {s1}
  User = {u1, u2}
  Parent <- MCParent
  Owner <- MCOwner
  Project = Project
  NoSession = NoSession
  QueueSize = 2
  MaxCrashes = 0
  MaxShutdowns = 0
  MaxSuspensions = 1
  May <- MaySuspend
  JobReports = {"cancelled"}
INVARIANTS TypeOK SessionExclusive SlotCount NoLostWakeup SuspensionIsApplied JobsAccountedFor CancelReachesJob
CHECK_DEADLOCK FALSE
