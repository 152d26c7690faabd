SPECIFICATION Spec
CONSTANTS
  p1 = p1  p2 = p2  q1 = q1  s1 = s1  s2 = s2  u1 = u1  u2 = u2
  Task = {p1, q1}
  Session = {s1}
  User = {u1, u2}
  Parent <- MCParent
  Owner <- MCOwner
  Project = Project
  NoSession = NoSession
  QueueSize = 2
  MaxCrashes = 1
  MaxShutdowns = 1
  MaxSuspensions = 0
  May <- MayAll
  JobReports = {"finished", "cancelled"}
INVARIANTS Placed RowsAgree RequestsInMemory
PROPERTIES ReportedOnce RecordedJobIsNotRepeated ImplementsTaskOutcome
CHECK_DEADLOCK FALSE
