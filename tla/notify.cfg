SPECIFICATION Spec
CONSTANTS
  Subject = {s1, s2}
  NoSubject = NoSubject
  MaxNotifiers = 2
  MAX_NOTIFY_FAILS = 2
  MaxCrashes = 1
INVARIANTS
  InOrder
  RegisteredIsLoaded
PROPERTY
  EventIsHandled
CHECK_DEADLOCK FALSE
