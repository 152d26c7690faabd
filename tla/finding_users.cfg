SPECIFICATION Spec
CONSTANTS
  t1 = t1  s1 = s1  q1 = q1  alice = alice  ma = ma  mb = mb
  Item = {t1, s1, q1}
  Session = {s1}
  Parent <- MCParent
  User = {alice}
  Owner <- MCOwner
  Machine = {ma, mb}
  Of <- MCOf
  Size <- MCSize
  max_user_active_items = 2
  max_user_active_payload = 2
  retention = 2
  MaxTime = 1
  MaxCrashes = 0
  MaxUpdates = 1
  MayStraddle = TRUE
INVARIANTS CountersExact
CHECK_DEADLOCK FALSE
