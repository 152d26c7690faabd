SPECIFICATION Spec
CONSTANTS
  User = {u1, u2}
  queue_size = 2
  TASK_AVERAGE_PLACEHOLDER = 2
  Weight = 2
  ExecTime = {1, 3}
  DecayBy = {1, 2}
  MaxQueue = 2
  MaxUsage = 9
SYMMETRY Symmetry
INVARIANTS
  EntryIsKept
  BoundedLag
CHECK_DEADLOCK FALSE
