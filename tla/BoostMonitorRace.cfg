SPECIFICATION Spec
CONSTANTS
  Conns = {c1}
  Users = {u1}
  IoThreads = 1
  Limit = 3
  Requests = {"heart"}
  MaxSent = 1
  Resets = FALSE
INVARIANTS MonitorNeverThrows
CHECK_DEADLOCK FALSE
