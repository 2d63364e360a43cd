SPECIFICATION Spec
CONSTANTS
  c1 = c1
  c2 = c2
  u1 = u1
  Users = {u1}
  Conns <- MCConns
  None = None
  MaxFd = 1
  MaxEvents = 2
  Limit = 1
  Script <- MCScript
  MaxTasks = 2
INVARIANTS TaskKeepsConnection OneTaskPerConnection NoLostEvent EntryMatchesConnection StreamHasConnection
  WorkerThrowsOnlyAfterEviction
CHECK_DEADLOCK FALSE
