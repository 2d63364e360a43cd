SPECIFICATION Spec
CONSTANTS
  Conns = {c1, c2}
  Users = {u1}
  IoThreads = 2
  Limit = 2
  Requests = {"heart", "login"}
  MaxSent = 2
  Resets = TRUE
SYMMETRY ConnSymmetry
INVARIANTS TrackedSocketOpen EndedSessionReapable SessionThrowsOnlyAfterEviction
PROPERTIES NoResurrection EvictedOnlyIfSilent
CHECK_DEADLOCK FALSE
