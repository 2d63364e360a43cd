SPECIFICATION FairSpec
CONSTANTS
  Conns = {c1, c2}
  Users = {u1}
  IoThreads = 1
  Limit = 1
  Requests = {"post", "half"}
  MaxSent = 1
  Resets = TRUE
PROPERTIES GoneClientReaped ClosedSessionEnds
CHECK_DEADLOCK FALSE
