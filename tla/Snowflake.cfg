SPECIFICATION FairIdSpec
CONSTANTS
  Threads = {u1, u2}
  Twepoch = 1
  StampSize = 8
  NodeSize = 2
  Node = 0
  SeqSize = 2
  FirstClock = 2
  MaxClock = 6
  MaxIssued = 5
  MaxBack = 2
  MaxRestarts = 1
INVARIANTS IncreasingIds
PROPERTIES CallReturns
CHECK_DEADLOCK FALSE
