SPECIFICATION FairSpec
CONSTANTS
  Slots = {s1, s2, s3}
  MinNum = 1
  Change = 2
  Tasks = {t1, t2, t3, t4}
  NoTask = NoTask
INVARIANTS CountersExact TaskAccounting NobodyWaitsInJoin
PROPERTIES
  NoDetachAfterShutdown ImplementsTaskExecutor
  DestructionEnds QueuedTaskStartsOrPoolShrinks
CHECK_DEADLOCK FALSE
