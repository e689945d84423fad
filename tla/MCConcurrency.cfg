SPECIFICATION FairSpec
CONSTANTS
  e1 = e1
  e2 = e2
  e3 = e3
  Executions <- TwoExecutions
  Limit = 1
  MaxRuns = 2
  Waiters <- OneExecution
  StopHits = {"queued", "starting", "running", "parking", "resting"}
CHECK_DEADLOCK FALSE
INVARIANTS
  CapacityConserved
  RunsHoldSlots
  SlotsComeBack
PROPERTIES
  NothingStartsInShutdown
  QueuedRunsStart
