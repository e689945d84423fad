SPECIFICATION Spec
CONSTANTS
  e1 = e1
  e2 = e2
  e3 = e3
  Executions <- ThreeExecutions
  Limit = 1
  MaxRuns = 1
  Waiters = {}
  StopHits = {"queued"}
CHECK_DEADLOCK FALSE
INVARIANT
  LimitKept
