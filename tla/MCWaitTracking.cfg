SPECIFICATION Spec
CONSTANTS
  h1 = h1
  h2 = h2
  e1 = e1
  e2 = e2
  Hosts <- TwoHosts
  Executions <- OneExecution
  MaxWaits = 3
  MaxLeads = 1
  MaxFaults = 1
CHECK_DEADLOCK FALSE
INVARIANTS
  ResumedOnce
PROPERTY
  WaitsEnd
