SPECIFICATION Spec
CONSTANTS
  h1 = h1
  h2 = h2
  e1 = e1
  e2 = e2
  Hosts <- OneHost
  Executions <- OneExecution
  MaxWaits = 2
  MaxLeads = 2
  MaxFaults = 0
CHECK_DEADLOCK FALSE
PROPERTY
  WaitsEnd
