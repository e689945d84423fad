SPECIFICATION Spec
CONSTANTS
  OutputSlots <- Slots
  Graphs <- ShortGraphs
  TriggerPayloads <- OneEach
  ExecutorOutputs <- ItemOrNothing
  OrchWorkers = {o1, o2}
  StepWorkers = {r1, r2}
  Redeliver = TRUE
  Faults = {"fail", "throw", "crash"}
INVARIANTS
  OneRunner
PROPERTIES
  ImplementsDataflow
CHECK_DEADLOCK FALSE
