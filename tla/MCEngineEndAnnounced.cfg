SPECIFICATION Spec
CONSTANTS
  OutputSlots <- Slots
  Graphs <- OneFork
  TriggerPayloads <- OneEach
  ExecutorOutputs <- ItemOrNothing
  OrchWorkers = {o1}
  StepWorkers = {r1}
  Redeliver = FALSE
  Faults = {}
INVARIANTS
  EndAnnouncedLast
CHECK_DEADLOCK FALSE
