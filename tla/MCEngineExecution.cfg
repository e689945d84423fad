SPECIFICATION FairSpec
CONSTANTS
  OutputSlots <- Slots
  Graphs <- WorkedGraphs
  TriggerPayloads <- OneOrTwoEach
  ExecutorOutputs <- ItemOrNothing
  OrchWorkers = {o1, o2}
  StepWorkers = {r1, r2}
  Redeliver = FALSE
  Faults = {"fail"}
INVARIANTS
  MessagesNameRows
  EventsTruthful
  NoWorkLost
PROPERTIES
  SettledImmutable
  FailFast
  ImplementsDataflow
  ExecutionEnds
CHECK_DEADLOCK FALSE
