SPECIFICATION FairSpec
CONSTANTS
  OutputSlots <- Slots
  Graphs <- CheckedGraphs
  TriggerPayloads <- Payloads
  ExecutorOutputs <- NodeOutputs
  Faults = {"fail"}
INVARIANTS
  FatesJustified
  PassesInOrder
  EveryItemHandedOut
  CountIsExact
  CompletedIsComplete
  RunningStepsCanRead
PROPERTIES
  AdmittedExecutionsEnd
CHECK_DEADLOCK FALSE
