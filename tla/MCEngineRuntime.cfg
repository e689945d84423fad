SPECIFICATION RuntimeSpec
CONSTANTS
  Publishers <- TwoWorkers
  BatchSize = 3
  MaxPending = 4
  MaxEvents = 7
  MaxMessages = 3
CHECK_DEADLOCK FALSE
INVARIANTS
  HandedOnceInOrder
  QuietBeforeDraining
  LastEventsReachHost
PROPERTIES
  SilentOnceStopped
  RuntimeStops
  MessagesAreConsumed
  EveryEventLeaves
