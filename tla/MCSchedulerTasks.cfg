SPECIFICATION FairSpec
CONSTANTS
  h1 = h1
  h2 = h2
  t1 = t1
  Tasks <- OneTask
  Hosts <- TwoHosts
  Deadlined <- OneTask
  Removable <- OneTask
  MaxAttempts = 2
  MaxOutages = 1
CHECK_DEADLOCK FALSE
INVARIANTS
  DispatchedNeverFailed
PROPERTIES
  OncePerLease
  LiveLeaseIsLeftAlone
  ImplementsLifecycle
  EveryTaskEnds
