SPECIFICATION Spec
CONSTANTS
  h1 = h1
  h2 = h2
  h3 = h3
  Hosts <- ThreeHosts
  Ttl = 3
  MaxFaults = 3
INVARIANTS
  LeaseHoldsKey
PROPERTIES
  LeaseIsKept
  Recovers
