SPECIFICATION Spec
CONSTANTS
  a = a
  b = b
  c = c
  s1 = s1
  s2 = s2
  s3 = s3
  Keys <- StepKeys
  Plans <- OverlappingPlans
  Sessions <- ThreeSessions
SYMMETRY SessionSymmetry
INVARIANTS
  SweepLeavesNothing
PROPERTIES
  ImplementsStepTable
CHECK_DEADLOCK FALSE
