------------------------- MODULE MCEngineStepStore -------------------------
EXTENDS EngineStepStore, TLC

CONSTANTS a, b, c, s1, s2, s3

StepKeys == {a, b, c}

\* Two planners that share a successor, and one that shares both in turn.
OverlappingPlans == {<<a, b>>, <<b, a>>, <<c>>}

ThreeSessions == {s1, s2, s3}

SessionSymmetry == Permutations(ThreeSessions)
=============================================================================
