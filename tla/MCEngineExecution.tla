------------------------- MODULE MCEngineExecution -------------------------
EXTENDS EngineExecution, EngineSampleGraphs

Slots == {0, 1}

Slot(n, slot) == [s \in Slots |-> IF s = slot THEN n ELSE NoData]
Both(n) == [s \in Slots |-> n]

ItemOrNothing == {NoOutputs, Slot(1, 0)}
OneEach == {Both(1)}

ShortGraphs == {Chain, BareLoop, Waiting}
OneFork == {Fork}
WorkedGraphs == {Diamond, Fork, Loop, LoopAndBranch}
OneOrTwoEach == {Slot(1, 0), Both(1), Both(2)}
=============================================================================
