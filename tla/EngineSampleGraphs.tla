------------------------ MODULE EngineSampleGraphs ------------------------
(***************************************************************************)
(* Workflow graphs for model checking the engine, written with two edge    *)
(* constructors, and the families of small graphs a run enumerates.        *)
(***************************************************************************)
EXTENDS Integers, FiniteSets, FiniteSetsExt

Forward(from, out, to, in) ==
  [from |-> from, to |-> to, out |-> out, in |-> in, back |-> FALSE]

Return(from, out, to) ==
  [from |-> from, to |-> to, out |-> out, in |-> 0, back |-> TRUE]

\* A graph whose node "t" is the trigger, whose nodes in batches run a loop of
\* the given size, and whose nodes in waits have a type nothing executes.
Graph(nodes, batches, size, waits, edges) ==
  [ kind  |-> [n \in nodes |-> IF n = "t" THEN "trigger"
                               ELSE IF n \in batches THEN "batch"
                               ELSE IF n \in waits THEN "wait" ELSE "v1-node"],
    batch |-> [n \in nodes |-> IF n \in batches THEN size ELSE 0],
    edges |-> edges ]

Chain == Graph({"t", "a", "b"}, {}, 0, {},
           {Forward("t", 0, "a", 0), Forward("a", 0, "b", 0)})

\* Two branches that meet again, each on a slot of its own.
Diamond == Graph({"t", "a", "b", "c"}, {}, 0, {},
             {Forward("t", 0, "a", 0), Forward("t", 1, "b", 0),
              Forward("a", 0, "c", 0), Forward("b", 0, "c", 1)})

\* Two branches that never meet.
Fork == Graph({"t", "a", "b"}, {}, 0, {},
          {Forward("t", 0, "a", 0), Forward("t", 1, "b", 0)})

\* A loop over one body node, with a node after it.
Loop == Graph({"t", "l", "a", "b"}, {"l"}, 1, {},
          {Forward("t", 0, "l", 0), Forward("l", 1, "a", 0), Return("a", 0, "l"),
           Forward("l", 0, "b", 0)})

\* A loop next to a branch that joins it afterwards.
LoopAndBranch == Graph({"t", "l", "a", "b", "c"}, {"l"}, 1, {},
                   {Forward("t", 0, "l", 0), Forward("l", 1, "a", 0), Return("a", 0, "l"),
                    Forward("l", 0, "b", 0), Forward("t", 1, "c", 0), Forward("c", 0, "b", 1)})

\* A body that forks and joins again.
WideLoop == Graph({"t", "l", "a", "b", "c"}, {"l"}, 1, {},
              {Forward("t", 0, "l", 0), Forward("l", 1, "a", 0), Forward("l", 1, "b", 0),
               Forward("a", 0, "c", 0), Forward("b", 0, "c", 1), Return("c", 0, "l")})

\* One loop whose result feeds another.
TwoLoops == Graph({"t", "l", "a", "m", "b"}, {"l", "m"}, 2, {},
              {Forward("t", 0, "l", 0), Forward("l", 1, "a", 0), Return("a", 0, "l"),
               Forward("l", 0, "m", 0), Forward("m", 1, "b", 0), Return("b", 0, "m")})

\* A loop with an empty body.
SelfLoop == Graph({"t", "l", "b"}, {"l"}, 1, {},
              {Forward("t", 0, "l", 0), Return("l", 1, "l"), Forward("l", 0, "b", 0)})

\* The shortest loop: an empty body and nothing after it.
BareLoop == Graph({"t", "l"}, {"l"}, 1, {},
              {Forward("t", 0, "l", 0), Return("l", 1, "l")})

\* A node of a type the engine has no executor for.
Waiting == Graph({"t", "a", "w"}, {}, 0, {"w"},
             {Forward("t", 0, "a", 0), Forward("t", 1, "w", 0)})
=============================================================================
