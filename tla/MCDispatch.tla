----------------------------- MODULE MCDispatch -----------------------------
(***************************************************************************)
(* Plans for model-checking Dispatch: three tasks, two agents.             *)
(***************************************************************************)
EXTENDS Dispatch

CONSTANTS a1, a2

MCTasks  == 1..3
MCAgents == {a1, a2}

Graph(two, three) == <<{}, two, three>>

\* A plan of three tasks for a crew of both agents.
PlanOf(owner, deps, asked, channel) ==
  [list |-> MCTasks, owner |-> owner, deps |-> deps, known |-> {2},
   crew |-> MCAgents, asked |-> asked, channel |-> channel, tagged |-> TRUE]

Empty    == [PlanOf(<<a1, a2, a2>>, Graph({}, {}), 2, 0) EXCEPT !.list = {}]
Outsider == [PlanOf(<<a1, a2, a2>>, Graph({}, {1}), 2, 0)
               EXCEPT !.crew = {a1}, !.tagged = FALSE]

\* The templates: a fan-out, a fan-in, a chain; the channel narrower, wider
\* or without a limit.
AcyclicPlans ==
  { PlanOf(<<a1, a2, a1>>, Graph({}, {}), 2, 0),
    PlanOf(<<a1, a2, a1>>, Graph({}, {}), 2, 1),
    PlanOf(<<a1, a2, a1>>, Graph({}, {1, 2}), 2, 3),
    PlanOf(<<a1, a2, a2>>, Graph({1}, {2}), 2, 1),
    PlanOf(<<a1, a2, a2>>, Graph({}, {1}), 2, 1),
    Outsider, Empty }

\* A cycle behind a task that completes; a dependency that names no task.
StuckPlans ==
  { PlanOf(<<a1, a2, a2>>, Graph({3}, {2}), 2, 0),
    [PlanOf(<<a1, a2, a2>>, Graph({}, {2}), 2, 0) EXCEPT !.list = {1, 3}] }

AllPlans == AcyclicPlans \cup StuckPlans
=============================================================================
