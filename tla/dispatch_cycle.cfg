CONSTANTS
  a1 = a1
  a2 = a2
  Tasks <- MCTasks
  Agents <- MCAgents
  Plans <- StuckPlans
SPECIFICATION Spec
INVARIANT CompleteMeansAllTasks
CHECK_DEADLOCK FALSE
