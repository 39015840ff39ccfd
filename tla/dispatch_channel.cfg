CONSTANTS
  a1 = a1
  a2 = a2
  Tasks <- MCTasks
  Agents <- MCAgents
  Plans <- AcyclicPlans
SPECIFICATION Spec
INVARIANT ChannelCeiling
CHECK_DEADLOCK FALSE
