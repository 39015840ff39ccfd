CONSTANTS
  o1 = o1
  o2 = o2
  a1 = a1
  a2 = a2
  Clerks = {o1, o2}
  Thresholds = {0, 2, 3}
  XpRolls = {0, 2}
  Variations <- MCVariations
  BaseGold = 1
  XpPerGold = 2
  StartingPoints = 3
  Caps <- MCCaps
  Slack = 1
  Tools = {"bash", "kit", "rig"}
  Cost <- MCCost
  MinRank <- MCMinRank
  Essentials = {"bash"}
  FreeIssue = 2
  PaidIssue = 1
  BudgetCap = 2
  MaxPaid = 2
  SkillPointsPerRank = 1
  XpPerTask = 1
  GoldPerTask = 1
  MissionBonusXp = 1
  MissionBonusGold = 1
  MaxProficiency = 2
  RankFixed <- MCRankFixed
  Derived = 1
  Offices <- MCOffices
  MaxTasks = 1
  MaxXp = 3
  Tasks <- MCTasks
  Agents <- MCAgents
  Plans <- AllPlans
SPECIFICATION PartsSpec
INVARIANTS FailureEndsWithItsWave PaidForVerifiedWork PayrollSettles SerialConduct CompleteIfResolvable
INVARIANTS PointsMatchRank 
PROPERTIES  MissionEnds
\* The bounds are used up.
CHECK_DEADLOCK FALSE
