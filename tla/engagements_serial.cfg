CONSTANTS
  strict = strict
  shared = shared
  other = other
  Operators = {o1}
  Agents = {a1, a2}
  Projects = {strict, shared, other}
  Cap <- MCCap
  MaxCycles <- MCMaxCycles
  Forces = {FALSE, TRUE}
  MaxRounds = 2
  MaxRows = 2
  MaxJournal = 2
SPECIFICATION Spec
INVARIANTS
  SwarmingMeansOut
  WithinCap
  
PROPERTY ReleasedIsHistory
CHECK_DEADLOCK FALSE
