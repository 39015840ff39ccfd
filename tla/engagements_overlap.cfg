CONSTANTS
  strict = strict
  shared = shared
  other = other
  Operators = {o1, o2}
  Agents = {a1}
  Projects = {strict}
  Cap <- MCCap
  MaxCycles <- MCMaxCycles
  Forces = {FALSE}
  MaxRounds = 1
  MaxRows = 1
  MaxJournal = 1
SPECIFICATION Spec
INVARIANT CyclesSerialize
CHECK_DEADLOCK FALSE
