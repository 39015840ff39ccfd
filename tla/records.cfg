CONSTANTS
    p = p
    q = q
    b1 = b1
    b2 = b2
    s1 = s1
    s2 = s2
    Procs <- MCProcs
    Records <- MCRecords
    Slugs <- MCSlugs
    FirstRow = s1
    NPlaces = 2
    MaxIds = 2
    MaxOps = 3
    MaxMishaps = 2
    Tasks <- MCTasks
    NoTask = NoTask
    Known <- MCKnown
    Cap = 6
    MaxActs = 3
    MaxMessages = 1
    MaxAccidents = 1
    Agents = {a1, a2}
    Crues = {c1}
    StartGold = 1
    StartXp = 1
    Price = 1
    LevelCost = 1
    WageGold = 1
    WageXp = 1
    ScaledGold = 2
    MaxWrites = 3
    MaxMissions = 1
SPECIFICATION PartsSpec
SYMMETRY Symmetry
\* Operations and missions are used up.
CHECK_DEADLOCK FALSE
INVARIANTS NothingReverted   OneCopy RestrictAlone JsonIsTail LogsTell
 
