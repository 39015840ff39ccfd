CONSTANTS
    x1 = x1
    x2 = x2
    y1 = y1
    y2 = y2
    z1 = z1
    z2 = z2
    z3 = z3
    g = g
    Procs = {"p", "q"}
    Tasks <- MCTasks
    Home <- MCHome
    Clerks <- MCClerks
    Hosts <- First
    Keys <- Second
    NoKey = NoKey
    Policies = {"tofu"}
    Permissions = {{"read"}, {"read", "write", "deploy"}}
    MaxConns = 2
    MaxMishaps = 1
    MaxAudit = 2
    MaxBatch = 2
    MaxJobs = 2
    Agents <- First
    Nobody = Nobody
    MaxPairs = 3
    MaxMixups = 2
    Passphrases = {"x", "y"}
    Creds <- First
    MaxMasters = 2
    MaxChanges = 1
    MaxCrashes = 2
    Names <- Second
    Places <- First
    Groups = {g}
    MaxIds = 2
    MaxOps = 4
    MaxFaults = 2
SPECIFICATION PartsSpec
SYMMETRY Symmetry
\* Jobs, keys and commands are used up.
CHECK_DEADLOCK FALSE
INVARIANTS FirstKeyKept OneLinkPerHost AuditComplete
INVARIANTS BadgesBacked  
 
 
INVARIANTS ReceiptsBacked LitterExplained
