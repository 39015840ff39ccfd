CONSTANTS
    ann = ann
    bob = bob
    cid = cid
    dot = dot
    admin = admin
    c0 = c0
    c1 = c1
    r0 = r0
    r1 = r1
    r2 = r2
    kit = kit
    lamp = lamp
    Agents <- MCAgents
    ArchetypeOf <- MCArchetypeOf
    Instruction <- MCInstruction
    Base <- MCBase
    Blocks <- MCBlocks
    Depot <- MCDepot
    Core <- MCCore
    NoProfile = NoProfile
    Capabilities <- MCCapabilities
    Unknown = {"telepathy"}
    Requires <- MCRequires
    HarnessTools <- MCHarnessTools
    Hazard <- MCHazard
    Ceilings <- MCCeilings
    ToolTransports = {"chat"}
    Rows <- MCRows
    NoDepot = NoDepot
    Profiles <- MCProfiles
    NoProfileNamed = "none"
    NoProvider = NoProvider
    Entries <- MCEntries
    Root = "work"
    Parent <- MCParent
    Kind <- MCKind
    Target <- MCTarget
    Skipped = {"git"}
    Binary = {}
    Large = {}
    Nowhere = "nowhere"
    NoPath = "none"
    Entrances = {"cli", "tui"}
    Forms <- MCForms
    Configs <- MCConfigs
    Syndicate <- MCSyndicate
    Records <- MCRecords
    Addresses <- MCAddresses
    DefaultAddress <- MCDefaultAddress
    Ranks = {4}
    Paths = {"none", "note", "link", "git"}
    Names = {"Read", "LS", "Glob", "Grep", "Edit"}
    Roster <- MCRoster
    Bookings <- MCBookings
    Nobody = Nobody
    Worth <- MCWorth
    Violations <- MCViolations
    Penalty = 3
    Experience <- MCExperience
    DefaultTools <- MCDefaultTools
    WorkTools <- MCWorkTools
    MaxMissions = 2
    MaxEdits = 1
    MaxLooks = 1
    MaxCalls = 1
SPECIFICATION Spec
\* The missions are used up.
CHECK_DEADLOCK FALSE
INVARIANTS BriefingBinds OnlyRolesDrift ServedWithinOrders CrewQualified
