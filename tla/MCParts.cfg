SPECIFICATION PartsSpec
CONSTANTS
    first = first
    second = second
    Admins <- Agents
    Checkers <- Agents
    Editors <- Agents
    Savers <- Agents
    Writers <- Agents
    Readers <- Agents
    Stories = {x, y}
    Users = {o, m}
    Founder = o
    Invites = {i}
    Nobody = Nobody
    MaxFailures = 4
    MaxQueued = 2
    Sites = {g, h}
    NoSite = NoSite
    Hosts = {g, h}
    Default = g
    NoKey = NoKey
    Languages = {fa}
    NoContainers = NoContainers
    MaxVersion = 3
    MaxReleases = 3
SYMMETRY Symmetry
INVARIANTS PartsInv HealthTold EffortAsAsked CacheCurrent ReleaseHolds
PROPERTIES MembersKept DecisionsKept SettingsKept
CHECK_DEADLOCK FALSE
