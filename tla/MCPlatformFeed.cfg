SPECIFICATION FairFeedsSpec
CONSTANTS
    Tenants = {t, u}
    People = {p}
    Worker = Worker
    NoTenant = NoTenant
    MaxFaults = 1
INVARIANTS PlatformTypeOK
PROPERTIES OnlySubscribers StoriesArrive
CHECK_DEADLOCK FALSE
