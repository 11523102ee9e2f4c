SPECIFICATION FeedsSpec
CONSTANTS
    Tenants = {t, u}
    People = {p}
    Worker = Worker
    NoTenant = NoTenant
    MaxFaults = 0
PROPERTIES DecidedStays
CHECK_DEADLOCK FALSE
