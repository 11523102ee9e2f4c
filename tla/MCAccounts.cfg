SPECIFICATION AccountsSpec
CONSTANTS
    a = a
    b = b
    p1 = p1
    None = None
    Jobs <- Two
    Webhooks <- Two
    Tabs <- Two
    Payments <- OnePayment
    Prices = {0, 2}
    PlanTokens = {1, 2}
    PackTokens = 2
    GiftTokens = 1
    Enforced = TRUE
    MaxEntries = 3
    MaxPeriod = 2
    LockAt = 2
    MaxTokens = 3
    MaxLinks = 1
    MaxFaults = 1
SYMMETRY Symmetry
INVARIANTS AccountsInv Balanced Solvent CreditedOnce
PROPERTIES KeepsAccount EndedHolds
CHECK_DEADLOCK FALSE
