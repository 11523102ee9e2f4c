SPECIFICATION BackgroundSpec
CONSTANTS
    j1 = j1
    k1 = k1
    w1 = w1
    w2 = w2
    r1 = r1
    s1 = s1
    NoJob = NoJob
    None = None
    Jobs <- OneJob
    Works <- OneWork
    Workers <- TwoWorkers
    Sweepers <- OneSweeper
    CrashPoints <- RunPoints
    FastWorks <- Nothing
    Requests <- OneRequest
    Payments <- Nothing
    Webhooks <- Nothing
    MaxAttempts = 3
    Offered = {"enqueue"}
    MaxLeases = 3
    Prices = {1}
    PlanTokens = {2}
    Enforced = TRUE
    MaxEntries = 4
    Outages = FALSE
    PackTokens = 1
    GiftTokens = 0
    MaxPeriod = 1
    Replicas = {q1, q2, q3}
    Tasks = {news, feeds}
    Punctual = {news}
    MayStop = {q1}
    Nobody = Nobody
    all = all
    mine = mine
    Items = {1, 2}
    Views = {all, mine}
    PerPage = 1
    NoItem = NoItem
    MaxPressed = 3
    MaxMoved = 1
INVARIANTS OneReplicaRuns
PROPERTIES JobsEnd BackgroundGoesOn
CHECK_DEADLOCK FALSE
