SPECIFICATION BillSpec
CONSTANTS
    j1 = j1
    k1 = k1
    w1 = w1
    w2 = w2
    r1 = r1
    s1 = s1
    NoJob = NoJob
    None = None
    Jobs <- OneJob
    Works <- OneWork
    Workers <- TwoWorkers
    Sweepers <- OneSweeper
    CrashPoints <- RunPoints
    FastWorks <- NoWork
    Requests <- OneRequest
    Payments <- NoPayment
    Webhooks <- NoPayment
    MaxAttempts = 1
    Offered = {"enqueue", "retry", "cancel"}
    MaxLeases = 3
    Prices = {1}
    PlanTokens = {2}
    Enforced = TRUE
    MaxEntries = 4
    Outages = TRUE
    PackTokens = 1
    GiftTokens = 0
    MaxPeriod = 1
SYMMETRY WorkerSymmetry
CHECK_DEADLOCK FALSE
INVARIANT
    ChargedForCompletion
