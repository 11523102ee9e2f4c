SPECIFICATION QueueSpec
CONSTANTS
    j1 = j1
    j2 = j2
    k1 = k1
    w1 = w1
    w2 = w2
    r1 = r1
    r2 = r2
    s1 = s1
    NoJob = NoJob
    Jobs <- TwoJobs
    Works <- OneWork
    FastWorks <- FastWork
    Workers <- TwoWorkers
    Requests <- TwoRequests
    Sweepers <- OneSweeper
    MaxAttempts = 2
    Offered = {"enqueue", "revive", "retry", "retryAll", "cancel"}
    CrashPoints <- AllPoints
    MaxLeases = 2
SYMMETRY QueueSymmetry
INVARIANTS QueueInv
PROPERTIES OnlyHolderCompletes LivesOn
CHECK_DEADLOCK FALSE
