SPECIFICATION Spec
CONSTANTS
    Networks = {tg, fb}
    Senders = {s1, s2}
    Editors = {ed}
    MaxAttempts = 1
    Faults = {"image", "settings", "refused", "unanswered", "database", "delete", "crash"}
    MaxFaults = 1
    Nobody = Nobody
    NoNet = NoNet
SYMMETRY Interchangeable
INVARIANTS OneAutomaticSender OnceUnlessLost
CHECK_DEADLOCK FALSE
