SPECIFICATION FairSpec
CONSTANTS
    Networks = {tg, fb}
    Senders = {s1, s2}
    Editors = {}
    MaxAttempts = 3
    Faults = {"image", "settings", "refused", "unanswered", "database", "delete", "crash"}
    MaxFaults = 2
    Nobody = Nobody
    NoNet = NoNet
PROPERTIES EventuallySent
CHECK_DEADLOCK FALSE
