SPECIFICATION FairSpec
CONSTANTS
    Requests = {a}
    Asked = {"translate", "publish"}
    Inline = {TRUE, FALSE}
    Workers = {w}
    Automated = {"prepare", "social"}
    People = {"reject", "restore", "update"}
    MaxAttempts = 1
    Faults = {"service", "lookup", "unanswered", "reread", "crash"}
    MaxFaults = 1
    Nobody = Nobody
INVARIANTS NewsInv OnePost
PROPERTIES EndsStay NeverStuck
CHECK_DEADLOCK FALSE
