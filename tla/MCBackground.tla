---------------------------- MODULE MCBackground ----------------------------
(***************************************************************************)
(* What has to go on in the background: a paid job until it ends, the      *)
(* maintenance of three replicas, and the list of the news page while      *)
(* nobody touches it, each explored while the others are as at the start   *)
(* (part).                                                                 *)
(***************************************************************************)
EXTENDS JobBilling, SchedulerLease, NewsList, TLC

CONSTANTS
    j1, k1, w1, w2, r1, s1,
    all, mine   \* filters of the list

VARIABLE part   \* the part whose behaviour this is

OneJob == {j1}
OneWork == {k1}          Nothing == {}
TwoWorkers == {w1, w2}
OneRequest == {r1}       OneSweeper == {s1}
RunPoints == {"reread", "run"}

jobs        == billVars
maintenance == <<lease, task, running, missed, stopped>>
page        == newsListVars

BackgroundInit ==
    /\ part \in {"jobs", "maintenance", "page"}
    /\ BillInit /\ Init /\ ListInit
    /\ part # "page" => filter = all /\ \A i \in Items : place[i] = all

BackgroundNext ==
    /\ UNCHANGED part
    /\ \/ part = "jobs" /\ BillNext /\ UNCHANGED <<maintenance, page>>
       \/ part = "maintenance" /\ Next /\ UNCHANGED <<jobs, page>>
       \/ part = "page" /\ ListNext /\ UNCHANGED <<jobs, maintenance>>

BackgroundSpec ==
    /\ BackgroundInit /\ [][BackgroundNext]_<<part, jobs, maintenance, page>>
    /\ \/ part = "jobs" /\ BillFairness
       \/ part = "maintenance" /\ LeaseFairness
       \/ part = "page" /\ ListFairness

(* A job ends, and what was reserved for it is settled.                    *)
JobsEnd == JobEnds /\ EventuallySettled

(* A replica that stops while it holds the lease is replaced: maintenance  *)
(* runs again and again as long as one replica is left.  And the list of   *)
(* the page comes to show what is on the server.                           *)
BackgroundGoesOn ==
    /\ part = "maintenance" => MaintenanceGoesOn
    /\ part = "page" => ListCatchesUp
=============================================================================
