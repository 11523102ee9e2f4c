----------------------------- MODULE JobBilling -----------------------------
(***************************************************************************)
(* The job queue and the wallet together: what a tenant is charged for the *)
(* jobs that run.                                                          *)
(*                                                                         *)
(* AutomationJobService calls BillingService in five places, each time     *)
(* after the statement that changed the row and in a transaction of its    *)
(* own: attachReservation reserves, complete commits, and fail,            *)
(* recoverStale and cancel release.  A step of the queue that awaits the   *)
(* wallet and the wallet's transaction are one action here; all other      *)
(* steps of either side interleave.                                        *)
(*                                                                         *)
(* A transaction may fail (Outages).  A reservation is then refused if     *)
(* billing is enforced and skipped if not.  A settlement is tried three    *)
(* times with a pause in between, in which everything else goes on, and    *)
(* then given up; a try that failed may have been committed all the same,  *)
(* its answer being what was lost.                                         *)
(***************************************************************************)
EXTENDS JobQueue

CONSTANTS Payments, Webhooks, Prices, PlanTokens, PackTokens, GiftTokens, Enforced,
          MaxEntries, MaxPeriod, None,
          Outages        \* transactions of the wallet may fail

ASSUME BillingAssumption == Outages \in BOOLEAN /\ Prices \subseteq Nat

VARIABLES wallet, entries, credits, payment, webhook, price, period,
          tries,         \* tries[c]: tries of the settlement of c that failed
          completions,   \* completions[j]: how often a handler completed job j
          unheard        \* unheard[j]: charges of j whose try failed, and was repeated

INSTANCE Wallet

tokenVars == <<wallet, entries, credits, payment, webhook, price, period>>
records   == <<completions, unheard>>
billVars  == <<queueVars, tokenVars, tries, records>>
-----------------------------------------------------------------------------
Callers == Workers \cup Requests \cup Sweepers

(* Whoever waits for a settlement. *)
AtSettlement(c) ==
    \/ c \in Workers /\ worker[c].at \in {"commit", "release"}
    \/ c \in Requests /\ request[c].at = "release"
    \/ c \in Sweepers /\ sweeper[c].releasing # NoJob

BillInit ==
    /\ QueueInit /\ WalletInit
    /\ tries = [c \in Callers |-> 0]
    /\ completions = [j \in Jobs |-> 0]
    /\ unheard = [j \in Jobs |-> 0]

Outage == Outages /\ UNCHANGED tokenVars

(* shadowReserve returns: the call goes on with the job. *)
ReserveOrSkip(j) ==
    \/ ReserveFree(j) \/ ReserveAgain(j)
    \/ Len(entries[j]) < MaxEntries /\ ReserveNew(j)
    \/ ~Enforced /\ Outage

BillAccepted(r) == /\ AttachAccepted(r)
                   /\ ReserveOrSkip(request[r].job)
                   /\ UNCHANGED <<tries, records>>

(* It throws BadRequestException. *)
RefuseReserve(j) == ReserveRefused(j) \/ (Enforced /\ Outage)

BillRefused(r) == /\ AttachRefused(r)
                  /\ RefuseReserve(request[r].job)
                  /\ UNCHANGED <<tries, records>>

(* settle: the try that ends the call, heard or the third, ...             *)
SettleOrGiveUp(c, j, type) ==
    /\ Settle(j, type) \/ (tries[c] = 2 /\ Outage)
    /\ tries' = [tries EXCEPT ![c] = 0]
    /\ UNCHANGED records

(* ... and one that is followed by another.                                *)
TryFails(c, j, type) ==
    /\ tries[c] < 2
    /\ tries' = [tries EXCEPT ![c] = @ + 1]
    /\ \/ Outage /\ UNCHANGED unheard
       \/ /\ Outages /\ HasOpen(j) /\ Settle(j, type)
          /\ unheard' = [unheard EXCEPT ![j] = IF type = "commit" THEN @ + 1 ELSE @]
    /\ UNCHANGED <<queueVars, completions>>

BillWorker(w) == /\ WorkerSettled(w)
                 /\ SettleOrGiveUp(w, worker[w].job, worker[w].at)

BillCancel(r) == /\ CancelReleased(r)
                 /\ SettleOrGiveUp(r, request[r].job, "release")

BillSweep(s) == /\ SweepReleased(s)
                /\ SettleOrGiveUp(s, sweeper[s].releasing, "release")

TryAgain ==
    \/ \E w \in Workers : /\ worker[w].at \in {"commit", "release"}
                          /\ TryFails(w, worker[w].job, worker[w].at)
    \/ \E r \in Requests : request[r].at = "release" /\ TryFails(r, request[r].job, "release")
    \/ \E s \in Sweepers : /\ sweeper[s].releasing # NoJob
                           /\ TryFails(s, sweeper[s].releasing, "release")

(* complete() changed the row of j. *)
Finishes(j) == job[j].status # "completed" /\ job'[j].status = "completed"

(* A process that stops at a settlement takes its tries with it. *)
QueueAlone ==
    /\ QueueStep
    /\ completions' = [j \in Jobs |-> IF Finishes(j) THEN completions[j] + 1 ELSE completions[j]]
    /\ tries' = [c \in Callers |-> IF AtSettlement(c)' THEN tries[c] ELSE 0]
    /\ UNCHANGED <<tokenVars, unheard>>

BillNext ==
    \/ QueueAlone
    \/ \E r \in Requests : BillAccepted(r) \/ BillRefused(r) \/ BillCancel(r)
    \/ \E w \in Workers : BillWorker(w)
    \/ \E s \in Sweepers : BillSweep(s)
    \/ TryAgain
    \/ Cashier /\ UNCHANGED <<queueVars, tries, records>>

BillSpec == BillInit /\ [][BillNext]_billVars

(* Fairness is that of the queue, with the wallet's answer to every call.  *)
BillFairness ==
    /\ \A r \in Requests : WF_billVars(
           \/ QueueAlone /\ RequestContinues(r)
           \/ BillAccepted(r) \/ BillRefused(r) \/ BillCancel(r))
    /\ \A w \in Workers : WF_billVars(QueueAlone /\ WorkerStep(w)) /\ WF_billVars(BillWorker(w))
    /\ \A s \in Sweepers : WF_billVars(
           (QueueAlone /\ (SweepRead(s) \/ SweepFail(s))) \/ BillSweep(s))
    /\ \A j \in Jobs : WF_billVars(QueueAlone /\ (BackoffEnds(j) \/ GrowStale(j)))
-----------------------------------------------------------------------------
Commits(j) == Cardinality({i \in 1..Len(entries[j]) : entries[j][i].type = "commit"})

(* A tenant pays for completed runs only: a commit is preceded by a        *)
(* completion of its own, also when a worker that lost its claim returns   *)
(* after the job was recovered, retried and reserved again, or when one    *)
(* job completes several times because it was retried.  The one exception  *)
(* is a charge that was made and not heard of: the next try charges the    *)
(* reservation a retry opened in the meantime, once for each such charge.  *)
ChargedForCompletion == \A j \in Jobs : Commits(j) <= completions[j] + unheard[j]

(* A reservation in use is never lost: once a handler works on a reserved  *)
(* job and no call is in the middle of changing it, the tokens are         *)
(* committed or released at last, however often handlers fail or stop.     *)
EventuallySettled ==
    \A j \in Jobs :
        /\ job[j].status = "running" /\ HasOpen(j)
        /\ \A r \in Requests : request[r].job # j
        ~> ~HasOpen(j)
=============================================================================
