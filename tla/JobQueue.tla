------------------------------ MODULE JobQueue ------------------------------
(***************************************************************************)
(* The durable job queue of one tenant: AutomationJobService and the parts *)
(* of PublishingAutomationProcessor that drive it.                         *)
(*                                                                         *)
(* A job is a row of the table AutomationJob.  One database statement is   *)
(* one action; between two statements of the same call the caller holds    *)
(* only what it has read, and other callers may change the row.  Callers   *)
(* are requests (API handlers and automation scans that enqueue, retry or  *)
(* cancel), workers (a claimed job being handled) and sweepers (the minute *)
(* maintenance that recovers stale claims).                                *)
(*                                                                         *)
(* Time is left out of the state but for what the code asks of it: whether *)
(* availableAt has been reached (due), and whether lockedAt is older than  *)
(* the stale timeout (stale).  A lease, the unique lockId of a claim, is a *)
(* number; 0 stands for null.                                              *)
(***************************************************************************)
EXTENDS Naturals, FiniteSets

CONSTANTS
    Jobs,          \* row ids
    Works,         \* (type, dedupeKey) pairs: the piece of work a job does
    FastWorks,     \* those whose type runs on the Redis fast lane
    Workers,       \* concurrent handlers of all replicas
    Requests,      \* concurrent calls of enqueue, retry, retryAllDead, cancel
    Sweepers,      \* replicas running recoverStale
    MaxAttempts,   \* maxAttempts of every job
    Offered,       \* the calls requests make
    CrashPoints,   \* where a process may stop for good
    MaxLeases,     \* bound: claims in a behaviour
    NoJob          \* no row in hand

Calls  == {"enqueue", "revive", "retry", "retryAll", "cancel"}
Points == {"reread", "run", "commit", "release", "request", "sweep"}

ASSUME QueueAssumption ==
    /\ MaxAttempts \in Nat \ {0}
    /\ MaxLeases \in Nat
    /\ FastWorks \subseteq Works
    /\ Offered \subseteq Calls
    /\ CrashPoints \subseteq Points
    /\ NoJob \notin Jobs

VARIABLES
    job,       \* job[j]: the row
    leases,    \* number of leases handed out so far
    worker,    \* worker[w]: local variables of a handler
    request,   \* request[r]: local variables of a call
    sweeper    \* sweeper[s]: the stale rows recoverStale still has to fail

queueVars == <<job, leases, worker, request, sweeper>>
-----------------------------------------------------------------------------
(* Rows and local states *)

Status == {"absent", "queued", "running", "completed", "dead", "cancelled", "pruned"}
Row == [status   : Status,
        work     : Works \cup {NoJob},
        keyed    : BOOLEAN,      \* dedupeKey is not null
        attempts : Nat,
        due      : BOOLEAN,      \* availableAt <= now
        lease    : Nat,          \* lockedBy
        stale    : BOOLEAN,      \* lockedAt is older than the timeout
        done     : BOOLEAN]      \* completedAt is not null

AbsentRow == [status |-> "absent", work |-> NoJob, keyed |-> FALSE, attempts |-> 0,
              due |-> FALSE, lease |-> 0, stale |-> FALSE, done |-> FALSE]

(* What a worker keeps: the job, the lease it wrote (mine), and the lease  *)
(* and attempt count of the row it read back.                              *)
WorkerState == [at : {"idle", "reread", "run", "commit", "release"},
                job : Jobs \cup {NoJob}, mine : Nat, lease : Nat, attempts : Nat]
IdleWorker == [at |-> "idle", job |-> NoJob, mine |-> 0, lease |-> 0, attempts |-> 0]

RequestState == [at : {"idle", "reset", "create", "retry", "retryAll", "loop",
                       "reserve", "refuse", "release"},
                 job : Jobs \cup {NoJob}, work : Works \cup {NoJob},
                 todo : SUBSET Jobs]
IdleRequest == [at |-> "idle", job |-> NoJob, work |-> NoJob, todo |-> {}]

Snapshot == [job : Jobs, lease : Nat, attempts : Nat]
SweepState == [todo : SUBSET Snapshot, releasing : Jobs \cup {NoJob}]
IdleSweep == [todo |-> {}, releasing |-> NoJob]

IsRow(j)  == job[j].status \notin {"absent", "pruned"}
HasKey(j, k) == IsRow(j) /\ job[j].keyed /\ job[j].work = k

(* What the statements of the service write into a row. *)
Created(k) == [AbsentRow EXCEPT !.status = "queued", !.work = k, !.keyed = TRUE, !.due = TRUE]

(* Mistakes a later change could make, each used to show that a property   *)
(* can fail.  A reset that forgets the attempts.                           *)
RequeuedKeepsAttempts(row) == [row EXCEPT !.status = "queued", !.due = TRUE,
                                          !.lease = 0, !.stale = FALSE, !.done = FALSE]

Requeued(row) == [row EXCEPT !.status = "queued", !.attempts = 0, !.due = TRUE,
                             !.lease = 0, !.stale = FALSE, !.done = FALSE]

(* A lock that names the process and not the claim. *)
ClaimedByProcess(row, lease) == [row EXCEPT !.status = "running", !.attempts = @ + 1,
                                            !.lease = 1, !.stale = FALSE]

Claimed(row, lease) == [row EXCEPT !.status = "running", !.attempts = @ + 1,
                                   !.lease = lease, !.stale = FALSE]

(* A completion that leaves the lock in the row. *)
CompletedKeepsLock(row) == [row EXCEPT !.status = "completed", !.keyed = FALSE, !.done = TRUE]

Completed(row) == [row EXCEPT !.status = "completed", !.keyed = FALSE, !.done = TRUE,
                              !.lease = 0, !.stale = FALSE]

Cancelled(row) == [row EXCEPT !.status = "cancelled", !.keyed = FALSE, !.done = TRUE,
                              !.lease = 0, !.stale = FALSE]

(* By attachReservation: the lock, if there is one, and completedAt stay.  *)
Refused(row) == [row EXCEPT !.status = "cancelled", !.keyed = FALSE]

(* By fail: the status follows from the error and from the attempt count   *)
(* its caller has read.  The job of an article or feed that is gone        *)
(* (NotFoundException) is cancelled and never retried.                     *)
Errors == {"gone", "failed"}

Verdict(attempts, error) == IF error = "gone" THEN "cancelled"
                            ELSE IF attempts >= MaxAttempts THEN "dead" ELSE "queued"

(* A failure that leaves the lock in the row. *)
FailedKeepsLock(row, verdict) == [row EXCEPT !.status = verdict,
                                             !.due  = (verdict # "queued"),
                                             !.done = (verdict # "queued"),
                                             !.keyed = @ /\ (verdict # "cancelled")]

Failed(row, verdict) == [row EXCEPT !.status = verdict,
                                    !.due  = (verdict # "queued"),
                                    !.done = (verdict # "queued"),
                                    !.keyed = @ /\ (verdict # "cancelled"),
                                    !.lease = 0, !.stale = FALSE]

PrunedRow == [AbsentRow EXCEPT !.status = "pruned"]

SetJob(j, row) == job' = [job EXCEPT ![j] = row]
-----------------------------------------------------------------------------
QueueInit ==
    /\ job = [j \in Jobs |-> AbsentRow]
    /\ leases = 0
    /\ worker = [w \in Workers |-> IdleWorker]
    /\ request = [r \in Requests |-> IdleRequest]
    /\ sweeper = [s \in Sweepers |-> IdleSweep]

(* Requests *)

Goto(r, at, j, k, todo) ==
    request' = [request EXCEPT ![r] = [at |-> at, job |-> j, work |-> k, todo |-> todo]]
Return(r) == request' = [request EXCEPT ![r] = IdleRequest]

(* enqueue: the first read.  A live row of the same key ends the call; a   *)
(* dead one is reset if the caller asked for it (retryDead).               *)
EnqueueNew(r, k) ==
    /\ request[r].at = "idle"
    /\ Offered \cap {"enqueue", "revive"} # {}
    /\ ~\E j \in Jobs : HasKey(j, k) /\ job[j].status \in {"queued", "running", "dead"}
    /\ Goto(r, "create", NoJob, k, {})
    /\ UNCHANGED <<job, leases, worker, sweeper>>

EnqueueRevive(r, j) ==
    /\ request[r].at = "idle"
    /\ "revive" \in Offered
    /\ job[j].status = "dead" /\ job[j].keyed
    /\ Goto(r, "reset", j, NoJob, {})
    /\ UNCHANGED <<job, leases, worker, sweeper>>

(* A reset that does not ask whether it matched. *)
ResetDeadUnchecked(r) ==
    LET j == request[r].job IN
    /\ request[r].at = "reset"
    /\ IF job[j].status = "dead"
       THEN SetJob(j, Requeued(job[j])) /\ Goto(r, "reserve", j, NoJob, {})
       ELSE UNCHANGED job /\ Goto(r, "reserve", NoJob, NoJob, {})
    /\ UNCHANGED <<leases, worker, sweeper>>

(* The conditional reset; when it matches nothing another caller was first *)
(* and its row is returned as it is.                                       *)
ResetDead(r) ==
    LET j == request[r].job IN
    /\ request[r].at = "reset"
    /\ IF job[j].status = "dead"
       THEN SetJob(j, Requeued(job[j])) /\ Goto(r, "reserve", j, NoJob, {})
       ELSE UNCHANGED job /\ Return(r)
    /\ UNCHANGED <<leases, worker, sweeper>>

(* The insert; the unique index turns a second row of the key into P2002,  *)
(* and the existing row is returned.                                       *)
CreateRow(r) ==
    LET k == request[r].work IN
    /\ request[r].at = "create"
    /\ \/ /\ \E j \in Jobs : HasKey(j, k)
          /\ UNCHANGED job /\ Return(r)
       \/ /\ ~\E j \in Jobs : HasKey(j, k)
          /\ \E j \in Jobs :
                /\ job[j].status = "absent"
                /\ SetJob(j, Created(k))
                /\ Goto(r, "reserve", j, NoJob, {})
    /\ UNCHANGED <<leases, worker, sweeper>>

(* retry: the status check, then an update that does not repeat it. *)
RetryRead(r, j) ==
    /\ request[r].at = "idle"
    /\ "retry" \in Offered
    /\ job[j].status \in {"dead", "cancelled"}
    /\ Goto(r, "retry", j, NoJob, {})
    /\ UNCHANGED <<job, leases, worker, sweeper>>

RetryReset(r) ==
    LET j == request[r].job IN
    /\ request[r].at = "retry"
    /\ IF IsRow(j)
       THEN SetJob(j, Requeued(job[j])) /\ Goto(r, "reserve", j, NoJob, {})
       ELSE UNCHANGED job /\ Return(r)
    /\ UNCHANGED <<leases, worker, sweeper>>

(* retryAllDead: the ids that are dead now, one update of every row that   *)
(* is dead by then, and a reservation for each id that is queued when the  *)
(* loop reaches it.                                                        *)
RetryAllRead(r) ==
    /\ request[r].at = "idle"
    /\ "retryAll" \in Offered
    /\ Goto(r, "retryAll", NoJob, NoJob, {j \in Jobs : job[j].status = "dead"})
    /\ UNCHANGED <<job, leases, worker, sweeper>>

RetryAllReset(r) ==
    /\ request[r].at = "retryAll"
    /\ job' = [j \in Jobs |-> IF job[j].status = "dead" THEN Requeued(job[j]) ELSE job[j]]
    /\ Goto(r, "loop", NoJob, NoJob, request[r].todo)
    /\ UNCHANGED <<leases, worker, sweeper>>

RetryAllNext(r) ==
    /\ request[r].at = "loop"
    /\ \/ request[r].todo = {} /\ Return(r)
       \/ \E j \in request[r].todo :
             Goto(r, IF job[j].status = "queued" THEN "reserve" ELSE "loop",
                  j, NoJob, request[r].todo \ {j})
    /\ UNCHANGED <<job, leases, worker, sweeper>>

(* attachReservation: the wallet accepts, and the call goes on ...         *)
AttachAccepted(r) ==
    /\ request[r].at = "reserve"
    /\ IF request[r].todo = {}
       THEN Return(r)
       ELSE Goto(r, "loop", NoJob, NoJob, request[r].todo)
    /\ UNCHANGED <<job, leases, worker, sweeper>>

(* ... or refuses.  The row is then cancelled, whatever its status is by   *)
(* now, and the exception ends the call, also in the middle of a loop.     *)
AttachRefused(r) ==
    /\ request[r].at = "reserve"
    /\ Goto(r, "refuse", request[r].job, NoJob, request[r].todo)
    /\ UNCHANGED <<job, leases, worker, sweeper>>

CancelRefused(r) ==
    LET j == request[r].job IN
    /\ request[r].at = "refuse"
    /\ Return(r)
    /\ IF IsRow(j)
       THEN SetJob(j, Refused(job[j]))
       ELSE UNCHANGED job
    /\ UNCHANGED <<leases, worker, sweeper>>

(* cancel: one conditional update, then the reservation is released. *)
Cancel(r, j) ==
    /\ request[r].at = "idle"
    /\ "cancel" \in Offered
    /\ job[j].status \in {"queued", "dead"}
    /\ SetJob(j, Cancelled(job[j]))
    /\ Goto(r, "release", j, NoJob, {})
    /\ UNCHANGED <<leases, worker, sweeper>>

CancelReleased(r) ==
    /\ request[r].at = "release"
    /\ Return(r)
    /\ UNCHANGED <<job, leases, worker, sweeper>>
-----------------------------------------------------------------------------
(* Workers *)

SetWorker(w, state) == worker' = [worker EXCEPT ![w] = state]

(* The candidate read and the conditional update of claim (of claimById    *)
(* for the fast lane, which does not look at availableAt).                 *)
Claim(w, j) ==
    /\ worker[w].at = "idle"
    /\ job[j].status = "queued"
    /\ job[j].due \/ job[j].work \in FastWorks
    /\ leases' = leases + 1
    /\ SetJob(j, Claimed(job[j], leases + 1))
    /\ SetWorker(w, [IdleWorker EXCEPT !.at = "reread", !.job = j, !.mine = leases + 1])
    /\ UNCHANGED <<request, sweeper>>

(* The row is read back in a statement of its own. *)
Reread(w) ==
    LET j == worker[w].job IN
    /\ worker[w].at = "reread"
    /\ SetWorker(w, IF IsRow(j)
                    THEN [worker[w] EXCEPT !.at = "run", !.lease = job[j].lease,
                                           !.attempts = job[j].attempts]
                    ELSE IdleWorker)
    /\ UNCHANGED <<job, leases, request, sweeper>>

(* A lock that is not compared. *)
HoldsAnyLease(lease, j) == lease # 0 /\ job[j].status = "running"

(* A lock that is trusted without the status: that of a refused row stays. *)
HoldsByLock(lease, j) == lease # 0 /\ job[j].lease = lease

Holds(lease, j) == lease # 0 /\ job[j].status = "running" /\ job[j].lease = lease

(* A commit that does not ask whether the update matched. *)
CompleteAlwaysCharges(w) ==
    LET j == worker[w].job IN
    /\ worker[w].at = "run"
    /\ IF Holds(worker[w].lease, j) THEN SetJob(j, Completed(job[j])) ELSE UNCHANGED job
    /\ SetWorker(w, [worker[w] EXCEPT !.at = "commit"])
    /\ UNCHANGED <<leases, request, sweeper>>

(* processOne, the handler returned: complete(job). *)
Complete(w) ==
    LET j == worker[w].job IN
    /\ worker[w].at = "run"
    /\ IF Holds(worker[w].lease, j)
       THEN /\ SetJob(j, Completed(job[j]))
            /\ SetWorker(w, [worker[w] EXCEPT !.at = "commit"])
       ELSE UNCHANGED job /\ SetWorker(w, IdleWorker)
    /\ UNCHANGED <<leases, request, sweeper>>

(* processOne, the handler threw: fail(job, error). *)
Fail(w, error) ==
    LET j == worker[w].job
        verdict == Verdict(worker[w].attempts, error) IN
    /\ worker[w].at = "run"
    /\ IF Holds(worker[w].lease, j)
       THEN /\ SetJob(j, Failed(job[j], verdict))
            /\ SetWorker(w, IF verdict = "queued" THEN IdleWorker
                            ELSE [worker[w] EXCEPT !.at = "release"])
       ELSE UNCHANGED job /\ SetWorker(w, IdleWorker)
    /\ UNCHANGED <<leases, request, sweeper>>

(* billing.commit or billing.release returned. *)
WorkerSettled(w) ==
    /\ worker[w].at \in {"commit", "release"}
    /\ SetWorker(w, IdleWorker)
    /\ UNCHANGED <<job, leases, request, sweeper>>
-----------------------------------------------------------------------------
(* Maintenance *)

(* A recovery that leaves out the jobs without an attempt left. *)
StaleJobsToRetry == {j \in Jobs : /\ job[j].status = "running" /\ job[j].stale
                                  /\ job[j].attempts < MaxAttempts}

StaleJobs == {j \in Jobs : job[j].status = "running" /\ job[j].stale}

(* recoverStale: the stale rows are read together and failed one by one. *)
SweepRead(s) ==
    /\ sweeper[s] = IdleSweep
    /\ StaleJobs # {}
    /\ sweeper' = [sweeper EXCEPT ![s].todo =
           {[job |-> j, lease |-> job[j].lease, attempts |-> job[j].attempts] : j \in StaleJobs}]
    /\ UNCHANGED <<job, leases, worker, request>>

(* A recovery that keeps the tokens of the jobs it gives up. *)
SweepFailKeepsTokens(s) ==
    /\ sweeper[s].releasing = NoJob
    /\ \E snap \in sweeper[s].todo :
          /\ IF Holds(snap.lease, snap.job)
             THEN SetJob(snap.job, Failed(job[snap.job], Verdict(snap.attempts, "failed")))
             ELSE UNCHANGED job
          /\ sweeper' = [sweeper EXCEPT ![s].todo = @ \ {snap}]
    /\ UNCHANGED <<leases, worker, request>>

SweepFail(s) ==
    /\ sweeper[s].releasing = NoJob
    /\ \E snap \in sweeper[s].todo :
          LET held    == Holds(snap.lease, snap.job)
              verdict == Verdict(snap.attempts, "failed") IN
          /\ IF held THEN SetJob(snap.job, Failed(job[snap.job], verdict))
                     ELSE UNCHANGED job
          /\ sweeper' = [sweeper EXCEPT ![s] =
                [todo |-> @.todo \ {snap},
                 releasing |-> IF held /\ verdict = "dead" THEN snap.job ELSE NoJob]]
    /\ UNCHANGED <<leases, worker, request>>

SweepReleased(s) ==
    /\ sweeper[s].releasing # NoJob
    /\ sweeper' = [sweeper EXCEPT ![s].releasing = NoJob]
    /\ UNCHANGED <<job, leases, worker, request>>

(* prune, some time after the retention period of the row. *)
Prune(j) ==
    /\ job[j].status \in {"completed", "cancelled", "dead"}
    /\ job[j].done
    /\ SetJob(j, PrunedRow)
    /\ UNCHANGED <<leases, worker, request, sweeper>>
-----------------------------------------------------------------------------
(* Time passes, processes stop *)

BackoffEnds(j) ==
    /\ job[j].status = "queued" /\ ~job[j].due
    /\ SetJob(j, [job[j] EXCEPT !.due = TRUE])
    /\ UNCHANGED <<leases, worker, request, sweeper>>

(* Twenty minutes since the claim: longer than a worker takes from its     *)
(* conditional update to the read that follows it.                         *)
GrowStale(j) ==
    /\ job[j].status = "running" /\ ~job[j].stale
    /\ ~\E w \in Workers : worker[w].at = "reread" /\ worker[w].mine = job[j].lease
    /\ SetJob(j, [job[j] EXCEPT !.stale = TRUE])
    /\ UNCHANGED <<leases, worker, request, sweeper>>

CrashWorker(w) ==
    /\ worker[w].at \in CrashPoints
    /\ SetWorker(w, IdleWorker)
    /\ UNCHANGED <<job, leases, request, sweeper>>

CrashRequest(r) ==
    /\ "request" \in CrashPoints
    /\ request[r].at # "idle"
    /\ Return(r)
    /\ UNCHANGED <<job, leases, worker, sweeper>>

CrashSweep(s) ==
    /\ "sweep" \in CrashPoints
    /\ sweeper[s] # IdleSweep
    /\ sweeper' = [sweeper EXCEPT ![s] = IdleSweep]
    /\ UNCHANGED <<job, leases, worker, request>>
-----------------------------------------------------------------------------
(* The steps that do not call the wallet ... *)
RequestStep(r) ==
    \/ \E k \in Works : EnqueueNew(r, k)
    \/ \E j \in Jobs : EnqueueRevive(r, j) \/ RetryRead(r, j) \/ Cancel(r, j)
    \/ ResetDead(r) \/ CreateRow(r) \/ RetryReset(r) \/ CancelRefused(r)
    \/ RetryAllRead(r) \/ RetryAllReset(r) \/ RetryAllNext(r)

WorkerStep(w) ==
    \/ \E j \in Jobs : leases < MaxLeases /\ Claim(w, j)
    \/ Reread(w) \/ Complete(w) \/ \E error \in Errors : Fail(w, error)

Maintain ==
    \/ \E s \in Sweepers : SweepRead(s) \/ SweepFail(s) \/ CrashSweep(s)
    \/ \E j \in Jobs : Prune(j) \/ BackoffEnds(j) \/ GrowStale(j)

Crash ==
    \/ \E w \in Workers : CrashWorker(w)
    \/ \E r \in Requests : CrashRequest(r)

QueueStep ==
    \/ \E r \in Requests : RequestStep(r)
    \/ \E w \in Workers : WorkerStep(w)
    \/ Maintain
    \/ Crash

(* ... and those that do, with a wallet that may do anything. *)
QueueNext ==
    \/ QueueStep
    \/ \E r \in Requests : AttachAccepted(r) \/ AttachRefused(r) \/ CancelReleased(r)
    \/ \E w \in Workers : WorkerSettled(w)
    \/ \E s \in Sweepers : SweepReleased(s)

QueueSpec == QueueInit /\ [][QueueNext]_queueVars
-----------------------------------------------------------------------------
(* Fairness.  A request that has begun goes on, an idle worker polls every *)
(* two seconds, a handler ends or its process stops, time passes, and the  *)
(* maintenance runs every minute.  Nothing makes a request begin.          *)
RequestContinues(r) ==
    \/ ResetDead(r) \/ CreateRow(r) \/ RetryReset(r) \/ CancelRefused(r)
    \/ RetryAllReset(r) \/ RetryAllNext(r)
    \/ AttachAccepted(r) \/ AttachRefused(r) \/ CancelReleased(r)

QueueFairness ==
    /\ \A r \in Requests : WF_queueVars(RequestContinues(r))
    /\ \A w \in Workers : WF_queueVars(WorkerStep(w)) /\ WF_queueVars(WorkerSettled(w))
    /\ \A s \in Sweepers : WF_queueVars(SweepRead(s) \/ SweepFail(s) \/ SweepReleased(s))
    /\ \A j \in Jobs : WF_queueVars(BackoffEnds(j)) /\ WF_queueVars(GrowStale(j))

FairQueueSpec == QueueSpec /\ QueueFairness
-----------------------------------------------------------------------------
JobTypeOK ==
    /\ job \in [Jobs -> Row]
    /\ leases \in Nat
    /\ worker \in [Workers -> WorkerState]
    /\ request \in [Requests -> RequestState]
    /\ sweeper \in [Sweepers -> SweepState]
    /\ \A w \in Workers : worker[w].at # "idle" => worker[w].job \in Jobs
    /\ \A r \in Requests :
          /\ request[r].at \in {"reset", "retry", "reserve", "refuse", "release"} =>
                request[r].job \in Jobs
          /\ request[r].at = "create" => request[r].work \in Works

(* The retry budget is exact.  A waiting job has an attempt left, a job    *)
(* never runs more often than maxAttempts, and none is declared dead       *)
(* early, although fail() decides on the attempt count its caller read     *)
(* long before and the row may have been reset since.                      *)
AttemptsBudget ==
    \A j \in Jobs :
        /\ job[j].status = "queued"  => job[j].attempts < MaxAttempts
        /\ job[j].status = "running" => job[j].attempts \in 1..MaxAttempts
        /\ job[j].status = "dead"    => job[j].attempts = MaxAttempts

(* Every running row has an owner, so recoverStale can find it, every row  *)
(* that waits or has ended has none, so no old worker can touch it, and no *)
(* two rows have the same owner.                                           *)
OwnedWhileRunning ==
    \A j \in Jobs :
        /\ job[j].status = "running" => job[j].lease \in 1..leases
        /\ job[j].status \in {"queued", "completed", "dead"} => job[j].lease = 0
        /\ \A k \in Jobs : job[j].lease = job[k].lease => j = k \/ job[j].lease = 0

(* A claim is settled once: while its worker is with the wallet, no row    *)
(* carries the lease any more, so neither recoverStale nor a second worker *)
(* that read the same lease can end the claim again.                       *)
SettledLeaseIsSpent ==
    \A w \in Workers : worker[w].at \in {"commit", "release"} =>
        \A j \in Jobs : job[j].lease # worker[w].lease

(* Why: what a worker or a sweeper has read of a row still describes the   *)
(* row for as long as the row carries the lease that was read.             *)
ReadsStayTrue ==
    /\ \A j \in Jobs : job[j].lease <= leases
    /\ \A w \in Workers :
          /\ worker[w].lease <= leases
          /\ worker[w].at \in {"commit", "release"} => worker[w].lease # 0
          /\ \A j \in Jobs : worker[w].lease # 0 /\ job[j].lease = worker[w].lease =>
                worker[w].job = j /\ worker[w].attempts = job[j].attempts
    /\ \A s \in Sweepers : \A snap \in sweeper[s].todo :
          /\ snap.lease \in 1..leases
          /\ \A j \in Jobs : job[j].lease = snap.lease =>
                snap.job = j /\ snap.attempts = job[j].attempts

(* The parts hold together: the budget of a failed job rests on what its   *)
(* caller read still being true, and that in turn on leases being unique.  *)
QueueInv == /\ JobTypeOK
            /\ AttemptsBudget
            /\ OwnedWhileRunning
            /\ SettledLeaseIsSpent
            /\ ReadsStayTrue

(* A running job is completed only by a worker that holds its lease: one   *)
(* that lost its claim to recoverStale or to a retry changes nothing.      *)
OnlyHolderCompletes ==
    [][\A j \in Jobs :
          job[j].status = "running" /\ job'[j].status = "completed" =>
            \E w \in Workers : /\ worker[w].job = j /\ worker[w].lease = job[j].lease
                               /\ worker[w].at = "run" /\ worker'[w].at = "commit"]_queueVars

(* Every job comes to an end: whatever crashes and however often handlers  *)
(* fail, a queued job is completed, declared dead or cancelled at last.    *)
JobEnds ==
    \A j \in Jobs : job[j].status = "queued" ~>
                    job[j].status \in {"completed", "dead", "cancelled"}
-----------------------------------------------------------------------------
(* The queue seen from outside: the status of a row is the stage of its    *)
(* job, and the attempts it counts are the tries.                          *)
Stages == [j \in Jobs |-> job[j].status]
Tries  == [j \in Jobs |-> job[j].attempts]

Life == INSTANCE JobLife WITH MaxTries <- MaxAttempts, stage <- Stages, tries <- Tries

(* Whatever crashes, is retried, swept or comes late, each statement moves *)
(* a job on in its life or leaves it: no job completes that is not being   *)
(* tried, none is tried or given up but as maxAttempts says, and only who  *)
(* starts it again gives it new tries.                                     *)
LivesOn == Life!LifeSpec
=============================================================================
