-------------------------- MODULE BackgroundProofs --------------------------
(***************************************************************************)
(* What holds of the background for any number of rows, keys, workers,     *)
(* requests, sweepers, replicas and tasks, wherever processes crash and    *)
(* transactions fail: of the job queue, of the queue with the wallet, of   *)
(* the lease of the maintenance, and of all of them side by side.          *)
(***************************************************************************)
EXTENDS MCBackground, FiniteSetTheorems, SequenceTheorems, TLAPS

(* JobTypeOK by actor. *)
WorkersOK ==
    /\ worker \in [Workers -> WorkerState]
    /\ \A w \in Workers : worker[w].at # "idle" => worker[w].job \in Jobs
RequestsOK ==
    /\ request \in [Requests -> RequestState]
    /\ \A r \in Requests :
          /\ request[r].at \in {"reset", "retry", "reserve", "refuse", "release"} =>
                request[r].job \in Jobs
          /\ request[r].at = "create" => request[r].work \in Works

LEMMA TypeParts ==
  JobTypeOK <=> /\ job \in [Jobs -> Row] /\ leases \in Nat
                /\ WorkersOK /\ RequestsOK
                /\ sweeper \in [Sweepers -> SweepState]
BY DEF JobTypeOK, WorkersOK, RequestsOK

(* The fields a statement leaves in a row. *)
LEMMA RowEffects ==
  /\ AbsentRow \in Row /\ PrunedRow \in Row
  /\ AbsentRow.lease = 0 /\ PrunedRow.lease = 0
  /\ AbsentRow.status = "absent" /\ PrunedRow.status = "pruned"
  /\ \A k \in Works : Created(k) \in Row /\ Created(k).status = "queued"
                      /\ Created(k).attempts = 0 /\ Created(k).lease = 0
  /\ \A row \in Row :
        /\ Requeued(row) \in Row /\ Requeued(row).status = "queued"
           /\ Requeued(row).attempts = 0 /\ Requeued(row).lease = 0
        /\ Completed(row) \in Row /\ Completed(row).status = "completed"
           /\ Completed(row).lease = 0
        /\ Cancelled(row) \in Row /\ Cancelled(row).status = "cancelled"
           /\ Cancelled(row).lease = 0
        /\ Refused(row) \in Row /\ Refused(row).status = "cancelled"
           /\ Refused(row).lease = row.lease /\ Refused(row).attempts = row.attempts
BY DEF AbsentRow, PrunedRow, Created, Requeued, Completed, Cancelled, Refused, Row, Status

LEMMA ClaimedEffect ==
  ASSUME NEW row \in Row, NEW n \in Nat
  PROVE  /\ Claimed(row, n) \in Row /\ Claimed(row, n).status = "running"
         /\ Claimed(row, n).lease = n /\ Claimed(row, n).attempts = row.attempts + 1
<1> DEFINE next == row.attempts + 1
<1>1. next \in Nat
  BY DEF Row
<1>2. Claimed(row, n) = [row EXCEPT !.status = "running", !.attempts = next,
                                    !.lease = n, !.stale = FALSE]
  BY DEF Claimed
<1> HIDE DEF next
<1>3. Claimed(row, n) \in Row
  BY <1>1, <1>2 DEF Row, Status
<1>4. /\ Claimed(row, n).status = "running" /\ Claimed(row, n).lease = n
      /\ Claimed(row, n).attempts = next
  BY <1>2 DEF Row
<1> QED BY <1>3, <1>4 DEF next

LEMMA FailedEffect ==
  ASSUME NEW row \in Row, NEW verdict \in {"cancelled", "dead", "queued"}
  PROVE  /\ Failed(row, verdict) \in Row
         /\ Failed(row, verdict).status = verdict
         /\ Failed(row, verdict).lease = 0
         /\ Failed(row, verdict).attempts = row.attempts
BY DEF Failed, Row, Status

LEMMA VerdictType ==
  ASSUME NEW n \in Nat, NEW error \in Errors
  PROVE  Verdict(n, error) \in {"cancelled", "dead", "queued"}
BY DEF Verdict

LEMMA ClockEffect ==
  ASSUME NEW row \in Row
  PROVE  /\ [row EXCEPT !.due = TRUE] \in Row
         /\ [row EXCEPT !.due = TRUE].status = row.status
         /\ [row EXCEPT !.due = TRUE].lease = row.lease
         /\ [row EXCEPT !.due = TRUE].attempts = row.attempts
         /\ [row EXCEPT !.stale = TRUE] \in Row
         /\ [row EXCEPT !.stale = TRUE].status = row.status
         /\ [row EXCEPT !.stale = TRUE].lease = row.lease
         /\ [row EXCEPT !.stale = TRUE].attempts = row.attempts
BY DEF Row

LEMMA IdleTypes ==
  /\ IdleWorker \in WorkerState /\ IdleWorker.at = "idle" /\ IdleWorker.lease = 0
  /\ IdleRequest \in RequestState /\ IdleRequest.at = "idle"
  /\ IdleSweep \in SweepState /\ IdleSweep.todo = {}
BY DEF IdleWorker, WorkerState, IdleRequest, RequestState, IdleSweep, SweepState

LEMMA SetJobEffect ==
  ASSUME JobTypeOK, NEW j \in Jobs, NEW row \in Row, SetJob(j, row)
  PROVE  /\ job' \in [Jobs -> Row]
         /\ job'[j] = row
         /\ \A i \in Jobs : i # j => job'[i] = job[i]
BY DEF JobTypeOK, SetJob

LEMMA GotoEffect ==
  ASSUME JobTypeOK, NEW r \in Requests,
         NEW at \in {"idle", "reset", "create", "retry", "retryAll", "loop",
                     "reserve", "refuse", "release"},
         NEW j \in Jobs \cup {NoJob}, NEW k \in Works \cup {NoJob}, NEW todo \in SUBSET Jobs,
         at \in {"reset", "retry", "reserve", "refuse", "release"} => j \in Jobs,
         at = "create" => k \in Works,
         Goto(r, at, j, k, todo)
  PROVE  RequestsOK'
<1> DEFINE state == [at |-> at, job |-> j, work |-> k, todo |-> todo]
<1>1. state \in RequestState /\ state.at = at /\ state.job = j /\ state.work = k
  BY DEF RequestState
<1>2. request' = [request EXCEPT ![r] = state]
  BY DEF Goto
<1> HIDE DEF state
<1> QED BY <1>1, <1>2, TypeParts DEF RequestsOK

LEMMA ReturnEffect ==
  ASSUME JobTypeOK, NEW r \in Requests, Return(r)
  PROVE  RequestsOK'
BY IdleTypes, TypeParts DEF RequestsOK, Return

LEMMA SetWorkerEffect ==
  ASSUME JobTypeOK, NEW w \in Workers, NEW state \in WorkerState,
         state.at # "idle" => state.job \in Jobs,
         SetWorker(w, state)
  PROVE  /\ WorkersOK'
         /\ worker'[w] = state
         /\ \A v \in Workers : v # w => worker'[v] = worker[v]
BY TypeParts DEF WorkersOK, SetWorker

LEMMA RequestFields ==
  ASSUME JobTypeOK, NEW r \in Requests
  PROVE  /\ request[r].job \in Jobs \cup {NoJob}
         /\ request[r].work \in Works \cup {NoJob}
         /\ request[r].todo \in SUBSET Jobs
         /\ request[r].at \in {"reset", "retry", "reserve", "refuse", "release"} =>
               request[r].job \in Jobs
         /\ request[r].at = "create" => request[r].work \in Works
BY DEF JobTypeOK, RequestState

LEMMA WorkerFields ==
  ASSUME JobTypeOK, NEW w \in Workers
  PROVE  /\ worker[w] \in WorkerState
         /\ worker[w].lease \in Nat /\ worker[w].attempts \in Nat /\ worker[w].mine \in Nat
         /\ worker[w].at # "idle" => worker[w].job \in Jobs
BY DEF JobTypeOK, WorkerState

LEMMA RowFields ==
  ASSUME JobTypeOK, NEW j \in Jobs
  PROVE  /\ job[j] \in Row
         /\ job[j].lease \in Nat /\ job[j].attempts \in Nat /\ job[j].status \in Status
BY DEF JobTypeOK, Row

(* Workers keep their type when they move on from a claim. *)
LEMMA WorkerMoves ==
  ASSUME NEW state \in WorkerState, NEW at \in {"run", "commit", "release"}
  PROVE  /\ [state EXCEPT !.at = at] \in WorkerState
         /\ [state EXCEPT !.at = at].at = at
         /\ [state EXCEPT !.at = at].job = state.job
         /\ [state EXCEPT !.at = at].lease = state.lease
         /\ [state EXCEPT !.at = at].attempts = state.attempts
BY DEF WorkerState
-----------------------------------------------------------------------------
(* The steps of QueueNext, one by one. *)
QueueActions ==
    \/ \E r \in Requests :
          \/ \E k \in Works : EnqueueNew(r, k)
          \/ \E j \in Jobs : EnqueueRevive(r, j) \/ RetryRead(r, j) \/ Cancel(r, j)
          \/ ResetDead(r) \/ CreateRow(r) \/ RetryReset(r) \/ CancelRefused(r)
          \/ RetryAllRead(r) \/ RetryAllReset(r) \/ RetryAllNext(r)
          \/ AttachAccepted(r) \/ AttachRefused(r)
          \/ CancelReleased(r) \/ CrashRequest(r)
    \/ \E w \in Workers :
          \/ \E j \in Jobs : Claim(w, j)
          \/ Reread(w) \/ Complete(w)
          \/ \E error \in Errors : Fail(w, error)
          \/ WorkerSettled(w) \/ CrashWorker(w)
    \/ \E s \in Sweepers : SweepRead(s) \/ SweepFail(s) \/ SweepReleased(s) \/ CrashSweep(s)
    \/ \E j \in Jobs : Prune(j) \/ BackoffEnds(j) \/ GrowStale(j)
    \/ UNCHANGED queueVars

LEMMA QueueStepCases == [QueueNext]_queueVars => QueueActions
BY DEF QueueNext, QueueStep, RequestStep, WorkerStep, Maintain, Crash, QueueActions
-----------------------------------------------------------------------------
(* What a step leaves alone keeps its type. *)
LEMMA TypesKept ==
  ASSUME JobTypeOK
  PROVE  /\ UNCHANGED job => job' \in [Jobs -> Row]
         /\ UNCHANGED leases => leases' \in Nat
         /\ UNCHANGED worker => WorkersOK'
         /\ UNCHANGED request => RequestsOK'
         /\ UNCHANGED sweeper => sweeper' \in [Sweepers -> SweepState]
BY DEF JobTypeOK, WorkersOK, RequestsOK

LEMMA TypesJoin ==
  ASSUME job' \in [Jobs -> Row], leases' \in Nat, WorkersOK', RequestsOK',
         sweeper' \in [Sweepers -> SweepState]
  PROVE  JobTypeOK'
BY DEF JobTypeOK, WorkersOK, RequestsOK

LEMMA QueueTypeStep == JobTypeOK /\ QueueActions => JobTypeOK'
<1> SUFFICES ASSUME JobTypeOK, QueueActions PROVE JobTypeOK'
  OBVIOUS
<1> USE RowEffects, IdleTypes
<1>1. ASSUME NEW r \in Requests, NEW k \in Works, EnqueueNew(r, k) PROVE JobTypeOK'
  BY <1>1, GotoEffect, TypesKept, TypesJoin DEF EnqueueNew
<1>2. ASSUME NEW r \in Requests, NEW j \in Jobs, EnqueueRevive(r, j) \/ RetryRead(r, j)
      PROVE  JobTypeOK'
  BY <1>2, GotoEffect, TypesKept, TypesJoin DEF EnqueueRevive, RetryRead
<1>3. ASSUME NEW r \in Requests, ResetDead(r) \/ RetryReset(r) PROVE JobTypeOK'
  <2>1. request[r].job \in Jobs /\ job[request[r].job] \in Row
    BY <1>3, RequestFields, RowFields DEF ResetDead, RetryReset
  <2>2. RequestsOK'
    BY <1>3, <2>1, GotoEffect, ReturnEffect DEF ResetDead, RetryReset
  <2>3. job' \in [Jobs -> Row]
    BY <1>3, <2>1, SetJobEffect, TypeParts DEF ResetDead, RetryReset
  <2> QED BY <1>3, <2>2, <2>3, TypesKept, TypesJoin DEF ResetDead, RetryReset
<1>4. ASSUME NEW r \in Requests, CreateRow(r) PROVE JobTypeOK'
  <2>1. request[r].work \in Works
    BY <1>4, RequestFields DEF CreateRow
  <2>2. RequestsOK'
    BY <1>4, GotoEffect, ReturnEffect DEF CreateRow
  <2>3. job' \in [Jobs -> Row]
    BY <1>4, <2>1, SetJobEffect, TypeParts DEF CreateRow
  <2> QED BY <1>4, <2>2, <2>3, TypesKept, TypesJoin DEF CreateRow
<1>5. ASSUME NEW r \in Requests, RetryAllRead(r) \/ RetryAllReset(r) PROVE JobTypeOK'
  <2>1. RequestsOK'
    <3>1. {j \in Jobs : job[j].status = "dead"} \in SUBSET Jobs
      OBVIOUS
    <3> QED BY <1>5, <3>1, GotoEffect, RequestFields DEF RetryAllRead, RetryAllReset
  <2>2. job' \in [Jobs -> Row]
    BY <1>5, TypeParts DEF RetryAllRead, RetryAllReset
  <2> QED BY <1>5, <2>1, <2>2, TypesKept, TypesJoin DEF RetryAllRead, RetryAllReset
<1>6. ASSUME NEW r \in Requests, RetryAllNext(r) PROVE JobTypeOK'
  <2>1. RequestsOK'
    <3>1. CASE Return(r)
      BY <3>1, ReturnEffect
    <3>2. ASSUME NEW j \in request[r].todo,
                 Goto(r, IF job[j].status = "queued" THEN "reserve" ELSE "loop",
                      j, NoJob, request[r].todo \ {j})
          PROVE  RequestsOK'
      <4>1. j \in Jobs /\ request[r].todo \ {j} \in SUBSET Jobs
        BY RequestFields
      <4> QED BY <3>2, <4>1, GotoEffect
    <3> QED BY <1>6, <3>1, <3>2 DEF RetryAllNext
  <2> QED BY <1>6, <2>1, TypesKept, TypesJoin DEF RetryAllNext
<1>7. ASSUME NEW r \in Requests, AttachAccepted(r) \/ AttachRefused(r) PROVE JobTypeOK'
  <2>1. RequestsOK'
    BY <1>7, GotoEffect, ReturnEffect, RequestFields DEF AttachAccepted, AttachRefused
  <2> QED BY <1>7, <2>1, TypesKept, TypesJoin DEF AttachAccepted, AttachRefused
<1>8. ASSUME NEW r \in Requests, CancelRefused(r) PROVE JobTypeOK'
  <2>1. request[r].job \in Jobs /\ job[request[r].job] \in Row /\ RequestsOK'
    BY <1>8, RequestFields, RowFields, ReturnEffect DEF CancelRefused
  <2>2. job' \in [Jobs -> Row]
    BY <1>8, <2>1, SetJobEffect, TypeParts DEF CancelRefused
  <2> QED BY <1>8, <2>1, <2>2, TypesKept, TypesJoin DEF CancelRefused
<1>9. ASSUME NEW r \in Requests, NEW j \in Jobs, Cancel(r, j) PROVE JobTypeOK'
  <2>1. RequestsOK' /\ job' \in [Jobs -> Row]
    BY <1>9, GotoEffect, RowFields, SetJobEffect DEF Cancel
  <2> QED BY <1>9, <2>1, TypesKept, TypesJoin DEF Cancel
<1>10. ASSUME NEW r \in Requests, CancelReleased(r) \/ CrashRequest(r) PROVE JobTypeOK'
  BY <1>10, ReturnEffect, TypesKept, TypesJoin DEF CancelReleased, CrashRequest
<1>11. ASSUME NEW w \in Workers, NEW j \in Jobs, Claim(w, j) PROVE JobTypeOK'
  <2>1. leases \in Nat /\ leases + 1 \in Nat /\ job[j] \in Row
    BY RowFields, TypeParts
  <2>2. job' \in [Jobs -> Row]
    BY <1>11, <2>1, ClaimedEffect, SetJobEffect DEF Claim
  <2>3. WorkersOK'
    <3> DEFINE n == leases + 1
               state == [IdleWorker EXCEPT !.at = "reread", !.job = j, !.mine = n]
    <3>1. SetWorker(w, state)
      BY <1>11 DEF Claim
    <3>2. n \in Nat
      BY <2>1
    <3> HIDE DEF n
    <3>3. state \in WorkerState /\ state.job = j
      BY <3>2 DEF IdleWorker, WorkerState
    <3> HIDE DEF state
    <3> QED BY <3>1, <3>3, SetWorkerEffect
  <2> QED BY <1>11, <2>1, <2>2, <2>3, TypesKept, TypesJoin DEF Claim
<1>12. ASSUME NEW w \in Workers, Reread(w) PROVE JobTypeOK'
  <2> DEFINE j == worker[w].job
             state == IF IsRow(j) THEN [worker[w] EXCEPT !.at = "run", !.lease = job[j].lease,
                                                         !.attempts = job[j].attempts]
                      ELSE IdleWorker
  <2>1. j \in Jobs /\ SetWorker(w, state)
    BY <1>12, WorkerFields DEF Reread
  <2>2. worker[w] \in WorkerState /\ job[j].lease \in Nat /\ job[j].attempts \in Nat
    BY <2>1, WorkerFields, RowFields
  <2>3. state \in WorkerState /\ (state.at # "idle" => state.job \in Jobs)
    BY <2>1, <2>2 DEF WorkerState
  <2> HIDE DEF state
  <2>4. WorkersOK'
    BY <2>1, <2>3, SetWorkerEffect
  <2> QED BY <1>12, <2>4, TypesKept, TypesJoin DEF Reread
<1>13. ASSUME NEW w \in Workers, Complete(w) PROVE JobTypeOK'
  <2>1. worker[w] \in WorkerState /\ worker[w].job \in Jobs /\ job[worker[w].job] \in Row
    BY <1>13, WorkerFields, RowFields DEF Complete
  <2>2. job' \in [Jobs -> Row]
    BY <1>13, <2>1, SetJobEffect, TypeParts DEF Complete
  <2>3. WorkersOK'
    BY <1>13, <2>1, WorkerMoves, SetWorkerEffect DEF Complete
  <2> QED BY <1>13, <2>2, <2>3, TypesKept, TypesJoin DEF Complete
<1>14. ASSUME NEW w \in Workers, NEW error \in Errors, Fail(w, error) PROVE JobTypeOK'
  <2>1. worker[w] \in WorkerState /\ worker[w].job \in Jobs /\ job[worker[w].job] \in Row
        /\ Verdict(worker[w].attempts, error) \in {"cancelled", "dead", "queued"}
    BY <1>14, WorkerFields, RowFields, VerdictType DEF Fail
  <2>2. job' \in [Jobs -> Row]
    BY <1>14, <2>1, FailedEffect, SetJobEffect, TypeParts DEF Fail
  <2>3. WorkersOK'
    BY <1>14, <2>1, WorkerMoves, SetWorkerEffect DEF Fail
  <2> QED BY <1>14, <2>2, <2>3, TypesKept, TypesJoin DEF Fail
<1>15. ASSUME NEW w \in Workers, WorkerSettled(w) \/ CrashWorker(w) PROVE JobTypeOK'
  <2>1. WorkersOK'
    BY <1>15, SetWorkerEffect DEF WorkerSettled, CrashWorker
  <2> QED BY <1>15, <2>1, TypesKept, TypesJoin DEF WorkerSettled, CrashWorker
<1>16. ASSUME NEW s \in Sweepers, SweepRead(s) PROVE JobTypeOK'
  <2> DEFINE snaps == {[job |-> j, lease |-> job[j].lease, attempts |-> job[j].attempts] :
                          j \in StaleJobs}
  <2>1. snaps \in SUBSET Snapshot
    BY RowFields DEF StaleJobs, Snapshot
  <2>2. sweeper' = [sweeper EXCEPT ![s].todo = snaps]
    BY <1>16 DEF SweepRead
  <2> HIDE DEF snaps
  <2>3. sweeper' \in [Sweepers -> SweepState]
    BY <2>1, <2>2, TypeParts DEF SweepState
  <2> QED BY <1>16, <2>3, TypesKept, TypesJoin DEF SweepRead
<1>17. ASSUME NEW s \in Sweepers, SweepFail(s) PROVE JobTypeOK'
  <2>1. PICK snap \in sweeper[s].todo :
          LET held    == Holds(snap.lease, snap.job)
              verdict == Verdict(snap.attempts, "failed") IN
          /\ IF held THEN SetJob(snap.job, Failed(job[snap.job], verdict)) ELSE UNCHANGED job
          /\ sweeper' = [sweeper EXCEPT ![s] =
                [todo |-> @.todo \ {snap},
                 releasing |-> IF held /\ verdict = "dead" THEN snap.job ELSE NoJob]]
    BY <1>17 DEF SweepFail
  <2>2. sweeper[s].todo \in SUBSET Snapshot
    BY TypeParts DEF SweepState
  <2>3. snap.job \in Jobs /\ snap.attempts \in Nat
    BY <2>2 DEF Snapshot
  <2>4. Verdict(snap.attempts, "failed") \in {"cancelled", "dead", "queued"}
    BY <2>3, VerdictType DEF Errors
  <2>5. job' \in [Jobs -> Row]
    BY <2>1, <2>3, <2>4, RowFields, FailedEffect, SetJobEffect, TypeParts
  <2>6. sweeper' \in [Sweepers -> SweepState]
    <3> DEFINE rest == sweeper[s].todo \ {snap}
               next == IF Holds(snap.lease, snap.job) /\ Verdict(snap.attempts, "failed") = "dead"
                       THEN snap.job ELSE NoJob
    <3>1. sweeper' = [sweeper EXCEPT ![s] = [todo |-> rest, releasing |-> next]]
      BY <2>1
    <3>2. rest \in SUBSET Snapshot /\ next \in Jobs \cup {NoJob}
      BY <2>2, <2>3
    <3> HIDE DEF rest, next
    <3> QED BY <3>1, <3>2, TypeParts DEF SweepState
  <2> QED BY <1>17, <2>5, <2>6, TypesKept, TypesJoin DEF SweepFail
<1>18. ASSUME NEW s \in Sweepers, SweepReleased(s) \/ CrashSweep(s) PROVE JobTypeOK'
  <2>1. sweeper' \in [Sweepers -> SweepState]
    BY <1>18, TypeParts DEF SweepReleased, CrashSweep, SweepState
  <2> QED BY <1>18, <2>1, TypesKept, TypesJoin DEF SweepReleased, CrashSweep
<1>19. ASSUME NEW j \in Jobs, Prune(j) \/ BackoffEnds(j) \/ GrowStale(j) PROVE JobTypeOK'
  <2>1. job' \in [Jobs -> Row]
    BY <1>19, RowFields, ClockEffect, SetJobEffect DEF Prune, BackoffEnds, GrowStale
  <2> QED BY <1>19, <2>1, TypesKept, TypesJoin DEF Prune, BackoffEnds, GrowStale
<1>20. CASE UNCHANGED queueVars
  BY <1>20 DEF queueVars, JobTypeOK
<1> QED
  BY <1>1, <1>2, <1>3, <1>4, <1>5, <1>6, <1>7, <1>8, <1>9, <1>10, <1>11, <1>12,
     <1>13, <1>14, <1>15, <1>16, <1>17, <1>18, <1>19, <1>20 DEF QueueActions

(* Type correctness: rows, leases and the local variables of every caller  *)
(* keep their types, and whoever is in the middle of a call has a row in   *)
(* hand.                                                                   *)
THEOREM QueueTyped == QueueSpec => []JobTypeOK
<1>1. QueueInit => JobTypeOK
  BY RowEffects, IdleTypes DEF QueueInit, JobTypeOK
<1>2. JobTypeOK /\ [QueueNext]_queueVars => JobTypeOK'
  BY QueueStepCases, QueueTypeStep
<1> QED BY <1>1, <1>2, PTL DEF QueueSpec
-----------------------------------------------------------------------------
(* All steps but three hand out no lease and read none: a row keeps its    *)
(* lease or loses it, a worker stays, forgets its claim, or goes on to     *)
(* settle a claim whose lease is spent.                                    *)
KeepsRow(j) == /\ job'[j].lease = job[j].lease
               /\ job'[j].attempts = job[j].attempts
               /\ job'[j].status = job[j].status \/ job'[j].status = "cancelled"
FreesRow(j) == /\ job'[j].lease = 0
               /\ job'[j].status # "running"
               /\ job'[j].status = "queued" => job'[j].attempts < MaxAttempts
               /\ job'[j].status = "dead" => job'[j].attempts = MaxAttempts
RowsMove == \A j \in Jobs : KeepsRow(j) \/ FreesRow(j)

Settles(w) == /\ worker'[w].at \in {"commit", "release"}
              /\ worker'[w].job = worker[w].job
              /\ worker'[w].lease = worker[w].lease
              /\ worker'[w].attempts = worker[w].attempts
              /\ worker[w].lease # 0
              /\ \A j \in Jobs : job'[j].lease # worker[w].lease
WorkersMove == \A w \in Workers :
    worker'[w] = worker[w] \/ worker'[w] = IdleWorker \/ Settles(w)

SweepersMove == \A s \in Sweepers : sweeper'[s].todo \subseteq sweeper[s].todo

LEMMA MoveStep ==
  ASSUME QueueInv, JobTypeOK', leases' = leases, RowsMove, WorkersMove, SweepersMove
  PROVE  QueueInv'
<1> USE QueueAssumption, IdleTypes
<1>1. \A j \in Jobs : /\ job[j].lease \in Nat /\ job'[j].lease \in Nat
                       /\ job[j].attempts \in Nat /\ job'[j].attempts \in Nat
  BY DEF QueueInv, JobTypeOK, Row
<1>2. \A w \in Workers : /\ worker[w].lease \in Nat /\ worker'[w].lease \in Nat
  BY DEF QueueInv, JobTypeOK, WorkerState
<1>3. leases \in Nat
  BY DEF QueueInv, JobTypeOK
<1>4. AttemptsBudget'
  BY DEF QueueInv, AttemptsBudget, RowsMove, KeepsRow, FreesRow
<1>5. OwnedWhileRunning'
  BY DEF QueueInv, OwnedWhileRunning, RowsMove, KeepsRow, FreesRow
<1>6. SettledLeaseIsSpent'
  BY <1>1, <1>2 DEF QueueInv, SettledLeaseIsSpent, ReadsStayTrue, RowsMove, KeepsRow, FreesRow,
     WorkersMove, Settles
<1>7. ReadsStayTrue'
  <2>1. \A j \in Jobs : job'[j].lease <= leases'
    BY <1>1, <1>3 DEF QueueInv, ReadsStayTrue, RowsMove, KeepsRow, FreesRow
  <2>2. \A j \in Jobs, n \in Nat :
           n # 0 /\ job'[j].lease = n =>
              job[j].lease = n /\ job'[j].attempts = job[j].attempts
    BY DEF RowsMove, KeepsRow, FreesRow
  <2>3. ASSUME NEW w \in Workers
        PROVE  /\ worker'[w].lease <= leases'
               /\ worker'[w].at \in {"commit", "release"} => worker'[w].lease # 0
               /\ \A j \in Jobs : worker'[w].lease # 0 /\ job'[j].lease = worker'[w].lease =>
                     worker'[w].job = j /\ worker'[w].attempts = job'[j].attempts
    BY <1>2, <1>3, <2>2 DEF QueueInv, ReadsStayTrue, WorkersMove, Settles
  <2>4. ASSUME NEW s \in Sweepers, NEW snap \in sweeper'[s].todo
        PROVE  /\ snap.lease \in 1..leases'
               /\ \A j \in Jobs : job'[j].lease = snap.lease =>
                     snap.job = j /\ snap.attempts = job'[j].attempts
    <3>1. snap \in sweeper[s].todo
      BY DEF SweepersMove
    <3>2. /\ snap.lease \in 1..leases
          /\ \A j \in Jobs : job[j].lease = snap.lease =>
                snap.job = j /\ snap.attempts = job[j].attempts
      BY <3>1 DEF QueueInv, ReadsStayTrue
    <3> QED BY <1>3, <2>2, <3>2
  <2> QED BY <2>1, <2>3, <2>4 DEF ReadsStayTrue
<1> QED BY <1>4, <1>5, <1>6, <1>7 DEF QueueInv

(* What each statement does to the rows. *)
LEMMA RowsWrite ==
  ASSUME QueueInv, NEW j \in Jobs, NEW row \in Row, SetJob(j, row),
         \/ /\ row.lease = job[j].lease /\ row.attempts = job[j].attempts
            /\ row.status = job[j].status \/ row.status = "cancelled"
         \/ /\ row.lease = 0 /\ row.status # "running"
            /\ row.status = "queued" => row.attempts < MaxAttempts
            /\ row.status = "dead" => row.attempts = MaxAttempts
  PROVE  RowsMove
BY SetJobEffect DEF QueueInv, RowsMove, KeepsRow, FreesRow

LEMMA RowsStay ==
  ASSUME UNCHANGED job PROVE RowsMove
BY DEF RowsMove, KeepsRow

(* The verdict of fail() keeps the budget of the row it is written to,     *)
(* because the attempts it is based on are the row's.                      *)
LEMMA VerdictKeepsBudget ==
  ASSUME QueueInv, NEW j \in Jobs, NEW error \in Errors, job[j].status = "running"
  PROVE  LET verdict == Verdict(job[j].attempts, error) IN
         /\ verdict \in {"cancelled", "dead", "queued"}
         /\ verdict = "queued" => job[j].attempts < MaxAttempts
         /\ verdict = "dead" => job[j].attempts = MaxAttempts
<1>1. job[j].attempts \in 1..MaxAttempts /\ MaxAttempts \in Nat
  BY QueueAssumption DEF QueueInv, AttemptsBudget
<1> QED BY <1>1 DEF Verdict
-----------------------------------------------------------------------------
LEMMA QueueInvStep == QueueInv /\ [QueueNext]_queueVars => QueueInv'
<1> SUFFICES ASSUME QueueInv, QueueActions PROVE QueueInv'
  <2>1. QueueInv /\ [QueueNext]_queueVars => QueueActions
    BY QueueStepCases
  <2> QED BY <2>1
<1> USE RowEffects, IdleTypes
<1>0. JobTypeOK /\ JobTypeOK'
  BY QueueTypeStep DEF QueueInv
<1>1. ASSUME NEW r \in Requests, NEW k \in Works, EnqueueNew(r, k) PROVE QueueInv'
  BY <1>0, <1>1, RowsStay, MoveStep DEF EnqueueNew, WorkersMove, SweepersMove
<1>2. ASSUME NEW r \in Requests, NEW j \in Jobs, EnqueueRevive(r, j) \/ RetryRead(r, j)
      PROVE  QueueInv'
  BY <1>0, <1>2, RowsStay, MoveStep DEF EnqueueRevive, RetryRead, WorkersMove, SweepersMove
<1>3. ASSUME NEW r \in Requests, ResetDead(r) \/ RetryReset(r) PROVE QueueInv'
  <2>1. request[r].job \in Jobs /\ job[request[r].job] \in Row
    BY <1>0, <1>3, RequestFields, RowFields DEF ResetDead, RetryReset
  <2>2. RowsMove
    BY <1>3, <2>1, RowsStay, RowsWrite, QueueAssumption DEF ResetDead, RetryReset
  <2> QED BY <1>0, <1>3, <2>2, MoveStep DEF ResetDead, RetryReset, WorkersMove, SweepersMove
<1>4. ASSUME NEW r \in Requests, CreateRow(r) PROVE QueueInv'
  <2>1. request[r].work \in Works
    BY <1>0, <1>4, RequestFields DEF CreateRow
  <2>2. RowsMove
    BY <1>4, <2>1, RowsStay, RowsWrite, QueueAssumption DEF CreateRow
  <2> QED BY <1>0, <1>4, <2>2, MoveStep DEF CreateRow, WorkersMove, SweepersMove
<1>5. ASSUME NEW r \in Requests, RetryAllRead(r) PROVE QueueInv'
  BY <1>0, <1>5, RowsStay, MoveStep DEF RetryAllRead, WorkersMove, SweepersMove
<1>6. ASSUME NEW r \in Requests, RetryAllReset(r) PROVE QueueInv'
  <2>1. ASSUME NEW j \in Jobs PROVE KeepsRow(j) \/ FreesRow(j)
    BY <1>0, <1>6, RowFields, QueueAssumption DEF RetryAllReset, KeepsRow, FreesRow
  <2> QED BY <1>0, <1>6, <2>1, MoveStep DEF RetryAllReset, RowsMove, WorkersMove, SweepersMove
<1>7. ASSUME NEW r \in Requests, \/ RetryAllNext(r) \/ AttachAccepted(r) \/ AttachRefused(r)
                                 \/ CancelReleased(r) \/ CrashRequest(r)
      PROVE  QueueInv'
  BY <1>0, <1>7, RowsStay, MoveStep DEF RetryAllNext, AttachAccepted, AttachRefused,
     CancelReleased, CrashRequest, WorkersMove, SweepersMove
<1>8. ASSUME NEW r \in Requests, CancelRefused(r) PROVE QueueInv'
  <2>1. request[r].job \in Jobs /\ job[request[r].job] \in Row
    BY <1>0, <1>8, RequestFields, RowFields DEF CancelRefused
  <2>2. RowsMove
    BY <1>8, <2>1, RowsStay, RowsWrite DEF CancelRefused
  <2> QED BY <1>0, <1>8, <2>2, MoveStep DEF CancelRefused, WorkersMove, SweepersMove
<1>9. ASSUME NEW r \in Requests, NEW j \in Jobs, Cancel(r, j) PROVE QueueInv'
  <2>1. RowsMove
    BY <1>0, <1>9, RowFields, RowsWrite DEF Cancel
  <2> QED BY <1>0, <1>9, <2>1, MoveStep DEF Cancel, WorkersMove, SweepersMove
<1>10. ASSUME NEW w \in Workers, NEW j \in Jobs, Claim(w, j) PROVE QueueInv'
  <2> DEFINE n == leases + 1
  <2>1. /\ n \in Nat /\ leases' = n /\ job[j] \in Row /\ SetJob(j, Claimed(job[j], n))
        /\ Claimed(job[j], n) \in Row /\ Claimed(job[j], n).status = "running"
        /\ Claimed(job[j], n).lease = n /\ Claimed(job[j], n).attempts = job[j].attempts + 1
    <3>1. n \in Nat /\ job[j] \in Row
      BY <1>0, RowFields DEF JobTypeOK
    <3>2. leases' = n /\ SetJob(j, Claimed(job[j], n))
      BY <1>10 DEF Claim
    <3> HIDE DEF n
    <3> QED BY <3>1, <3>2, ClaimedEffect
  <2>2. /\ job'[j].status = "running" /\ job'[j].lease = n
        /\ job'[j].attempts = job[j].attempts + 1
        /\ \A i \in Jobs : i # j => job'[i] = job[i]
    BY <1>0, <2>1, SetJobEffect
  <2>3. /\ worker'[w].lease = 0 /\ worker'[w].at = "reread"
        /\ \A v \in Workers : v # w => worker'[v] = worker[v]
    BY <1>0, <1>10 DEF Claim, SetWorker, IdleWorker, JobTypeOK
  <2>4. job[j].attempts \in Nat /\ job[j].attempts < MaxAttempts /\ MaxAttempts \in Nat
    BY <1>0, <1>10, RowFields, QueueAssumption DEF Claim, QueueInv, AttemptsBudget
  <2>5. /\ leases \in Nat /\ n = leases + 1
        /\ \A i \in Jobs : job[i].lease \in Nat /\ job[i].lease <= leases
        /\ \A v \in Workers : worker[v].lease \in Nat /\ worker[v].lease <= leases
    BY <1>0, RowFields, WorkerFields DEF QueueInv, ReadsStayTrue, JobTypeOK
  <2> HIDE DEF n
  <2>6. AttemptsBudget'
    BY <2>2, <2>4 DEF QueueInv, AttemptsBudget
  <2>7. OwnedWhileRunning'
    BY <2>1, <2>2, <2>5 DEF QueueInv, OwnedWhileRunning
  <2>8. SettledLeaseIsSpent'
    BY <2>2, <2>3, <2>5 DEF QueueInv, SettledLeaseIsSpent
  <2>9. ReadsStayTrue'
    <3>1. \A i \in Jobs : job'[i].lease <= leases'
      BY <2>1, <2>2, <2>5
    <3>2. ASSUME NEW v \in Workers
          PROVE  /\ worker'[v].lease <= leases'
                 /\ worker'[v].at \in {"commit", "release"} => worker'[v].lease # 0
                 /\ \A i \in Jobs : worker'[v].lease # 0 /\ job'[i].lease = worker'[v].lease =>
                       worker'[v].job = i /\ worker'[v].attempts = job'[i].attempts
      BY <2>1, <2>2, <2>3, <2>5 DEF QueueInv, ReadsStayTrue
    <3>3. ASSUME NEW s \in Sweepers, NEW snap \in sweeper'[s].todo
          PROVE  /\ snap.lease \in 1..leases'
                 /\ \A i \in Jobs : job'[i].lease = snap.lease =>
                       snap.job = i /\ snap.attempts = job'[i].attempts
      <4>1. snap \in sweeper[s].todo
        BY <1>10 DEF Claim
      <4>2. /\ snap.lease \in 1..leases
            /\ \A i \in Jobs : job[i].lease = snap.lease =>
                  snap.job = i /\ snap.attempts = job[i].attempts
        BY <4>1 DEF QueueInv, ReadsStayTrue
      <4> QED BY <4>2, <2>1, <2>2, <2>5
    <3> QED BY <3>1, <3>2, <3>3 DEF ReadsStayTrue
  <2> QED BY <1>0, <2>6, <2>7, <2>8, <2>9 DEF QueueInv
<1>11. ASSUME NEW w \in Workers, Reread(w) PROVE QueueInv'
  <2> DEFINE j == worker[w].job
  <2>1. /\ j \in Jobs /\ worker[w] \in WorkerState
        /\ \A v \in Workers : v # w => worker'[v] = worker[v]
        /\ \/ worker'[w] = IdleWorker
           \/ worker'[w] = [worker[w] EXCEPT !.at = "run", !.lease = job[j].lease,
                                             !.attempts = job[j].attempts]
    BY <1>0, <1>11, WorkerFields DEF Reread, SetWorker, JobTypeOK
  <2>2. \/ worker'[w].lease = 0 /\ worker'[w].at = "idle"
        \/ /\ worker'[w].at = "run" /\ worker'[w].job = j
           /\ worker'[w].lease = job[j].lease /\ worker'[w].attempts = job[j].attempts
    BY <2>1 DEF WorkerState
  <2> HIDE DEF j
  <2>3. UNCHANGED <<job, leases, sweeper>>
    BY <1>11 DEF Reread
  <2>4. AttemptsBudget' /\ OwnedWhileRunning'
    BY <2>3 DEF QueueInv, AttemptsBudget, OwnedWhileRunning
  <2>5. SettledLeaseIsSpent'
    BY <2>1, <2>2, <2>3 DEF QueueInv, SettledLeaseIsSpent
  <2>6. ReadsStayTrue'
    <3>1. leases \in Nat /\ job[j].lease \in Nat
      BY <1>0, <2>1, RowFields DEF JobTypeOK
    <3>2. ASSUME NEW v \in Workers
          PROVE  /\ worker'[v].lease <= leases
                 /\ worker'[v].at \in {"commit", "release"} => worker'[v].lease # 0
                 /\ \A i \in Jobs : worker'[v].lease # 0 /\ job[i].lease = worker'[v].lease =>
                       worker'[v].job = i /\ worker'[v].attempts = job[i].attempts
      BY <2>1, <2>2, <3>1 DEF QueueInv, ReadsStayTrue, OwnedWhileRunning
    <3> QED BY <2>3, <3>2 DEF QueueInv, ReadsStayTrue
  <2> QED BY <1>0, <2>4, <2>5, <2>6 DEF QueueInv
<1>12. ASSUME NEW w \in Workers, Complete(w) PROVE QueueInv'
  <2>1. worker[w] \in WorkerState /\ worker[w].job \in Jobs /\ job[worker[w].job] \in Row
    BY <1>0, <1>12, WorkerFields, RowFields DEF Complete
  <2>2. RowsMove
    BY <1>12, <2>1, RowsStay, RowsWrite DEF Complete
  <2>3. worker'[w] = IdleWorker \/ Settles(w)
    <3>1. CASE Holds(worker[w].lease, worker[w].job)
      <4>1. /\ SetWorker(w, [worker[w] EXCEPT !.at = "commit"])
            /\ SetJob(worker[w].job, Completed(job[worker[w].job]))
        BY <1>12, <3>1 DEF Complete
      <4>2. \A i \in Jobs : job'[i].lease # worker[w].lease
        BY <1>0, <2>1, <3>1, <4>1, SetJobEffect DEF Holds, QueueInv, OwnedWhileRunning
      <4>3. worker'[w] = [worker[w] EXCEPT !.at = "commit"]
        BY <1>0, <4>1 DEF SetWorker, JobTypeOK
      <4> QED BY <2>1, <3>1, <4>2, <4>3, WorkerMoves DEF Settles, Holds
    <3>2. CASE ~Holds(worker[w].lease, worker[w].job)
      BY <1>0, <1>12, <3>2 DEF Complete, SetWorker, JobTypeOK
    <3> QED BY <3>1, <3>2
  <2>4. WorkersMove
    BY <1>0, <1>12, <2>3 DEF Complete, WorkersMove, SetWorker, JobTypeOK
  <2> QED BY <1>0, <1>12, <2>2, <2>4, MoveStep DEF Complete, SweepersMove
<1>13. ASSUME NEW w \in Workers, NEW error \in Errors, Fail(w, error) PROVE QueueInv'
  <2> DEFINE j == worker[w].job
             verdict == Verdict(worker[w].attempts, error)
  <2>1. worker[w] \in WorkerState /\ j \in Jobs /\ job[j] \in Row
    BY <1>0, <1>13, WorkerFields, RowFields DEF Fail
  <2>2. CASE Holds(worker[w].lease, j)
    <3>1. job[j].status = "running" /\ worker[w].attempts = job[j].attempts
      BY <2>1, <2>2 DEF Holds, QueueInv, ReadsStayTrue
    <3>2. /\ verdict \in {"cancelled", "dead", "queued"}
          /\ verdict = "queued" => job[j].attempts < MaxAttempts
          /\ verdict = "dead" => job[j].attempts = MaxAttempts
      BY <2>1, <3>1, VerdictKeepsBudget
    <3>3. /\ SetJob(j, Failed(job[j], verdict))
          /\ SetWorker(w, IF verdict = "queued" THEN IdleWorker
                          ELSE [worker[w] EXCEPT !.at = "release"])
      BY <1>13, <2>2 DEF Fail
    <3> HIDE DEF verdict
    <3>4. RowsMove
      BY <2>1, <3>2, <3>3, FailedEffect, RowsWrite
    <3>5. \A i \in Jobs : job'[i].lease # worker[w].lease
      BY <1>0, <2>1, <2>2, <3>2, <3>3, FailedEffect, SetJobEffect
         DEF Holds, QueueInv, OwnedWhileRunning
    <3>6. worker'[w] = IdleWorker \/ worker'[w] = [worker[w] EXCEPT !.at = "release"]
      BY <1>0, <3>3 DEF SetWorker, JobTypeOK
    <3>7. worker'[w] = IdleWorker \/ Settles(w)
      <4>1. CASE worker'[w] = [worker[w] EXCEPT !.at = "release"]
        BY <2>1, <2>2, <3>5, <4>1, WorkerMoves DEF Settles, Holds
      <4> QED BY <3>6, <4>1
    <3>8. WorkersMove
      BY <1>0, <3>3, <3>7 DEF WorkersMove, SetWorker, JobTypeOK
    <3> QED BY <1>0, <1>13, <3>4, <3>8, MoveStep DEF Fail, SweepersMove
  <2>3. CASE ~Holds(worker[w].lease, j)
    <3>1. UNCHANGED job /\ SetWorker(w, IdleWorker)
      BY <1>13, <2>3 DEF Fail
    <3>2. WorkersMove
      BY <1>0, <3>1 DEF WorkersMove, SetWorker, JobTypeOK
    <3> QED BY <1>0, <1>13, <3>1, <3>2, RowsStay, MoveStep DEF Fail, SweepersMove
  <2> QED BY <2>2, <2>3
<1>14. ASSUME NEW w \in Workers, WorkerSettled(w) \/ CrashWorker(w) PROVE QueueInv'
  <2>1. WorkersMove
    BY <1>0, <1>14 DEF WorkerSettled, CrashWorker, WorkersMove, SetWorker, JobTypeOK
  <2> QED BY <1>0, <1>14, <2>1, RowsStay, MoveStep DEF WorkerSettled, CrashWorker, SweepersMove
<1>15. ASSUME NEW s \in Sweepers, SweepRead(s) PROVE QueueInv'
  <2> DEFINE snaps == {[job |-> j, lease |-> job[j].lease, attempts |-> job[j].attempts] :
                          j \in StaleJobs}
  <2>1. /\ sweeper' = [sweeper EXCEPT ![s].todo = snaps]
        /\ UNCHANGED <<job, leases, worker>>
    BY <1>15 DEF SweepRead
  <2>2. AttemptsBudget' /\ OwnedWhileRunning' /\ SettledLeaseIsSpent'
    BY <2>1 DEF QueueInv, AttemptsBudget, OwnedWhileRunning, SettledLeaseIsSpent
  <2>3. \A snap \in snaps :
           /\ snap.lease \in 1..leases
           /\ \A i \in Jobs : job[i].lease = snap.lease =>
                 snap.job = i /\ snap.attempts = job[i].attempts
    BY DEF StaleJobs, QueueInv, OwnedWhileRunning
  <2> HIDE DEF snaps
  <2>4. \A t \in Sweepers : \A snap \in sweeper'[t].todo :
           snap \in snaps \/ snap \in sweeper[t].todo
    BY <1>0, <2>1 DEF JobTypeOK, SweepState
  <2>5. ReadsStayTrue'
    BY <2>1, <2>3, <2>4 DEF QueueInv, ReadsStayTrue
  <2> QED BY <1>0, <2>2, <2>5 DEF QueueInv
<1>16. ASSUME NEW s \in Sweepers, SweepFail(s) PROVE QueueInv'
  <2>1. PICK snap \in sweeper[s].todo :
          LET held    == Holds(snap.lease, snap.job)
              verdict == Verdict(snap.attempts, "failed") IN
          /\ IF held THEN SetJob(snap.job, Failed(job[snap.job], verdict)) ELSE UNCHANGED job
          /\ sweeper' = [sweeper EXCEPT ![s] =
                [todo |-> @.todo \ {snap},
                 releasing |-> IF held /\ verdict = "dead" THEN snap.job ELSE NoJob]]
    BY <1>16 DEF SweepFail
  <2>2. snap.job \in Jobs /\ job[snap.job] \in Row
    <3>1. snap \in Snapshot
      BY <1>0 DEF JobTypeOK, SweepState
    <3> QED BY <1>0, <3>1, RowFields DEF Snapshot
  <2>3. RowsMove
    <3>1. CASE Holds(snap.lease, snap.job)
      <4>1. job[snap.job].status = "running" /\ snap.attempts = job[snap.job].attempts
        BY <2>2, <3>1 DEF Holds, QueueInv, ReadsStayTrue
      <4>2. LET verdict == Verdict(snap.attempts, "failed") IN
            /\ verdict \in {"cancelled", "dead", "queued"}
            /\ verdict = "queued" => job[snap.job].attempts < MaxAttempts
            /\ verdict = "dead" => job[snap.job].attempts = MaxAttempts
        BY <2>2, <4>1, VerdictKeepsBudget DEF Errors
      <4> QED BY <2>1, <2>2, <3>1, <4>2, FailedEffect, RowsWrite
    <3>2. CASE ~Holds(snap.lease, snap.job)
      BY <2>1, <3>2, RowsStay
    <3> QED BY <3>1, <3>2
  <2>4. SweepersMove
    BY <1>0, <2>1 DEF SweepersMove, JobTypeOK, SweepState
  <2> QED BY <1>0, <1>16, <2>3, <2>4, MoveStep DEF SweepFail, WorkersMove
<1>17. ASSUME NEW s \in Sweepers, SweepReleased(s) \/ CrashSweep(s) PROVE QueueInv'
  <2>1. SweepersMove
    BY <1>0, <1>17 DEF SweepReleased, CrashSweep, SweepersMove, JobTypeOK, SweepState
  <2> QED BY <1>0, <1>17, <2>1, RowsStay, MoveStep DEF SweepReleased, CrashSweep, WorkersMove
<1>18. ASSUME NEW j \in Jobs, Prune(j) \/ BackoffEnds(j) \/ GrowStale(j) PROVE QueueInv'
  <2>1. RowsMove
    BY <1>0, <1>18, RowFields, ClockEffect, RowsWrite DEF Prune, BackoffEnds, GrowStale
  <2> QED BY <1>0, <1>18, <2>1, MoveStep DEF Prune, BackoffEnds, GrowStale, WorkersMove,
      SweepersMove
<1>19. CASE UNCHANGED queueVars
  BY <1>0, <1>19, RowsStay, MoveStep DEF queueVars, WorkersMove, SweepersMove
<1> QED
  BY <1>1, <1>2, <1>3, <1>4, <1>5, <1>6, <1>7, <1>8, <1>9, <1>10, <1>11, <1>12,
     <1>13, <1>14, <1>15, <1>16, <1>17, <1>18, <1>19 DEF QueueActions

(* Types, budget, ownership and reads hold together in every state. *)
THEOREM QueueKept == QueueSpec => []QueueInv
<1>1. QueueInit => QueueInv
  <2> SUFFICES ASSUME QueueInit PROVE QueueInv
    OBVIOUS
  <2>1. JobTypeOK
    BY RowEffects, IdleTypes DEF QueueInit, JobTypeOK
  <2>2. AttemptsBudget /\ OwnedWhileRunning /\ SettledLeaseIsSpent /\ ReadsStayTrue
    BY RowEffects, IdleTypes DEF QueueInit, AttemptsBudget, OwnedWhileRunning,
       SettledLeaseIsSpent, ReadsStayTrue
  <2> QED BY <2>1, <2>2 DEF QueueInv
<1> QED BY <1>1, QueueInvStep, PTL DEF QueueSpec

(* fail() keeps the retry budget exact, for any maxAttempts. *)
THEOREM QueueAttempts == QueueSpec => []AttemptsBudget
BY QueueKept, PTL DEF QueueInv

(* A running row is owned, a waiting or ended one is not, and leases are   *)
(* unique, for any number of workers and rows.                             *)
THEOREM QueueOwned == QueueSpec => []OwnedWhileRunning
BY QueueKept, PTL DEF QueueInv

(* A claim reaches the wallet once: whoever completes or fails it has      *)
(* spent the lease before the wallet is called.                            *)
THEOREM QueueSettledOnce == QueueSpec => []SettledLeaseIsSpent
BY QueueKept, PTL DEF QueueInv

(* What a handler or recoverStale has read stays true of a row that still  *)
(* carries the lease: the statement the two conditional updates rest on.   *)
THEOREM QueueReadsStayTrue == QueueSpec => []ReadsStayTrue
BY QueueKept, PTL DEF QueueInv
-----------------------------------------------------------------------------
LEMMA OnlyCompleteCompletes ==
  ASSUME JobTypeOK, QueueActions, NEW j \in Jobs,
         job[j].status = "running", job'[j].status = "completed"
  PROVE  \E w \in Workers : Complete(w) /\ job'[worker[w].job] # job[worker[w].job]
                           /\ worker[w].job = j /\ Holds(worker[w].lease, j)
<1> USE RowEffects
<1>1. ASSUME NEW r \in Requests, ResetDead(r) \/ RetryReset(r) PROVE FALSE
  <2>1. request[r].job \in Jobs /\ job[request[r].job] \in Row
    BY <1>1, RequestFields, RowFields DEF ResetDead, RetryReset
  <2> QED BY <1>1, <2>1, SetJobEffect DEF ResetDead, RetryReset
<1>2. ASSUME NEW r \in Requests, CreateRow(r) PROVE FALSE
  <2>1. request[r].work \in Works
    BY <1>2, RequestFields DEF CreateRow
  <2> QED BY <1>2, <2>1, SetJobEffect DEF CreateRow
<1>3. ASSUME NEW r \in Requests, RetryAllReset(r) PROVE FALSE
  BY <1>3, RowFields DEF RetryAllReset
<1>4. ASSUME NEW r \in Requests, CancelRefused(r) PROVE FALSE
  <2>1. request[r].job \in Jobs /\ job[request[r].job] \in Row
    BY <1>4, RequestFields, RowFields DEF CancelRefused
  <2> QED BY <1>4, <2>1, SetJobEffect DEF CancelRefused
<1>5. ASSUME NEW r \in Requests, NEW i \in Jobs, Cancel(r, i) PROVE FALSE
  BY <1>5, RowFields, SetJobEffect DEF Cancel
<1>6. ASSUME NEW w \in Workers, NEW i \in Jobs, Claim(w, i) PROVE FALSE
  <2> DEFINE n == leases + 1
  <2>1. n \in Nat /\ job[i] \in Row
    BY RowFields DEF JobTypeOK
  <2>2. SetJob(i, Claimed(job[i], n))
    BY <1>6 DEF Claim
  <2> HIDE DEF n
  <2>3. Claimed(job[i], n) \in Row /\ Claimed(job[i], n).status # "completed"
    BY <2>1, ClaimedEffect
  <2> QED BY <2>2, <2>3, SetJobEffect
<1>7. ASSUME NEW w \in Workers, NEW error \in Errors, Fail(w, error) PROVE FALSE
  <2>1. worker[w].job \in Jobs /\ job[worker[w].job] \in Row
        /\ Verdict(worker[w].attempts, error) \in {"cancelled", "dead", "queued"}
    BY <1>7, WorkerFields, RowFields, VerdictType DEF Fail
  <2> DEFINE verdict == Verdict(worker[w].attempts, error)
             row == Failed(job[worker[w].job], verdict)
  <2>2. SetJob(worker[w].job, row) \/ UNCHANGED job
    BY <1>7 DEF Fail
  <2>3. row \in Row /\ row.status # "completed"
    BY <2>1, FailedEffect
  <2> HIDE DEF row
  <2> QED BY <2>1, <2>2, <2>3, SetJobEffect
<1>8. ASSUME NEW s \in Sweepers, SweepFail(s) PROVE FALSE
  <2>1. PICK snap \in sweeper[s].todo :
          IF Holds(snap.lease, snap.job)
          THEN SetJob(snap.job, Failed(job[snap.job], Verdict(snap.attempts, "failed")))
          ELSE UNCHANGED job
    BY <1>8 DEF SweepFail
  <2>2. snap \in Snapshot
    BY DEF JobTypeOK, SweepState
  <2>3. /\ snap.job \in Jobs /\ job[snap.job] \in Row
        /\ Verdict(snap.attempts, "failed") \in {"cancelled", "dead", "queued"}
    BY <2>2, RowFields, VerdictType DEF Snapshot, Errors
  <2> DEFINE row == Failed(job[snap.job], Verdict(snap.attempts, "failed"))
  <2>4. row \in Row /\ row.status # "completed"
    BY <2>3, FailedEffect
  <2>5. SetJob(snap.job, row) \/ UNCHANGED job
    BY <2>1
  <2> HIDE DEF row
  <2> QED BY <2>3, <2>4, <2>5, SetJobEffect
<1>9. ASSUME NEW i \in Jobs, Prune(i) \/ BackoffEnds(i) \/ GrowStale(i) PROVE FALSE
  <2>1. job[i] \in Row
    BY RowFields
  <2>2. CASE Prune(i)
    BY <2>2, SetJobEffect DEF Prune
  <2>3. CASE BackoffEnds(i)
    <3> DEFINE row == [job[i] EXCEPT !.due = TRUE]
    <3>1. row \in Row /\ row.status # "completed" /\ SetJob(i, row)
      BY <2>1, <2>3, ClockEffect DEF BackoffEnds
    <3> HIDE DEF row
    <3> QED BY <3>1, SetJobEffect
  <2>4. CASE GrowStale(i)
    <3> DEFINE row == [job[i] EXCEPT !.stale = TRUE]
    <3>1. row \in Row /\ row.status # "completed" /\ SetJob(i, row)
      BY <2>1, <2>4, ClockEffect DEF GrowStale
    <3> HIDE DEF row
    <3> QED BY <3>1, SetJobEffect
  <2> QED BY <1>9, <2>2, <2>3, <2>4
<1>10. CASE UNCHANGED job
  BY <1>10
<1>11. ASSUME NEW w \in Workers, Complete(w), job' # job
       PROVE  \E v \in Workers : Complete(v) /\ job'[worker[v].job] # job[worker[v].job]
                                /\ worker[v].job = j /\ Holds(worker[v].lease, j)
  <2>1. worker[w].job \in Jobs /\ job[worker[w].job] \in Row
    BY <1>11, WorkerFields, RowFields DEF Complete
  <2>2. /\ Holds(worker[w].lease, worker[w].job)
        /\ SetJob(worker[w].job, Completed(job[worker[w].job]))
    BY <1>11 DEF Complete
  <2>3. worker[w].job = j
    BY <2>1, <2>2, SetJobEffect
  <2> QED BY <1>11, <2>2, <2>3
<1>12. ASSUME NEW r \in Requests,
              \/ \E k \in Works : EnqueueNew(r, k)
              \/ \E i \in Jobs : EnqueueRevive(r, i) \/ RetryRead(r, i)
              \/ RetryAllRead(r) \/ RetryAllNext(r) \/ AttachAccepted(r) \/ AttachRefused(r)
              \/ CancelReleased(r) \/ CrashRequest(r)
       PROVE  UNCHANGED job
  BY <1>12 DEF EnqueueNew, EnqueueRevive, RetryRead, RetryAllRead, RetryAllNext, AttachAccepted,
     AttachRefused, CancelReleased, CrashRequest
<1>13. ASSUME NEW w \in Workers, Reread(w) \/ WorkerSettled(w) \/ CrashWorker(w)
       PROVE  UNCHANGED job
  BY <1>13 DEF Reread, WorkerSettled, CrashWorker
<1>14. ASSUME NEW s \in Sweepers, SweepRead(s) \/ SweepReleased(s) \/ CrashSweep(s)
       PROVE  UNCHANGED job
  BY <1>14 DEF SweepRead, SweepReleased, CrashSweep
<1>15. CASE UNCHANGED queueVars
  BY <1>10, <1>15 DEF queueVars
<1> QED
  BY <1>1, <1>2, <1>3, <1>4, <1>5, <1>6, <1>7, <1>8, <1>9, <1>10, <1>11, <1>12, <1>13, <1>14,
     <1>15 DEF QueueActions

(* Only the handler that holds the lease completes a running job. *)
THEOREM QueueHolderCompletes == QueueSpec => OnlyHolderCompletes
<1>1. QueueInv /\ [QueueNext]_queueVars =>
        [\A j \in Jobs :
          job[j].status = "running" /\ job'[j].status = "completed" =>
            \E w \in Workers : /\ worker[w].job = j /\ worker[w].lease = job[j].lease
                               /\ worker[w].at = "run" /\ worker'[w].at = "commit"]_queueVars
  <2> SUFFICES ASSUME QueueInv, QueueActions, NEW j \in Jobs,
                      job[j].status = "running", job'[j].status = "completed"
               PROVE  \E w \in Workers : /\ worker[w].job = j /\ worker[w].lease = job[j].lease
                                         /\ worker[w].at = "run" /\ worker'[w].at = "commit"
    BY QueueStepCases
  <2>1. JobTypeOK
    BY DEF QueueInv
  <2>2. PICK w \in Workers : Complete(w) /\ worker[w].job = j /\ Holds(worker[w].lease, j)
    BY <2>1, OnlyCompleteCompletes
  <2>3. /\ worker[w].at = "run" /\ worker[w].lease = job[j].lease
        /\ worker' = [worker EXCEPT ![w] = [worker[w] EXCEPT !.at = "commit"]]
    BY <2>2 DEF Complete, Holds, SetWorker
  <2>4. worker'[w].at = "commit"
    BY <2>1, <2>3 DEF JobTypeOK, WorkerState
  <2> QED BY <2>2, <2>3, <2>4
<1> QED BY <1>1, QueueKept, PTL DEF QueueSpec, OnlyHolderCompletes
-----------------------------------------------------------------------------
(* The life of a job as whoever hands it in sees it.  What the statements  *)
(* leave of the attempts a row counts:                                     *)
LEMMA AttemptsKept ==
  /\ PrunedRow.attempts = 0
  /\ \A row \in Row : /\ Completed(row).attempts = row.attempts
                      /\ Cancelled(row).attempts = row.attempts
BY DEF AbsentRow, PrunedRow, Completed, Cancelled, Row, Status

(* A statement that writes a row moves the job of that row, and no other. *)
LEMMA RowBecomes ==
  ASSUME JobTypeOK, NEW j \in Jobs, NEW row \in Row, SetJob(j, row),
         NEW next, NEW n, row.status = next, row.attempts = n
  PROVE  Life!Becomes(j, next, n)
BY SetJobEffect DEF Life!Becomes, Stages, Tries

(* What leaves status and attempts of a row alone leaves its job alone.    *)
LEMMA LifeStays ==
  ASSUME JobTypeOK, NEW j \in Jobs, NEW row \in Row, SetJob(j, row),
         row.status = job[j].status, row.attempts = job[j].attempts
  PROVE  UNCHANGED Life!lifeVars
BY SetJobEffect DEF Life!lifeVars, Stages, Tries

(* So does what writes no row.                                             *)
LEMMA NothingMoves ==
  ASSUME UNCHANGED job PROVE UNCHANGED Life!lifeVars
<1>1. job' = job
  OBVIOUS
<1> QED BY <1>1 DEF Life!lifeVars, Stages, Tries

(* Writing a reset row starts its job again, be it dead, cancelled,        *)
(* completed or at work by then.                                           *)
LEMMA Starts ==
  ASSUME JobTypeOK, NEW j \in Jobs, IsRow(j), SetJob(j, Requeued(job[j]))
  PROVE  Life!LifeNext
<1>1. /\ job[j].status \in {"queued", "running"} \cup Life!Ended
      /\ job[j] \in Row
  BY RowFields DEF IsRow, Status, Life!Ended
<1>2. {j} \in SUBSET Life!Known
  BY <1>1 DEF Life!Known, Stages
<1>3. Life!StartAgain({j})
  BY <1>1, SetJobEffect, RowEffects DEF Life!StartAgain, Stages, Tries
<1> QED BY <1>2, <1>3 DEF Life!LifeNext

(* Writing a cancelled row withdraws its job.                              *)
LEMMA Withdrawn ==
  ASSUME JobTypeOK, NEW j \in Jobs, NEW row \in Row, IsRow(j), SetJob(j, row),
         row.status = "cancelled", row.attempts = job[j].attempts
  PROVE  Life!LifeNext
<1>1. job[j].status \in {"queued", "running"} \cup Life!Ended
  BY RowFields DEF IsRow, Status, Life!Ended
<1>2. j \in Life!Known
  BY <1>1 DEF Life!Known, Stages
<1>3. Life!Withdraw(j)
  <2>1. Life!Becomes(j, "cancelled", job[j].attempts)
    BY RowBecomes
  <2> QED BY <1>2, <2>1 DEF Life!Withdraw, Life!Becomes, Stages, Tries
<1> QED BY <1>3 DEF Life!LifeNext

(* A failure that is recorded on what its caller has read of the row. *)
LEMMA FailureMoves ==
  ASSUME QueueInv, NEW j \in Jobs, NEW error \in Errors, job[j].status = "running",
         SetJob(j, Failed(job[j], Verdict(job[j].attempts, error)))
  PROVE  Life!LifeNext
<1> DEFINE verdict == Verdict(job[j].attempts, error)
           row == Failed(job[j], verdict)
<1>1. JobTypeOK /\ job[j] \in Row
  BY RowFields DEF QueueInv
<1>2. /\ verdict \in {"cancelled", "dead", "queued"}
      /\ verdict = "queued" => job[j].attempts < MaxAttempts
      /\ verdict = "dead" => job[j].attempts = MaxAttempts
  BY VerdictKeepsBudget
<1>3. SetJob(j, row)
  OBVIOUS
<1> HIDE DEF verdict
<1>4. row \in Row /\ row.status = verdict /\ row.attempts = job[j].attempts
  BY <1>1, <1>2, FailedEffect
<1> HIDE DEF row
<1>5. Life!Becomes(j, verdict, job[j].attempts)
  BY <1>1, <1>3, <1>4, RowBecomes
<1>6. CASE verdict = "cancelled"
  BY <1>1, <1>3, <1>4, <1>6, Withdrawn DEF IsRow
<1>7. CASE verdict = "dead"
  <2>1. Life!GiveUp(j)
    BY <1>2, <1>5, <1>7 DEF Life!GiveUp, Life!Becomes, Stages, Tries
  <2> QED BY <2>1 DEF Life!LifeNext
<1>8. CASE verdict = "queued"
  <2>1. Life!Postpone(j)
    BY <1>2, <1>5, <1>8 DEF Life!Postpone, Life!Becomes, Stages, Tries
  <2> QED BY <2>1 DEF Life!LifeNext
<1> QED BY <1>2, <1>6, <1>7, <1>8

(* Statement by statement.                                                 *)
LEMMA QueueLifeStep ==
  ASSUME QueueInv, QueueActions
  PROVE  Life!LifeNext \/ UNCHANGED Life!lifeVars
<1>0. JobTypeOK
  BY DEF QueueInv
<1>1. ASSUME NEW r \in Requests, ResetDead(r) \/ RetryReset(r)
      PROVE  Life!LifeNext \/ UNCHANGED Life!lifeVars
  <2>1. request[r].job \in Jobs
    BY <1>0, <1>1, RequestFields DEF ResetDead, RetryReset
  <2>2. \/ UNCHANGED job
        \/ IsRow(request[r].job) /\ SetJob(request[r].job, Requeued(job[request[r].job]))
    BY <1>1 DEF ResetDead, RetryReset, IsRow
  <2> QED BY <1>0, <2>1, <2>2, Starts, NothingMoves
<1>2. ASSUME NEW r \in Requests, CreateRow(r)
      PROVE  Life!LifeNext \/ UNCHANGED Life!lifeVars
  <2>1. request[r].work \in Works
    BY <1>0, <1>2, RequestFields DEF CreateRow
  <2>2. CASE UNCHANGED job
    BY <2>2, NothingMoves
  <2>3. ASSUME NEW j \in Jobs, job[j].status = "absent", SetJob(j, Created(request[r].work))
        PROVE  Life!LifeNext
    <3>1. Life!Becomes(j, "queued", 0)
      BY <1>0, <2>1, <2>3, RowEffects, RowBecomes
    <3>2. Life!Submit(j)
      BY <2>3, <3>1 DEF Life!Submit, Stages
    <3> QED BY <3>2 DEF Life!LifeNext
  <2> QED BY <1>2, <2>2, <2>3 DEF CreateRow
<1>3. ASSUME NEW r \in Requests, RetryAllReset(r) PROVE Life!LifeNext
  <2> DEFINE dead == {j \in Jobs : job[j].status = "dead"}
  <2>1. dead \in SUBSET Life!Known
    BY DEF Life!Known, Life!Ended, Stages
  <2>2. \A j \in Jobs : job'[j] = IF j \in dead THEN Requeued(job[j]) ELSE job[j]
    BY <1>3 DEF RetryAllReset
  <2>3. \A j \in Jobs : Requeued(job[j]).status = "queued" /\ Requeued(job[j]).attempts = 0
    BY <1>0, RowFields, RowEffects
  <2> HIDE DEF dead
  <2>4. Life!StartAgain(dead)
    BY <2>2, <2>3 DEF Life!StartAgain, Stages, Tries
  <2> QED BY <2>1, <2>4 DEF Life!LifeNext
<1>4. ASSUME NEW r \in Requests, CancelRefused(r)
      PROVE  Life!LifeNext \/ UNCHANGED Life!lifeVars
  <2>1. request[r].job \in Jobs /\ job[request[r].job] \in Row
    BY <1>0, <1>4, RequestFields, RowFields DEF CancelRefused
  <2>2. \/ UNCHANGED job
        \/ IsRow(request[r].job) /\ SetJob(request[r].job, Refused(job[request[r].job]))
    BY <1>4 DEF CancelRefused
  <2> QED BY <1>0, <2>1, <2>2, RowEffects, Withdrawn, NothingMoves
<1>5. ASSUME NEW r \in Requests, NEW j \in Jobs, Cancel(r, j) PROVE Life!LifeNext
  <2>1. IsRow(j) /\ SetJob(j, Cancelled(job[j])) /\ job[j] \in Row
    BY <1>0, <1>5, RowFields DEF Cancel, IsRow
  <2> QED BY <1>0, <2>1, RowEffects, AttemptsKept, Withdrawn
<1>6. ASSUME NEW w \in Workers, NEW j \in Jobs, Claim(w, j) PROVE Life!LifeNext
  <2> DEFINE n == leases + 1
             row == Claimed(job[j], n)
  <2>1. n \in Nat /\ job[j] \in Row
    BY <1>0, RowFields DEF JobTypeOK
  <2>2. SetJob(j, row) /\ job[j].status = "queued"
    BY <1>6 DEF Claim
  <2> HIDE DEF n
  <2>3. row \in Row /\ row.status = "running" /\ row.attempts = job[j].attempts + 1
    BY <2>1, ClaimedEffect
  <2> HIDE DEF row
  <2>4. Life!Becomes(j, "running", job[j].attempts + 1)
    BY <1>0, <2>2, <2>3, RowBecomes
  <2>5. Life!Try(j)
    BY <2>2, <2>4 DEF Life!Try, Life!Becomes, Stages, Tries, QueueInv, AttemptsBudget
  <2> QED BY <2>5 DEF Life!LifeNext
<1>7. ASSUME NEW w \in Workers, Complete(w)
      PROVE  Life!LifeNext \/ UNCHANGED Life!lifeVars
  <2> DEFINE j == worker[w].job
  <2>1. j \in Jobs /\ job[j] \in Row
    BY <1>0, <1>7, WorkerFields, RowFields DEF Complete
  <2>2. CASE Holds(worker[w].lease, j)
    <3>1. job[j].status = "running" /\ SetJob(j, Completed(job[j]))
      BY <1>7, <2>2 DEF Complete, Holds
    <3> HIDE DEF j
    <3>2. /\ Completed(job[j]) \in Row /\ Completed(job[j]).status = "completed"
          /\ Completed(job[j]).attempts = job[j].attempts
      BY <2>1, RowEffects, AttemptsKept
    <3>3. Life!Becomes(j, "completed", job[j].attempts)
      BY <1>0, <2>1, <3>1, <3>2, RowBecomes
    <3>4. Life!Finish(j)
      BY <2>1, <3>1, <3>3 DEF Life!Finish, Life!Becomes, Stages, Tries
    <3> QED BY <2>1, <3>4 DEF Life!LifeNext
  <2>3. CASE ~Holds(worker[w].lease, j)
    BY <1>7, <2>3, NothingMoves DEF Complete
  <2> QED BY <2>2, <2>3
<1>8. ASSUME NEW w \in Workers, NEW error \in Errors, Fail(w, error)
      PROVE  Life!LifeNext \/ UNCHANGED Life!lifeVars
  <2> DEFINE j == worker[w].job
  <2>1. j \in Jobs
    BY <1>0, <1>8, WorkerFields DEF Fail
  <2>2. CASE Holds(worker[w].lease, j)
    <3>1. job[j].status = "running" /\ worker[w].attempts = job[j].attempts
      BY <2>1, <2>2 DEF Holds, QueueInv, ReadsStayTrue
    <3>2. SetJob(j, Failed(job[j], Verdict(job[j].attempts, error)))
      BY <1>8, <2>2, <3>1 DEF Fail
    <3> HIDE DEF j
    <3> QED BY <2>1, <3>1, <3>2, FailureMoves
  <2>3. CASE ~Holds(worker[w].lease, j)
    BY <1>8, <2>3, NothingMoves DEF Fail
  <2> QED BY <2>2, <2>3
<1>9. ASSUME NEW s \in Sweepers, SweepFail(s)
      PROVE  Life!LifeNext \/ UNCHANGED Life!lifeVars
  <2>1. PICK snap \in sweeper[s].todo :
          IF Holds(snap.lease, snap.job)
          THEN SetJob(snap.job, Failed(job[snap.job], Verdict(snap.attempts, "failed")))
          ELSE UNCHANGED job
    BY <1>9 DEF SweepFail
  <2>2. snap \in Snapshot
    BY <1>0 DEF JobTypeOK, SweepState
  <2>3. snap.job \in Jobs /\ "failed" \in Errors
    BY <2>2 DEF Snapshot, Errors
  <2>4. CASE Holds(snap.lease, snap.job)
    <3>1. job[snap.job].status = "running" /\ snap.attempts = job[snap.job].attempts
      BY <2>3, <2>4 DEF Holds, QueueInv, ReadsStayTrue
    <3> QED BY <2>1, <2>3, <2>4, <3>1, FailureMoves
  <2>5. CASE ~Holds(snap.lease, snap.job)
    BY <2>1, <2>5, NothingMoves
  <2> QED BY <2>4, <2>5
<1>10. ASSUME NEW j \in Jobs, Prune(j) PROVE Life!LifeNext
  <2>1. Life!Becomes(j, "pruned", 0)
    <3>1. PrunedRow \in Row /\ PrunedRow.status = "pruned" /\ PrunedRow.attempts = 0
      BY RowEffects, AttemptsKept
    <3>2. SetJob(j, PrunedRow)
      BY <1>10 DEF Prune
    <3> QED BY <1>0, <3>1, <3>2, RowBecomes
  <2>2. Life!Forget(j)
    BY <1>10, <2>1 DEF Prune, Life!Forget, Life!Ended, Stages
  <2> QED BY <2>2 DEF Life!LifeNext
<1>11. ASSUME NEW j \in Jobs, BackoffEnds(j) \/ GrowStale(j)
       PROVE  UNCHANGED Life!lifeVars
  <2>1. PICK row \in Row : /\ SetJob(j, row)
                           /\ row.status = job[j].status /\ row.attempts = job[j].attempts
    BY <1>0, <1>11, RowFields, ClockEffect DEF BackoffEnds, GrowStale
  <2> QED BY <1>0, <2>1, LifeStays
<1>12. ASSUME NEW r \in Requests,
              \/ \E k \in Works : EnqueueNew(r, k)
              \/ \E i \in Jobs : EnqueueRevive(r, i) \/ RetryRead(r, i)
              \/ RetryAllRead(r) \/ RetryAllNext(r) \/ AttachAccepted(r) \/ AttachRefused(r)
              \/ CancelReleased(r) \/ CrashRequest(r)
       PROVE  UNCHANGED job
  BY <1>12 DEF EnqueueNew, EnqueueRevive, RetryRead, RetryAllRead, RetryAllNext, AttachAccepted,
     AttachRefused, CancelReleased, CrashRequest
<1>13. ASSUME NEW w \in Workers, Reread(w) \/ WorkerSettled(w) \/ CrashWorker(w)
       PROVE  UNCHANGED job
  BY <1>13 DEF Reread, WorkerSettled, CrashWorker
<1>14. ASSUME NEW s \in Sweepers, SweepRead(s) \/ SweepReleased(s) \/ CrashSweep(s)
       PROVE  UNCHANGED job
  BY <1>14 DEF SweepRead, SweepReleased, CrashSweep
<1>15. CASE UNCHANGED queueVars
  BY <1>15, NothingMoves DEF queueVars
<1> QED
  BY <1>1, <1>2, <1>3, <1>4, <1>5, <1>6, <1>7, <1>8, <1>9, <1>10, <1>11, <1>12, <1>13, <1>14,
     <1>15, NothingMoves DEF QueueActions

(* Whatever crashes, is retried, swept or comes late, every statement of   *)
(* AutomationJobService moves a job on in the life that JobLife promises,  *)
(* or leaves it: for any number of rows, workers, requests and sweepers.   *)
THEOREM QueueLivesOn == QueueSpec => LivesOn
<1>1. QueueInit => Life!LifeInit
  BY DEF QueueInit, AbsentRow, Life!LifeInit, Stages, Tries
<1>2. QueueInv /\ [QueueNext]_queueVars => [Life!LifeNext]_(Life!lifeVars)
  BY QueueStepCases, QueueLifeStep
<1> QED BY <1>1, <1>2, QueueKept, PTL DEF QueueSpec, LivesOn, Life!LifeSpec
-----------------------------------------------------------------------------
(* The queue and the wallet together                                       *)

LEMMA BillQueueStep == [BillNext]_billVars => [QueueNext]_queueVars
BY DEF BillNext, billVars, QueueAlone, BillAccepted, BillRefused, BillWorker, BillCancel, BillSweep,
       TryAgain, TryFails, QueueNext

(* The queue is as it is without a wallet, whatever the wallet answers.    *)
THEOREM BillImplementsQueue == BillSpec => QueueSpec
<1>1. BillInit => QueueInit
  BY DEF BillInit
<1> QED BY <1>1, BillQueueStep, PTL DEF BillSpec, QueueSpec

(* Whoever is with the wallet is there for a job.                          *)
LEMMA AtTheWallet ==
    ASSUME JobTypeOK
    PROVE  /\ \A r \in Requests :
                 request[r].at \in {"reserve", "release"} => request[r].job \in Jobs
           /\ \A w \in Workers : worker[w].at \in {"commit", "release"} => worker[w].job \in Jobs
           /\ \A s \in Sweepers : sweeper[s].releasing # NoJob => sweeper[s].releasing \in Jobs
BY DEF JobTypeOK, SweepState

(* So is a try that failed, and only a worker at a commit tries a charge.  *)
LEMMA TriesForAJob ==
    ASSUME JobTypeOK, TryAgain
    PROVE  \E c \in Callers, j \in Jobs, type \in {"commit", "release"} :
               /\ TryFails(c, j, type)
               /\ type = "commit" => c \in Workers /\ worker[c].at = "commit" /\ worker[c].job = j
<1>1. ASSUME NEW w \in Workers, worker[w].at \in {"commit", "release"},
             TryFails(w, worker[w].job, worker[w].at)
      PROVE  \E c \in Callers, j \in Jobs, type \in {"commit", "release"} :
                 /\ TryFails(c, j, type)
                 /\ type = "commit" => c \in Workers /\ worker[c].at = "commit" /\ worker[c].job = j
  <2> DEFINE j == worker[w].job
             type == worker[w].at
  <2>1. /\ w \in Callers /\ j \in Jobs /\ type \in {"commit", "release"}
        /\ TryFails(w, j, type)
    BY <1>1, AtTheWallet DEF Callers
  <2>2. type = "commit" => w \in Workers /\ worker[w].at = "commit" /\ worker[w].job = j
    BY <1>1
  <2> HIDE DEF j, type
  <2> QED BY <2>1, <2>2
<1>2. ASSUME NEW c \in Callers, NEW j \in Jobs, TryFails(c, j, "release")
      PROVE  \E d \in Callers, i \in Jobs, type \in {"commit", "release"} :
                 /\ TryFails(d, i, type)
                 /\ type = "commit" => d \in Workers /\ worker[d].at = "commit" /\ worker[d].job = i
  <2>1. "release" \in {"commit", "release"} /\ "release" # "commit"
    OBVIOUS
  <2> QED BY <1>2, <2>1
<1>3. ASSUME NEW r \in Requests, request[r].at = "release" PROVE request[r].job \in Jobs
  BY <1>3, AtTheWallet
<1>4. ASSUME NEW s \in Sweepers, sweeper[s].releasing # NoJob PROVE sweeper[s].releasing \in Jobs
  BY <1>4, AtTheWallet
<1>5. ASSUME NEW r \in Requests, request[r].at = "release", TryFails(r, request[r].job, "release")
      PROVE  \E d \in Callers, i \in Jobs, type \in {"commit", "release"} :
                 /\ TryFails(d, i, type)
                 /\ type = "commit" => d \in Workers /\ worker[d].at = "commit" /\ worker[d].job = i
  BY <1>2, <1>3, <1>5 DEF Callers
<1>6. ASSUME NEW s \in Sweepers, sweeper[s].releasing # NoJob,
             TryFails(s, sweeper[s].releasing, "release")
      PROVE  \E d \in Callers, i \in Jobs, type \in {"commit", "release"} :
                 /\ TryFails(d, i, type)
                 /\ type = "commit" => d \in Workers /\ worker[d].at = "commit" /\ worker[d].job = i
  BY <1>2, <1>4, <1>6 DEF Callers
<1> QED BY <1>1, <1>5, <1>6, Zenon DEF TryAgain

LEMMA ReservesInWallet ==
    ASSUME NEW j \in Jobs, ReserveOrSkip(j) \/ RefuseReserve(j)
    PROVE  [WalletNext]_walletVars
<1>1. CASE ReserveFree(j) \/ ReserveRefused(j) \/ Outage
  BY <1>1 DEF ReserveFree, ReserveRefused, Outage, tokenVars, walletVars
<1>2. CASE ReserveAgain(j)
  BY <1>2 DEF ReserveAgain, ReadSnapshot, Cashier, WalletNext
<1>3. CASE Len(entries[j]) < MaxEntries /\ ReserveNew(j)
  BY <1>3 DEF Reserve, WalletNext
<1> QED BY <1>1, <1>2, <1>3 DEF ReserveOrSkip, RefuseReserve

LEMMA SettlesInWallet ==
    ASSUME NEW c, NEW j \in Jobs, NEW type \in {"commit", "release"},
           SettleOrGiveUp(c, j, type) \/ TryFails(c, j, type)
    PROVE  [WalletNext]_walletVars
BY DEF SettleOrGiveUp, TryFails, Outage, tokenVars, walletVars, WalletNext

LEMMA BillWalletStep == JobTypeOK /\ [BillNext]_billVars => [WalletNext]_walletVars
<1> SUFFICES ASSUME JobTypeOK, [BillNext]_billVars PROVE [WalletNext]_walletVars
  OBVIOUS
<1>1. CASE QueueAlone \/ UNCHANGED billVars
  BY <1>1 DEF QueueAlone, billVars, tokenVars, walletVars
<1>2. ASSUME NEW r \in Requests, BillAccepted(r) \/ BillRefused(r) PROVE [WalletNext]_walletVars
  <2>1. request[r].job \in Jobs
    BY <1>2, AtTheWallet DEF BillAccepted, BillRefused, AttachAccepted, AttachRefused
  <2> QED BY <1>2, <2>1, ReservesInWallet DEF BillAccepted, BillRefused
<1>3. ASSUME NEW r \in Requests, BillCancel(r) PROVE [WalletNext]_walletVars
  <2>1. request[r].job \in Jobs
    BY <1>3, AtTheWallet DEF BillCancel, CancelReleased
  <2> QED BY <1>3, <2>1, SettlesInWallet DEF BillCancel
<1>4. ASSUME NEW w \in Workers, BillWorker(w) PROVE [WalletNext]_walletVars
  <2>1. worker[w].job \in Jobs /\ worker[w].at \in {"commit", "release"}
    BY <1>4, AtTheWallet DEF BillWorker, WorkerSettled
  <2> QED BY <1>4, <2>1, SettlesInWallet DEF BillWorker
<1>5. ASSUME NEW s \in Sweepers, BillSweep(s) PROVE [WalletNext]_walletVars
  <2>1. sweeper[s].releasing \in Jobs
    BY <1>5, AtTheWallet DEF BillSweep, SweepReleased
  <2> QED BY <1>5, <2>1, SettlesInWallet DEF BillSweep
<1>6. CASE Cashier
  BY <1>6 DEF WalletNext
<1>7. CASE TryAgain
  <2>1. PICK c \in Callers, j \in Jobs, type \in {"commit", "release"} : TryFails(c, j, type)
    BY <1>7, TriesForAJob
  <2> QED BY <2>1, SettlesInWallet
<1> QED BY <1>1, <1>2, <1>3, <1>4, <1>5, <1>6, <1>7 DEF BillNext

(* And the wallet is the one whose every transaction is a step of its own: *)
(* what is proved of either alone is so of both together.                  *)
THEOREM BillImplementsWallet == BillSpec => WalletSpec
<1>1. BillInit => WalletInit
  BY DEF BillInit
<1> QED
  BY <1>1, BillWalletStep, BillImplementsQueue, QueueTyped, PTL DEF BillSpec, WalletSpec
-----------------------------------------------------------------------------
(* What a completion owes the wallet: the workers that have completed job  *)
(* j and have not been with the wallet yet.                                *)
Settling(j) == {w \in Workers : worker[w].at = "commit" /\ worker[w].job = j}

(* A step of the queue alone sends a worker to commit only as it completes *)
(* the job.                                                                *)
LEMMA SettlingStep ==
    ASSUME JobTypeOK, QueueStep, NEW j \in Jobs
    PROVE  \/ Settling(j)' \subseteq Settling(j)
           \/ Finishes(j) /\ \E w \in Workers : Settling(j)' \subseteq Settling(j) \cup {w}
<1> USE DEF Settling
<1>1. CASE UNCHANGED worker
  BY <1>1
<1>2. ASSUME NEW w \in Workers, Complete(w)
      PROVE  \/ Settling(j)' \subseteq Settling(j)
             \/ Finishes(j) /\ \E v \in Workers : Settling(j)' \subseteq Settling(j) \cup {v}
  <2> DEFINE i == worker[w].job
             gone == [worker[w] EXCEPT !.at = "commit"]
  <2>0. i \in Jobs /\ job[i] \in Row /\ worker[w] \in WorkerState
    BY <1>2, WorkerFields, RowFields DEF Complete
  <2>1. CASE Holds(worker[w].lease, i)
    <3>1. job[i].status = "running" /\ job' = [job EXCEPT ![i] = Completed(job[i])]
          /\ worker' = [worker EXCEPT ![w] = gone]
      BY <1>2, <2>1 DEF Complete, Holds, SetJob, SetWorker
    <3>2. gone.job = i
      BY <2>0 DEF WorkerState
    <3> HIDE DEF gone
    <3>3. worker' \in [Workers -> WorkerState \cup {gone}] /\ worker'[w] = gone
          /\ \A v \in Workers : v # w => worker'[v] = worker[v]
      BY <3>1 DEF JobTypeOK
    <3>4. Settling(j)' \subseteq Settling(j) \cup {w}
      BY <3>3
    <3>5. i = j => Finishes(j)
      BY <2>0, <3>1, RowEffects DEF Finishes, JobTypeOK
    <3>6. i # j => Settling(j)' \subseteq Settling(j)
      BY <3>2, <3>3
    <3> QED BY <3>4, <3>5, <3>6
  <2>2. CASE ~Holds(worker[w].lease, i)
    BY <1>2, <2>2, IdleTypes DEF Complete, SetWorker, JobTypeOK
  <2> QED BY <2>1, <2>2
<1>3. ASSUME NEW w \in Workers, NEW state \in WorkerState, state.at # "commit", SetWorker(w, state)
      PROVE  Settling(j)' \subseteq Settling(j)
  BY <1>3 DEF SetWorker, JobTypeOK
<1>4. ASSUME NEW w \in Workers,
             \/ \E i \in Jobs : Claim(w, i)
             \/ Reread(w) \/ CrashWorker(w)
             \/ \E error \in Errors : Fail(w, error)
      PROVE  Settling(j)' \subseteq Settling(j)
  <2>0. worker[w] \in WorkerState /\ leases \in Nat
    BY DEF JobTypeOK
  <2>1. CASE \E i \in Jobs : Claim(w, i)
    <3>1. PICK i \in Jobs : Claim(w, i)
      BY <2>1
    <3> DEFINE n == leases + 1
    <3>2. n \in Nat /\ SetWorker(w, [IdleWorker EXCEPT !.at = "reread", !.job = i, !.mine = n])
      BY <2>0, <3>1 DEF Claim
    <3> HIDE DEF n
    <3>3. [IdleWorker EXCEPT !.at = "reread", !.job = i, !.mine = n] \in WorkerState
      BY <3>2 DEF IdleWorker, WorkerState
    <3>4. [IdleWorker EXCEPT !.at = "reread", !.job = i, !.mine = n].at = "reread"
      BY DEF IdleWorker
    <3> QED BY <1>3, <3>2, <3>3, <3>4
  <2>2. CASE Reread(w)
    <3>1. worker[w].job \in Jobs
      BY <2>2, WorkerFields DEF Reread
    <3> DEFINE row == job[worker[w].job]
               state == [worker[w] EXCEPT !.at = "run", !.lease = row.lease,
                                          !.attempts = row.attempts]
    <3>2. row.lease \in Nat /\ row.attempts \in Nat
      BY <3>1, RowFields
    <3>3. SetWorker(w, state) \/ SetWorker(w, IdleWorker)
      BY <2>2 DEF Reread
    <3> HIDE DEF row
    <3>4. state \in WorkerState /\ state.at = "run"
      BY <2>0, <3>2 DEF WorkerState
    <3> HIDE DEF state
    <3> QED BY <1>3, <3>3, <3>4, IdleTypes
  <2>3. CASE CrashWorker(w)
    BY <1>3, <2>3, IdleTypes DEF CrashWorker
  <2>4. ASSUME NEW error \in Errors, Fail(w, error) PROVE Settling(j)' \subseteq Settling(j)
    <3>1. SetWorker(w, [worker[w] EXCEPT !.at = "release"]) \/ SetWorker(w, IdleWorker)
      BY <2>4 DEF Fail
    <3>2. /\ [worker[w] EXCEPT !.at = "release"] \in WorkerState
          /\ [worker[w] EXCEPT !.at = "release"].at = "release"
      BY <2>0, WorkerMoves
    <3> QED BY <1>3, <3>1, <3>2, IdleTypes
  <2> QED BY <1>4, <2>1, <2>2, <2>3, <2>4
<1>5. ASSUME NEW r \in Requests, RequestStep(r) \/ CrashRequest(r) PROVE UNCHANGED worker
  BY <1>5 DEF RequestStep, EnqueueNew, EnqueueRevive, RetryRead, Cancel, ResetDead, CreateRow,
     RetryReset, CancelRefused, RetryAllRead, RetryAllReset, RetryAllNext, CrashRequest
<1>6. CASE Maintain
  BY <1>1, <1>6 DEF Maintain, SweepRead, SweepFail, CrashSweep, Prune, BackoffEnds, GrowStale
<1> QED BY <1>1, <1>2, <1>4, <1>5, <1>6 DEF QueueStep, WorkerStep, Crash
-----------------------------------------------------------------------------
LedgerTyped == entries \in [Jobs -> Seq(JobEntry)] /\ price \in [Jobs -> Prices]

CommitRows(j) == {i \in 1..Len(entries[j]) : entries[j][i].type = "commit"}

(* A row more is a commit more, or none.                                   *)
LEMMA RowAdded ==
    ASSUME LedgerTyped, NEW j \in Jobs, NEW row \in JobEntry,
           entries' = [entries EXCEPT ![j] = Append(entries[j], row)]
    PROVE  /\ entries' \in [Jobs -> Seq(JobEntry)]
           /\ \A i \in Jobs \ {j} : CommitRows(i)' = CommitRows(i)
           /\ row.type # "commit" => CommitRows(j)' = CommitRows(j)
           /\ CommitRows(j)' \subseteq CommitRows(j) \cup {Len(entries[j]) + 1}
<1> DEFINE old == entries[j]
           new == Append(old, row)
<1>1. old \in Seq(JobEntry)
  BY DEF LedgerTyped
<1>2. /\ new \in Seq(JobEntry) /\ Len(new) = Len(old) + 1
      /\ \A i \in 1..Len(old) : new[i] = old[i]
      /\ new[Len(old) + 1] = row
  BY <1>1
<1>3. Len(old) \in Nat
  BY <1>1
<1>4. entries'[j] = new /\ \A i \in Jobs \ {j} : entries'[i] = entries[i]
  BY DEF LedgerTyped
<1>5. entries' \in [Jobs -> Seq(JobEntry)]
  BY <1>2 DEF LedgerTyped
<1> HIDE DEF new
<1>6. CommitRows(j)' = {i \in 1..Len(new) : new[i].type = "commit"}
  BY <1>4 DEF CommitRows
<1>7. CommitRows(j) = {i \in 1..Len(old) : old[i].type = "commit"}
  BY DEF CommitRows
<1>8. CommitRows(j)' \subseteq CommitRows(j) \cup {Len(old) + 1}
  BY <1>2, <1>3, <1>6, <1>7
<1>9. row.type # "commit" => CommitRows(j)' = CommitRows(j)
  BY <1>2, <1>3, <1>6, <1>7
<1> QED BY <1>4, <1>5, <1>8, <1>9 DEF CommitRows

LEMMA CommitsFinite ==
    ASSUME LedgerTyped, NEW j \in Jobs
    PROVE  IsFiniteSet(CommitRows(j)) /\ Commits(j) = Cardinality(CommitRows(j)) /\ Commits(j) \in Nat
<1>1. Len(entries[j]) \in Nat
  BY DEF LedgerTyped
<1>2. IsFiniteSet(1..Len(entries[j]))
  BY <1>1, FS_Interval
<1>3. IsFiniteSet(CommitRows(j))
  BY <1>2, FS_Subset DEF CommitRows
<1>4. Commits(j) = Cardinality(CommitRows(j))
  BY DEF Commits, CommitRows
<1> QED BY <1>3, <1>4, FS_CardinalityType

(* What the wallet does for a call of the queue: it adds a commit for the  *)
(* job of the call, when it is asked to, and for no other.                 *)
LEMMA OpenAmountTyped ==
    ASSUME LedgerTyped, NEW j \in Jobs, HasOpen(j) PROVE OpenAmount(j) \in Nat
<1>1. entries[j] \in Seq(JobEntry) /\ entries[j] # <<>>
  BY DEF LedgerTyped, HasOpen
<1>2. entries[j][Len(entries[j])] \in JobEntry
  BY <1>1
<1> QED BY <1>2 DEF OpenAmount, JobEntry

LEMMA LedgerStays ==
    ASSUME LedgerTyped, UNCHANGED entries, UNCHANGED price \/ \E j \in Jobs : ChangePrice(j)
    PROVE  LedgerTyped' /\ \A j \in Jobs : CommitRows(j)' = CommitRows(j)
BY DEF LedgerTyped, CommitRows, ChangePrice

LEMMA ReserveCommitsNothing ==
    ASSUME LedgerTyped, NEW j \in Jobs, ReserveOrSkip(j) \/ RefuseReserve(j)
    PROVE  LedgerTyped' /\ \A i \in Jobs : CommitRows(i)' = CommitRows(i)
<1>1. CASE UNCHANGED <<entries, price>>
  BY <1>1, LedgerStays
<1>2. CASE ReserveNew(j)
  <2> DEFINE row == [type |-> "reserve", amount |-> price[j]]
  <2>1. row \in JobEntry /\ row.type = "reserve"
    BY BillingAssumption DEF JobEntry, LedgerTyped, BillingAssumption
  <2>2. entries' = [entries EXCEPT ![j] = Append(entries[j], row)] /\ price' = price
    BY <1>2 DEF ReserveNew
  <2> HIDE DEF row
  <2> QED BY <2>1, <2>2, RowAdded DEF LedgerTyped
<1> QED
  BY <1>1, <1>2 DEF ReserveOrSkip, RefuseReserve, ReserveFree, ReserveAgain, ReserveRefused,
     Outage, tokenVars, walletVars

LEMMA SettleCommitsOne ==
    ASSUME LedgerTyped, NEW c, NEW j \in Jobs, NEW type \in {"commit", "release"},
           SettleOrGiveUp(c, j, type) \/ TryFails(c, j, type)
    PROVE  /\ LedgerTyped'
           /\ \A i \in Jobs \ {j} : CommitRows(i)' = CommitRows(i)
           /\ type = "release" => CommitRows(j)' = CommitRows(j)
           /\ CommitRows(j)' \subseteq CommitRows(j) \cup {Len(entries[j]) + 1}
<1>1. CASE UNCHANGED <<entries, price>>
  BY <1>1, LedgerStays
<1>2. CASE HasOpen(j) /\ Settle(j, type)
  <2> DEFINE row == [type |-> type, amount |-> OpenAmount(j)]
  <2>1. row \in JobEntry /\ row.type = type
    BY <1>2, OpenAmountTyped DEF JobEntry
  <2>2. entries' = [entries EXCEPT ![j] = Append(entries[j], row)] /\ price' = price
    BY <1>2 DEF Settle
  <2> HIDE DEF row
  <2> QED BY <2>1, <2>2, RowAdded DEF LedgerTyped
<1> QED BY <1>1, <1>2 DEF SettleOrGiveUp, TryFails, Settle, Outage, tokenVars, walletVars

LEMMA CashierCommitsNothing ==
    ASSUME LedgerTyped, Cashier
    PROVE  LedgerTyped' /\ \A i \in Jobs : CommitRows(i)' = CommitRows(i)
<1>1. UNCHANGED entries /\ (UNCHANGED price \/ \E j \in Jobs : ChangePrice(j))
  BY DEF Cashier, Gift, ReadSnapshot, NextMonth, CreatePayment, ReadPayment, ClaimPayment,
     ChangePrice
<1> QED BY <1>1, LedgerStays
-----------------------------------------------------------------------------
(* The inductive invariant: what has been charged and what is about to be  *)
(* is within the completions and the charges that nobody heard of.         *)
Allowed(j) == completions[j] + unheard[j]
Due(j) == IsFiniteSet(Settling(j)) /\ Commits(j) + Cardinality(Settling(j)) <= Allowed(j)

RecordsOK == completions \in [Jobs -> Nat] /\ unheard \in [Jobs -> Nat]

BillInv ==
    /\ JobTypeOK /\ LedgerTyped /\ RecordsOK
    /\ \A j \in Jobs : Due(j)

LEMMA BillInvStarts == BillInit => BillInv
<1> SUFFICES ASSUME BillInit PROVE BillInv
  OBVIOUS
<1>1. JobTypeOK
  BY RowEffects, IdleTypes DEF BillInit, QueueInit, JobTypeOK
<1>2. LedgerTyped
  BY DEF BillInit, WalletInit, LedgerTyped
<1>3. ASSUME NEW j \in Jobs PROVE Due(j)
  <2>1. Settling(j) = {}
    BY IdleTypes DEF BillInit, QueueInit, Settling
  <2>2. CommitRows(j) = {}
    BY DEF BillInit, WalletInit, CommitRows
  <2>3. Commits(j) = 0 /\ Allowed(j) = 0
    BY <1>2, <2>2, CommitsFinite, FS_EmptySet DEF BillInit, Allowed
  <2> QED BY <2>1, <2>3, FS_EmptySet DEF Due
<1> QED BY <1>1, <1>2, <1>3 DEF BillInv, BillInit, RecordsOK

LEMMA AllowedTyped == BillInv => \A j \in Jobs : Allowed(j) \in Nat
BY DEF BillInv, RecordsOK, Allowed

(* No more commits and no more workers on their way.                       *)
LEMMA DueStays ==
    ASSUME BillInv, LedgerTyped', NEW j \in Jobs, CommitRows(j)' = CommitRows(j),
           Settling(j)' \subseteq Settling(j),
           Allowed(j)' \in Nat, Allowed(j)' >= Allowed(j)
    PROVE  Due(j)'
<1>1. Commits(j)' = Commits(j) /\ Commits(j) \in Nat
  BY CommitsFinite DEF BillInv, Commits, CommitRows
<1>2. /\ IsFiniteSet(Settling(j)) /\ Commits(j) + Cardinality(Settling(j)) <= Allowed(j)
      /\ Allowed(j) \in Nat
  BY AllowedTyped DEF BillInv, Due
<1>3. IsFiniteSet(Settling(j)') /\ Cardinality(Settling(j)') <= Cardinality(Settling(j))
  BY <1>2, FS_Subset
<1>4. Cardinality(Settling(j)) \in Nat /\ Cardinality(Settling(j)') \in Nat
  BY <1>2, <1>3, FS_CardinalityType
<1> QED BY <1>1, <1>2, <1>3, <1>4 DEF Due

(* A completion sends one worker on its way.                               *)
LEMMA DueOnCompletion ==
    ASSUME BillInv, LedgerTyped', NEW j \in Jobs, NEW w, CommitRows(j)' = CommitRows(j),
           Settling(j)' \subseteq Settling(j) \cup {w}, Allowed(j)' = Allowed(j) + 1
    PROVE  Due(j)'
<1>1. Commits(j)' = Commits(j) /\ Commits(j) \in Nat
  BY CommitsFinite DEF BillInv, Commits, CommitRows
<1>2. /\ IsFiniteSet(Settling(j)) /\ Commits(j) + Cardinality(Settling(j)) <= Allowed(j)
      /\ Allowed(j) \in Nat
  BY AllowedTyped DEF BillInv, Due
<1> DEFINE n == Cardinality(Settling(j))
<1>a. n \in Nat
  BY <1>2, FS_CardinalityType
<1>b. /\ IsFiniteSet(Settling(j) \cup {w})
      /\ Cardinality(Settling(j) \cup {w}) = IF w \in Settling(j) THEN n ELSE n + 1
  BY <1>2, FS_AddElement
<1> HIDE DEF n
<1>3. IsFiniteSet(Settling(j) \cup {w}) /\ Cardinality(Settling(j) \cup {w}) <= n + 1
  BY <1>a, <1>b
<1>4. /\ IsFiniteSet(Settling(j)')
      /\ Cardinality(Settling(j)') <= Cardinality(Settling(j) \cup {w})
  BY <1>3, FS_Subset
<1>5. Cardinality(Settling(j)') \in Nat /\ Cardinality(Settling(j) \cup {w}) \in Nat
  BY <1>3, <1>4, FS_CardinalityType
<1> QED BY <1>1, <1>2, <1>a, <1>3, <1>4, <1>5 DEF Due, n

(* The wallet takes the charge of a worker that leaves it.                 *)
LEMMA DueOnCommit ==
    ASSUME BillInv, LedgerTyped', NEW j \in Jobs, NEW w \in Settling(j), NEW n,
           CommitRows(j)' \subseteq CommitRows(j) \cup {n},
           Settling(j)' \subseteq Settling(j) \ {w}, Allowed(j)' = Allowed(j)
    PROVE  Due(j)'
<1>1. /\ IsFiniteSet(CommitRows(j)) /\ Commits(j) = Cardinality(CommitRows(j)) /\ Commits(j) \in Nat
  BY CommitsFinite DEF BillInv
<1> DEFINE m == Cardinality(CommitRows(j))
<1>a. /\ IsFiniteSet(CommitRows(j) \cup {n})
      /\ Cardinality(CommitRows(j) \cup {n}) = IF n \in CommitRows(j) THEN m ELSE m + 1
  BY <1>1, FS_AddElement
<1>b. m \in Nat /\ m = Commits(j)
  BY <1>1
<1> HIDE DEF m
<1>3. Cardinality(CommitRows(j) \cup {n}) <= Commits(j) + 1
  BY <1>a, <1>b
<1>4. /\ IsFiniteSet(CommitRows(j)')
      /\ Cardinality(CommitRows(j)') <= Cardinality(CommitRows(j) \cup {n})
  BY <1>a, FS_Subset
<1>2. Commits(j)' = Cardinality(CommitRows(j)') /\ Commits(j)' \in Nat
  <2>1. Cardinality(CommitRows(j)') \in Nat
    BY <1>4, FS_CardinalityType
  <2> QED BY <2>1 DEF Commits, CommitRows
<1>5. /\ IsFiniteSet(Settling(j)) /\ Commits(j) + Cardinality(Settling(j)) <= Allowed(j)
      /\ Allowed(j) \in Nat
  BY AllowedTyped DEF BillInv, Due
<1>6. /\ IsFiniteSet(Settling(j) \ {w}) /\ Cardinality(Settling(j)) \in Nat
      /\ Cardinality(Settling(j) \ {w}) = Cardinality(Settling(j)) - 1
  BY <1>5, FS_RemoveElement, FS_CardinalityType
<1>7. /\ IsFiniteSet(Settling(j)')
      /\ Cardinality(Settling(j)') <= Cardinality(Settling(j) \ {w})
  BY <1>6, FS_Subset
<1>8. /\ Cardinality(Settling(j)') \in Nat /\ Cardinality(Settling(j) \ {w}) \in Nat
      /\ Cardinality(CommitRows(j) \cup {n}) \in Nat
  BY <1>a, <1>6, <1>7, FS_CardinalityType
<1> QED BY <1>1, <1>2, <1>3, <1>4, <1>5, <1>6, <1>7, <1>8 DEF Due

(* A charge that was not heard of leaves its worker where it is.           *)
LEMMA DueOnUnheard ==
    ASSUME BillInv, LedgerTyped', NEW j \in Jobs, NEW n,
           CommitRows(j)' \subseteq CommitRows(j) \cup {n},
           Settling(j)' = Settling(j), Allowed(j)' = Allowed(j) + 1
    PROVE  Due(j)'
<1>1. /\ IsFiniteSet(CommitRows(j)) /\ Commits(j) = Cardinality(CommitRows(j)) /\ Commits(j) \in Nat
  BY CommitsFinite DEF BillInv
<1> DEFINE m == Cardinality(CommitRows(j))
<1>2. /\ IsFiniteSet(CommitRows(j) \cup {n})
      /\ Cardinality(CommitRows(j) \cup {n}) = IF n \in CommitRows(j) THEN m ELSE m + 1
  BY <1>1, FS_AddElement
<1>3. m \in Nat /\ m = Commits(j)
  BY <1>1
<1> HIDE DEF m
<1>4. /\ IsFiniteSet(CommitRows(j)')
      /\ Cardinality(CommitRows(j)') <= Cardinality(CommitRows(j) \cup {n})
  BY <1>2, FS_Subset
<1>5. Cardinality(CommitRows(j)') \in Nat
  BY <1>4, FS_CardinalityType
<1>6. Commits(j)' = Cardinality(CommitRows(j)')
  BY DEF Commits, CommitRows
<1>7. Commits(j)' \in Nat /\ Commits(j)' <= Commits(j) + 1
  BY <1>2, <1>3, <1>4, <1>5, <1>6
<1>8. /\ IsFiniteSet(Settling(j)) /\ Commits(j) + Cardinality(Settling(j)) <= Allowed(j)
      /\ Allowed(j) \in Nat
  BY AllowedTyped DEF BillInv, Due
<1>9. Cardinality(Settling(j)) \in Nat
  BY <1>8, FS_CardinalityType
<1> QED BY <1>1, <1>7, <1>8, <1>9 DEF Due

LEMMA BillInvStep == BillInv /\ [BillNext]_billVars => BillInv'
<1> SUFFICES ASSUME BillInv, [BillNext]_billVars PROVE BillInv'
  OBVIOUS
<1>0. JobTypeOK /\ LedgerTyped /\ RecordsOK
  BY DEF BillInv
<1>1. JobTypeOK'
  BY <1>0, BillQueueStep, QueueStepCases, QueueTypeStep
<1>2. CASE QueueAlone
  <2>1. LedgerTyped' /\ \A j \in Jobs : CommitRows(j)' = CommitRows(j)
    BY <1>0, <1>2, LedgerStays DEF QueueAlone, tokenVars
  <2>2. RecordsOK'
    BY <1>0, <1>2 DEF QueueAlone, RecordsOK
  <2>3. ASSUME NEW j \in Jobs PROVE Due(j)'
    <3>1. Allowed(j)' = IF Finishes(j) THEN Allowed(j) + 1 ELSE Allowed(j)
      BY <1>0, <1>2 DEF QueueAlone, RecordsOK, Allowed
    <3>2. CASE Settling(j)' \subseteq Settling(j)
      <4>1. Allowed(j)' \in Nat /\ Allowed(j)' >= Allowed(j)
        BY <3>1, AllowedTyped
      <4> QED BY <2>1, <3>2, <4>1, DueStays
    <3>3. ASSUME Finishes(j), NEW w \in Workers, Settling(j)' \subseteq Settling(j) \cup {w}
          PROVE  Due(j)'
      BY <2>1, <3>1, <3>3, DueOnCompletion
    <3> QED BY <1>0, <1>2, <3>2, <3>3, SettlingStep DEF QueueAlone
  <2> QED BY <1>1, <2>1, <2>2, <2>3 DEF BillInv
<1>3. ASSUME LedgerTyped', \A j \in Jobs : CommitRows(j)' = CommitRows(j),
             \A j \in Jobs : Settling(j)' \subseteq Settling(j), UNCHANGED completions,
             UNCHANGED unheard
      PROVE  BillInv'
  <2>1. ASSUME NEW j \in Jobs PROVE Due(j)'
    <3>1. Allowed(j)' \in Nat /\ Allowed(j)' >= Allowed(j)
      BY <1>3, AllowedTyped DEF Allowed
    <3> QED BY <1>3, <3>1, DueStays
  <2> QED BY <1>0, <1>1, <1>3, <2>1 DEF BillInv, RecordsOK
<1>4. UNCHANGED worker => \A j \in Jobs : Settling(j)' = Settling(j)
  BY DEF Settling
<1>5. ASSUME NEW r \in Requests, BillAccepted(r) \/ BillRefused(r) PROVE BillInv'
  <2>1. request[r].job \in Jobs
    BY <1>0, <1>5, AtTheWallet DEF BillAccepted, BillRefused, AttachAccepted, AttachRefused
  <2>2. LedgerTyped' /\ \A j \in Jobs : CommitRows(j)' = CommitRows(j)
    BY <1>0, <1>5, <2>1, ReserveCommitsNothing DEF BillAccepted, BillRefused
  <2> QED
    BY <1>3, <1>4, <1>5, <2>2 DEF BillAccepted, BillRefused, AttachAccepted, AttachRefused, records
<1>6. ASSUME NEW c, NEW i \in Jobs, SettleOrGiveUp(c, i, "release"), UNCHANGED worker
      PROVE  BillInv'
  <2>1. UNCHANGED completions /\ UNCHANGED unheard
    BY <1>6 DEF SettleOrGiveUp, records
  <2> QED BY <1>0, <1>3, <1>4, <1>6, <2>1, SettleCommitsOne
<1>7. ASSUME NEW r \in Requests, BillCancel(r) PROVE BillInv'
  <2>1. request[r].job \in Jobs
    BY <1>0, <1>7, AtTheWallet DEF BillCancel, CancelReleased
  <2> QED BY <1>6, <1>7, <2>1 DEF BillCancel, CancelReleased
<1>8. ASSUME NEW s \in Sweepers, BillSweep(s) PROVE BillInv'
  <2>1. sweeper[s].releasing \in Jobs
    BY <1>0, <1>8, AtTheWallet DEF BillSweep, SweepReleased
  <2> QED BY <1>6, <1>8, <2>1 DEF BillSweep, SweepReleased
<1>9. ASSUME NEW w \in Workers, BillWorker(w) PROVE BillInv'
  <2>1. PICK i \in Jobs, type \in {"commit", "release"} :
          i = worker[w].job /\ type = worker[w].at
    BY <1>0, <1>9, AtTheWallet DEF BillWorker, WorkerSettled
  <2>2. SettleOrGiveUp(w, i, type) /\ worker' = [worker EXCEPT ![w] = IdleWorker]
    BY <1>9, <2>1 DEF BillWorker, WorkerSettled, SetWorker
  <2>0. UNCHANGED completions /\ UNCHANGED unheard
    BY <2>2 DEF SettleOrGiveUp, records
  <2>3. /\ worker'[w] = IdleWorker /\ \A v \in Workers : v # w => worker'[v] = worker[v]
    BY <1>0, <2>2 DEF JobTypeOK
  <2>4. \A j \in Jobs : Settling(j)' \subseteq Settling(j) \ {w}
    BY <2>3, IdleTypes DEF Settling
  <2>5. /\ LedgerTyped'
        /\ \A j \in Jobs \ {i} : CommitRows(j)' = CommitRows(j)
        /\ type = "release" => CommitRows(i)' = CommitRows(i)
        /\ CommitRows(i)' \subseteq CommitRows(i) \cup {Len(entries[i]) + 1}
    BY <1>0, <2>2, SettleCommitsOne
  <2>6. CASE type = "release"
    BY <1>3, <2>0, <2>4, <2>5, <2>6
  <2>7. CASE type = "commit"
    <3>1. w \in Settling(i)
      BY <2>1, <2>7 DEF Settling
    <3>2. Due(i)'
      <4>1. Allowed(i)' = Allowed(i)
        BY <2>0 DEF Allowed
      <4> QED BY <2>1, <2>4, <2>5, <3>1, <4>1, DueOnCommit
    <3>3. ASSUME NEW j \in Jobs \ {i} PROVE Due(j)'
      <4>1. Allowed(j)' \in Nat /\ Allowed(j)' >= Allowed(j)
        BY <2>0, AllowedTyped DEF Allowed
      <4> QED BY <2>4, <2>5, <4>1, DueStays
    <3> QED BY <1>0, <1>1, <2>0, <2>5, <3>2, <3>3 DEF BillInv, RecordsOK
  <2> QED BY <2>1, <2>6, <2>7
<1>10. CASE Cashier /\ UNCHANGED <<queueVars, tries, records>>
  BY <1>0, <1>3, <1>4, <1>10, CashierCommitsNothing DEF queueVars, records
<1>11. CASE UNCHANGED billVars
  BY <1>0, <1>3, <1>4, <1>11, LedgerStays DEF billVars, queueVars, tokenVars, records
<1>12. CASE TryAgain
  <2>1. PICK c \in Callers, i \in Jobs, type \in {"commit", "release"} :
          /\ TryFails(c, i, type)
          /\ type = "commit" => c \in Workers /\ worker[c].at = "commit" /\ worker[c].job = i
    BY <1>0, <1>12, TriesForAJob
  <2>2. /\ LedgerTyped'
        /\ \A j \in Jobs \ {i} : CommitRows(j)' = CommitRows(j)
        /\ type = "release" => CommitRows(i)' = CommitRows(i)
        /\ CommitRows(i)' \subseteq CommitRows(i) \cup {Len(entries[i]) + 1}
    BY <1>0, <2>1, SettleCommitsOne
  <2>3. UNCHANGED worker /\ UNCHANGED completions
    BY <2>1 DEF TryFails, queueVars
  <2>4. CASE UNCHANGED unheard /\ UNCHANGED entries /\ UNCHANGED price
    BY <1>0, <1>3, <1>4, <2>3, <2>4, LedgerStays
  <2>5. CASE unheard' = [unheard EXCEPT ![i] = IF type = "commit" THEN @ + 1 ELSE @]
    <3>1. /\ RecordsOK'
          /\ \A j \in Jobs \ {i} : Allowed(j)' = Allowed(j)
          /\ Allowed(i)' = IF type = "commit" THEN Allowed(i) + 1 ELSE Allowed(i)
      BY <1>0, <2>3, <2>5 DEF RecordsOK, Allowed
    <3>2. ASSUME NEW j \in Jobs \ {i} PROVE Due(j)'
      <4>1. Allowed(j)' \in Nat /\ Allowed(j)' >= Allowed(j)
        BY <3>1, AllowedTyped
      <4> QED BY <1>4, <2>2, <2>3, <4>1, DueStays
    <3>3. CASE type = "release"
      <4>1. Allowed(i)' \in Nat /\ Allowed(i)' >= Allowed(i)
        BY <3>1, <3>3, AllowedTyped
      <4>2. Due(i)'
        BY <1>4, <2>2, <2>3, <3>3, <4>1, DueStays
      <4> QED BY <1>1, <2>2, <3>1, <3>2, <4>2 DEF BillInv
    <3>4. CASE type = "commit"
      <4>1. Due(i)'
        BY <1>4, <2>2, <2>3, <3>1, <3>4, DueOnUnheard
      <4> QED BY <1>1, <2>2, <3>1, <3>2, <4>1 DEF BillInv
    <3> QED BY <3>3, <3>4
  <2> QED BY <2>1, <2>4, <2>5 DEF TryFails, Outage, tokenVars
<1> QED BY <1>2, <1>5, <1>7, <1>8, <1>9, <1>10, <1>11, <1>12 DEF BillNext

(* No tenant pays for a run that was not completed, however often a job is *)
(* retried, lost or recovered and whichever transactions fail, but for one *)
(* charge for each that was made and not heard of.                         *)
THEOREM BillCharged == BillSpec => []ChargedForCompletion
<1>1. BillInv => ChargedForCompletion
  <2> SUFFICES ASSUME BillInv, NEW j \in Jobs PROVE Commits(j) <= Allowed(j)
    BY DEF ChargedForCompletion, Allowed
  <2>1. /\ IsFiniteSet(Settling(j)) /\ Commits(j) + Cardinality(Settling(j)) <= Allowed(j)
        /\ Allowed(j) \in Nat /\ Commits(j) \in Nat
    BY AllowedTyped, CommitsFinite DEF BillInv, Due
  <2>2. Cardinality(Settling(j)) \in Nat
    BY <2>1, FS_CardinalityType
  <2> QED BY <2>1, <2>2
<1> QED BY <1>1, BillInvStarts, BillInvStep, PTL DEF BillSpec
-----------------------------------------------------------------------------
(* The lease of interval maintenance                                       *)

LEMMA LeaseTypeInit == Init => LeaseTypeOK
BY LeaseAssumption DEF Init, LeaseTypeOK, TickState

(* One tick of one task goes on. *)
LEMMA TickTypes ==
    ASSUME LeaseTypeOK, NEW r \in Replicas, NEW t \in Tasks,
           TickStep(r, t) \/ Skip(r, t) \/ AcquireFails(r, t)
    PROVE  LeaseTypeOK'
<1> USE DEF LeaseTypeOK, TickState, Stage
<1>1. CASE Tick(r, t)
  BY <1>1 DEF Tick
<1>2. CASE Acquire(r, t)
  <2>1. PICK at \in {"start", "confirm"} : task' = [task EXCEPT ![r][t] = at]
    BY <1>2 DEF Acquire
  <2>2. UNCHANGED <<running, missed, stopped>> /\ task[r][t] = "acquire"
    BY <1>2 DEF Acquire
  <2>3. lease' = lease \/ lease' = [holder |-> r, expired |-> FALSE]
    BY <1>2 DEF Acquire
  <2>4. /\ lease' \in [holder : Replicas \cup {Nobody}, expired : BOOLEAN]
        /\ lease'.holder = Nobody => lease'.expired
    <3>1. CASE lease' = lease
      BY <3>1
    <3>2. CASE lease' = [holder |-> r, expired |-> FALSE]
      BY <3>2, LeaseAssumption
    <3> QED BY <2>3, <3>1, <3>2
  <2> QED BY <2>1, <2>2, <2>4
<1>3. CASE Confirm(r, t)
  BY <1>3 DEF Confirm
<1>4. CASE Start(r, t)
  BY <1>4 DEF Start
<1>5. CASE Finish(r, t)
  BY <1>5 DEF Finish
<1>6. CASE Skip(r, t)
  BY <1>6 DEF Skip
<1>7. CASE AcquireFails(r, t)
  BY <1>7 DEF AcquireFails
<1> QED BY <1>1, <1>2, <1>3, <1>4, <1>5, <1>6, <1>7 DEF TickStep

LEMMA LeaseTypeStep == LeaseTypeOK /\ [Next]_vars => LeaseTypeOK'
<1> SUFFICES ASSUME LeaseTypeOK, [Next]_vars PROVE LeaseTypeOK'
  OBVIOUS
<1>1. ASSUME NEW r \in Replicas, Stop(r) PROVE LeaseTypeOK'
  BY <1>1 DEF Stop, LeaseTypeOK
<1>2. CASE Expire
  BY <1>2 DEF Expire, LeaseTypeOK
<1>3. CASE UNCHANGED vars
  BY <1>3 DEF vars, LeaseTypeOK
<1> QED BY <1>1, <1>2, <1>3, TickTypes DEF Next

(* The lease, the ticks and the flags keep their types, and the flag of a  *)
(* task is set exactly while the task runs.                                *)
THEOREM LeaseTyped == Spec => []LeaseTypeOK
BY LeaseTypeInit, LeaseTypeStep, PTL DEF Spec
-----------------------------------------------------------------------------
LEMMA HoldsInit == Init => HoldsLease
BY LeaseAssumption DEF Init, HoldsLease, Runs

(* Whoever runs a task already cannot lose the lease to a claim: it has    *)
(* not expired, and a claim by the holder itself renews it.                *)
LEMMA TickHolds ==
    ASSUME LeaseTypeOK, HoldsLease, NEW r \in Replicas, NEW t \in Tasks,
           TickStep(r, t) \/ Skip(r, t) \/ AcquireFails(r, t)
    PROVE  HoldsLease'
<1> USE DEF LeaseTypeOK, HoldsLease, Runs, Stage
<1>1. CASE Tick(r, t)
  BY <1>1, LeaseAssumption DEF Tick
<1>2. CASE Acquire(r, t)
  <2>1. CASE Free(r) /\ lease' = [holder |-> r, expired |-> FALSE]
    <3>1. \A q \in Replicas, u \in Tasks : Runs(q, u) => q = r
      BY <2>1 DEF Free
    <3> QED BY <1>2, <2>1, <3>1 DEF Acquire
  <2>2. CASE ~Free(r) /\ UNCHANGED lease
    <3>1. /\ task' = [task EXCEPT ![r][t] = "confirm"]
          /\ UNCHANGED <<lease, missed, stopped>>
      BY <1>2, <2>2 DEF Acquire
    <3>2. \A q \in Replicas, u \in Tasks :
             task'[q][u] \in {"start", "run"} => task[q][u] \in {"start", "run"}
      BY <3>1
    <3>3. \A q \in Replicas, u \in Tasks : Runs(q, u)' => lease'.holder = q /\ ~lease'.expired
      BY <3>1, <3>2
    <3>4. \A q \in Replicas, u \in Punctual : ~missed'[q][u]
      BY <3>1
    <3> QED BY <3>3, <3>4
  <2> QED BY <1>2, <2>1, <2>2 DEF Acquire
<1>3. CASE Confirm(r, t)
  BY <1>3 DEF Confirm
<1>4. CASE Start(r, t)
  <2>1. /\ task' = [task EXCEPT ![r][t] = "run"] /\ task[r][t] = "start"
        /\ UNCHANGED <<lease, missed, stopped>>
    BY <1>4 DEF Start
  <2>2. \A q \in Replicas, u \in Tasks :
           task'[q][u] \in {"start", "run"} => task[q][u] \in {"start", "run"}
    BY <2>1
  <2> QED BY <2>1, <2>2
<1>5. CASE Finish(r, t)
  BY <1>5 DEF Finish
<1>6. CASE Skip(r, t)
  BY <1>6 DEF Skip
<1>7. CASE AcquireFails(r, t)
  BY <1>7 DEF AcquireFails
<1> QED BY <1>1, <1>2, <1>3, <1>4, <1>5, <1>6, <1>7 DEF TickStep

LEMMA HoldsStep ==
    Punctual # {} /\ LeaseTypeOK /\ HoldsLease /\ [Next]_vars => HoldsLease'
<1> SUFFICES ASSUME Punctual # {}, LeaseTypeOK, HoldsLease, [Next]_vars
             PROVE  HoldsLease'
  OBVIOUS
<1>1. ASSUME NEW r \in Replicas, Stop(r) PROVE HoldsLease'
  BY <1>1 DEF Stop, HoldsLease, Runs
<1>2. CASE Expire
  <2>1. lease.holder \in Replicas /\ lease.holder \in stopped
    BY <1>2, LeaseAssumption DEF Expire, LeaseTypeOK, HoldsLease
  <2>2. \A r \in Replicas, t \in Tasks : ~Runs(r, t)
    BY <2>1 DEF HoldsLease, Runs
  <2> QED BY <1>2, <2>2 DEF Expire, HoldsLease, Runs
<1>3. CASE UNCHANGED vars
  BY <1>3 DEF vars, HoldsLease, Runs
<1> QED BY <1>1, <1>2, <1>3, TickHolds DEF Next

(* With one punctual task, interval maintenance runs on one replica at a   *)
(* time: the lease of whoever runs a task is renewed until it stops.       *)
THEOREM LeaseOneReplica == Punctual # {} => (Spec => []OneReplicaRuns)
<1> SUFFICES ASSUME Punctual # {} PROVE Spec => []OneReplicaRuns
  OBVIOUS
<1>1. HoldsLease => OneReplicaRuns
  BY DEF HoldsLease, OneReplicaRuns
<1>2. LeaseTypeOK /\ HoldsLease /\ [Next]_vars => HoldsLease'
  BY HoldsStep
<1> QED BY <1>1, <1>2, HoldsInit, LeaseTyped, PTL DEF Spec
-----------------------------------------------------------------------------
(* The background as a whole                                               *)

(* Of the parts that are explored side by side each takes its own steps.   *)
LEMMA BackgroundStep ==
    [BackgroundNext]_<<part, jobs, maintenance, page>> => [BillNext]_billVars /\ [Next]_vars
BY DEF BackgroundNext, jobs, maintenance, page, vars

(* The composition behaves as the billed queue and as the lease do.        *)
THEOREM BackgroundImplements == BackgroundSpec => BillSpec /\ Spec
<1>1. BackgroundInit => BillInit /\ Init
  BY DEF BackgroundInit
<1> QED BY <1>1, BackgroundStep, PTL DEF BackgroundSpec, BillSpec, Spec

(* In the background, too: one owner per claim, an exact retry budget, no  *)
(* charge without a completion, for each job the life that it was promised *)
(* and, with one punctual task, one replica.                               *)
THEOREM BackgroundSafe ==
    /\ BackgroundSpec => []QueueInv /\ []ChargedForCompletion /\ LivesOn
    /\ Punctual # {} => (BackgroundSpec => []OneReplicaRuns)
<1>1. BackgroundSpec => []QueueInv /\ []ChargedForCompletion /\ LivesOn
  BY BackgroundImplements, BillImplementsQueue, QueueKept, QueueLivesOn, BillCharged, PTL
<1>2. ASSUME Punctual # {} PROVE BackgroundSpec => []OneReplicaRuns
  <2>1. Spec => []OneReplicaRuns
    BY <1>2, LeaseOneReplica
  <2> QED BY <2>1, BackgroundImplements, PTL
<1> QED BY <1>1, <1>2
=============================================================================
