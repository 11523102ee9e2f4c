---------------------------- MODULE SchedulerLease ----------------------------
(***************************************************************************)
(* Which replica runs interval maintenance: SchedulerLeaseService and      *)
(* SchedulerRuntimeService.                                                *)
(*                                                                         *)
(* Every replica ticks each of its tasks once a minute.  A tick returns at *)
(* once while the task still runs in this process; otherwise it claims or  *)
(* renews the lease of the row global-interval, for ninety seconds, and    *)
(* runs the task if it has it.  Of time only this is kept: ninety seconds  *)
(* contain a tick of every task, so the lease of a live replica expires    *)
(* only when the last tick of each of its tasks did not reach the lease.   *)
(***************************************************************************)
EXTENDS Naturals

CONSTANTS
    Replicas,     \* processes that run maintenance
    Tasks,        \* the five interval tasks
    Punctual,     \* tasks of which every tick reaches the lease: they end before
                  \* the next one, and the statement does not fail
    MayStop,      \* replicas that may stop for good
    Nobody

ASSUME LeaseAssumption ==
    /\ Punctual \subseteq Tasks
    /\ MayStop \subseteq Replicas
    /\ Nobody \notin Replicas

VARIABLES
    lease,     \* the row global-interval: holder, and whether it has expired
    task,      \* task[r][t]: where the tick of task t on replica r is
    running,   \* running[r][t]: the flag in the process (maintenanceRunning)
    missed,    \* missed[r][t]: the last tick of the task did not reach the lease
    stopped    \* replicas that have stopped

vars == <<lease, task, running, missed, stopped>>

TickState == {"idle", "acquire", "confirm", "start", "run"}

Init ==
    /\ lease = [holder |-> Nobody, expired |-> TRUE]
    /\ task = [r \in Replicas |-> [t \in Tasks |-> "idle"]]
    /\ running = [r \in Replicas |-> [t \in Tasks |-> FALSE]]
    /\ missed = [r \in Replicas |-> [t \in Tasks |-> FALSE]]
    /\ stopped = {}
-----------------------------------------------------------------------------
Stage(r, t, at) == task' = [task EXCEPT ![r][t] = at]

(* The interval fires while the task is still running. *)
Skip(r, t) ==
    /\ r \notin stopped /\ t \notin Punctual
    /\ running[r][t]
    /\ missed' = [missed EXCEPT ![r][t] = TRUE]
    /\ UNCHANGED <<lease, task, running, stopped>>

Tick(r, t) ==
    /\ r \notin stopped
    /\ task[r][t] = "idle" /\ ~running[r][t]
    /\ Stage(r, t, "acquire")
    /\ missed' = [missed EXCEPT ![r][t] = FALSE]
    /\ UNCHANGED <<lease, running, stopped>>

(* Mistakes a later change could make: a claim that takes the lease from   *)
(* its holder, and one that does not look at the expiry.                   *)
FreeForAll(r) == lease.holder \in Replicas \cup {Nobody}
FreeIfNobodys(r) == lease.holder \in {r, Nobody}

Free(r) == lease.expired \/ lease.holder = r

(* tryAcquire: a conditional update... *)
Acquire(r, t) ==
    /\ r \notin stopped /\ task[r][t] = "acquire"
    /\ \/ /\ Free(r)
          /\ lease' = [holder |-> r, expired |-> FALSE]
          /\ Stage(r, t, "start")
       \/ /\ ~Free(r)
          /\ Stage(r, t, "confirm")
          /\ UNCHANGED lease
    /\ UNCHANGED <<running, missed, stopped>>

(* ...and, if it changed nothing, a read: another tick of this replica may *)
(* have claimed the lease meanwhile.                                       *)
Confirm(r, t) ==
    /\ r \notin stopped /\ task[r][t] = "confirm"
    /\ Stage(r, t, IF lease.holder = r /\ ~lease.expired THEN "start" ELSE "idle")
    /\ UNCHANGED <<lease, running, missed, stopped>>

(* The statement fails: the tick is over. *)
AcquireFails(r, t) ==
    /\ r \notin stopped /\ t \notin Punctual
    /\ task[r][t] \in {"acquire", "confirm"}
    /\ Stage(r, t, "idle")
    /\ missed' = [missed EXCEPT ![r][t] = TRUE]
    /\ UNCHANGED <<lease, running, stopped>>

Start(r, t) ==
    /\ r \notin stopped /\ task[r][t] = "start"
    /\ Stage(r, t, "run")
    /\ running' = [running EXCEPT ![r][t] = TRUE]
    /\ UNCHANGED <<lease, missed, stopped>>

(* The finally block, also after an error. *)
Finish(r, t) ==
    /\ r \notin stopped /\ task[r][t] = "run"
    /\ Stage(r, t, "idle")
    /\ running' = [running EXCEPT ![r][t] = FALSE]
    /\ UNCHANGED <<lease, missed, stopped>>

Stop(r) ==
    /\ r \in MayStop \ stopped
    /\ stopped' = stopped \cup {r}
    /\ UNCHANGED <<lease, task, running, missed>>

Expire ==
    /\ ~lease.expired
    /\ lease.holder \in stopped \/ \A t \in Tasks : missed[lease.holder][t]
    /\ lease' = [lease EXCEPT !.expired = TRUE]
    /\ UNCHANGED <<task, running, missed, stopped>>

TickStep(r, t) == Tick(r, t) \/ Acquire(r, t) \/ Confirm(r, t) \/ Start(r, t) \/ Finish(r, t)

Next ==
    \/ \E r \in Replicas, t \in Tasks : TickStep(r, t) \/ Skip(r, t) \/ AcquireFails(r, t)
    \/ \E r \in Replicas : Stop(r)
    \/ Expire

Spec == Init /\ [][Next]_vars

(* Timers fire, statements and tasks end, time passes; a statement does    *)
(* not fail for ever.                                                      *)
LeaseFairness ==
    /\ \A r \in Replicas, t \in Tasks : WF_vars(TickStep(r, t)) /\ SF_vars(Acquire(r, t))
    /\ WF_vars(Expire)
-----------------------------------------------------------------------------
(* Properties *)

Runs(r, t) == r \notin stopped /\ task[r][t] \in {"start", "run"}

(* Types; and the flag of a task is set while it runs and not otherwise.   *)
LeaseTypeOK ==
    /\ lease \in [holder : Replicas \cup {Nobody}, expired : BOOLEAN]
    /\ task \in [Replicas -> [Tasks -> TickState]]
    /\ running \in [Replicas -> [Tasks -> BOOLEAN]]
    /\ missed \in [Replicas -> [Tasks -> BOOLEAN]]
    /\ stopped \subseteq MayStop
    /\ lease.holder = Nobody => lease.expired
    /\ \A r \in Replicas, t \in Tasks : running[r][t] <=> task[r][t] = "run"

(* The comment of tryAcquire, "so only one API replica runs interval       *)
(* maintenance".                                                           *)
OneReplicaRuns ==
    \A r, q \in Replicas, t, u \in Tasks : Runs(r, t) /\ Runs(q, u) => r = q

(* A replica that stops while it holds the lease is replaced: maintenance  *)
(* runs again and again as long as one replica is left.                    *)
MaintenanceGoesOn == []<>(\E r \in Replicas, t \in Tasks : Runs(r, t))

(* Why OneReplicaRuns holds with one punctual task: it renews the lease at *)
(* every tick, so whoever runs a task still holds it.                      *)
HoldsLease ==
    /\ \A r \in Replicas, t \in Tasks :
          Runs(r, t) => lease.holder = r /\ ~lease.expired
    /\ \A r \in Replicas, t \in Punctual : ~missed[r][t]
=============================================================================
