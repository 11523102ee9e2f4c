------------------------------- MODULE JobLife -------------------------------
(***************************************************************************)
(* What the job queue promises whoever hands it a job, without leases,     *)
(* workers, sweepers or statements: a job is tried a number of times, and  *)
(* is given up when it has had all its tries and no sooner.                *)
(*                                                                         *)
(* People may withdraw a job or start it again at any time: who looks at a *)
(* job that has ended finds it at work by the time the call arrives.       *)
(***************************************************************************)
EXTENDS Naturals

CONSTANTS
    Jobs,       \* what there is to do
    MaxTries    \* how often a job is tried before it is given up

VARIABLES
    stage,      \* stage[j]: where job j is in its life
    tries       \* tries[j]: how often it was begun since it was last started

lifeVars == <<stage, tries>>

Ended   == {"completed", "dead", "cancelled"}
Known   == {j \in Jobs : stage[j] \in {"queued", "running"} \cup Ended}
-----------------------------------------------------------------------------
LifeInit == stage = [j \in Jobs |-> "absent"] /\ tries = [j \in Jobs |-> 0]

Becomes(j, next, n) ==
    /\ stage' = [stage EXCEPT ![j] = next]
    /\ tries' = [tries EXCEPT ![j] = n]

Submit(j) == stage[j] = "absent" /\ Becomes(j, "queued", 0)

Try(j) == stage[j] = "queued" /\ tries[j] < MaxTries /\ Becomes(j, "running", tries[j] + 1)

Finish(j) == stage[j] = "running" /\ Becomes(j, "completed", tries[j])

Postpone(j) == stage[j] = "running" /\ tries[j] < MaxTries /\ Becomes(j, "queued", tries[j])

GiveUp(j) == stage[j] = "running" /\ tries[j] = MaxTries /\ Becomes(j, "dead", tries[j])

Withdraw(j) == j \in Known /\ Becomes(j, "cancelled", tries[j])

(* Several at once: all that were given up. *)
StartAgain(S) ==
    /\ stage' = [j \in Jobs |-> IF j \in S THEN "queued" ELSE stage[j]]
    /\ tries' = [j \in Jobs |-> IF j \in S THEN 0 ELSE tries[j]]

Forget(j) == stage[j] \in Ended /\ Becomes(j, "pruned", 0)

LifeNext ==
    \/ \E j \in Jobs : \/ Submit(j) \/ Try(j) \/ Finish(j) \/ Postpone(j)
                       \/ GiveUp(j) \/ Withdraw(j) \/ Forget(j)
    \/ \E S \in SUBSET Known : StartAgain(S)

LifeSpec == LifeInit /\ [][LifeNext]_lifeVars
=============================================================================
