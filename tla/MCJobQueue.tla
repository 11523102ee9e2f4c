----------------------------- MODULE MCJobQueue -----------------------------
(* Values for model checking JobQueue. *)
EXTENDS JobQueue, TLC

CONSTANTS j1, j2, k1, w1, w2, r1, r2, s1

TwoJobs == {j1, j2}
OneWork == {k1}
FastWork == {k1}
TwoWorkers == {w1, w2}
TwoRequests == {r1, r2}
OneSweeper == {s1}
AllPoints == Points

QueueSymmetry == Permutations(TwoJobs) \cup Permutations(TwoWorkers)
                   \cup Permutations(TwoRequests)
=============================================================================
