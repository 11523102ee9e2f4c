---------------------------- MODULE MCJobBilling ----------------------------
(* Values for model checking JobBilling. *)
EXTENDS JobBilling, TLC

CONSTANTS j1, k1, w1, w2, r1, s1

OneJob == {j1}
OneWork == {k1}          NoWork == {}
TwoWorkers == {w1, w2}
OneRequest == {r1}       OneSweeper == {s1}
NoPayment == {}
RunPoints == {"reread", "run"}
WorkerSymmetry == Permutations(TwoWorkers)
=============================================================================
