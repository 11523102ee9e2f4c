------------------------------- MODULE Account -------------------------------
(***************************************************************************)
(* What a token wallet promises the jobs that it pays for, without a       *)
(* ledger, prices, payments or months: an account of which a part is left  *)
(* to promise.  A reason to give tokens counts once; a job is promised     *)
(* tokens once at a time, never more than is left if the account is        *)
(* strict; and what was promised, no more and no less, is then spent or    *)
(* given back.                                                             *)
(***************************************************************************)
EXTENDS Integers

CONSTANTS
    Holders,    \* who is promised tokens
    Strict      \* nothing is promised that is not left

VARIABLES
    left,       \* tokens that are promised to nobody
    promised,   \* promised[h]: the promise to h, 0 for none
    given       \* the reasons tokens were given for

accountVars == <<left, promised, given>>
-----------------------------------------------------------------------------
AccountInit == left = 0 /\ promised = [h \in Holders |-> 0] /\ given = {}

NewReason == \E reason \in given' : reason \notin given /\ given' = given \cup {reason}

Give ==
    /\ NewReason
    /\ left' >= left
    /\ UNCHANGED promised

PromiseOf(h, n) == promised' = [promised EXCEPT ![h] = n]

(* Tokens given in the same step may be promised at once. *)
Promise(h) ==
    /\ promised[h] = 0 /\ promised'[h] > 0
    /\ PromiseOf(h, promised'[h])
    /\ \/ left' = left - promised'[h] /\ UNCHANGED given
       \/ left' >= left - promised'[h] /\ NewReason
    /\ Strict => left' >= 0

Spend(h) == PromiseOf(h, 0) /\ UNCHANGED <<left, given>>

GiveBack(h) == PromiseOf(h, 0) /\ left' = left + promised[h] /\ UNCHANGED given

AccountNext == Give \/ \E h \in Holders : Promise(h) \/ Spend(h) \/ GiveBack(h)

AccountSpec == AccountInit /\ [][AccountNext]_accountVars
=============================================================================
