------------------------------ MODULE ApiCall ------------------------------
(***************************************************************************)
(* One call of the web front end to the API: apiFetch in the browser, the  *)
(* proxy of the front end's server, and the API.                           *)
(*                                                                         *)
(* Browser and proxy each repeat a try that failed in transit, whatever    *)
(* the method, so that what the call asks for may be done again; and what  *)
(* the person is told rests on the last answer alone.                      *)
(***************************************************************************)
EXTENDS Naturals

CONSTANTS
    Attempts,   \* API_BACKEND_RETRY_ATTEMPTS, of the browser and of the proxy
    MaxRuns     \* bound: times the API runs the call

ASSUME ApiCallAssumption == Attempts \in Nat \ {0} /\ MaxRuns \in Nat

VARIABLES
    stage,      \* where the call is
    tries,      \* attempt of the browser's loop and of the proxy's
    reply,      \* what the proxy is sending back
    renewed,    \* refreshAccessToken has succeeded for this call
    told,       \* what apiFetch gave its caller
    ran,        \* times the API has done what the call asks for
    faults      \* answers that were lost, late, or a gateway's

callVars == <<stage, tries, reply, renewed, told, ran, faults>>
-----------------------------------------------------------------------------
Plain   == {"done", "refused", "unauthorized"}  \* the API's own answers
Replies == Plain \cup {"gateway"}               \* 502, 503 or 504
Told    == (Replies \ {"gateway"}) \cup {"unreachable", "late", "none"}

CallInit ==
    /\ stage = "idle" /\ tries = [browser |-> 1, proxy |-> 1] /\ reply = "done"
    /\ renewed = FALSE /\ told = "none" /\ ran = 0 /\ faults = 0

FirstTry == [browser |-> 1, proxy |-> 1]

Ask ==
    /\ stage = "idle"
    /\ stage' = "proxy" /\ tries' = FirstTry
    /\ renewed' = FALSE /\ told' = "none" /\ ran' = 0 /\ faults' = 0
    /\ UNCHANGED reply

Runs(n) == ran + n <= MaxRuns /\ ran' = ran + n

(* One where the token is looked at when the work is done.                 *)
AnsweredAfterwards(r) ==
    /\ stage = "proxy"
    /\ Runs(IF r = "refused" THEN 0 ELSE 1)
    /\ reply' = r /\ stage' = "back"
    /\ UNCHANGED <<tries, renewed, told, faults>>

(* The API answers the proxy.  An expired access token is refused before   *)
(* anything is done.                                                       *)
Answered(r) ==
    /\ stage = "proxy"
    /\ Runs(IF r = "done" THEN 1 ELSE 0)
    /\ reply' = r /\ stage' = "back"
    /\ UNCHANGED <<tries, renewed, told, faults>>

(* The answer is a gateway's, or the connection broke, after the API had   *)
(* done its part or before (n).  A status that is worth a retry is passed  *)
(* on when the attempts are used up; a broken connection ends as 503.      *)
Failed(n) ==
    /\ stage = "proxy"
    /\ Runs(n) /\ faults' = faults + 1
    /\ \/ /\ tries.proxy < Attempts
          /\ tries' = [tries EXCEPT !.proxy = @ + 1]
          /\ UNCHANGED <<stage, reply>>
       \/ /\ tries.proxy >= Attempts
          /\ reply' = "gateway" /\ stage' = "back"
          /\ UNCHANGED tries
    /\ UNCHANGED <<renewed, told>>

(* No answer within two minutes: the proxy does not try again, but says    *)
(* 503 like for a connection that broke.                                   *)
Late(n) ==
    /\ stage = "proxy"
    /\ Runs(n) /\ faults' = faults + 1
    /\ reply' = "gateway" /\ stage' = "back"
    /\ UNCHANGED <<tries, renewed, told>>

(* One that counts the first attempt as none.                              *)
AgainOnceMore(outcome) ==
    \/ /\ tries.browser <= Attempts
       /\ tries' = [browser |-> tries.browser + 1, proxy |-> 1]
       /\ stage' = "proxy"
       /\ UNCHANGED told
    \/ /\ tries.browser > Attempts
       /\ told' = outcome /\ stage' = "told"
       /\ UNCHANGED tries

(* fetchWithTransientRetry, which sees a gateway's status or no answer.    *)
AgainOr(outcome) ==
    \/ /\ tries.browser < Attempts
       /\ tries' = [browser |-> tries.browser + 1, proxy |-> 1]
       /\ stage' = "proxy"
       /\ UNCHANGED told
    \/ /\ tries.browser >= Attempts
       /\ told' = outcome /\ stage' = "told"
       /\ UNCHANGED tries

Lost ==
    /\ stage = "back"
    /\ AgainOr("unreachable")
    /\ faults' = faults + 1
    /\ UNCHANGED <<reply, renewed, ran>>

Unreachable ==
    /\ stage = "back" /\ reply = "gateway"
    /\ \E outcome \in {"unreachable", "late"} : AgainOr(outcome)
    /\ UNCHANGED <<reply, renewed, ran, faults>>

Renewing ==
    /\ stage = "back" /\ reply = "unauthorized" /\ ~renewed
    /\ stage' = "renewing"
    /\ UNCHANGED <<tries, reply, renewed, told, ran, faults>>

(* After the refresh the call starts over, with all its attempts.          *)
Renewed ==
    /\ stage = "renewing"
    /\ renewed' = TRUE /\ stage' = "proxy" /\ tries' = FirstTry
    /\ UNCHANGED <<reply, told, ran, faults>>

NotRenewed ==
    /\ stage = "renewing"
    /\ told' = "unauthorized" /\ stage' = "told"
    /\ UNCHANGED <<tries, reply, renewed, ran, faults>>

(* A 401 is told when the token is a new one already, and to a call that   *)
(* asks for no token (skipAuth), such as the sign-in.                      *)
Tell ==
    /\ stage = "back" /\ reply \in Plain
    /\ told' = reply /\ stage' = "told"
    /\ UNCHANGED <<tries, reply, renewed, ran, faults>>

(* The signal of the caller: the feed page's probe and the catalog's       *)
(* checks wait for so long and no longer, and are not repeated.            *)
Abort(n) ==
    /\ stage \in {"proxy", "back"}
    /\ Runs(IF stage = "proxy" THEN n ELSE 0) /\ faults' = faults + 1
    /\ told' = "late" /\ stage' = "told"
    /\ UNCHANGED <<tries, reply, renewed>>

(* The next call is a new one. *)
Forget ==
    /\ stage = "told" /\ stage' = "idle"
    /\ UNCHANGED <<tries, reply, renewed, told, ran, faults>>

CallNext ==
    \/ Ask \/ Lost \/ Unreachable \/ Renewing \/ Renewed \/ NotRenewed \/ Tell \/ Forget
    \/ \E r \in Plain : Answered(r)
    \/ \E n \in 0 .. 1 : Failed(n) \/ Late(n) \/ Abort(n)

CallSpec == CallInit /\ [][CallNext]_callVars
-----------------------------------------------------------------------------
CallTypeOK ==
    /\ stage \in {"idle", "proxy", "back", "renewing", "told"}
    /\ tries \in [browser : 1 .. Attempts, proxy : 1 .. Attempts]
    /\ reply \in Replies /\ renewed \in BOOLEAN /\ told \in Told
    /\ ran \in 0 .. MaxRuns /\ faults \in Nat

(* What a call asks for is done again only for a fault: every time the API *)
(* ran it beyond the first has an answer that was lost, late or a          *)
(* gateway's before it (utils.ts and api-proxy-handler.ts repeat every     *)
(* method).  Without a fault the person is told what was done.             *)
RepeatsArePaid ==
    /\ ran <= 1 + faults
    /\ told = "done" => ran > 0
    /\ told \in {"refused", "unauthorized"} /\ faults = 0 => ran = 0
=============================================================================
