------------------------------ MODULE Browser ------------------------------
(***************************************************************************)
(* A tab of the dashboard: who is signed in (auth-context), which          *)
(* organisation it shows (tenant-context), the data of the shell around    *)
(* the pages (use-api), and a form inside a page, which a change of        *)
(* organisation unmounts (the state of the page itself outlives it).       *)
(*                                                                         *)
(* The cookies and the organisation in localStorage are shared with other  *)
(* tabs, but the event of a change is heard in the tab that made it only;  *)
(* and every answer may come late.                                         *)
(***************************************************************************)
EXTENDS Naturals, FiniteSets

CONSTANTS
    Users, Tenants,
    Member,     \* user -> the organisations /auth/me lists
    None,
    MaxTabCalls    \* bound: calls under way

ASSUME BrowserAssumption ==
    Member \in [Users -> SUBSET Tenants] /\ None \notin Users \cup Tenants
    /\ MaxTabCalls \in Nat \ {0}

VARIABLES
    stored,     \* localStorage: deska_tenant_id
    cookie,     \* the session of the cookies, as the API sees it
    tab,        \* user, isLoading and activeTenantId
    shell,      \* a useApi of the shell, such as the notifications
    form,       \* the organisation shown when the open form was opened
    calls,      \* calls of the tab under way
    elsewhere,  \* what another tab's change has not reached yet
    left,       \* signed out here, and since then no sign-in, reload or return
    returned    \* the user was set by a /auth/me from before the sign-out

browserVars == <<stored, cookie, tab, shell, form, calls, elsewhere, left, returned>>
-----------------------------------------------------------------------------
Maybe(S) == S \cup {None}
Kinds == {"init", "me", "login", "loginMe", "logout", "data", "save"}
Fail  == [of |-> None, who |-> None]
Call == [kind   : Kinds,
         who    : Maybe(Users),    \* login: whose password
         tenant : Maybe(Tenants),  \* X-Tenant-Id
         typed  : Maybe(Tenants),  \* save: the organisation of the form
         latest : BOOLEAN,         \* data: requestSequence is the current one
         apart  : BOOLEAN,         \* of the user before, or since a switch elsewhere
         at     : {"sent", "renewing", "again", "answered"},
         got    : [of : Maybe(Tenants), who : Maybe(Users)]]
NewShell == [loaded |-> "new", data |-> Fail]
NoTab    == [ready |-> FALSE, who |-> None, active |-> None]

Sent(kind) == [kind |-> kind, who |-> None, tenant |-> None, typed |-> None, latest |-> FALSE,
               apart |-> FALSE, at |-> "sent", got |-> Fail]

BrowserInit ==
    /\ stored = None /\ cookie = [who |-> None, state |-> "dead"]
    /\ tab = NoTab /\ shell = NewShell /\ form = None
    /\ calls = {Sent("init")}
    /\ elsewhere = {} /\ left = FALSE /\ returned = FALSE

(* ProtectedLayout shows the shell and the page. *)
Open(t) == t.ready /\ t.who # None /\ t.active # None

Superseded(cs) == {[c EXCEPT !.latest = FALSE] : c \in cs}
Before(cs) == {[c EXCEPT !.apart = c.apart \/ c.kind \in {"init", "me", "login", "loginMe"}] :
                  c \in cs}
Fetch(tenant) == [Sent("data") EXCEPT !.tenant = tenant, !.latest = TRUE]

(* One whose page stays when the organisation changes.                     *)
ShowsOnSamePage(t, heard, cs) ==
    /\ tab' = t
    /\ form' = IF Open(tab) /\ Open(t) THEN form ELSE None
    /\ \/ /\ ~Open(t)
          /\ shell' = NewShell /\ calls' = Superseded(cs)
          /\ elsewhere' = elsewhere \ {"header", "shell"}
       \/ /\ Open(t) /\ (heard \/ ~Open(tab))
          /\ shell' = IF ~Open(tab) \/ shell.loaded # stored' THEN NewShell ELSE shell
          /\ calls' = Superseded(cs) \cup {Fetch(stored')}
          /\ elsewhere' = elsewhere \ {"header", "shell"}
       \/ /\ Open(t) /\ ~heard /\ Open(tab)
          /\ shell' = shell /\ calls' = cs
          /\ elsewhere' = elsewhere \ {"header"}

(* The tab renders as t, with cs under way.  A shell that has appeared, or *)
(* heard of a change of organisation, fetches; a page under another        *)
(* organisation's key starts afresh.                                       *)
Shows(t, heard, cs) ==
    /\ tab' = t
    /\ form' = IF Open(tab) /\ Open(t) /\ t.active = tab.active THEN form ELSE None
    /\ \/ /\ ~Open(t)
          /\ shell' = NewShell /\ calls' = Superseded(cs)
          /\ elsewhere' = elsewhere \ {"header", "shell"}
       \/ /\ Open(t) /\ (heard \/ ~Open(tab))
          /\ shell' = IF ~Open(tab) \/ shell.loaded # stored' THEN NewShell ELSE shell
          /\ calls' = Superseded(cs) \cup {Fetch(stored')}
          /\ elsewhere' = elsewhere \ {"header", "shell"}
       \/ /\ Open(t) /\ ~heard /\ Open(tab)
          /\ shell' = shell /\ calls' = cs
          /\ elsewhere' = elsewhere \ {"header"}

(* The effect of TenantProvider when the user has been set: the stored     *)
(* organisation if it is the user's, else the only one, else none.         *)
Resolved(who) ==
    IF who = None THEN None
    ELSE IF stored \in Member[who] THEN stored
    ELSE IF Cardinality(Member[who]) = 1 THEN CHOOSE x \in Member[who] : TRUE
    ELSE None

BecomesAs(who, cs) ==
    /\ stored' = Resolved(who)
    /\ Shows([ready |-> TRUE, who |-> who, active |-> Resolved(who)],
             who = None \/ stored \notin Member[who], cs)

Room == Cardinality(calls) < MaxTabCalls
-----------------------------------------------------------------------------
(* What the person does in the tab *)

Reload ==
    /\ tab' = NoTab /\ shell' = NewShell /\ form' = None
    /\ calls' = {Sent("init")}
    /\ elsewhere' = {} /\ left' = FALSE /\ returned' = FALSE
    /\ UNCHANGED <<stored, cookie>>

Login(u) ==
    /\ tab.ready /\ tab.who = None /\ Room
    /\ \A c \in calls : c.kind \notin {"login", "loginMe"}
    /\ calls' = Before(calls) \cup {[Sent("login") EXCEPT !.who = u]}
    /\ left' = FALSE /\ returned' = FALSE /\ elsewhere' = elsewhere \ {"who"}
    /\ UNCHANGED <<stored, cookie, tab, shell, form>>

(* One that waits for the API before it forgets the user.                  *)
LogoutWhenTold ==
    /\ Open(tab) /\ Room
    /\ calls' = Before(calls) \cup {Sent("logout")}
    /\ left' = TRUE /\ returned' = FALSE
    /\ UNCHANGED <<stored, cookie, tab, shell, form, elsewhere>>

(* The user and the organisation go at once; the cookies when the API has  *)
(* been told, if it can be reached.                                        *)
Logout ==
    /\ Open(tab) /\ Room
    /\ stored' = None
    /\ Shows([tab EXCEPT !.who = None, !.active = None], TRUE,
             Before(calls) \cup {Sent("logout")})
    /\ left' = TRUE /\ returned' = FALSE
    /\ UNCHANGED cookie

(* One whose change the shell does not hear.                               *)
SwitchUnheard(x) ==
    /\ Open(tab) /\ x \in Member[tab.who] /\ x # tab.active /\ Room
    /\ stored' = x
    /\ Shows([tab EXCEPT !.active = x], FALSE, calls)
    /\ UNCHANGED <<cookie, left, returned>>

Switch(x) ==
    /\ Open(tab) /\ x \in Member[tab.who] /\ x # tab.active /\ Room
    /\ stored' = x
    /\ Shows([tab EXCEPT !.active = x], TRUE, calls)
    /\ UNCHANGED <<cookie, left, returned>>

(* A sign-in is on its way: what is asked meanwhile is of the user before. *)
SigningIn == \E c \in calls : c.kind = "login" /\ c.at = "sent"

(* refresh of auth-context, after a change of the profile or a new         *)
(* organisation; and the poll of the shell.                                *)
RefreshUser ==
    /\ Open(tab) /\ Room
    /\ calls' = calls \cup {[Sent("me") EXCEPT !.apart = SigningIn]}
    /\ UNCHANGED <<stored, cookie, tab, shell, form, elsewhere, left, returned>>

Poll ==
    /\ Open(tab) /\ Room
    /\ calls' = Superseded(calls) \cup {Fetch(stored)}
    /\ shell' = IF shell.loaded # stored THEN [shell EXCEPT !.data = Fail] ELSE shell
    /\ elsewhere' = elsewhere \ {"shell"}
    /\ UNCHANGED <<stored, cookie, tab, form, left, returned>>

OpenForm ==
    /\ Open(tab) /\ form = None
    /\ form' = tab.active
    /\ UNCHANGED <<stored, cookie, tab, shell, calls, elsewhere, left, returned>>

(* The header is of what is stored when the call is made. *)
Save ==
    /\ form # None /\ Room
    /\ calls' = calls \cup {[Sent("save") EXCEPT !.tenant = stored, !.typed = form,
                                           !.apart = "header" \in elsewhere]}
    /\ form' = None
    /\ UNCHANGED <<stored, cookie, tab, shell, elsewhere, left, returned>>
-----------------------------------------------------------------------------
(* The API, and the way back *)

Moved(c, d) == calls' = (calls \ {c}) \cup {d}
SignedIn(c) == cookie.who # None /\ cookie.state = "fresh"
Answer(c) ==
    IF c.kind \in {"init", "me", "loginMe"} THEN [of |-> None, who |-> cookie.who]
    ELSE IF c.tenant \in Member[cookie.who] THEN [of |-> c.tenant, who |-> cookie.who]
    ELSE Fail

Serve(c) ==
    /\ c.at \in {"sent", "again"} /\ c.kind \notin {"login", "logout", "save"}
    /\ \/ SignedIn(c) /\ Moved(c, [c EXCEPT !.at = "answered", !.got = Answer(c)])
       \/ ~SignedIn(c) /\ c.at = "sent" /\ Moved(c, [c EXCEPT !.at = "renewing"])
       \/ ~SignedIn(c) /\ c.at = "again" /\ Moved(c, [c EXCEPT !.at = "answered"])
    /\ UNCHANGED <<stored, cookie, tab, shell, form, elsewhere, left, returned>>

ServeLogin(c) ==
    /\ c.at = "sent" /\ c.kind = "login"
    /\ cookie' = [who |-> c.who, state |-> "fresh"]
    /\ calls' = Before(calls \ {c}) \cup {[c EXCEPT !.at = "answered", !.got.who = c.who]}
    /\ UNCHANGED <<stored, tab, shell, form, elsewhere, left, returned>>

ServeLogout(c) ==
    /\ c.at = "sent" /\ c.kind = "logout"
    /\ cookie' = [who |-> None, state |-> "dead"]
    /\ calls' = calls \ {c}
    /\ UNCHANGED <<stored, tab, shell, form, elsewhere, left, returned>>

(* The API cannot be reached, or refuses. *)
Failing(c) ==
    /\ c.at \in {"sent", "again"} /\ c.kind # "save"
    /\ Moved(c, [c EXCEPT !.at = "answered"])
    /\ UNCHANGED <<stored, cookie, tab, shell, form, elsewhere, left, returned>>

Waiting == {c \in calls : c.at = "renewing"}
After(state) == (calls \ Waiting) \cup {[c EXCEPT !.at = state] : c \in Waiting}

(* The one refreshPromise of the calls that were refused. *)
Renew ==
    /\ Waiting # {} /\ cookie.who # None /\ cookie.state # "dead"
    /\ cookie' = [cookie EXCEPT !.state = "fresh"]
    /\ calls' = After("again")
    /\ UNCHANGED <<stored, tab, shell, form, elsewhere, left, returned>>

RenewFails ==
    /\ Waiting # {}
    /\ calls' = After("answered")
    /\ UNCHANGED <<stored, cookie, tab, shell, form, elsewhere, left, returned>>

(* SESSION_EXPIRED_EVENT. *)
Expired ==
    /\ Waiting # {} /\ (cookie.who = None \/ cookie.state = "dead")
    /\ \/ /\ tab.who # None
          /\ stored' = None
          /\ Shows([tab EXCEPT !.who = None, !.active = None], TRUE, After("answered"))
       \/ /\ tab.who = None
          /\ calls' = After("answered")
          /\ UNCHANGED <<stored, tab, shell, form, elsewhere>>
    /\ returned' = FALSE
    /\ UNCHANGED <<cookie, left>>

Rest(c) == calls \ {c}

(* refresh: any failure of /auth/me counts as nobody being signed in. *)
GotUser(c) ==
    /\ c.at = "answered" /\ c.kind \in {"init", "me"}
    /\ \/ /\ c.got.who # None \/ tab.who # None \/ ~tab.ready
          /\ BecomesAs(c.got.who, Rest(c))
       \/ /\ c.got.who = None /\ tab.who = None /\ tab.ready
          /\ calls' = Rest(c)
          /\ UNCHANGED <<stored, tab, shell, form, elsewhere>>
    /\ returned' = (c.got.who # None /\ (returned \/ c.apart))
    /\ left' = (left /\ ~returned')
    /\ UNCHANGED cookie

GotLogin(c) ==
    /\ c.at = "answered" /\ c.kind = "login"
    /\ calls' = Rest(c) \cup {[Sent("loginMe") EXCEPT !.apart = c.apart] :
                                  who \in {c.got.who} \ {None}}
    /\ UNCHANGED <<stored, cookie, tab, shell, form, elsewhere, left, returned>>

GotLoginUser(c) ==
    /\ c.at = "answered" /\ c.kind = "loginMe"
    /\ \/ /\ c.got.who # None
          /\ BecomesAs(c.got.who, Rest(c))
          /\ returned' = (returned \/ c.apart)
       \/ /\ c.got.who = None
          /\ calls' = Rest(c)
          /\ UNCHANGED <<stored, tab, shell, form, elsewhere, returned>>
    /\ left' = (left /\ ~returned')
    /\ UNCHANGED cookie

(* One that takes every answer for that of the last request.               *)
GotDataAlways(c) ==
    /\ c.at = "answered" /\ c.kind = "data"
    /\ shell' = [loaded |-> stored, data |-> c.got]
    /\ calls' = Rest(c)
    /\ UNCHANGED <<stored, cookie, tab, form, elsewhere, left, returned>>

(* An answer that a later request of the hook has overtaken is dropped. *)
GotData(c) ==
    /\ c.at = "answered" /\ c.kind = "data"
    /\ shell' = IF c.latest THEN [loaded |-> c.tenant, data |-> c.got] ELSE shell
    /\ calls' = Rest(c)
    /\ UNCHANGED <<stored, cookie, tab, form, elsewhere, left, returned>>

(* Nothing is kept of the answer to a save or of a failed sign-out.  (What *)
(* a refused save does to the session is what a refused fetch does.)       *)
Finished(c) ==
    /\ c.kind = "save" \/ (c.kind = "logout" /\ c.at = "answered")
    /\ calls' = Rest(c)
    /\ UNCHANGED <<stored, cookie, tab, shell, form, elsewhere, left, returned>>
-----------------------------------------------------------------------------
(* Another tab, and the session's own end *)

(* Bound: not before this tab has noticed the last change.                 *)
Elsewhere(s, k) ==
    /\ elsewhere = {}
    /\ stored' = s /\ cookie' = k
    /\ elsewhere' = (IF Open(tab) THEN {"header", "shell"} ELSE {})
                    \cup (IF k = cookie THEN {} ELSE {"who"})
    /\ UNCHANGED <<tab, shell, form, calls, left, returned>>

SwitchElsewhere(x) ==
    /\ cookie.who # None /\ x \in Member[cookie.who] /\ x # stored
    /\ Elsewhere(x, cookie)

LoginElsewhere(u) ==
    /\ cookie.who # u
    /\ Elsewhere(Resolved(u), [who |-> u, state |-> "fresh"])

LogoutElsewhere ==
    /\ cookie.who # None
    /\ Elsewhere(None, [who |-> None, state |-> "dead"])

TokenExpires ==
    /\ cookie.state = "fresh"
    /\ cookie' = [cookie EXCEPT !.state = "stale"]
    /\ UNCHANGED <<stored, tab, shell, form, calls, elsewhere, left, returned>>

SessionEnds ==
    /\ cookie.state \in {"fresh", "stale"}
    /\ cookie' = [cookie EXCEPT !.state = "dead"]
    /\ UNCHANGED <<stored, tab, shell, form, calls, elsewhere, left, returned>>

BrowserNext ==
    \/ Reload \/ Logout \/ RefreshUser \/ Poll \/ OpenForm \/ Save
    \/ Renew \/ RenewFails \/ Expired \/ LogoutElsewhere \/ TokenExpires \/ SessionEnds
    \/ \E u \in Users : Login(u) \/ LoginElsewhere(u)
    \/ \E x \in Tenants : Switch(x) \/ SwitchElsewhere(x)
    \/ \E c \in calls :
          \/ Serve(c) \/ ServeLogin(c) \/ ServeLogout(c) \/ Failing(c) \/ GotUser(c)
          \/ GotLogin(c) \/ GotLoginUser(c) \/ GotData(c) \/ Finished(c)

BrowserSpec == BrowserInit /\ [][BrowserNext]_browserVars
-----------------------------------------------------------------------------
BrowserTypeOK ==
    /\ stored \in Maybe(Tenants)
    /\ cookie \in [who : Maybe(Users), state : {"fresh", "stale", "dead"}]
    /\ tab \in [ready : BOOLEAN, who : Maybe(Users), active : Maybe(Tenants)]
    /\ shell.loaded \in Maybe(Tenants) \cup {"new"} /\ form \in Maybe(Tenants)
    /\ calls \subseteq Call /\ Cardinality(calls) <= MaxTabCalls
    /\ elsewhere \subseteq {"header", "shell", "who"}
    /\ left \in BOOLEAN /\ returned \in BOOLEAN

(* visibleState of use-api: nothing of another organisation's. *)
Visible == IF shell.loaded = stored THEN shell.data ELSE Fail

(* What the shell shows is of the organisation the header names, unless    *)
(* another tab has switched and this one has not noticed, and is the       *)
(* user's own, unless another tab has changed the session or a late        *)
(* /auth/me the user (loadedTenantRef and requestSequence of use-api).     *)
ShownBelongs ==
    Open(tab) /\ Visible # Fail =>
        /\ Visible.of = tab.active \/ "header" \in elsewhere
        /\ Visible.who = tab.who \/ "who" \in elsewhere \/ returned

(* A shell that shows nothing yet has a call under way whose answer it     *)
(* will take, unless another tab has switched since it asked.              *)
NeverWaitsForNothing ==
    Open(tab) /\ shell.loaded # stored /\ "shell" \notin elsewhere =>
        \E c \in calls : c.kind = "data" /\ c.latest

(* What is typed on a page of an organisation is saved in it, unless       *)
(* another tab has switched in between (the key of ProtectedLayout).       *)
SavedWhereTyped ==
    \A c \in calls : c.kind = "save" /\ ~c.apart => c.tenant = c.typed

(* After the sign-out nobody is shown as signed in, but by an answer that  *)
(* was under way (logout of auth-context clears the user first, for the    *)
(* API may be unreachable).                                                *)
SignedOutHere == left => tab.who = None

BrowserHolds == ShownBelongs /\ NeverWaitsForNothing /\ SavedWhereTyped /\ SignedOutHere
=============================================================================
