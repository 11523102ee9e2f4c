------------------------------ MODULE Sessions ------------------------------
(***************************************************************************)
(* The sessions of one account: AuthService and AuthController, the proxy  *)
(* of the web front end that sends a request again, and the cookies of one *)
(* browser with several tabs.                                              *)
(*                                                                         *)
(* A call reads the account, computes a hash for a while, and writes in a  *)
(* transaction; the answer sets or clears the cookies of the browser when  *)
(* it arrives, in any order.  Refresh tokens and links to reset a password *)
(* are numbered as they are issued; an access token only opens the         *)
(* operations of a person who is signed in, and is not modelled.           *)
(***************************************************************************)
EXTENDS Integers

CONSTANTS
    Tabs,
    LockAt,         \* failed logins that lock the account: 5 in the code
    MaxTokens,      \* bound: refresh tokens issued
    MaxLinks,       \* bound: links issued
    MaxFaults       \* bound: answers lost, and accounts barred by an administrator

ASSUME SessionsAssumption ==
    /\ LockAt \in Nat \ {0}
    /\ MaxTokens \in Nat /\ MaxLinks \in Nat /\ MaxFaults \in Nat \ {0}

VARIABLES
    active,     \* User.isActive and status
    failed,     \* User.failedLoginAttempts
    lock,       \* User.lockedUntil
    token,      \* the rows of RefreshToken, and those that were deleted
    parent,     \* the token a token was exchanged for
    link,       \* the rows of PasswordResetToken, and those that were deleted
    used,       \* how often a link has set a password
    jar,        \* the cookie of the refresh token, 0 without one
    call,       \* local variables of the request of each tab
    faults

sessionsVars == <<active, failed, lock, token, parent, link, used, jar, call, faults>>
account == <<active, failed, lock>>
rows == <<token, parent, link, used>>
-----------------------------------------------------------------------------
TokenIds == 1 .. MaxTokens
LinkIds  == 1 .. MaxLinks
Stages   == {"unused", "live", "expired", "gone", "spent"}
Operations == {"login", "refresh", "logout", "end", "email", "forgot", "reset"}

(* What an answer does to the cookies: a token sets them, 0 clears them.   *)
Keep == -1

CallState == [at    : {"idle", "compare", "issue", "exchange", "create", "write", "answer"},
              op    : Operations \cup {"none"},
              right : BOOLEAN,          \* the password it was given is right
              seen  : {"none", "over"}, \* the lock it read
              id    : 0 .. (MaxTokens + MaxLinks),
              gives : Keep .. MaxTokens]
NoCall == [at |-> "idle", op |-> "none", right |-> FALSE, seen |-> "none", id |-> 0,
           gives |-> Keep]

SessionsInit ==
    /\ active = TRUE /\ failed = 0 /\ lock = "none"
    /\ token = [t \in TokenIds |-> "unused"] /\ parent = [t \in TokenIds |-> 0]
    /\ link = [k \in LinkIds |-> "unused"] /\ used = [k \in LinkIds |-> 0]
    /\ jar = 0 /\ faults = 0
    /\ call = [p \in Tabs |-> NoCall]

Fault == faults < MaxFaults /\ faults' = faults + 1

(* The answer; what was asked matters while it can still be sent again.    *)
Answer(p, gives) ==
    call' = [call EXCEPT ![p] =
               IF faults < MaxFaults
               THEN [@ EXCEPT !.at = "answer", !.seen = "none", !.gives = gives]
               ELSE [NoCall EXCEPT !.at = "answer", !.gives = gives]]

(* The next row of a table. *)
IsNext(rowOf, n) == rowOf[n] = "unused" /\ \A m \in DOMAIN rowOf : m < n => rowOf[m] # "unused"

(* deleteMany({ userId }) *)
EndAll == token' = [t \in TokenIds |->
                      IF token[t] \in {"live", "expired"} THEN "gone" ELSE token[t]]

(* deleteMany({ userId, usedAt: null }) *)
DropLinks == link' = [k \in LinkIds |->
                        IF link[k] \in {"live", "expired"} THEN "gone" ELSE link[k]]
-----------------------------------------------------------------------------
(* A request reaches the service and reads what it needs. *)

Admitted(op) == active \/ op = "logout"

First(op) ==
    CASE op = "login" -> "compare" [] op = "refresh" -> "exchange" [] OTHER -> "write"

Holds(op, id) ==
    CASE op = "refresh" -> id # 0 /\ token[id] = "live"
      [] op = "reset"   -> link[id] = "live"
      [] OTHER          -> TRUE

(* A refresh deletes the token it finds expired. *)
Sweep(op, id) ==
    IF op = "refresh" /\ id # 0 /\ token[id] = "expired"
    THEN token' = [token EXCEPT ![id] = "gone"] ELSE UNCHANGED token

Read(p, op, right, id) ==
    /\ IF Admitted(op) /\ Holds(op, id) /\ ~(op = "login" /\ lock = "held")
       THEN call' = [call EXCEPT ![p] = [NoCall EXCEPT
                       !.at = First(op), !.op = op, !.right = right, !.id = id,
                       !.seen = IF op = "login" /\ lock = "over" THEN "over" ELSE "none"]]
       ELSE call' = [call EXCEPT ![p] = [NoCall EXCEPT
                       !.at = "answer", !.op = op, !.right = right, !.id = id,
                       !.gives = IF op = "refresh" THEN 0 ELSE Keep]]
    /\ Sweep(op, id)
    /\ UNCHANGED <<account, parent, link, used, jar>>

(* A page sends a request, with the cookie the browser has then. *)
Request(p, op) ==
    /\ call[p].at = "idle"
    /\ \E right \in BOOLEAN, id \in 0 .. MaxLinks :
          /\ right => op = "login"
          /\ (op = "reset") <=> (id # 0)
          /\ op = "reset" => link[id] # "unused"
          /\ op \in {"logout", "end", "email"} => jar # 0
          /\ Read(p, op, right, IF op \in {"refresh", "logout"} THEN jar ELSE id)
    /\ UNCHANGED faults

(* The answer is lost on the way to the proxy, which sends the request     *)
(* again.                                                                  *)
SendAgain(p) ==
    /\ call[p].at = "answer"
    /\ Fault
    /\ Read(p, call[p].op, call[p].right, call[p].id)

(* The answer arrives. *)
Arrive(p) ==
    /\ call[p].at = "answer"
    /\ jar' = IF call[p].gives = Keep THEN jar ELSE call[p].gives
    /\ call' = [call EXCEPT ![p] = NoCall]
    /\ UNCHANGED <<account, rows, faults>>
-----------------------------------------------------------------------------
(* login *)

(* One that locks after another failure. *)
WrongPasswordLate(p) ==
    /\ call[p].at = "compare" /\ ~call[p].right
    /\ LET over == call[p].seen = "over" /\ lock = "over"
           base == IF over THEN 0 ELSE failed IN
       /\ failed' = base + 1
       /\ lock' = IF base >= LockAt THEN "held" ELSE IF over THEN "none" ELSE lock
    /\ Answer(p, Keep)
    /\ UNCHANGED <<active, rows, jar, faults>>

(* One that lifts the lock without a look at it. *)
WrongPasswordUnlocks(p) ==
    /\ call[p].at = "compare" /\ ~call[p].right
    /\ LET base == IF call[p].seen = "over" THEN 0 ELSE failed IN
       /\ failed' = base + 1
       /\ lock' = IF base + 1 >= LockAt THEN "held"
                  ELSE IF call[p].seen = "over" THEN "none" ELSE lock
    /\ Answer(p, Keep)
    /\ UNCHANGED <<active, rows, jar, faults>>

(* The count starts anew if the lock it read as over still is.             *)
WrongPassword(p) ==
    /\ call[p].at = "compare" /\ ~call[p].right
    /\ LET over == call[p].seen = "over" /\ lock = "over"
           base == IF over THEN 0 ELSE failed IN
       /\ failed' = base + 1
       /\ lock' = IF base + 1 >= LockAt THEN "held" ELSE IF over THEN "none" ELSE lock
    /\ Answer(p, Keep)
    /\ UNCHANGED <<active, rows, jar, faults>>

RightPassword(p) ==
    /\ call[p].at = "compare" /\ call[p].right
    /\ failed' = 0 /\ lock' = "none"
    /\ call' = [call EXCEPT ![p].at = "issue"]
    /\ UNCHANGED <<active, rows, jar, faults>>

Issue(p) ==
    /\ call[p].at = "issue"
    /\ \E t \in TokenIds :
          /\ IsNext(token, t)
          /\ token' = [token EXCEPT ![t] = "live"]
          /\ Answer(p, t)
    /\ UNCHANGED <<account, parent, link, used, jar, faults>>
-----------------------------------------------------------------------------
(* refresh: the transaction deletes the token and creates another.  What   *)
(* deletes all the tokens of the account in between does not see the other.*)

(* One that does not count what it has deleted. *)
ExchangeUncounted(p) ==
    /\ call[p].at = "exchange"
    /\ IF active
       THEN /\ token' = [token EXCEPT ![call[p].id] = "spent"]
            /\ call' = [call EXCEPT ![p].at = "create"]
       ELSE UNCHANGED token /\ Answer(p, 0)
    /\ UNCHANGED <<account, parent, link, used, jar, faults>>

(* It asks for a token that had not expired when it was read.              *)
Exchange(p) ==
    /\ call[p].at = "exchange"
    /\ IF active /\ token[call[p].id] \in {"live", "expired"}
       THEN /\ token' = [token EXCEPT ![call[p].id] = "spent"]
            /\ call' = [call EXCEPT ![p].at = "create"]
       ELSE UNCHANGED token /\ Answer(p, 0)
    /\ UNCHANGED <<account, parent, link, used, jar, faults>>

(* One that answers without a cookie. *)
CreateWithoutCookie(p) ==
    /\ call[p].at = "create" /\ call[p].op = "refresh"
    /\ \E t \in TokenIds :
          /\ IsNext(token, t)
          /\ token' = [token EXCEPT ![t] = "live"]
          /\ parent' = [parent EXCEPT ![t] = call[p].id]
          /\ Answer(p, Keep)
    /\ UNCHANGED <<account, link, used, jar, faults>>

Create(p) ==
    /\ call[p].at = "create" /\ call[p].op = "refresh"
    /\ \E t \in TokenIds :
          /\ IsNext(token, t)
          /\ token' = [token EXCEPT ![t] = "live"]
          /\ parent' = [parent EXCEPT ![t] = call[p].id]
          /\ Answer(p, t)
    /\ UNCHANGED <<account, link, used, jar, faults>>
-----------------------------------------------------------------------------
(* What ends sessions *)

Logout(p) ==
    /\ call[p].at = "write" /\ call[p].op = "logout"
    /\ token' = [token EXCEPT ![call[p].id] = IF @ \in {"live", "expired"} THEN "gone" ELSE @]
    /\ Answer(p, 0)
    /\ UNCHANGED <<account, parent, link, used, jar, faults>>

(* logoutAll, changePassword, and updateProfile with another password.     *)
EndSessions(p) ==
    /\ call[p].at = "write" /\ call[p].op = "end"
    /\ EndAll
    /\ Answer(p, 0)
    /\ UNCHANGED <<account, parent, link, used, jar, faults>>

(* One that leaves the links to the old address. *)
ChangeEmailOnly(p) ==
    /\ call[p].at = "write" /\ call[p].op = "email"
    /\ EndAll
    /\ Answer(p, 0)
    /\ UNCHANGED <<account, parent, link, used, jar, faults>>

(* updateProfile with another address. *)
ChangeEmail(p) ==
    /\ call[p].at = "write" /\ call[p].op = "email"
    /\ EndAll /\ DropLinks
    /\ Answer(p, 0)
    /\ UNCHANGED <<account, parent, used, jar, faults>>

(* forgotPassword drops the links and creates one; two of them at once     *)
(* leave two.                                                              *)
DropOld(p) ==
    /\ call[p].at = "write" /\ call[p].op = "forgot"
    /\ DropLinks
    /\ call' = [call EXCEPT ![p].at = "create"]
    /\ UNCHANGED <<account, token, parent, used, jar, faults>>

MailLink(p) ==
    /\ call[p].at = "create" /\ call[p].op = "forgot"
    /\ \E k \in LinkIds : IsNext(link, k) /\ link' = [link EXCEPT ![k] = "live"]
    /\ Answer(p, Keep)
    /\ UNCHANGED <<account, token, parent, used, jar, faults>>

(* One that trusts what it has read. *)
ResetTrusting(p) ==
    /\ call[p].at = "write" /\ call[p].op = "reset"
    /\ LET k == call[p].id IN
       IF active
       THEN /\ link' = [link EXCEPT ![k] = "spent"]
            /\ used' = [used EXCEPT ![k] = @ + 1]
            /\ failed' = 0 /\ lock' = "none"
            /\ EndAll
       ELSE UNCHANGED <<link, used, failed, lock, token>>
    /\ Answer(p, Keep)
    /\ UNCHANGED <<active, parent, jar, faults>>

(* resetPassword claims the link, or does nothing. *)
Reset(p) ==
    /\ call[p].at = "write" /\ call[p].op = "reset"
    /\ LET k == call[p].id IN
       IF active /\ link[k] = "live"
       THEN /\ link' = [link EXCEPT ![k] = "spent"]
            /\ used' = [used EXCEPT ![k] = @ + 1]
            /\ failed' = 0 /\ lock' = "none"
            /\ EndAll
       ELSE UNCHANGED <<link, used, failed, lock, token>>
    /\ Answer(p, Keep)
    /\ UNCHANGED <<active, parent, jar, faults>>

(* updateUserStatus of the platform's administrators. *)
Bar ==
    /\ active
    /\ Fault
    /\ active' = FALSE
    /\ EndAll
    /\ UNCHANGED <<failed, lock, parent, link, used, jar, call>>

Admit ==
    /\ ~active
    /\ active' = TRUE
    /\ UNCHANGED <<failed, lock, rows, jar, call, faults>>
-----------------------------------------------------------------------------
(* Time *)

LockEnds ==
    /\ lock = "held" /\ lock' = "over"
    /\ UNCHANGED <<active, failed, rows, jar, call, faults>>

TokenExpires(t) ==
    /\ token[t] = "live" /\ token' = [token EXCEPT ![t] = "expired"]
    /\ UNCHANGED <<account, parent, link, used, jar, call, faults>>

LinkExpires(k) ==
    /\ link[k] = "live" /\ link' = [link EXCEPT ![k] = "expired"]
    /\ UNCHANGED <<account, token, parent, used, jar, call, faults>>
-----------------------------------------------------------------------------
SessionsNext ==
    \/ Bar \/ Admit \/ LockEnds
    \/ \E t \in TokenIds : TokenExpires(t)
    \/ \E k \in LinkIds : LinkExpires(k)
    \/ \E p \in Tabs :
          \/ \E op \in Operations : Request(p, op)
          \/ SendAgain(p) \/ Arrive(p)
          \/ WrongPassword(p) \/ RightPassword(p) \/ Issue(p)
          \/ Exchange(p) \/ Create(p)
          \/ Logout(p) \/ EndSessions(p) \/ ChangeEmail(p)
          \/ DropOld(p) \/ MailLink(p) \/ Reset(p)

SessionsSpec == SessionsInit /\ [][SessionsNext]_sessionsVars
-----------------------------------------------------------------------------
(* Properties *)

(* Types; an account with LockAt failures has been locked. *)
SessionsTypeOK ==
    /\ active \in BOOLEAN
    /\ failed \in Nat /\ lock \in {"none", "held", "over"}
    /\ token \in [TokenIds -> Stages] /\ parent \in [TokenIds -> 0 .. MaxTokens]
    /\ link \in [LinkIds -> Stages] /\ used \in [LinkIds -> Nat]
    /\ jar \in 0 .. MaxTokens
    /\ call \in [Tabs -> CallState]
    /\ faults \in 0 .. MaxFaults
    /\ failed >= LockAt => lock # "none"

(* However many tabs refresh at once, and whatever is sent again, a token  *)
(* is exchanged for one other and a link sets one password.                *)
UsedOnce ==
    /\ \A s, t \in TokenIds : parent[s] = parent[t] /\ parent[s] # 0 => s = t
    /\ \A k \in LinkIds : used[k] <= 1

(* What has ended a session or a link ends it also for the calls that had  *)
(* read it before.                                                         *)
EndedStaysEnded ==
    [][/\ \A t \in TokenIds : token[t] = "gone" => token'[t] = "gone"
       /\ \A k \in LinkIds : link[k] = "gone" => link'[k] = "gone"]_sessionsVars

(* The links mailed to an address do not outlive it, but for one that was  *)
(* asked for before the change.                                            *)
AddressChanged == \E p \in Tabs : call[p].op = "email" /\ call[p].at = "write"
                                  /\ call'[p].at = "answer"
LinksFollowAddress ==
    [][AddressChanged => \A k \in LinkIds : link'[k] # "live"]_sessionsVars

(* A lock is lifted by time, a login with the right password and a link;   *)
(* never by a login that fails, whatever it has read.                      *)
LockHolds ==
    [][lock = "held" /\ lock' = "none"
        => \E p \in Tabs : call[p].right \/ call[p].op = "reset"]_sessionsVars

(* The browser keeps a token that was exchanged only while a refresh is    *)
(* not answered; an answer that is lost may leave it so.  Of two live      *)
(* tokens it may have either one.                                          *)
CookieRenewed ==
    jar # 0 /\ token[jar] = "spent" /\ faults = 0
        => \E p \in Tabs : call[p].op = "refresh" /\ call[p].at # "idle"

(* Together: what was ended, dropped or locked stays so.                   *)
EndedHolds == EndedStaysEnded /\ LinksFollowAddress /\ LockHolds
=============================================================================
