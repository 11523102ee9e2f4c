----------------------------- MODULE PartsProofs -----------------------------
(***************************************************************************)
(* Theorems about the parts of MCParts, one section each: the types and    *)
(* what the run checks, from an inductive invariant that says of every     *)
(* call under way what it has read that is still so, unless another call   *)
(* has overtaken it.  The last section puts them together: every part of   *)
(* PartsSpec behaves as its own specification says.                        *)
(***************************************************************************)
EXTENDS MCParts, FiniteSetTheorems, TLAPS

-----------------------------------------------------------------------------
(* Membership *)

CallsTyped ==
    /\ request \in [Admins -> Request]
    /\ \A p \in Admins : /\ request[p].op \in UserOps => request[p].user \in Users
                         /\ request[p].op \in InviteOps => request[p].id \in Invites

MembershipShapes ==
    /\ org \in {"none", "active", "suspended", "gone"}
    /\ owner \in Users \cup {Nobody}
    /\ account \in [Users -> {"active", "suspended", "gone"}]
    /\ role \in [Users -> Roles]
    /\ inv \in [Invites -> Invitation]
    /\ withdrawn \subseteq Invites
    /\ CallsTyped

(* The rows go with the organisation and with the account they are of, and *)
(* what was withdrawn does not wait for an answer.                         *)
RowsHold ==
    /\ \A u \in Users : role[u] # "none" => account[u] # "gone" /\ org \in {"active", "suspended"}
    /\ OneOwner
    /\ org \in {"active", "suspended"} => owner \in Users
    /\ \A i \in Invites : inv[i].status # "none" =>
          /\ org \in {"active", "suspended"}
          /\ inv[i].user \in Users /\ account[inv[i].user] # "gone"
    /\ \A i \in withdrawn : inv[i].status # "pending" /\ inv[i].user # Nobody
    /\ \A p \in Admins : request[p].op \in {"invite", "add"} => org # "none"

(* What a call has checked is still so, unless it was overtaken. *)
ChecksStand ==
    \A p \in Admins : ~request[p].overtaken =>
        /\ request[p].op = "remove" => ~(owner = request[p].user /\ role[owner] = "owner")
        /\ request[p].op = "suspend" => ~(owner = request[p].user /\ org = "active")
        /\ request[p].op \in {"revoke", "resend"} => inv[request[p].id].status # "accepted"
-----------------------------------------------------------------------------
LEMMA NoRowsTyped ==
    /\ \A u \in Users \cup {Nobody} : [NoInvitation EXCEPT !.user = u] \in Invitation
    /\ NoInvitation \in Invitation
BY DEF NoInvitation, Invitation

(* The calls after a step: answered, overtaken, or as they were. *)
Marked(r) == [r EXCEPT !.overtaken = TRUE]

LEMMA MarkedSame ==
    ASSUME NEW r \in Request
    PROVE  /\ Marked(r) \in Request /\ Marked(r).op = r.op /\ Marked(r).overtaken
           /\ Marked(r).user = r.user /\ Marked(r).id = r.id
BY DEF Marked, Request

LEMMA NoRequestIdle ==
    /\ NoRequest \in Request /\ NoRequest.op \notin UserOps \cup InviteOps
    /\ NoRequest.op \notin {"invite", "add", "remove", "suspend", "revoke", "resend"}
BY DEF NoRequest, Request, UserOps, InviteOps

LEMMA CallsMarked ==
    ASSUME CallsTyped, NEW hit,
           request' = [q \in Admins |-> IF q \in hit THEN Marked(request[q]) ELSE request[q]]
    PROVE  CallsTyped'
BY MarkedSame DEF CallsTyped

LEMMA CallAnswered == ASSUME CallsTyped, NEW p \in Admins, Answered(p) PROVE CallsTyped'
BY NoRequestIdle DEF CallsTyped, Answered

LEMMA CallsOvertaken ==
    ASSUME CallsTyped, NEW p \in Admins, NEW hit, Overtake(p, hit) PROVE CallsTyped'
<1>1. request' = [q \in Admins |-> IF q = p THEN NoRequest
                                   ELSE IF q \in hit THEN Marked(request[q]) ELSE request[q]]
  BY DEF Overtake, Marked
<1> QED BY <1>1, NoRequestIdle, MarkedSame DEF CallsTyped

(* A row that is written. *)
LEMMA InvitationSet ==
    ASSUME MembershipShapes, NEW i \in Invites, NEW r \in Invitation, inv' = [inv EXCEPT ![i] = r]
    PROVE  /\ inv' \in [Invites -> Invitation]
           /\ \A j \in Invites : inv'[j] = IF j = i THEN r ELSE inv[j]
BY DEF MembershipShapes

LEMMA InvitationTyped == ASSUME MembershipShapes, NEW i \in Invites PROVE inv[i] \in Invitation
BY DEF MembershipShapes

(* What the answers to an invitation and its writers do to the rows. *)
LEMMA AnswersWrite ==
    ASSUME MembershipShapes, NEW p \in Admins,
           Accept(p) \/ Reject(p) \/ Revoke(p) \/ Resend(p)
    PROVE  /\ request[p].id \in Invites
           /\ \/ inv' = inv /\ role' = role /\ withdrawn' = withdrawn
              \/ /\ inv[request[p].id].status # "none"
                 /\ inv' \in [Invites -> Invitation]
                 /\ \A j \in Invites \ {request[p].id} : inv'[j] = inv[j]
                 /\ inv'[request[p].id].user = inv[request[p].id].user
                 /\ \/ /\ Accept(p) /\ inv[request[p].id].status = "pending"
                       /\ inv'[request[p].id].status = "accepted"
                       /\ role[inv[request[p].id].user] = "none"
                       /\ role' = [role EXCEPT ![inv[request[p].id].user] = "member"]
                       /\ withdrawn' = withdrawn
                       /\ Overtake(p, {q \in Admins : request[q].id = request[p].id})
                    \/ /\ Reject(p) /\ inv[request[p].id].status = "pending"
                       /\ inv'[request[p].id].status = "rejected"
                       /\ role' = role /\ withdrawn' = withdrawn \cup {request[p].id}
                    \/ /\ Revoke(p) /\ inv'[request[p].id].status = "revoked"
                       /\ role' = role /\ withdrawn' = withdrawn \cup {request[p].id}
                    \/ /\ Resend(p) /\ inv'[request[p].id].status = "pending"
                       /\ role' = role /\ withdrawn' = withdrawn \ {request[p].id}
<1> DEFINE i == request[p].id
           r == inv[i]
<1>1. i \in Invites /\ r \in Invitation
  BY InvitationTyped DEF MembershipShapes, CallsTyped, Accept, Reject, Revoke, Resend, InviteOps
<1>2. CASE Accept(p)
  <2>1. CASE Pending(i) /\ ~r.accepted /\ ~r.revoked /\ role[r.user] = "none"
    <3> DEFINE n == [r EXCEPT !.status = "accepted", !.accepted = TRUE]
    <3>1. inv' = [inv EXCEPT ![i] = n]
      BY <1>1, <1>2, <2>1 DEF Accept, MembershipShapes
    <3>2. n \in Invitation /\ n.status = "accepted" /\ n.user = r.user
      BY <1>1 DEF Invitation
    <3> HIDE DEF n
    <3>3. /\ inv' \in [Invites -> Invitation] /\ inv'[i] = n
          /\ \A j \in Invites \ {i} : inv'[j] = inv[j]
      BY <1>1, <3>1, <3>2, InvitationSet
    <3> QED BY <1>1, <1>2, <2>1, <3>2, <3>3 DEF Accept, Pending
  <2>2. CASE ~(Pending(i) /\ ~r.accepted /\ ~r.revoked /\ role[r.user] = "none")
    BY <1>1, <1>2, <2>2 DEF Accept
  <2> QED BY <2>1, <2>2
<1>3. CASE Reject(p)
  <2>1. CASE Pending(i) /\ ~r.accepted
    <3> DEFINE n == [r EXCEPT !.status = "rejected"]
    <3>1. inv' = [inv EXCEPT ![i] = n]
      BY <1>1, <1>3, <2>1 DEF Reject, MembershipShapes
    <3>2. n \in Invitation /\ n.status = "rejected" /\ n.user = r.user
      BY <1>1 DEF Invitation
    <3> HIDE DEF n
    <3>3. /\ inv' \in [Invites -> Invitation] /\ inv'[i] = n
          /\ \A j \in Invites \ {i} : inv'[j] = inv[j]
      BY <1>1, <3>1, <3>2, InvitationSet
    <3> QED BY <1>1, <1>3, <2>1, <3>2, <3>3 DEF Reject, Pending
  <2>2. CASE ~(Pending(i) /\ ~r.accepted)
    BY <1>1, <1>3, <2>2 DEF Reject
  <2> QED BY <2>1, <2>2
<1>4. CASE Revoke(p)
  <2>1. CASE r.status # "none"
    <3> DEFINE n == [r EXCEPT !.status = "revoked", !.revoked = TRUE]
    <3>1. inv' = [inv EXCEPT ![i] = n]
      BY <1>1, <1>4, <2>1 DEF Revoke, MembershipShapes
    <3>2. n \in Invitation /\ n.status = "revoked" /\ n.user = r.user
      BY <1>1 DEF Invitation
    <3> HIDE DEF n
    <3>3. /\ inv' \in [Invites -> Invitation] /\ inv'[i] = n
          /\ \A j \in Invites \ {i} : inv'[j] = inv[j]
      BY <1>1, <3>1, <3>2, InvitationSet
    <3> QED BY <1>1, <1>4, <2>1, <3>2, <3>3 DEF Revoke
  <2>2. CASE r.status = "none"
    BY <1>1, <1>4, <2>2 DEF Revoke
  <2> QED BY <2>1, <2>2
<1>5. CASE Resend(p)
  <2>1. CASE r.status # "none"
    <3> DEFINE n == [r EXCEPT !.status = "pending", !.open = TRUE,
                              !.accepted = FALSE, !.revoked = FALSE]
    <3>1. inv' = [inv EXCEPT ![i] = n]
      BY <1>1, <1>5, <2>1 DEF Resend, MembershipShapes
    <3>2. n \in Invitation /\ n.status = "pending" /\ n.user = r.user
      BY <1>1 DEF Invitation
    <3> HIDE DEF n
    <3>3. /\ inv' \in [Invites -> Invitation] /\ inv'[i] = n
          /\ \A j \in Invites \ {i} : inv'[j] = inv[j]
      BY <1>1, <3>1, <3>2, InvitationSet
    <3> QED BY <1>1, <1>5, <2>1, <3>2, <3>3 DEF Resend
  <2>2. CASE r.status = "none"
    BY <1>1, <1>5, <2>2 DEF Resend
  <2> QED BY <2>1, <2>2
<1> QED BY <1>1, <1>2, <1>3, <1>4, <1>5

(* What they leave alone, and what they do to the calls. *)
LEMMA AnswersCall ==
    ASSUME MembershipShapes, NEW p \in Admins,
           Accept(p) \/ Reject(p) \/ Revoke(p) \/ Resend(p)
    PROVE  /\ UNCHANGED <<org, owner, account>> /\ CallsTyped'
           /\ request'[p] = NoRequest
           /\ \A q \in Admins \ {p} : request'[q] = request[q] \/ request'[q] = Marked(request[q])
<1>1. CallsTyped
  BY DEF MembershipShapes
<1>2. CASE Answered(p)
  BY <1>1, <1>2, CallAnswered DEF Answered, CallsTyped, Accept, Reject, Revoke, Resend
<1>3. ASSUME NEW hit, Overtake(p, hit), Accept(p)
      PROVE  /\ UNCHANGED <<org, owner, account>> /\ CallsTyped'
             /\ request'[p] = NoRequest
             /\ \A q \in Admins \ {p} : request'[q] = request[q] \/ request'[q] = Marked(request[q])
  BY <1>1, <1>3, CallsOvertaken DEF Overtake, Marked, Accept
<1> QED BY <1>2, <1>3 DEF Accept, Reject, Revoke, Resend

LEMMA MembershipShapesStep ==
    MembershipShapes /\ [MembershipNext]_membershipVars => MembershipShapes'
<1> SUFFICES ASSUME MembershipShapes, [MembershipNext]_membershipVars PROVE MembershipShapes'
  OBVIOUS
<1>1. CASE Create
  <2>1. request' = [q \in Admins |->
                      IF q \in {x \in Admins : request[x].user = Founder}
                      THEN Marked(request[q]) ELSE request[q]]
    BY <1>1 DEF Create, Marked
  <2>2. CallsTyped'
    BY <2>1, CallsMarked DEF MembershipShapes
  <2> QED BY <1>1, <2>2, MembershipAssumption
      DEF Create, MembershipShapes, Roles, MembershipAssumption
<1>2. CASE DeleteOrganization
  BY <1>2, NoRowsTyped DEF DeleteOrganization, MembershipShapes, Roles, Invitation, CallsTyped
<1>3. CASE MarkExpired
  BY <1>3 DEF MarkExpired, MembershipShapes, CallsTyped, Invitation
<1>4. ASSUME NEW s \in {"active", "suspended"}, SetOrganization(s)
      PROVE  MembershipShapes'
  <2>1. request' = [q \in Admins |->
                      IF q \in {x \in Admins : s = "active" /\ request[x].op = "suspend"}
                      THEN Marked(request[q]) ELSE request[q]]
    BY <1>4 DEF SetOrganization, Marked
  <2>2. CallsTyped'
    BY <2>1, CallsMarked DEF MembershipShapes
  <2> QED BY <1>4, <2>2 DEF SetOrganization, MembershipShapes, Roles
<1>5. ASSUME NEW u \in Users, Transfer(u) PROVE MembershipShapes'
  <2>1. request' = [q \in Admins |->
                      IF q \in {x \in Admins : request[x].user = u}
                      THEN Marked(request[q]) ELSE request[q]]
    BY <1>5 DEF Transfer, Marked
  <2>2. CallsTyped'
    BY <2>1, CallsMarked DEF MembershipShapes
  <2> QED BY <1>5, <2>2 DEF Transfer, MembershipShapes, Roles
<1>6. ASSUME NEW u \in Users, Activate(u) PROVE MembershipShapes'
  BY <1>6 DEF Activate, MembershipShapes, CallsTyped
<1>7. ASSUME NEW i \in Invites, Lapse(i) PROVE MembershipShapes'
  <2>1. inv' = [inv EXCEPT ![i] = [inv[i] EXCEPT !.open = FALSE]]
    BY <1>7 DEF Lapse, MembershipShapes
  <2>2. inv' \in [Invites -> Invitation]
    <3>1. [inv[i] EXCEPT !.open = FALSE] \in Invitation
      BY InvitationTyped DEF Invitation
    <3> QED BY <2>1, <3>1, InvitationSet
  <2> QED BY <1>7, <2>2 DEF Lapse, MembershipShapes, CallsTyped
<1>8. ASSUME NEW p \in Admins, NEW op \in UserOps, NEW u \in Users, Ask(p, op, u, Nobody)
      PROVE  MembershipShapes'
  BY <1>8 DEF Ask, MembershipShapes, CallsTyped, Request, UserOps, InviteOps
<1>9. ASSUME NEW p \in Admins, NEW op \in InviteOps, NEW i \in Invites, Ask(p, op, Nobody, i)
      PROVE  MembershipShapes'
  BY <1>9 DEF Ask, MembershipShapes, CallsTyped, Request, UserOps, InviteOps
<1>10. ASSUME NEW p \in Admins, Add(p) PROVE MembershipShapes'
  <2>1. request[p].user \in Users
    BY <1>10 DEF Add, MembershipShapes, CallsTyped, UserOps
  <2> QED BY <1>10, <2>1, CallAnswered DEF Add, MembershipShapes, Roles
<1>11. ASSUME NEW p \in Admins, Remove(p) PROVE MembershipShapes'
  <2>1. request[p].user \in Users
    BY <1>11 DEF Remove, MembershipShapes, CallsTyped, UserOps
  <2> QED BY <1>11, <2>1, CallAnswered DEF Remove, MembershipShapes, Roles
<1>12. ASSUME NEW p \in Admins, Suspend(p) PROVE MembershipShapes'
  <2>1. request[p].user \in Users
    BY <1>12 DEF Suspend, MembershipShapes, CallsTyped, UserOps
  <2> QED BY <1>12, <2>1, CallAnswered DEF Suspend, MembershipShapes, Roles
<1>13. ASSUME NEW p \in Admins, DeleteUser(p) PROVE MembershipShapes'
  <2>1. inv' \in [Invites -> Invitation]
    BY <1>13, NoRowsTyped DEF DeleteUser, MembershipShapes, CallsTyped, UserOps
  <2>2. request[p].user \in Users
    BY <1>13 DEF DeleteUser, MembershipShapes, CallsTyped, UserOps
  <2> QED BY <1>13, <2>1, <2>2, CallAnswered DEF DeleteUser, MembershipShapes, Roles
<1>14. ASSUME NEW p \in Admins, Invite(p) PROVE MembershipShapes'
  <2>1. request[p].user \in Users
    BY <1>14 DEF Invite, MembershipShapes, CallsTyped, UserOps
  <2>2. [status |-> "pending", user |-> request[p].user, open |-> TRUE,
         accepted |-> FALSE, revoked |-> FALSE] \in Invitation
    BY <2>1 DEF Invitation
  <2>3. inv' \in [Invites -> Invitation]
    BY <1>14, <2>2, InvitationSet DEF Invite, MembershipShapes
  <2> QED BY <1>14, <2>3, CallAnswered DEF Invite, MembershipShapes
<1>15. ASSUME NEW p \in Admins, Accept(p) \/ Reject(p) \/ Revoke(p) \/ Resend(p)
      PROVE  MembershipShapes'
  BY <1>15, AnswersWrite, AnswersCall DEF MembershipShapes, Roles
<1>16. CASE UNCHANGED membershipVars
  BY <1>16 DEF membershipVars, MembershipShapes, CallsTyped
<1> QED
  BY <1>1, <1>2, <1>3, <1>4, <1>5, <1>6, <1>7, <1>8, <1>9, <1>10,
      <1>11, <1>12, <1>13, <1>14, <1>15, <1>16
  DEF MembershipNext

LEMMA RowsStep == MembershipShapes /\ RowsHold /\ [MembershipNext]_membershipVars => RowsHold'
<1> SUFFICES ASSUME MembershipShapes, RowsHold, [MembershipNext]_membershipVars PROVE RowsHold'
  OBVIOUS
<1>1. CASE Create
  BY <1>1, MembershipAssumption
  DEF Create, MembershipShapes, CallsTyped, RowsHold, OneOwner, MembershipAssumption
<1>2. CASE DeleteOrganization
  BY <1>2, MembershipAssumption
  DEF DeleteOrganization, MembershipShapes, CallsTyped, RowsHold, OneOwner, MembershipAssumption,
      Invitation, NoInvitation
<1>3. CASE MarkExpired
  BY <1>3, MembershipAssumption
  DEF MarkExpired, MembershipShapes, CallsTyped, RowsHold, OneOwner, MembershipAssumption,
      Invitation
<1>4. ASSUME NEW s \in {"active", "suspended"}, SetOrganization(s) PROVE RowsHold'
  BY <1>4, MembershipAssumption
  DEF SetOrganization, MembershipShapes, CallsTyped, RowsHold, OneOwner, MembershipAssumption
<1>5. ASSUME NEW u \in Users, Transfer(u) PROVE RowsHold'
  BY <1>5, MembershipAssumption
  DEF Transfer, MembershipShapes, CallsTyped, RowsHold, OneOwner, MembershipAssumption
<1>6. ASSUME NEW u \in Users, Activate(u) PROVE RowsHold'
  BY <1>6, MembershipAssumption
  DEF Activate, MembershipShapes, CallsTyped, RowsHold, OneOwner, MembershipAssumption
<1>7. ASSUME NEW i \in Invites, Lapse(i) PROVE RowsHold'
  BY <1>7, MembershipAssumption
  DEF Lapse, MembershipShapes, CallsTyped, RowsHold, OneOwner, MembershipAssumption, Invitation
<1>8. ASSUME NEW p \in Admins, NEW op \in UserOps, NEW u \in Users, Ask(p, op, u, Nobody)
      PROVE  RowsHold'
  BY <1>8, MembershipAssumption
  DEF Ask, MembershipShapes, CallsTyped, RowsHold, OneOwner, MembershipAssumption, MayBegin,
      Pending, Resendable, Removable, NoRequest, UserOps, InviteOps
<1>9. ASSUME NEW p \in Admins, NEW op \in InviteOps, NEW i \in Invites, Ask(p, op, Nobody, i)
      PROVE  RowsHold'
  BY <1>9, MembershipAssumption
  DEF Ask, MembershipShapes, CallsTyped, RowsHold, OneOwner, MembershipAssumption, MayBegin,
      Pending, Resendable, Removable, NoRequest, UserOps, InviteOps
<1>10. ASSUME NEW p \in Admins, Add(p) PROVE RowsHold'
  BY <1>10, MembershipAssumption
  DEF Add, MembershipShapes, CallsTyped, RowsHold, OneOwner, MembershipAssumption, Answered,
      NoRequest, UserOps, InviteOps
<1>11. ASSUME NEW p \in Admins, Remove(p) PROVE RowsHold'
  BY <1>11, MembershipAssumption
  DEF Remove, MembershipShapes, CallsTyped, RowsHold, OneOwner, MembershipAssumption, Answered,
      NoRequest, UserOps, InviteOps
<1>12. ASSUME NEW p \in Admins, Suspend(p) PROVE RowsHold'
  BY <1>12, MembershipAssumption
  DEF Suspend, MembershipShapes, CallsTyped, RowsHold, OneOwner, MembershipAssumption, Answered,
      NoRequest, UserOps, InviteOps
<1>13. ASSUME NEW p \in Admins, DeleteUser(p) PROVE RowsHold'
  BY <1>13, MembershipAssumption
  DEF DeleteUser, MembershipShapes, CallsTyped, RowsHold, OneOwner, MembershipAssumption,
      Invitation, Answered, NoInvitation, NoRequest, UserOps, InviteOps
<1>14. ASSUME NEW p \in Admins, Invite(p) PROVE RowsHold'
  BY <1>14, MembershipAssumption
  DEF Invite, MembershipShapes, CallsTyped, RowsHold, OneOwner, MembershipAssumption, Answered,
      NoRequest, UserOps, InviteOps
<1>15. ASSUME NEW p \in Admins, Accept(p) \/ Reject(p) \/ Revoke(p) \/ Resend(p)
      PROVE  RowsHold'
  <2> DEFINE i == request[p].id
  <2>1. /\ UNCHANGED <<org, owner, account>>
        /\ \A q \in Admins : request'[q].op \in {request[q].op, NoRequest.op}
    BY <1>15, AnswersCall, MarkedSame DEF MembershipShapes, CallsTyped
  <2>2. \A q \in Admins : request'[q].op \in {"invite", "add"} => org' # "none"
    BY <2>1, NoRequestIdle DEF RowsHold
  <2>3. CASE inv' = inv /\ role' = role /\ withdrawn' = withdrawn
    BY <2>1, <2>2, <2>3 DEF RowsHold, OneOwner
  <2>4. CASE ~(inv' = inv /\ role' = role /\ withdrawn' = withdrawn)
    <3>1. /\ i \in Invites /\ inv[i].status # "none" /\ inv'[i].user = inv[i].user
          /\ \A j \in Invites \ {i} : inv'[j] = inv[j]
          /\ org \in {"active", "suspended"}
          /\ inv[i].user \in Users /\ account[inv[i].user] # "gone"
      BY <1>15, <2>4, AnswersWrite DEF RowsHold
    <3>2. role' = role \/ role' = [role EXCEPT ![inv[i].user] = "member"]
      BY <1>15, <2>4, AnswersWrite
    <3>3. /\ \A u \in Users : role'[u] # "none" => account'[u] # "gone"
          /\ OneOwner'
      BY <2>1, <3>1, <3>2 DEF RowsHold, OneOwner, MembershipShapes
    <3>4. \A j \in withdrawn' : inv'[j].status # "pending" /\ inv'[j].user # Nobody
      <4>1. \/ inv'[i].status # "pending" /\ withdrawn' \subseteq withdrawn \cup {i}
            \/ withdrawn' = withdrawn \ {i}
        BY <1>15, <2>4, <3>1, AnswersWrite
      <4> QED BY <3>1, <4>1, MembershipAssumption
              DEF MembershipAssumption, RowsHold, MembershipShapes
    <3> QED BY <2>1, <2>2, <3>1, <3>3, <3>4 DEF RowsHold
  <2> QED BY <2>3, <2>4
<1>16. CASE UNCHANGED membershipVars
  BY <1>16, MembershipAssumption
  DEF membershipVars, MembershipShapes, CallsTyped, RowsHold, OneOwner, MembershipAssumption
<1> QED
  BY <1>1, <1>2, <1>3, <1>4, <1>5, <1>6, <1>7, <1>8, <1>9, <1>10,
      <1>11, <1>12, <1>13, <1>14, <1>15, <1>16
  DEF MembershipNext

LEMMA ChecksStandStep ==
    MembershipShapes /\ RowsHold /\ ChecksStand /\ [MembershipNext]_membershipVars => ChecksStand'
<1> SUFFICES ASSUME MembershipShapes, RowsHold, ChecksStand, [MembershipNext]_membershipVars
             PROVE  ChecksStand'
  OBVIOUS
<1>1. CASE Create
  BY <1>1, MembershipAssumption
  DEF Create, MembershipShapes, CallsTyped, RowsHold, OneOwner, ChecksStand,
      MembershipAssumption, UserOps, InviteOps
<1>2. CASE DeleteOrganization
  BY <1>2, MembershipAssumption
  DEF DeleteOrganization, MembershipShapes, CallsTyped, RowsHold, OneOwner, ChecksStand,
      MembershipAssumption, NoInvitation, UserOps, InviteOps
<1>3. CASE MarkExpired
  BY <1>3, MembershipAssumption
  DEF MarkExpired, MembershipShapes, CallsTyped, RowsHold, OneOwner, ChecksStand,
      MembershipAssumption, UserOps, InviteOps
<1>4. ASSUME NEW s \in {"active", "suspended"}, SetOrganization(s) PROVE ChecksStand'
  BY <1>4, MembershipAssumption
  DEF SetOrganization, MembershipShapes, CallsTyped, RowsHold, OneOwner, ChecksStand,
      MembershipAssumption, UserOps, InviteOps
<1>5. ASSUME NEW u \in Users, Transfer(u) PROVE ChecksStand'
  BY <1>5, MembershipAssumption
  DEF Transfer, MembershipShapes, CallsTyped, RowsHold, OneOwner, ChecksStand,
      MembershipAssumption, UserOps, InviteOps
<1>6. ASSUME NEW u \in Users, Activate(u) PROVE ChecksStand'
  BY <1>6, MembershipAssumption
  DEF Activate, MembershipShapes, CallsTyped, RowsHold, OneOwner, ChecksStand,
      MembershipAssumption, UserOps, InviteOps
<1>7. ASSUME NEW i \in Invites, Lapse(i) PROVE ChecksStand'
  BY <1>7, MembershipAssumption
  DEF Lapse, MembershipShapes, CallsTyped, RowsHold, OneOwner, ChecksStand, MembershipAssumption,
      UserOps, InviteOps
<1>8. ASSUME NEW p \in Admins, NEW op \in UserOps, NEW u \in Users, Ask(p, op, u, Nobody)
      PROVE  ChecksStand'
  BY <1>8, MembershipAssumption
  DEF Ask, MembershipShapes, CallsTyped, RowsHold, OneOwner, ChecksStand, MembershipAssumption,
      MayBegin, Pending, Resendable, Removable, NoRequest, UserOps, InviteOps
<1>9. ASSUME NEW p \in Admins, NEW op \in InviteOps, NEW i \in Invites, Ask(p, op, Nobody, i)
      PROVE  ChecksStand'
  BY <1>9, MembershipAssumption
  DEF Ask, MembershipShapes, CallsTyped, RowsHold, OneOwner, ChecksStand, MembershipAssumption,
      MayBegin, Pending, Resendable, Removable, NoRequest, UserOps, InviteOps
<1>10. ASSUME NEW p \in Admins, Add(p) PROVE ChecksStand'
  BY <1>10, MembershipAssumption
  DEF Add, MembershipShapes, CallsTyped, RowsHold, OneOwner, ChecksStand, MembershipAssumption,
      Answered, NoRequest, UserOps, InviteOps
<1>11. ASSUME NEW p \in Admins, Remove(p) PROVE ChecksStand'
  BY <1>11, MembershipAssumption
  DEF Remove, MembershipShapes, CallsTyped, RowsHold, OneOwner, ChecksStand,
      MembershipAssumption, Answered, NoRequest, UserOps, InviteOps
<1>12. ASSUME NEW p \in Admins, Suspend(p) PROVE ChecksStand'
  BY <1>12, MembershipAssumption
  DEF Suspend, MembershipShapes, CallsTyped, RowsHold, OneOwner, ChecksStand,
      MembershipAssumption, Answered, NoRequest, UserOps, InviteOps
<1>13. ASSUME NEW p \in Admins, DeleteUser(p) PROVE ChecksStand'
  BY <1>13, MembershipAssumption
  DEF DeleteUser, MembershipShapes, CallsTyped, RowsHold, OneOwner, ChecksStand,
      MembershipAssumption, Answered, NoInvitation, NoRequest, UserOps, InviteOps
<1>14. ASSUME NEW p \in Admins, Invite(p) PROVE ChecksStand'
  BY <1>14, MembershipAssumption
  DEF Invite, MembershipShapes, CallsTyped, RowsHold, OneOwner, ChecksStand,
      MembershipAssumption, Answered, NoRequest, UserOps, InviteOps
<1>15. ASSUME NEW p \in Admins, Accept(p) \/ Reject(p) \/ Revoke(p) \/ Resend(p)
      PROVE  ChecksStand'
  <2> DEFINE i == request[p].id
  <2>1. /\ UNCHANGED <<org, owner, account>>
        /\ request'[p] = NoRequest
        /\ \A q \in Admins \ {p} :
                             \/ request'[q] = request[q]
                             \/ /\ request'[q].overtaken
                                /\ request'[q].op = request[q].op /\ request'[q].id = request[q].id
                                /\ request'[q].user = request[q].user
    BY <1>15, AnswersCall, MarkedSame DEF MembershipShapes, CallsTyped
  <2>2. i \in Invites /\ \A j \in Invites \ {i} : inv'[j] = inv[j]
    BY <1>15, AnswersWrite
  <2>3. \A u \in Users : role'[u] = "owner" => role[u] = "owner"
    BY <1>15, AnswersWrite DEF MembershipShapes
  <2>4. \/ inv'[i].status = "accepted" => inv[i].status = "accepted"
        \/ Overtake(p, {q \in Admins : request[q].id = i})
    BY <1>15, AnswersWrite
  <2>5. ASSUME NEW q \in Admins, ~request'[q].overtaken, request'[q].op \in {"revoke", "resend"}
        PROVE  inv'[request'[q].id].status # "accepted"
    <3>0. q # p /\ request'[q] = request[q]
      BY <2>1, <2>5, NoRequestIdle
    <3>1. q # p /\ request'[q] = request[q] /\ request[q].id \in Invites
      BY <2>5, <3>0 DEF MembershipShapes, CallsTyped, InviteOps
    <3>2. inv[request[q].id].status # "accepted"
      BY <2>5, <3>1 DEF ChecksStand
    <3>3. CASE Overtake(p, {x \in Admins : request[x].id = i})
      <4>1. request[q].id # i
        BY <2>5, <3>1, <3>3, MarkedSame DEF Overtake, Marked, MembershipShapes, CallsTyped
      <4> QED BY <2>2, <3>1, <3>2, <4>1
    <3> QED BY <2>2, <2>4, <3>1, <3>2, <3>3
  <2>6. ASSUME NEW q \in Admins, ~request'[q].overtaken, request'[q].op \in {"remove", "suspend"}
        PROVE  /\ request'[q].op = "remove"
                  => ~(owner' = request'[q].user /\ role'[owner'] = "owner")
               /\ request'[q].op = "suspend" => ~(owner' = request'[q].user /\ org' = "active")
    <3>1. request'[q] = request[q] /\ request[q].user \in Users
      BY <2>1, <2>6, NoRequestIdle DEF MembershipShapes, CallsTyped, UserOps
    <3> QED BY <2>1, <2>3, <2>6, <3>1 DEF ChecksStand
  <2> QED BY <2>5, <2>6 DEF ChecksStand
<1>16. CASE UNCHANGED membershipVars
  BY <1>16, MembershipAssumption
  DEF membershipVars, MembershipShapes, CallsTyped, RowsHold, OneOwner, ChecksStand,
      MembershipAssumption
<1> QED
  BY <1>1, <1>2, <1>3, <1>4, <1>5, <1>6, <1>7, <1>8, <1>9, <1>10,
      <1>11, <1>12, <1>13, <1>14, <1>15, <1>16
  DEF MembershipNext

LEMMA MembershipInvariant == MembershipSpec => [](MembershipShapes /\ RowsHold /\ ChecksStand)
<1>1. MembershipInit => MembershipShapes /\ RowsHold /\ ChecksStand
  <2> SUFFICES ASSUME MembershipInit PROVE MembershipShapes /\ RowsHold /\ ChecksStand
    OBVIOUS
  <2>1. MembershipShapes
    BY NoRowsTyped, NoRequestIdle DEF MembershipInit, MembershipShapes, CallsTyped, Roles
  <2>2. RowsHold
    BY NoRequestIdle DEF MembershipInit, RowsHold, OneOwner, NoInvitation
  <2>3. ChecksStand
    BY NoRequestIdle DEF MembershipInit, ChecksStand
  <2> QED BY <2>1, <2>2, <2>3
<1>2. MembershipShapes /\ RowsHold /\ ChecksStand /\ [MembershipNext]_membershipVars
      => (MembershipShapes /\ RowsHold /\ ChecksStand)'
  BY MembershipShapesStep, RowsStep, ChecksStandStep
<1> QED BY <1>1, <1>2, PTL DEF MembershipSpec

(* The rows keep their types; members have accounts, and only the primary  *)
(* owner has the role of the owner.                                        *)
THEOREM MembershipTyped == MembershipSpec => [](MembershipTypeOK /\ OneOwner)
<1>1. MembershipShapes /\ RowsHold => MembershipTypeOK /\ OneOwner
  BY DEF MembershipShapes, CallsTyped, RowsHold, MembershipTypeOK
<1> QED BY <1>1, MembershipInvariant, PTL

(* Whoever ends what the owner has is a call that was overtaken: a removal *)
(* or a suspension of him.                                                 *)
LEMMA OwnerStep ==
    ASSUME MembershipShapes, RowsHold, ChecksStand, [MembershipNext]_membershipVars,
           Led, org' = "active", ~Led'
    PROVE  \E p \in Admins : request[p].overtaken
<1>1. owner \in Users /\ role[owner] = "owner" /\ account[owner] = "active" /\ org = "active"
  BY DEF Led, RowsHold
<1>2. ~UNCHANGED <<owner, account, role>>
  BY <1>1 DEF Led
<1>3. CASE \/ Create \/ DeleteOrganization \/ MarkExpired
           \/ \E s \in {"active", "suspended"} : SetOrganization(s)
           \/ \E i \in Invites : Lapse(i)
           \/ \E p \in Admins, op \in UserOps \cup InviteOps, u \in Users \cup {Nobody},
                 i \in Invites \cup {Nobody} : Ask(p, op, u, i)
           \/ \E p \in Admins : Invite(p)
           \/ UNCHANGED membershipVars
  BY <1>1, <1>2, <1>3
  DEF Create, DeleteOrganization, MarkExpired, SetOrganization, Lapse, Ask, Invite, membershipVars
<1>4. ASSUME NEW u \in Users, Transfer(u) \/ Activate(u) PROVE FALSE
  BY <1>1, <1>4 DEF Transfer, Activate, Led, MembershipShapes
<1>5. ASSUME NEW p \in Admins, Add(p) PROVE FALSE
  BY <1>1, <1>5 DEF Add, Led, MembershipShapes
<1>6. ASSUME NEW p \in Admins, Remove(p) \/ Suspend(p) PROVE request[p].overtaken
  BY <1>1, <1>6 DEF Remove, Suspend, Led, MembershipShapes, ChecksStand
<1>7. ASSUME NEW p \in Admins, DeleteUser(p) PROVE FALSE
  BY <1>1, <1>7 DEF DeleteUser, Led, MembershipShapes
<1>8. ASSUME NEW p \in Admins, Accept(p) \/ Reject(p) \/ Revoke(p) \/ Resend(p) PROVE FALSE
  <2>1. owner' = owner /\ account' = account
    BY <1>8, AnswersCall
  <2>2. \/ role' = role
        \/ /\ role[inv[request[p].id].user] = "none"
           /\ role' = [role EXCEPT ![inv[request[p].id].user] = "member"]
    BY <1>8, AnswersWrite
  <2> QED BY <1>1, <2>1, <2>2 DEF Led, MembershipShapes
<1> QED BY <1>3, <1>4, <1>5, <1>6, <1>7, <1>8 DEF MembershipNext

(* The invitations: an acceptance is taken back by a call that read the    *)
(* row before, and nothing accepts what was withdrawn.                     *)
LEMMA InvitationsStep ==
    ASSUME MembershipShapes, RowsHold, ChecksStand, [MembershipNext]_membershipVars,
           NEW i \in Invites
    PROVE  /\ inv[i].status = "accepted" /\ inv'[i].status \notin {"accepted", "none"}
              => \E p \in Admins : request[p].id = i /\ request[p].overtaken
           /\ i \in withdrawn /\ inv[i].status # "accepted" => inv'[i].status # "accepted"
<1> DEFINE Goal == /\ inv[i].status = "accepted" /\ inv'[i].status \notin {"accepted", "none"}
                      => \E p \in Admins : request[p].id = i /\ request[p].overtaken
                   /\ i \in withdrawn /\ inv[i].status # "accepted" => inv'[i].status # "accepted"
<1>1. CASE inv'[i].status = inv[i].status
  BY <1>1
<1>2. CASE inv'[i].status = "none"
  BY <1>2
<1>3. ASSUME \/ Create \/ UNCHANGED membershipVars
             \/ \E s \in {"active", "suspended"} : SetOrganization(s)
             \/ \E u \in Users : Transfer(u) \/ Activate(u)
             \/ \E p \in Admins, op \in UserOps \cup InviteOps, u \in Users \cup {Nobody},
                   j \in Invites \cup {Nobody} : Ask(p, op, u, j)
             \/ \E p \in Admins : Add(p) \/ Remove(p) \/ Suspend(p)
      PROVE  Goal
  BY <1>1, <1>3
  DEF Create, SetOrganization, Transfer, Activate, Ask, Add, Remove, Suspend, membershipVars
<1>4. ASSUME \/ DeleteOrganization \/ \E j \in Invites : Lapse(j)
             \/ \E p \in Admins : DeleteUser(p)
      PROVE  Goal
  <2>1. inv'[i].status \in {"none", inv[i].status}
    BY <1>4 DEF DeleteOrganization, Lapse, DeleteUser, NoInvitation, MembershipShapes, Invitation
  <2> QED BY <1>1, <1>2, <2>1
<1>5. ASSUME MarkExpired PROVE Goal
  BY <1>5 DEF MarkExpired, MembershipShapes, Invitation
<1>6. ASSUME NEW p \in Admins, Invite(p) PROVE Goal
  <2>1. inv[i].user = Nobody => inv[i].status = "none" /\ i \notin withdrawn
    BY MembershipAssumption DEF MembershipAssumption, RowsHold
  <2>2. inv'[i] = inv[i] \/ inv[i].user = Nobody
    BY <1>6 DEF Invite, MembershipShapes
  <2> QED BY <1>1, <2>1, <2>2
<1>7. ASSUME NEW p \in Admins, Accept(p) \/ Reject(p) \/ Revoke(p) \/ Resend(p) PROVE Goal
  <2>1. CASE inv'[i] = inv[i]
    BY <1>1, <2>1
  <2>2. CASE inv'[i] # inv[i]
    <3>1. request[p].id = i
      BY <1>7, <2>2, AnswersWrite
    <3>2. \/ inv[i].status = "pending"
          \/ Revoke(p) /\ inv'[i].status = "revoked"
          \/ Resend(p) /\ inv'[i].status = "pending"
      BY <1>7, <2>2, <3>1, AnswersWrite
    <3>3. inv[i].status = "pending" => i \notin withdrawn
      BY DEF RowsHold
    <3>4. Revoke(p) \/ Resend(p) => inv[i].status # "accepted" \/ request[p].overtaken
      BY <3>1 DEF Revoke, Resend, ChecksStand
    <3> QED BY <3>1, <3>2, <3>3, <3>4
  <2> QED BY <2>1, <2>2
<1> QED BY <1>3, <1>4, <1>5, <1>6, <1>7 DEF MembershipNext

(* What a call that nobody overtook cannot do to the owner, to accepted    *)
(* invitations and to withdrawn ones.                                      *)
THEOREM MembersSafe == MembershipSpec => MembersKept
<1>1. MembershipShapes /\ RowsHold /\ ChecksStand /\ [MembershipNext]_membershipVars
      => [Led /\ org' = "active" /\ ~Led'
          => \E p \in Admins : request[p].overtaken]_membershipVars
  BY OwnerStep
<1>2. MembershipShapes /\ RowsHold /\ ChecksStand /\ [MembershipNext]_membershipVars
      => [\A i \in Invites :
            inv[i].status = "accepted" /\ inv'[i].status \notin {"accepted", "none"}
              => \E p \in Admins : request[p].id = i /\ request[p].overtaken]_membershipVars
  BY InvitationsStep
<1>3. MembershipShapes /\ RowsHold /\ ChecksStand /\ [MembershipNext]_membershipVars
      => [\A i \in withdrawn :
            inv[i].status # "accepted" => inv'[i].status # "accepted"]_membershipVars
  <2>1. MembershipShapes => withdrawn \subseteq Invites
    BY DEF MembershipShapes
  <2> QED BY <2>1, InvitationsStep
<1> QED
  BY <1>1, <1>2, <1>3, MembershipInvariant, PTL
  DEF MembershipSpec, MembersKept, OwnerKept, AcceptedStays, WithdrawnAdmitsNobody
-----------------------------------------------------------------------------
(* Health *)

HealthShapes ==
    /\ source \in Source /\ link \in Link /\ told \in {"none", "outage", "recovery"}
    /\ running \in BOOLEAN /\ falseSince \in BOOLEAN /\ raced \in BOOLEAN /\ crossed \in BOOLEAN
    /\ probe \in [Checkers -> Probe]

(* Checks that did not overlap: there is one at a time, and no other has   *)
(* passed since it read the time of the first failure.                     *)
ChecksHold ==
    /\ raced \/ \A c, d \in Checkers : Checking(c) /\ Checking(d) => c = d
    /\ \A c \in Checkers : probe[c].stale => raced
    /\ FailingSince /\ HandCheckShown

(* Between two reports the row and the last notice say the same; ...       *)
Settled ==
    /\ link.status = "down" <=> link.failures >= 3
    /\ link.failures >= 3 <=> told = "outage"

(* ... what is so while a report that no other overlaps goes on.           *)
Underway(c) ==
    \/ /\ probe[c].at = "read" /\ probe[c].of = "recovery"
       /\ probe[c].count = link.failures /\ Settled
    \/ /\ probe[c].at = "read" /\ probe[c].of = "outage"
       /\ link.status = "degraded" /\ link.failures >= 1
       /\ link.failures >= 4 <=> told = "outage"
    \/ /\ probe[c].at = "judge" /\ probe[c].of = "outage"
       /\ probe[c].count = link.failures /\ link.failures >= 3
       /\ link.failures >= 4 <=> told = "outage"
    \/ /\ probe[c].at = "tell" /\ probe[c].of = "recovery"
       /\ link.failures = 0 /\ link.status = "healthy"
    \/ /\ probe[c].at = "tell" /\ probe[c].of = "outage"
       /\ link.failures >= 3 /\ link.status = "down"

ReportsHold ==
    \/ crossed
    \/ /\ \A c, d \in Checkers : Reporting(c) /\ Reporting(d) => c = d
       /\ \A c \in Checkers : Reporting(c) => Underway(c)
       /\ (\E c \in Checkers : Reporting(c)) \/ Settled

-----------------------------------------------------------------------------
LEMMA NoProbeTyped == NoProbe \in Probe
BY HealthAssumption DEF HealthAssumption, Probe, NoProbe, Since

LEMMA HealthShapesInit == HealthInit => HealthShapes
<1> SUFFICES ASSUME HealthInit PROVE HealthShapes
  OBVIOUS
<1>1. probe \in [Checkers -> Probe]
  BY NoProbeTyped DEF HealthInit
<1>2. link \in Link
  BY HealthAssumption DEF HealthAssumption, HealthInit, Link
<1> QED BY <1>1, <1>2 DEF HealthInit, HealthShapes, Source, Since

(* A call that goes on. *)
LEMMA ProbeSet ==
    ASSUME HealthShapes, NEW c \in Checkers, NEW r \in Probe, probe' = [probe EXCEPT ![c] = r]
    PROVE  probe' \in [Checkers -> Probe]
BY DEF HealthShapes

LEMMA HealthRestInit == HealthInit => ChecksHold /\ ReportsHold
BY
DEF HealthInit, ChecksHold, ReportsHold, FailingSince, HandCheckShown, Checking, Reporting,
    Settled, NoProbe

LEMMA HealthShapesStep == HealthShapes /\ [HealthNext]_healthVars => HealthShapes'
<1> SUFFICES ASSUME HealthShapes, [HealthNext]_healthVars PROVE HealthShapes'
  OBVIOUS
<1>1. ASSUME NEW c \in Checkers, AskChecks(c) PROVE HealthShapes'
  <2>1. [NoProbe EXCEPT !.at = "start"] \in Probe
    BY NoProbeTyped DEF Probe, Since
  <2>2. probe' \in [Checkers -> Probe]
    BY <1>1, <2>1, ProbeSet DEF AskChecks
  <2> QED BY <1>1, <2>2 DEF AskChecks, HealthShapes, reports
<1>2. ASSUME NEW c \in Checkers, NEW hand \in BOOLEAN, CheckBy(c, hand),
             running' \in BOOLEAN
      PROVE  HealthShapes'
  <2>1. source.since \in Since
    BY DEF HealthShapes, Source
  <2>2. [NoProbe EXCEPT !.at = "check", !.hand = hand, !.since = source.since] \in Probe
    BY <2>1, NoProbeTyped DEF Probe, Since
  <2>3. probe' \in [Checkers -> Probe]
    BY <1>2, <2>2, ProbeSet DEF CheckBy
  <2> QED BY <1>2, <2>3 DEF CheckBy, HealthShapes, reports
<1>3. ASSUME NEW c \in Checkers, Checked(c) PROVE HealthShapes'
  <2>1. CASE source.status = "gone"
    BY <1>3, <2>1, NoProbeTyped, ProbeSet DEF Checked, Over, HealthShapes, reports
  <2>2. CASE source.status # "gone"
    <3>1. PICK passed \in BOOLEAN :
            /\ source' = Evaluated(passed, probe[c].since)
            /\ falseSince' = /\ source'.since # "none"
                             /\ \/ passed \/ probe[c].stale
                                \/ probe[c].since # "none" /\ falseSince
            /\ probe' = [d \in Checkers |->
                           IF d = c THEN NoProbe
                           ELSE IF passed /\ Checking(d) /\ probe[d].since # "none"
                           THEN [probe[d] EXCEPT !.stale = TRUE] ELSE probe[d]]
      BY <1>3, <2>2 DEF Checked
    <3>2. source' \in Source
      BY <3>1 DEF Evaluated, HealthShapes, Probe, Source, Since
    <3>3. ASSUME NEW d \in Checkers PROVE [probe[d] EXCEPT !.stale = TRUE] \in Probe
      BY DEF HealthShapes, Probe
    <3>4. probe' \in [Checkers -> Probe]
      BY <3>1, <3>3, NoProbeTyped DEF HealthShapes
    <3>5. falseSince' \in BOOLEAN
      BY <3>1
    <3> QED BY <1>3, <3>2, <3>4, <3>5 DEF Checked, HealthShapes, reports
  <2> QED BY <2>1, <2>2
<1>4. ASSUME NEW c \in Checkers, Success(c) PROVE HealthShapes'
  <2>1. link.failures \in 0 .. MaxFailures
    BY DEF HealthShapes, Link
  <2>2. [NoProbe EXCEPT !.at = "read", !.of = "recovery", !.count = link.failures] \in Probe
    BY <2>1, NoProbeTyped DEF Probe, Since
  <2>3. probe' \in [Checkers -> Probe]
    BY <1>4, <2>2, ProbeSet DEF Success
  <2> QED BY <1>4, <2>3 DEF Success, Report, HealthShapes, checks
<1>5. ASSUME NEW c \in Checkers, \/ probe' = [probe EXCEPT ![c].at = "tell"]
                                 \/ Over(c)
      PROVE  probe' \in [Checkers -> Probe]
  <2>1. [probe[c] EXCEPT !.at = "tell"] \in Probe
    BY DEF HealthShapes, Probe
  <2> QED BY <1>5, <2>1, NoProbeTyped, ProbeSet DEF Over, HealthShapes
<1>6. ASSUME NEW c \in Checkers, SuccessWrites(c) PROVE HealthShapes'
  <2>1. probe' \in [Checkers -> Probe]
    BY <1>5, <1>6 DEF SuccessWrites
  <2>2. link' \in Link
    BY <1>6, HealthAssumption DEF HealthAssumption, SuccessWrites, Link
  <2> QED BY <1>6, <2>1, <2>2 DEF SuccessWrites, HealthShapes, checks
<1>7. ASSUME NEW c \in Checkers, Failure(c) PROVE HealthShapes'
  <2>1. [NoProbe EXCEPT !.at = "read", !.of = "outage"] \in Probe
    BY NoProbeTyped DEF Probe, Since
  <2>2. probe' \in [Checkers -> Probe]
    BY <1>7, <2>1, ProbeSet DEF Failure
  <2>3. link' \in Link
    BY <1>7, HealthAssumption DEF HealthAssumption, Failure, HealthShapes, Link
  <2> QED BY <1>7, <2>2, <2>3 DEF Failure, Report, HealthShapes, checks
<1>8. ASSUME NEW c \in Checkers, FailureReads(c) PROVE HealthShapes'
  <2>1. link.failures \in 0 .. MaxFailures
    BY DEF HealthShapes, Link
  <2>2. ASSUME NEW at \in {"tell", "judge"}
        PROVE  [probe[c] EXCEPT !.at = at, !.count = link.failures] \in Probe
    BY <2>1 DEF HealthShapes, Probe
  <2>3. \/ probe' = [probe EXCEPT ![c] = NoProbe]
        \/ probe' = [probe EXCEPT ![c] = [probe[c] EXCEPT !.at = "tell", !.count = link.failures]]
        \/ probe' = [probe EXCEPT ![c] = [probe[c] EXCEPT !.at = "judge", !.count = link.failures]]
    BY <1>8 DEF FailureReads, HealthShapes
  <2>4. probe' \in [Checkers -> Probe]
    BY <2>2, <2>3, NoProbeTyped, ProbeSet
  <2> QED BY <1>8, <2>4 DEF FailureReads, HealthShapes, checks, reports
<1>9. ASSUME NEW c \in Checkers, FailureJudges(c) PROVE HealthShapes'
  <2>1. probe' \in [Checkers -> Probe]
    BY <1>5, <1>9 DEF FailureJudges
  <2>2. link' \in Link
    BY <1>9 DEF FailureJudges, HealthShapes, Link
  <2> QED BY <1>9, <2>1, <2>2 DEF FailureJudges, HealthShapes, checks
<1>10. ASSUME NEW c \in Checkers, Tell(c) PROVE HealthShapes'
  <2>1. probe' \in [Checkers -> Probe]
    BY <1>5, <1>10 DEF Tell
  <2>2. probe[c].of \in {"none", "outage", "recovery"}
    BY DEF HealthShapes, Probe
  <2> QED BY <1>10, <2>1, <2>2 DEF Tell, HealthShapes, checks
<1>11. CASE DeleteSource
  BY <1>11 DEF DeleteSource, HealthShapes, Source, Since, reports
<1>12. CASE DayPasses
  <2>1. ASSUME NEW s \in Since PROVE Aged(s) \in Since
    BY DEF Aged, Since
  <2>2. source' \in Source
    BY <1>12, <2>1 DEF DayPasses, HealthShapes, Source
  <2>3. ASSUME NEW c \in Checkers PROVE [probe[c] EXCEPT !.since = Aged(@)] \in Probe
    BY <2>1 DEF HealthShapes, Probe
  <2>4. probe' \in [Checkers -> Probe]
    BY <1>12, <2>3 DEF DayPasses
  <2> QED BY <1>12, <2>2, <2>4 DEF DayPasses, HealthShapes, reports
<1>13. CASE HealthCrash
  BY <1>13, NoProbeTyped DEF HealthCrash, HealthShapes
<1>14. CASE UNCHANGED healthVars
  BY <1>14 DEF healthVars, HealthShapes
<1>15. ASSUME NEW c \in Checkers, StartChecks(c) \/ Test(c) PROVE HealthShapes'
  BY <1>2, <1>15 DEF StartChecks, Test, HealthShapes
<1> QED
  BY <1>1, <1>3, <1>4, <1>6, <1>7, <1>8, <1>9, <1>10, <1>11, <1>12, <1>13, <1>14, <1>15
  DEF HealthNext

LEMMA ChecksStep == HealthShapes /\ ChecksHold /\ [HealthNext]_healthVars => ChecksHold'
<1> SUFFICES ASSUME HealthShapes, ChecksHold, [HealthNext]_healthVars PROVE ChecksHold'
  OBVIOUS
<1> USE
    DEF checks, reports, Over, NoProbe, Probe, Since, Source, Link, HealthShapes, ChecksHold,
        FailingSince, HandCheckShown, Checking, Evaluated
<1>1. ASSUME NEW c \in Checkers, AskChecks(c) PROVE ChecksHold'
  BY <1>1 DEF AskChecks
<1>2. ASSUME NEW c \in Checkers, StartChecks(c) PROVE ChecksHold'
  BY <1>2 DEF StartChecks, CheckBy
<1>3. ASSUME NEW c \in Checkers, Test(c) PROVE ChecksHold'
  BY <1>3 DEF Test, CheckBy
<1>4. ASSUME NEW c \in Checkers, Checked(c) PROVE ChecksHold'
  <2>1. CASE source.status = "gone"
    BY <1>4, <2>1 DEF Checked
  <2>2. CASE source.status # "gone"
    <3>1. PICK passed \in BOOLEAN :
            /\ source' = Evaluated(passed, probe[c].since)
            /\ falseSince' = /\ source'.since # "none"
                             /\ \/ passed \/ probe[c].stale
                                \/ probe[c].since # "none" /\ falseSince
            /\ probe' = [d \in Checkers |->
                           IF d = c THEN NoProbe
                           ELSE IF passed /\ Checking(d) /\ probe[d].since # "none"
                           THEN [probe[d] EXCEPT !.stale = TRUE] ELSE probe[d]]
      BY <1>4, <2>2 DEF Checked
    <3>2. Checking(c) /\ raced' = raced /\ running' = (running /\ ~probe[c].hand)
      BY <1>4 DEF Checked
    <3>3. ASSUME NEW d \in Checkers
          PROVE  /\ probe'[d].at = IF d = c THEN "idle" ELSE probe[d].at
                 /\ probe'[d].hand = IF d = c THEN FALSE ELSE probe[d].hand
      BY <3>1
    <3>4. ASSUME NEW d \in Checkers, probe'[d].stale PROVE raced
      BY <3>1, <3>2, <3>4
    <3>5. raced' \/ \A d, e \in Checkers : Checking(d)' /\ Checking(e)' => d = e
      BY <3>2, <3>3
    <3>6. FailingSince'
      BY <3>1, <3>2
    <3>7. HandCheckShown'
      BY <3>2, <3>3
    <3> QED BY <3>2, <3>4, <3>5, <3>6, <3>7
  <2> QED BY <2>1, <2>2
<1>5. ASSUME NEW c \in Checkers, Success(c) PROVE ChecksHold'
  BY <1>5 DEF Success, Report
<1>6. ASSUME NEW c \in Checkers, SuccessWrites(c) PROVE ChecksHold'
  BY <1>6 DEF SuccessWrites
<1>7. ASSUME NEW c \in Checkers, Failure(c) PROVE ChecksHold'
  BY <1>7 DEF Failure, Report
<1>8. ASSUME NEW c \in Checkers, FailureReads(c) PROVE ChecksHold'
  BY <1>8 DEF FailureReads
<1>9. ASSUME NEW c \in Checkers, FailureJudges(c) PROVE ChecksHold'
  BY <1>9 DEF FailureJudges
<1>10. ASSUME NEW c \in Checkers, Tell(c) PROVE ChecksHold'
  BY <1>10 DEF Tell
<1>11. CASE DeleteSource
  BY <1>11 DEF DeleteSource
<1>12. CASE DayPasses
  <2>1. \A c \in Checkers : /\ probe'[c].at = probe[c].at /\ probe'[c].hand = probe[c].hand
                            /\ probe'[c].stale = probe[c].stale
    BY <1>12 DEF DayPasses
  <2>2. running' = running /\ falseSince' = falseSince /\ raced' = raced
    BY <1>12 DEF DayPasses
  <2> QED BY <2>1, <2>2
<1>13. CASE HealthCrash
  BY <1>13 DEF HealthCrash
<1>14. CASE UNCHANGED healthVars
  BY <1>14 DEF healthVars
<1> QED BY <1>1, <1>2, <1>3, <1>4, <1>5, <1>6, <1>7, <1>8, <1>9, <1>10, <1>11, <1>12, <1>13,
    <1>14 DEF HealthNext

LEMMA ReportsStep == HealthShapes /\ ReportsHold /\ [HealthNext]_healthVars => ReportsHold'
<1> SUFFICES ASSUME HealthShapes, ReportsHold, [HealthNext]_healthVars PROVE ReportsHold'
  OBVIOUS
<1> USE
    DEF checks, reports, Over, NoProbe, Probe, Since, Source, Link, HealthShapes, ReportsHold,
        Reporting, Settled, Underway
<1>1. ASSUME NEW c \in Checkers, AskChecks(c) PROVE ReportsHold'
  BY <1>1 DEF AskChecks
<1>2. ASSUME NEW c \in Checkers, StartChecks(c) PROVE ReportsHold'
  BY <1>2 DEF StartChecks, CheckBy
<1>3. ASSUME NEW c \in Checkers, Test(c) PROVE ReportsHold'
  BY <1>3 DEF Test, CheckBy
<1>4. ASSUME NEW c \in Checkers, Checked(c) PROVE ReportsHold'
  <2>1. \A d \in Checkers : /\ Reporting(d)' <=> Reporting(d)
                            /\ Reporting(d) => probe'[d] = probe[d]
    <3>1. CASE source.status = "gone"
      BY <1>4, <3>1 DEF Checked, Checking
    <3>2. CASE source.status # "gone"
      <4>1. PICK passed \in BOOLEAN :
              probe' = [d \in Checkers |->
                         IF d = c THEN NoProbe
                         ELSE IF passed /\ Checking(d) /\ probe[d].since # "none"
                         THEN [probe[d] EXCEPT !.stale = TRUE] ELSE probe[d]]
        BY <1>4, <3>2 DEF Checked
      <4> QED BY <1>4, <4>1 DEF Checked, Checking
    <3> QED BY <3>1, <3>2
  <2> QED BY <1>4, <2>1 DEF Checked
<1>5. ASSUME NEW c \in Checkers, Success(c) PROVE ReportsHold'
  <2>1. CASE \E d \in Checkers : Reporting(d)
    BY <1>5, <2>1 DEF Success, Report
  <2>2. CASE ~\E d \in Checkers : Reporting(d)
    <3>1. \A d \in Checkers : Reporting(d)' => d = c
      BY <1>5, <2>2 DEF Success
    <3>2. ~crossed => Underway(c)'
      BY <1>5, <2>2 DEF Success, Report
    <3> QED BY <1>5, <2>2, <3>1, <3>2 DEF Success, Report
  <2> QED BY <2>1, <2>2
<1>6. ASSUME NEW c \in Checkers, SuccessWrites(c) PROVE ReportsHold'
  BY <1>6 DEF SuccessWrites
<1>7. ASSUME NEW c \in Checkers, Failure(c) PROVE ReportsHold'
  <2>1. CASE \E d \in Checkers : Reporting(d)
    BY <1>7, <2>1 DEF Failure, Report
  <2>2. CASE ~\E d \in Checkers : Reporting(d)
    <3>1. \A d \in Checkers : Reporting(d)' => d = c
      BY <1>7, <2>2 DEF Failure
    <3>2. ~crossed => Underway(c)'
      BY <1>7, <2>2 DEF Failure, Report
    <3>3. Reporting(c)'
      BY <1>7 DEF Failure
    <3> QED BY <1>7, <2>2, <3>1, <3>2, <3>3 DEF Failure, Report
  <2> QED BY <2>1, <2>2
<1>8. ASSUME NEW c \in Checkers, FailureReads(c) PROVE ReportsHold'
  BY <1>8 DEF FailureReads
<1>9. ASSUME NEW c \in Checkers, FailureJudges(c) PROVE ReportsHold'
  BY <1>9 DEF FailureJudges
<1>10. ASSUME NEW c \in Checkers, Tell(c) PROVE ReportsHold'
  BY <1>10 DEF Tell
<1>11. CASE DeleteSource
  BY <1>11 DEF DeleteSource
<1>12. CASE DayPasses
  BY <1>12 DEF DayPasses, Aged
<1>13. CASE HealthCrash
  BY <1>13 DEF HealthCrash
<1>14. CASE UNCHANGED healthVars
  BY <1>14 DEF healthVars
<1> QED BY <1>1, <1>2, <1>3, <1>4, <1>5, <1>6, <1>7, <1>8, <1>9, <1>10, <1>11, <1>12, <1>13,
    <1>14 DEF HealthNext

LEMMA HealthInvariant == HealthSpec => [](HealthShapes /\ ChecksHold /\ ReportsHold)
<1>1. HealthInit => HealthShapes /\ ChecksHold /\ ReportsHold
  BY HealthShapesInit, HealthRestInit
<1>2. HealthShapes /\ ChecksHold /\ ReportsHold /\ [HealthNext]_healthVars
      => (HealthShapes /\ ChecksHold /\ ReportsHold)'
  BY HealthShapesStep, ChecksStep, ReportsStep
<1> QED BY <1>1, <1>2, PTL DEF HealthSpec

(* The rows keep their types, and what has failed three times is called   *)
(* down once the reports on it are over and none overlapped.               *)
THEOREM HealthTyped == HealthSpec => []HealthTypeOK
<1>1. HealthShapes /\ ReportsHold => HealthTypeOK
  <2> SUFFICES ASSUME HealthShapes, ReportsHold PROVE HealthTypeOK
    OBVIOUS
  <2>1. {running, falseSince, raced, crossed} \subseteq BOOLEAN
    BY DEF HealthShapes
  <2> QED BY <2>1 DEF HealthShapes, ReportsHold, Settled, HealthTypeOK
<1> QED BY <1>1, HealthInvariant, PTL

(* What the dashboard and the managers are told is so, unless checks or    *)
(* reports overlapped or a notice was lost.                                *)
THEOREM HealthToldTrue == HealthSpec => []HealthTold
<1>1. ChecksHold /\ ReportsHold => HealthTold
  BY DEF ChecksHold, ReportsHold, Settled, HealthTold, OutageTold
<1> QED BY <1>1, HealthInvariant, PTL
-----------------------------------------------------------------------------
(* SourceReader *)

(* What is so of every reading by itself: it has a word of the browser     *)
(* before it goes on without, a preview never gets to wait for it, and     *)
(* what waits was asked for and is not asked for again.                    *)
SoundReading(r) ==
    /\ r.more \/ r.at \in {"page", "wait"} => r.browser # "untried"
    /\ r.kind # "feed" /\ r.result \in {"failed", "feed"} => r.browser # "untried"
    /\ r.preview => r.kind # "article" /\ r.inLine = {}
    /\ r.at = "bridge" => r.kind = "article"
    /\ IF r.at = "idle" THEN ~r.preview ELSE r.kind # "none"
    /\ r.at = "wait" => r.inLine = {"self"} /\ r.toRead = {}
    /\ r.at \in {"list", "page"} => "self" \notin r.inLine /\ r.toRead \cap r.inLine = {}
    /\ r.at \notin {"wait", "list", "page"} => r.inLine = {} /\ r.toRead = {}

ReadingsHold ==
    /\ policy \in Policy /\ chromium \in BOOLEAN /\ reading \in [Readers -> Reading]
    /\ \A c \in Readers : SoundReading(reading[c])

PreviewsCounted == IsFiniteSet(Previews) /\ depth = Cardinality(Previews)

QueueHolds ==
    /\ tail \in Seq(Readers \X Places)
    /\ \A i, j \in 1 .. Len(tail) : tail[i] = tail[j] => i = j
    /\ WaitsInLine /\ IsFiniteSet(Browsing)
    /\ queued = Len(tail) /\ queued <= MaxQueued

(* A reading that waits for no page.                                       *)
Resting(r) ==
    /\ r.kind # "none" /\ (r.preview => r.kind # "article")
    /\ r.inLine = {} /\ r.toRead = {} /\ (r.more => r.browser # "untried")

(* A reading goes on, and keeps its places in the queue, or takes one      *)
(* more, or leaves the first.                                              *)
Becomes(c, r) ==
    /\ r \in Reading /\ SoundReading(r) /\ r.preview = reading[c].preview /\ Set(c, r)
QueueStays(c, r)  == r.inLine = reading[c].inLine /\ UNCHANGED Queue
QueueJoined(c, p, r) ==
    /\ p \notin reading[c].inLine /\ r.inLine = reading[c].inLine \cup {p}
    /\ queued < MaxQueued /\ queued' = queued + 1 /\ tail' = Append(tail, <<c, p>>)
QueueLeft(c, p, r) ==
    /\ p \in reading[c].inLine /\ r.inLine = reading[c].inLine \ {p} /\ <<c, p>> = Head(tail)
    /\ queued' = queued - 1 /\ tail' = Tail(tail)
QueueMoves(c, r) ==
    QueueStays(c, r) \/ \E p \in Places : QueueJoined(c, p, r) \/ QueueLeft(c, p, r)
GoesOn(c) ==
    /\ \E r \in Reading : Becomes(c, r) /\ QueueMoves(c, r)
    /\ UNCHANGED <<policy, chromium, depth>>
-----------------------------------------------------------------------------
LEMMA NoReadingSound == NoReading \in Reading /\ SoundReading(NoReading)
BY DEF NoReading, Reading, SoundReading, Places, Pages

LEMMA SelfApart == "self" \in Places /\ "self" \notin Pages /\ Pages \subseteq Places
BY SourceAssumption DEF SourceAssumption, Places, Pages

LEMMA EndedSound ==
    ASSUME NEW r \in Reading, Resting(r), NEW result \in {"found", "feed", "failed"},
           result = "found" \/ r.kind = "feed" \/ r.browser # "untried"
    PROVE  /\ Ended(r, result) \in Reading /\ SoundReading(Ended(r, result))
           /\ Ended(r, result).preview = r.preview /\ Ended(r, result).inLine = {}
BY DEF Ended, Reading, SoundReading, Resting

(* What goes on without the browser. *)
LEMMA WithoutSound ==
    ASSUME NEW c, NEW r \in Reading, Resting(r), r.browser # "untried",
           r.preview = reading[c].preview, Without(c, r)
    PROVE  \E q \in Reading : Becomes(c, q) /\ q.inLine = {}
<1>1. CASE r.kind = "website" /\ Set(c, [r EXCEPT !.at = "page", !.toRead = {"home"}])
  <2> DEFINE q == [r EXCEPT !.at = "page", !.toRead = {"home"}]
  <2>1. q \in Reading /\ SoundReading(q) /\ q.preview = r.preview /\ q.inLine = {}
    BY <1>1 DEF Reading, SoundReading, Resting, Pages
  <2> QED BY <1>1, <2>1 DEF Becomes
<1>2. ASSUME NEW result \in {"failed", "feed"}, Set(c, Ended(r, result))
      PROVE  \E q \in Reading : Becomes(c, q) /\ q.inLine = {}
  BY <1>2, EndedSound DEF Becomes
<1> QED BY <1>1, <1>2 DEF Without

LEMMA BrowseSound ==
    ASSUME ReadingsHold, NEW c \in Readers, NEW more \in BOOLEAN, Browse(c, more),
           Resting(reading[c]), reading[c].at # "idle", ~reading[c].preview
    PROVE  \E r \in Reading : Becomes(c, r) /\ QueueMoves(c, r)
<1> DEFINE r == [reading[c] EXCEPT !.more = more]
           waiting == [r EXCEPT !.at = "wait", !.browser = "tried"]
           joined == [waiting EXCEPT !.inLine = @ \cup {"self"}]
           refused == [r EXCEPT !.browser = IF @ = "tried" THEN @ ELSE "refused"]
<1>1. reading[c] \in Reading /\ reading[c].inLine = {}
  BY DEF ReadingsHold, Resting
<1>2. CASE Free
  <2>1. /\ joined \in Reading /\ SoundReading(joined)
        /\ joined.preview = reading[c].preview /\ joined.inLine = reading[c].inLine \cup {"self"}
    BY <1>1, SelfApart DEF Reading, Resting, SoundReading
  <2>2. /\ queued < MaxQueued /\ queued' = queued + 1 /\ tail' = Append(tail, <<c, "self">>)
        /\ Set(c, joined)
    BY <1>2 DEF Browse, StandInLine, Free
  <2>3. QueueJoined(c, "self", joined)
    BY <1>1, <2>1, <2>2 DEF QueueJoined
  <2> QED BY <2>1, <2>2, <2>3, SelfApart DEF Becomes, QueueMoves
<1>3. CASE ~Free
  <2>1. /\ refused \in Reading /\ Resting(refused) /\ refused.browser # "untried"
        /\ refused.preview = reading[c].preview
    BY <1>1 DEF Reading, Resting
  <2>2. /\ UNCHANGED Queue
        /\ IF more THEN Without(c, refused) ELSE Set(c, Ended(refused, "failed"))
    BY <1>3 DEF Browse
  <2> HIDE DEF refused
  <2>3. CASE more
    BY <1>1, <2>1, <2>2, <2>3, WithoutSound DEF QueueStays, QueueMoves
  <2>4. CASE ~more
    BY <1>1, <2>1, <2>2, <2>4, EndedSound DEF QueueStays, QueueMoves, Becomes
  <2> QED BY <2>3, <2>4
<1> QED BY <1>2, <1>3

(* While it is on, a preview is among those counted. *)
LEMMA PreviewSeen ==
    ASSUME PreviewsCounted, NEW c \in Readers, reading[c].preview
    PROVE  depth \in Nat /\ depth > 0
<1>1. c \in Previews
  BY DEF Previews
<1> QED BY <1>1, FS_CardinalityType, FS_EmptySet DEF PreviewsCounted

LEMMA SparedRests ==
    ASSUME NEW c, reading[c] \in Reading, Resting(reading[c])
    PROVE  /\ Spared(c) \in Reading /\ Resting(Spared(c)) /\ Spared(c).browser # "untried"
           /\ Spared(c).preview = reading[c].preview
BY DEF Spared, Reading, Resting

(* From one step to the next, with nothing in the queue. *)
LEMMA NextSound ==
    ASSUME NEW c, reading[c] \in Reading, Resting(reading[c]), SoundReading(reading[c]),
           UNCHANGED Queue, NEW at \in {"extract", "bridge"},
           Set(c, [reading[c] EXCEPT !.at = at]), at = "extract" \/ reading[c].kind = "article"
    PROVE  \E r \in Reading : Becomes(c, r) /\ QueueMoves(c, r)
<1> DEFINE r == [reading[c] EXCEPT !.at = at]
<1>1. /\ r \in Reading /\ SoundReading(r) /\ r.preview = reading[c].preview
      /\ r.inLine = reading[c].inLine
  BY DEF Reading, SoundReading, Resting
<1> QED BY <1>1 DEF Becomes, QueueStays, QueueMoves

LEMMA FetchGoesOn ==
    ASSUME ReadingsHold, PreviewsCounted, NEW c \in Readers, Fetch(c) PROVE GoesOn(c)
<1>1. /\ reading[c] \in Reading /\ SoundReading(reading[c]) /\ reading[c].at = "fetch"
      /\ Resting(reading[c]) /\ reading[c].inLine = {} /\ UNCHANGED <<policy, chromium, depth>>
  BY DEF Fetch, Shared, ReadingsHold, SoundReading, Resting
<1>2. PICK social \in BOOLEAN, direct \in Direct, bridge \in Bridge :
          LET r == FetchText(social, policy, direct, bridge) IN
          /\ reading[c].kind = "website" => ~social
          /\ \/ r.got /\ Set(c, [reading[c] EXCEPT !.at = "extract"]) /\ UNCHANGED Queue
             \/ /\ ~r.got /\ reading[c].kind = "feed"
                /\ Set(c, Ended(reading[c], "failed")) /\ UNCHANGED Queue
             \/ /\ ~r.got /\ reading[c].kind = "website"
                /\ IF depth > 0 THEN Set(c, Ended(Spared(c), "failed")) /\ UNCHANGED Queue
                   ELSE Browse(c, FALSE)
             \/ /\ ~r.got /\ reading[c].kind = "article"
                /\ \E unreached \in CouldNotReach(r.error) :
                      IF unreached
                      THEN Set(c, [reading[c] EXCEPT !.at = "bridge"]) /\ UNCHANGED Queue
                      ELSE Browse(c, TRUE)
  BY DEF Fetch
<1>3. CASE Set(c, [reading[c] EXCEPT !.at = "extract"]) /\ UNCHANGED Queue
  BY <1>1, <1>3, NextSound DEF GoesOn
<1>4. CASE /\ reading[c].kind = "feed"
           /\ Set(c, Ended(reading[c], "failed")) /\ UNCHANGED Queue
  BY <1>1, <1>4, EndedSound DEF GoesOn, Becomes, QueueStays, QueueMoves
<1>5. CASE depth > 0 /\ Set(c, Ended(Spared(c), "failed")) /\ UNCHANGED Queue
  BY <1>1, <1>5, SparedRests, EndedSound DEF GoesOn, Becomes, QueueStays, QueueMoves
<1>6. CASE ~(depth > 0) /\ Browse(c, FALSE)
  BY <1>1, <1>6, BrowseSound, PreviewSeen DEF GoesOn
<1>7. CASE /\ reading[c].kind = "article"
           /\ Set(c, [reading[c] EXCEPT !.at = "bridge"]) /\ UNCHANGED Queue
  BY <1>1, <1>7, NextSound DEF GoesOn
<1>8. CASE reading[c].kind = "article" /\ Browse(c, TRUE)
  BY <1>1, <1>8, BrowseSound DEF GoesOn, Resting
<1> QED BY <1>2, <1>3, <1>4, <1>5, <1>6, <1>7, <1>8

LEMMA FeedGoesOn ==
    ASSUME ReadingsHold, NEW c \in Readers, FeedFirst(c) PROVE GoesOn(c)
<1>1. /\ reading[c] \in Reading /\ Resting(reading[c]) /\ reading[c].inLine = {}
      /\ Set(c, Ended(reading[c], "found")) /\ UNCHANGED <<policy, chromium, depth, Queue>>
  BY DEF FeedFirst, Shared, ReadingsHold, SoundReading, Resting
<1> QED BY <1>1, EndedSound DEF GoesOn, Becomes, QueueStays, QueueMoves

LEMMA BridgeGoesOn ==
    ASSUME ReadingsHold, NEW c \in Readers, FetchByBridge(c) PROVE GoesOn(c)
<1>1. /\ reading[c] \in Reading /\ SoundReading(reading[c]) /\ reading[c].at = "bridge"
      /\ Resting(reading[c]) /\ reading[c].inLine = {} /\ ~reading[c].preview
      /\ UNCHANGED <<policy, chromium, depth>>
  BY DEF FetchByBridge, Shared, ReadingsHold, SoundReading, Resting, Reading
<1>2. CASE Set(c, [reading[c] EXCEPT !.at = "extract"]) /\ UNCHANGED Queue
  BY <1>1, <1>2, NextSound DEF GoesOn
<1>3. CASE Browse(c, TRUE)
  BY <1>1, <1>3, BrowseSound DEF GoesOn
<1> QED BY <1>2, <1>3 DEF FetchByBridge

LEMMA ExtractGoesOn ==
    ASSUME ReadingsHold, NEW c \in Readers, Extract(c) PROVE GoesOn(c)
<1>1. /\ reading[c] \in Reading /\ SoundReading(reading[c]) /\ reading[c].at = "extract"
      /\ Resting(reading[c]) /\ reading[c].inLine = {} /\ UNCHANGED <<policy, chromium, depth>>
  <2>1. reading[c].at = "extract" /\ UNCHANGED <<policy, chromium, depth>>
    BY DEF Extract, Shared
  <2> QED BY <2>1 DEF ReadingsHold, SoundReading, Resting
<1>2. CASE Set(c, Ended(reading[c], "found")) /\ UNCHANGED Queue
  BY <1>1, <1>2, EndedSound DEF GoesOn, Becomes, QueueStays, QueueMoves
<1>3. CASE /\ reading[c].kind = "feed"
           /\ Set(c, Ended(reading[c], "failed")) /\ UNCHANGED Queue
  BY <1>1, <1>3, EndedSound DEF GoesOn, Becomes, QueueStays, QueueMoves
<1>4. ASSUME NEW S \in SUBSET Stories, UNCHANGED Queue,
             Set(c, [reading[c] EXCEPT !.at = "list", !.toRead = S, !.gave = FALSE])
      PROVE  GoesOn(c)
  <2> DEFINE q == [reading[c] EXCEPT !.at = "list", !.toRead = S, !.gave = FALSE]
  <2>1. /\ q \in Reading /\ SoundReading(q) /\ q.preview = reading[c].preview
        /\ q.inLine = reading[c].inLine
    BY <1>1, <1>4 DEF Reading, SoundReading, Resting, Pages
  <2> QED BY <1>1, <1>4, <2>1 DEF GoesOn, Becomes, QueueStays, QueueMoves
<1>5. CASE reading[c].more /\ Without(c, reading[c]) /\ UNCHANGED Queue
  BY <1>1, <1>5, WithoutSound DEF Resting, GoesOn, QueueStays, QueueMoves
<1>6. CASE reading[c].kind = "article" /\ Browse(c, TRUE)
  BY <1>1, <1>6, BrowseSound DEF GoesOn, Resting
<1>7. CASE \E S \in SUBSET Stories :
               Set(c, [reading[c] EXCEPT !.at = "list", !.toRead = S, !.gave = FALSE])
               /\ UNCHANGED Queue
  BY <1>4, <1>7
<1>8. \/ Set(c, Ended(reading[c], "found")) /\ UNCHANGED Queue
      \/ /\ reading[c].kind = "feed"
         /\ Set(c, Ended(reading[c], "failed")) /\ UNCHANGED Queue
      \/ \E S \in SUBSET Stories :
            Set(c, [reading[c] EXCEPT !.at = "list", !.toRead = S, !.gave = FALSE])
            /\ UNCHANGED Queue
      \/ reading[c].more /\ Without(c, reading[c]) /\ UNCHANGED Queue
      \/ reading[c].kind = "article" /\ Browse(c, TRUE)
  BY Zenon DEF Extract
<1> QED BY <1>2, <1>3, <1>5, <1>6, <1>7, <1>8

LEMMA ListedGoesOn ==
    ASSUME ReadingsHold, PreviewsCounted, NEW c \in Readers, Listed(c) PROVE GoesOn(c)
<1>1. /\ reading[c] \in Reading /\ reading[c].at = "list" /\ Resting(reading[c])
      /\ reading[c].inLine = {} /\ UNCHANGED <<policy, chromium, depth>>
  BY DEF Listed, Shared, ReadingsHold, SoundReading, Resting
<1>2. CASE Set(c, Ended(reading[c], "found")) /\ UNCHANGED Queue
  BY <1>1, <1>2, EndedSound DEF GoesOn, Becomes, QueueStays, QueueMoves
<1>3. CASE reading[c].more /\ Without(c, reading[c]) /\ UNCHANGED Queue
  BY <1>1, <1>3, WithoutSound DEF Resting, GoesOn, QueueStays, QueueMoves
<1>4. CASE depth > 0 /\ Without(c, Spared(c)) /\ UNCHANGED Queue
  BY <1>1, <1>4, SparedRests, WithoutSound DEF GoesOn, QueueStays, QueueMoves
<1>5. CASE ~(depth > 0) /\ Browse(c, TRUE)
  BY <1>1, <1>5, BrowseSound, PreviewSeen DEF GoesOn
<1> QED BY <1>2, <1>3, <1>4, <1>5 DEF Listed

LEMMA AsStoryGoesOn ==
    ASSUME ReadingsHold, NEW c \in Readers, AsStory(c) PROVE GoesOn(c)
<1>1. /\ reading[c] \in Reading /\ reading[c].at = "page" /\ Resting(reading[c])
      /\ reading[c].inLine = {} /\ reading[c].browser # "untried"
      /\ UNCHANGED <<policy, chromium, depth, Queue>>
      /\ Set(c, Ended(reading[c], IF reading[c].gave THEN "found" ELSE "failed"))
  BY DEF AsStory, Shared, ReadingsHold, SoundReading, Resting
<1> QED BY <1>1, EndedSound DEF GoesOn, Becomes, QueueStays, QueueMoves

LEMMA RenderGoesOn ==
    ASSUME ReadingsHold, NEW c \in Readers, RenderEnds(c) PROVE GoesOn(c)
<1> DEFINE r == [reading[c] EXCEPT !.inLine = {}]
<1>1. /\ reading[c] \in Reading /\ SoundReading(reading[c]) /\ reading[c].at = "wait"
      /\ reading[c].inLine = {"self"} /\ UNCHANGED <<policy, chromium, depth>>
      /\ <<c, "self">> = Head(tail) /\ queued' = queued - 1 /\ tail' = Tail(tail)
      /\ reading[c].browser # "untried"
  BY DEF RenderEnds, Shared, Turn, LeaveLine, ReadingsHold, SoundReading
<1>2. r \in Reading /\ Resting(r) /\ r.browser # "untried" /\ r.preview = reading[c].preview
  BY <1>1 DEF Reading, Resting, SoundReading
<1>3. ASSUME NEW q \in Reading, Becomes(c, q), q.inLine = {} PROVE GoesOn(c)
  BY <1>1, <1>3, SelfApart DEF GoesOn, QueueLeft, QueueMoves
<1>4. CASE Set(c, [r EXCEPT !.at = "extract"])
  <2> DEFINE q == [r EXCEPT !.at = "extract"]
  <2>1. q \in Reading /\ SoundReading(q) /\ q.preview = reading[c].preview /\ q.inLine = {}
    BY <1>1 DEF Reading, SoundReading
  <2> QED BY <1>3, <1>4, <2>1 DEF Becomes
<1>5. CASE Without(c, r)
  <2> HIDE DEF r
  <2>1. \E q \in Reading : Becomes(c, q) /\ q.inLine = {}
    BY <1>2, <1>5, WithoutSound
  <2> QED BY <1>3, <2>1
<1>6. CASE Set(c, Ended(r, "failed"))
  <2> HIDE DEF r
  <2> QED BY <1>2, <1>3, <1>6, EndedSound DEF Becomes
<1> QED BY <1>4, <1>5, <1>6 DEF RenderEnds

LEMMA PageGoesOn ==
    ASSUME ReadingsHold, PreviewsCounted, NEW c \in Readers, NEW p \in Pages, Page(c, p)
    PROVE  GoesOn(c)
<1> DEFINE r == [reading[c] EXCEPT !.toRead = @ \ {p}]
           given == [r EXCEPT !.gave = TRUE]
           joined == [r EXCEPT !.inLine = @ \cup {p}]
<1>1. /\ reading[c] \in Reading /\ SoundReading(reading[c]) /\ p \in reading[c].toRead
      /\ reading[c].at \in {"list", "page"} /\ UNCHANGED <<policy, chromium, depth>>
      /\ p \in Places /\ p # "self" /\ p \notin reading[c].inLine
  BY SelfApart DEF Page, Shared, ReadingsHold, SoundReading
<1>2. /\ r \in Reading /\ SoundReading(r) /\ r.preview = reading[c].preview
      /\ r.inLine = reading[c].inLine
  BY <1>1 DEF Reading, SoundReading
<1>3. CASE Set(c, given) /\ UNCHANGED Queue
  <2>1. /\ given \in Reading /\ SoundReading(given) /\ given.preview = reading[c].preview
        /\ given.inLine = reading[c].inLine
    BY <1>1 DEF Reading, SoundReading
  <2> QED BY <1>1, <1>3, <2>1 DEF GoesOn, Becomes, QueueStays, QueueMoves
<1>4. CASE Set(c, r) /\ UNCHANGED Queue
  BY <1>1, <1>2, <1>4 DEF GoesOn, Becomes, QueueStays, QueueMoves
<1>5. CASE depth = 0 /\ Free /\ StandInLine(c, p, r)
  <2>1. ~reading[c].preview
    BY <1>5, PreviewSeen
  <2>2. /\ joined \in Reading /\ SoundReading(joined) /\ joined.preview = reading[c].preview
        /\ joined.inLine = reading[c].inLine \cup {p}
    BY <1>1, <2>1 DEF Reading, SoundReading
  <2>3. Set(c, joined) /\ QueueJoined(c, p, joined)
    BY <1>1, <1>5, <2>2 DEF StandInLine, Free, QueueJoined
  <2> QED BY <1>1, <2>2, <2>3 DEF GoesOn, Becomes, QueueMoves
<1> QED BY <1>3, <1>4, <1>5 DEF Page

LEMMA PageRenderedGoesOn ==
    ASSUME ReadingsHold, NEW c \in Readers, NEW p \in Pages, PageRendered(c, p) PROVE GoesOn(c)
<1>1. /\ reading[c] \in Reading /\ SoundReading(reading[c]) /\ p \in reading[c].inLine \ {"self"}
      /\ UNCHANGED <<policy, chromium, depth>> /\ p \in Places
      /\ <<c, p>> = Head(tail) /\ queued' = queued - 1 /\ tail' = Tail(tail)
  BY SelfApart DEF PageRendered, Shared, Turn, LeaveLine, ReadingsHold
<1>2. PICK found \in BOOLEAN :
          Set(c, [reading[c] EXCEPT !.inLine = @ \ {p}, !.gave = @ \/ found])
  BY Zenon DEF PageRendered
<1> DEFINE q == [reading[c] EXCEPT !.inLine = @ \ {p}, !.gave = @ \/ found]
<1>3. /\ q \in Reading /\ SoundReading(q) /\ q.preview = reading[c].preview
      /\ q.inLine = reading[c].inLine \ {p}
  BY <1>1 DEF Reading, SoundReading
<1>4. QueueLeft(c, p, q)
  BY <1>1, <1>3 DEF QueueLeft
<1> QED BY <1>1, <1>2, <1>3, <1>4 DEF GoesOn, Becomes, QueueMoves
-----------------------------------------------------------------------------
(* What keeps the counters. *)

LEMMA BecomesKeeps ==
    ASSUME ReadingsHold, NEW c \in Readers, NEW r, Becomes(c, r), UNCHANGED <<policy, chromium>>
    PROVE  ReadingsHold' /\ Previews' = Previews
<1>1. /\ reading' = [reading EXCEPT ![c] = r] /\ r \in Reading /\ SoundReading(r)
      /\ r.preview = reading[c].preview
  BY DEF Becomes, Set
<1>2. \A d \in Readers : reading'[d] = IF d = c THEN r ELSE reading[d]
  BY <1>1 DEF ReadingsHold
<1>3. ReadingsHold'
  BY <1>1, <1>2 DEF ReadingsHold
<1>4. Previews' = Previews
  BY <1>1, <1>2 DEF Previews
<1> QED BY <1>3, <1>4

(* Who waits after a reading has become r. *)
LEMMA BrowsingBecomes ==
    ASSUME ReadingsHold, NEW c \in Readers, NEW r, Set(c, r)
    PROVE  \A x \in Readers \X Places :
               x \in Browsing' <=> IF x[1] = c THEN x[2] \in r.inLine ELSE x \in Browsing
<1>1. \A d \in Readers : reading'[d] = IF d = c THEN r ELSE reading[d]
  BY DEF ReadingsHold, Set
<1> QED BY <1>1 DEF Browsing

LEMMA QueueKept ==
    ASSUME ReadingsHold, QueueHolds, NEW c \in Readers, NEW r, Set(c, r), QueueStays(c, r)
    PROVE  QueueHolds'
<1>1. Browsing' = Browsing
  BY BrowsingBecomes DEF Browsing, QueueStays
<1> QED BY <1>1 DEF QueueHolds, WaitsInLine, QueueStays, Queue

LEMMA QueueGrows ==
    ASSUME ReadingsHold, QueueHolds, NEW c \in Readers, NEW p \in Places, NEW r, Set(c, r),
           QueueJoined(c, p, r)
    PROVE  QueueHolds'
<1> DEFINE x == <<c, p>>
<1>1. x \in Readers \X Places /\ x[1] = c /\ x[2] = p
  OBVIOUS
<1>2. x \notin Browsing /\ Browsing' = Browsing \cup {x}
  <2>1. x \notin Browsing
    BY <1>1 DEF Browsing, QueueJoined
  <2>2. ASSUME NEW y \in Readers \X Places
        PROVE  y \in Browsing' <=> y \in Browsing \cup {x}
    <3>1. CASE y[1] = c
      BY <1>1, <2>2, <3>1, BrowsingBecomes DEF Browsing, QueueJoined
    <3>2. CASE y[1] # c
      BY <1>1, <2>2, <3>2, BrowsingBecomes
    <3> QED BY <3>1, <3>2
  <2>3. Browsing \subseteq Readers \X Places /\ Browsing' \subseteq Readers \X Places
    BY DEF Browsing
  <2> QED BY <1>1, <2>1, <2>2, <2>3
<1>3. /\ tail' = Append(tail, x) /\ tail \in Seq(Readers \X Places)
      /\ queued' = queued + 1 /\ queued < MaxQueued
  BY DEF QueueHolds, QueueJoined
<1> HIDE DEF x
<1>4. /\ tail' \in Seq(Readers \X Places)
      /\ Len(tail') = Len(tail) + 1 /\ Len(tail) \in Nat
      /\ \A i \in 1 .. Len(tail') : tail'[i] = IF i = Len(tail) + 1 THEN x ELSE tail[i]
  BY <1>1, <1>3
<1>5. \A i \in 1 .. Len(tail) : tail[i] \in Browsing
  BY DEF QueueHolds, WaitsInLine
<1>6. \A i, j \in 1 .. Len(tail') : tail'[i] = tail'[j] => i = j
  BY <1>2, <1>4, <1>5 DEF QueueHolds
<1>7. {tail'[i] : i \in 1 .. Len(tail')} = Browsing'
  <2>1. ASSUME NEW i \in 1 .. Len(tail') PROVE tail'[i] \in Browsing'
    BY <1>2, <1>4, <1>5
  <2>2. ASSUME NEW d \in Browsing' PROVE \E i \in 1 .. Len(tail') : d = tail'[i]
    <3>1. CASE d = x
      BY <1>4, <3>1
    <3>2. CASE d \in Browsing
      <4>1. PICK i \in 1 .. Len(tail) : d = tail[i]
        BY <3>2 DEF QueueHolds, WaitsInLine
      <4>2. i \in 1 .. Len(tail') /\ tail'[i] = tail[i]
        BY <1>4, <4>1
      <4> QED BY <4>1, <4>2
    <3> QED BY <1>2, <2>2, <3>1, <3>2
  <2> QED BY <2>1, <2>2
<1>8. IsFiniteSet(Browsing') /\ Cardinality(Browsing') = Len(tail')
  <2>1. IsFiniteSet(Browsing) /\ Cardinality(Browsing) = Len(tail)
    BY DEF QueueHolds, WaitsInLine
  <2>2. IsFiniteSet(Browsing \cup {x}) /\ Cardinality(Browsing \cup {x}) = Cardinality(Browsing) + 1
    BY <1>2, <2>1, FS_AddElement
  <2> QED BY <1>2, <1>4, <2>1, <2>2
<1>9. queued' = Len(tail') /\ queued' <= MaxQueued
  BY <1>3, <1>4, SourceAssumption DEF SourceAssumption, QueueHolds
<1> QED BY <1>4, <1>6, <1>7, <1>8, <1>9 DEF QueueHolds, WaitsInLine

LEMMA QueueShrinks ==
    ASSUME ReadingsHold, QueueHolds, NEW c \in Readers, NEW p \in Places, NEW r, Set(c, r),
           QueueLeft(c, p, r)
    PROVE  QueueHolds'
<1> DEFINE x == <<c, p>>
<1>1. x \in Readers \X Places /\ x[1] = c /\ x[2] = p
  OBVIOUS
<1>2. x \in Browsing /\ Browsing' = Browsing \ {x}
  <2>1. x \in Browsing
    BY <1>1 DEF Browsing, QueueLeft
  <2>2. ASSUME NEW y \in Readers \X Places
        PROVE  y \in Browsing' <=> y \in Browsing \ {x}
    <3>1. CASE y[1] = c
      BY <1>1, <2>2, <3>1, BrowsingBecomes DEF Browsing, QueueLeft
    <3>2. CASE y[1] # c
      BY <1>1, <2>2, <3>2, BrowsingBecomes
    <3> QED BY <3>1, <3>2
  <2>3. Browsing \subseteq Readers \X Places /\ Browsing' \subseteq Readers \X Places
    BY DEF Browsing
  <2> QED BY <1>1, <2>1, <2>2, <2>3
<1>3. /\ x = Head(tail) /\ queued' = queued - 1 /\ tail' = Tail(tail)
      /\ tail \in Seq(Readers \X Places) /\ Len(tail) = Cardinality(Browsing)
      /\ {tail[i] : i \in 1 .. Len(tail)} = Browsing
  BY DEF QueueHolds, QueueLeft, WaitsInLine
<1> HIDE DEF x
<1>4. Len(tail) \in Nat /\ tail # << >> /\ Len(tail) > 0 /\ tail[1] = x
  BY <1>2, <1>3
<1>5. /\ tail' \in Seq(Readers \X Places) /\ Len(tail') = Len(tail) - 1
      /\ \A i \in 1 .. Len(tail') : tail'[i] = tail[i + 1]
  BY <1>3, <1>4
<1>6. \A i, j \in 1 .. Len(tail') : tail'[i] = tail'[j] => i = j
  <2> SUFFICES ASSUME NEW i \in 1 .. Len(tail'), NEW j \in 1 .. Len(tail'), tail'[i] = tail'[j]
               PROVE  i = j
    OBVIOUS
  <2>1. i + 1 \in 1 .. Len(tail) /\ j + 1 \in 1 .. Len(tail) /\ tail[i + 1] = tail[j + 1]
    BY <1>4, <1>5
  <2>2. i + 1 = j + 1
    BY <2>1 DEF QueueHolds
  <2> QED BY <2>2, <1>4, <1>5
<1>7. {tail'[i] : i \in 1 .. Len(tail')} = Browsing'
  <2>1. ASSUME NEW i \in 1 .. Len(tail') PROVE tail'[i] \in Browsing'
    <3>1. i + 1 \in 1 .. Len(tail) /\ 1 \in 1 .. Len(tail) /\ i + 1 # 1
      BY <1>4, <1>5
    <3>2. tail[i + 1] \in Browsing /\ tail[i + 1] # x
      BY <1>4, <3>1 DEF QueueHolds, WaitsInLine
    <3> QED BY <1>2, <1>5, <3>2
  <2>2. ASSUME NEW d \in Browsing' PROVE \E i \in 1 .. Len(tail') : d = tail'[i]
    <3>1. PICK i \in 1 .. Len(tail) : d = tail[i]
      BY <1>2, <2>2 DEF QueueHolds, WaitsInLine
    <3>2. i # 1
      BY <1>2, <1>4, <2>2, <3>1
    <3>3. i - 1 \in 1 .. Len(tail') /\ i = (i - 1) + 1
      BY <1>4, <1>5, <3>2
    <3>4. tail'[i - 1] = tail[i]
      BY <1>5, <3>3
    <3> QED BY <3>1, <3>3, <3>4
  <2> QED BY <2>1, <2>2
<1>8. IsFiniteSet(Browsing') /\ Cardinality(Browsing') = Len(tail')
  <2>1. IsFiniteSet(Browsing) /\ Cardinality(Browsing) = Len(tail)
    BY DEF QueueHolds, WaitsInLine
  <2>2. IsFiniteSet(Browsing \ {x}) /\ Cardinality(Browsing \ {x}) = Cardinality(Browsing) - 1
    BY <1>2, <2>1, FS_RemoveElement
  <2> QED BY <1>2, <1>4, <1>5, <2>1, <2>2
<1>9. queued' = Len(tail') /\ queued' <= MaxQueued
  BY <1>3, <1>4, <1>5, SourceAssumption DEF SourceAssumption, QueueHolds
<1> QED BY <1>5, <1>6, <1>7, <1>8, <1>9 DEF QueueHolds, WaitsInLine

LEMMA GoesOnKeeps ==
    ASSUME ReadingsHold, PreviewsCounted, QueueHolds, NEW c \in Readers, GoesOn(c)
    PROVE  (ReadingsHold /\ PreviewsCounted /\ QueueHolds)'
<1>1. PICK r \in Reading : Becomes(c, r) /\ QueueMoves(c, r)
  BY DEF GoesOn
<1>2. UNCHANGED <<policy, chromium, depth>> /\ Set(c, r)
  BY <1>1 DEF GoesOn, Becomes
<1>3. ReadingsHold' /\ Previews' = Previews
  BY <1>1, <1>2, BecomesKeeps
<1>4. QueueHolds'
  BY <1>1, <1>2, QueueKept, QueueGrows, QueueShrinks DEF QueueMoves
<1> QED BY <1>2, <1>3, <1>4 DEF PreviewsCounted
-----------------------------------------------------------------------------
(* Beginning and end. *)

LEMMA StartKeeps ==
    ASSUME ReadingsHold, PreviewsCounted, QueueHolds, NEW c \in Readers,
           NEW kind \in Kinds, NEW preview \in BOOLEAN, Start(c, kind, preview)
    PROVE  (ReadingsHold /\ PreviewsCounted /\ QueueHolds)'
<1> DEFINE r == [NoReading EXCEPT !.kind = kind, !.preview = preview, !.at = "fetch"]
<1>1. /\ reading[c].at = "idle" /\ Set(c, r) /\ UNCHANGED <<policy, chromium, queued, tail>>
      /\ depth' = IF preview THEN depth + 1 ELSE depth
  BY DEF Start, Queue
<1>2. /\ r \in Reading /\ SoundReading(r) /\ r.preview = preview
      /\ r.inLine = {} /\ reading[c].inLine = {}
  BY <1>1, NoReadingSound DEF Start, NoReading, Reading, ReadingsHold, SoundReading, Kinds
<1>3. \A d \in Readers : reading'[d] = IF d = c THEN r ELSE reading[d]
  BY <1>1 DEF ReadingsHold, Set
<1>4. ReadingsHold'
  BY <1>1, <1>2, <1>3 DEF ReadingsHold, Set
<1>5. QueueHolds'
  BY <1>1, <1>2, QueueKept DEF QueueStays, Queue
<1>6. CASE preview
  <2>0. ~reading[c].preview
    BY <1>1 DEF ReadingsHold, SoundReading
  <2>1. c \notin Previews /\ Previews' = Previews \cup {c}
    BY <1>2, <1>3, <1>6, <2>0 DEF Previews
  <2> QED BY <1>1, <1>4, <1>5, <1>6, <2>1, FS_AddElement DEF PreviewsCounted
<1>7. CASE ~preview
  <2>0. ~reading[c].preview
    BY <1>1 DEF ReadingsHold, SoundReading
  <2>1. Previews' = Previews
    BY <1>2, <1>3, <1>7, <2>0 DEF Previews
  <2> QED BY <1>1, <1>4, <1>5, <1>7, <2>1 DEF PreviewsCounted
<1> QED BY <1>6, <1>7

LEMMA FinishKeeps ==
    ASSUME ReadingsHold, PreviewsCounted, QueueHolds, NEW c \in Readers, Finish(c)
    PROVE  (ReadingsHold /\ PreviewsCounted /\ QueueHolds)'
<1>1. /\ reading[c].at = "done" /\ Set(c, NoReading) /\ UNCHANGED <<policy, chromium, queued, tail>>
      /\ depth' = IF reading[c].preview /\ depth > 0 THEN depth - 1 ELSE depth
  BY DEF Finish, Queue
<1>2. NoReading.inLine = {} /\ reading[c].inLine = {} /\ ~NoReading.preview
  BY <1>1 DEF NoReading, ReadingsHold, SoundReading
<1>3. \A d \in Readers : reading'[d] = IF d = c THEN NoReading ELSE reading[d]
  BY <1>1 DEF ReadingsHold, Set
<1>4. ReadingsHold'
  BY <1>1, <1>3, NoReadingSound DEF ReadingsHold, Set
<1>5. QueueHolds'
  BY <1>1, <1>2, QueueKept DEF QueueStays, Queue
<1>6. CASE reading[c].preview
  <2>1. c \in Previews /\ Previews' = Previews \ {c}
    BY <1>2, <1>3, <1>6 DEF Previews
  <2>2. depth' = depth - 1
    BY <1>1, <1>6, PreviewSeen
  <2> QED BY <1>4, <1>5, <2>1, <2>2, FS_RemoveElement DEF PreviewsCounted
<1>7. CASE ~reading[c].preview
  <2>1. Previews' = Previews
    BY <1>2, <1>3, <1>7 DEF Previews
  <2> QED BY <1>1, <1>4, <1>5, <1>7, <2>1 DEF PreviewsCounted
<1> QED BY <1>6, <1>7
-----------------------------------------------------------------------------
LEMMA Routes ==
    ASSUME NEW p \in Policy, NEW social \in BOOLEAN, NEW direct \in Direct, NEW bridge \in Bridge
    PROVE  LET asked == FetchText(social, p, direct, bridge).asked IN
           /\ social => "direct" \notin asked
           /\ ~social /\ "bridge" \in asked /\ p # "all" => p = "social" /\ direct = "filtered"
           /\ p = "none" => "bridge" \notin asked
BY DEF Policy, Direct, Bridge, FetchText, UseBridge, RetryDirectly

LEMMA ReaderInvariant == ReaderSpec => [](ReadingsHold /\ PreviewsCounted /\ QueueHolds)
<1>1. ReaderInit => ReadingsHold /\ PreviewsCounted /\ QueueHolds
  <2> SUFFICES ASSUME ReaderInit PROVE ReadingsHold /\ PreviewsCounted /\ QueueHolds
    OBVIOUS
  <2>1. ReadingsHold
    BY NoReadingSound DEF ReaderInit, ReadingsHold, Policy
  <2>2. Previews = {} /\ Browsing = {}
    BY DEF ReaderInit, Previews, Browsing, NoReading
  <2>3. PreviewsCounted
    BY <2>2, FS_EmptySet DEF ReaderInit, PreviewsCounted
  <2>4. QueueHolds
    BY <2>2, FS_EmptySet, SourceAssumption
    DEF SourceAssumption, ReaderInit, QueueHolds, WaitsInLine
  <2> QED BY <2>1, <2>3, <2>4
<1>2. ReadingsHold /\ PreviewsCounted /\ QueueHolds /\ [ReaderNext]_readerVars
      => (ReadingsHold /\ PreviewsCounted /\ QueueHolds)'
  <2> SUFFICES ASSUME ReadingsHold, PreviewsCounted, QueueHolds, [ReaderNext]_readerVars
               PROVE  (ReadingsHold /\ PreviewsCounted /\ QueueHolds)'
    OBVIOUS
  <2>1. ASSUME NEW p \in Policy, SetPolicy(p)
        PROVE  (ReadingsHold /\ PreviewsCounted /\ QueueHolds)'
    BY <2>1 DEF SetPolicy, Queue, ReadingsHold, PreviewsCounted, Previews, QueueHolds,
                WaitsInLine, Browsing
  <2>2. ASSUME NEW c \in Readers, NEW kind \in Kinds, NEW preview \in BOOLEAN,
               Start(c, kind, preview)
        PROVE  (ReadingsHold /\ PreviewsCounted /\ QueueHolds)'
    BY <2>2, StartKeeps
  <2>3. ASSUME NEW c \in Readers, Finish(c)
        PROVE  (ReadingsHold /\ PreviewsCounted /\ QueueHolds)'
    BY <2>3, FinishKeeps
  <2>4. ASSUME NEW c \in Readers, FeedFirst(c) \/ Fetch(c) \/ FetchByBridge(c) \/ Extract(c)
                                  \/ RenderEnds(c) \/ Listed(c) \/ AsStory(c)
        PROVE  (ReadingsHold /\ PreviewsCounted /\ QueueHolds)'
    BY <2>4, GoesOnKeeps, FeedGoesOn, FetchGoesOn, BridgeGoesOn, ExtractGoesOn, RenderGoesOn,
       ListedGoesOn, AsStoryGoesOn
  <2>5. ASSUME NEW c \in Readers, NEW p \in Pages, Page(c, p) \/ PageRendered(c, p)
        PROVE  (ReadingsHold /\ PreviewsCounted /\ QueueHolds)'
    BY <2>5, GoesOnKeeps, PageGoesOn, PageRenderedGoesOn
  <2>6. CASE UNCHANGED readerVars
    BY <2>6 DEF readerVars, ReadingsHold, PreviewsCounted, Previews, QueueHolds,
                WaitsInLine, Browsing
  <2> QED BY <2>1, <2>2, <2>3, <2>4, <2>5, <2>6 DEF ReaderNext
<1> QED BY <1>1, <1>2, PTL DEF ReaderSpec

(* The number of previews and the length of the queue are what the         *)
(* readings say, whatever has failed.                                      *)
THEOREM ReaderTyped == ReaderSpec => []ReaderTypeOK
<1>1. ReadingsHold /\ PreviewsCounted /\ QueueHolds => ReaderTypeOK
  BY DEF ReadingsHold, PreviewsCounted, QueueHolds, ReaderTypeOK
<1> QED BY <1>1, ReaderInvariant, PTL

(* A preview waits for the browser with none of its pages, each page that  *)
(* waits has one place in the queue, a website or an article is given up   *)
(* only after the browser was tried, refused, or spared because a preview  *)
(* (of this source or of another) was on, and the worker is asked only     *)
(* where RoutesAsSaid says so.                                             *)
THEOREM ReaderEffort == ReaderSpec => []EffortAsAsked
<1>1. ReadingsHold /\ QueueHolds => EffortAsAsked
  <2> SUFFICES ASSUME ReadingsHold, QueueHolds PROVE EffortAsAsked
    OBVIOUS
  <2>1. PreviewsDoWithout /\ FullEffort
    BY DEF ReadingsHold, SoundReading, PreviewsDoWithout, FullEffort, Previews
  <2>2. RoutesAsSaid
    BY Routes DEF ReadingsHold, SoundReading, RoutesAsSaid
  <2> QED BY <2>1, <2>2 DEF QueueHolds, EffortAsAsked
<1> QED BY <1>1, ReaderInvariant, PTL
-----------------------------------------------------------------------------
(* Categories *)

CategoriesShapes == service \in Service /\ article \in Article /\ task \in [Editors -> Task]

(* Where the article is goes with who filed it; a service that is stored   *)
(* or being stored was made by someone.                                    *)
FilingHolds ==
    /\ article.by = "ai" => article.under # "general"
    /\ article.by = "general" => article.under = "general"
    /\ service.status # "none" => service.made # "none"
    /\ \A p \in Editors :
          /\ task[p].at = "write" /\ task[p].op \in {"categorize", "assign"}
             => task[p].to \in {"general", "service"}
          /\ task[p].op = "sync" /\ task[p].at \in {"read", "write"} => service.made # "none"
          /\ At(p, "prune", "delete") => service.status # "none"

(* What a call has read or moved is still so, unless it was overtaken.     *)
TasksStand ==
    \A p \in Editors : ~task[p].overtaken =>
        /\ task[p].op = "categorize" /\ task[p].at \in {"match", "write"} => article.by # "manual"
        /\ At(p, "reject", "delete") => article.under # "service"
        /\ At(p, "prune", "delete") => service.status # "approved"
        /\ At(p, "sync", "write") => \/ task[p].seen = service.status \/ service.status = "gone"
                                     \/ task[p].seen = "none" /\ service.status # "none"
-----------------------------------------------------------------------------
LEMMA NoTaskTyped ==
    NoTask \in Task /\ NoTask.op = "none" /\ NoTask.at = "idle" /\ ~NoTask.overtaken
BY DEF NoTask, Task, Operations, Status

(* A call that goes on, and those it overtakes. *)
LEMMA TaskSet ==
    ASSUME CategoriesShapes, NEW p \in Editors, NEW r \in Task, task' = [task EXCEPT ![p] = r]
    PROVE  /\ task' \in [Editors -> Task]
           /\ \A q \in Editors : task'[q] = IF q = p THEN r ELSE task[q]
BY DEF CategoriesShapes

LEMMA TasksOvertaken ==
    ASSUME CategoriesShapes, NEW p \in Editors, NEW r \in Task, NEW hit, Overtaking(p, r, hit)
    PROVE  /\ task' \in [Editors -> Task] /\ task'[p] = r
           /\ \A q \in Editors \ {p} :
                 /\ task'[q].op = task[q].op /\ task'[q].at = task[q].at
                 /\ task'[q].to = task[q].to /\ task'[q].seen = task[q].seen
                 /\ task'[q].overtaken = (task[q].overtaken \/ q \in hit)
<1>1. ASSUME NEW q \in Editors
      PROVE  /\ [task[q] EXCEPT !.overtaken = TRUE] \in Task
             /\ [task[q] EXCEPT !.overtaken = TRUE].op = task[q].op
             /\ [task[q] EXCEPT !.overtaken = TRUE].at = task[q].at
             /\ [task[q] EXCEPT !.overtaken = TRUE].to = task[q].to
             /\ [task[q] EXCEPT !.overtaken = TRUE].seen = task[q].seen
             /\ [task[q] EXCEPT !.overtaken = TRUE].overtaken = TRUE
  BY DEF CategoriesShapes, Task
<1>2. \A q \in Editors : task[q].overtaken \in BOOLEAN
  BY DEF CategoriesShapes, Task
<1> QED BY <1>1, <1>2 DEF Overtaking, CategoriesShapes

(* Every step but the making of a service by hand is of one call: it goes  *)
(* on as some r, and overtakes the calls of hit.                           *)
Acts(p, r, hit) ==
    /\ r \in Task /\ task' \in [Editors -> Task] /\ task'[p] = r
    /\ \A q \in Editors \ {p} :
          /\ task'[q].op = task[q].op /\ task'[q].at = task[q].at
          /\ task'[q].to = task[q].to /\ task'[q].seen = task[q].seen
          /\ task'[q].overtaken = (task[q].overtaken \/ q \in hit)

LEMMA ActsAlone ==
    ASSUME CategoriesShapes, NEW p \in Editors, NEW r \in Task, task' = [task EXCEPT ![p] = r]
    PROVE  Acts(p, r, {})
<1>1. \A q \in Editors : task[q].overtaken \in BOOLEAN
  BY DEF CategoriesShapes, Task
<1> QED BY <1>1, TaskSet DEF Acts, CategoriesShapes

LEMMA ActsDone == ASSUME CategoriesShapes, NEW p \in Editors, Done(p) PROVE Acts(p, NoTask, {})
BY ActsAlone, NoTaskTyped DEF Done

LEMMA ActsOvertaking ==
    ASSUME CategoriesShapes, NEW p \in Editors, NEW r \in Task, NEW hit, Overtaking(p, r, hit)
    PROVE  Acts(p, r, hit)
BY TasksOvertaken DEF Acts

LEMMA UnfiledArticle ==
    ASSUME CategoriesShapes, Unfiled
    PROVE  /\ article' \in Article /\ article'.under # "service"
           /\ article' = article \/ (article'.by = "general" /\ article'.under = "general")
<1>1. CASE article.under = "service"
  <2>1. article' = [under |-> "general", by |-> "general"]
    BY <1>1 DEF Unfiled
  <2> QED BY <2>1 DEF Article
<1>2. CASE article.under # "service"
  <2>1. article' = article
    BY <1>2 DEF Unfiled
  <2> QED BY <1>2, <2>1 DEF CategoriesShapes
<1> QED BY <1>1, <1>2

(* What the invariant needs of the service, the article and the one call.  *)
LEMMA ActsKeep ==
    ASSUME CategoriesShapes, FilingHolds, TasksStand,
           NEW p \in Editors, NEW r \in Task, NEW hit, Acts(p, r, hit),
           service' \in Service, article' \in Article,
           /\ article'.by = "ai" => article'.under # "general"
           /\ article'.by = "general" => article'.under = "general"
           /\ service'.status # "none" => service'.made # "none"
           /\ service.made # "none" => service'.made # "none"
           /\ service.status # "none" => service'.status # "none",
           /\ r.at = "write" /\ r.op \in {"categorize", "assign"} => r.to \in {"general", "service"}
           /\ r.op = "sync" /\ r.at \in {"read", "write"} => service'.made # "none"
           /\ r.op = "prune" /\ r.at = "delete" => service'.status # "none",
           ~r.overtaken =>
              /\ r.op = "categorize" /\ r.at \in {"match", "write"} => article'.by # "manual"
              /\ r.op = "reject" /\ r.at = "delete" => article'.under # "service"
              /\ r.op = "prune" /\ r.at = "delete" => service'.status # "approved"
              /\ r.op = "sync" /\ r.at = "write" =>
                    \/ r.seen = service'.status \/ service'.status = "gone"
                    \/ r.seen = "none" /\ service'.status # "none",
           /\ article'.by = "manual" => \/ article.by = "manual"
                 \/ \A q \in Editors \ {p} :
                      task[q].op = "categorize" /\ task[q].at \in {"match", "write"} => q \in hit
           /\ article'.under = "service" => \/ article.under = "service"
                 \/ \A q \in Editors \ {p} : At(q, "reject", "delete") => q \in hit
           /\ service'.status \in {service.status, "gone"} \/ StatusReaders \ {p} \subseteq hit
    PROVE  (CategoriesShapes /\ FilingHolds /\ TasksStand)'
<1>1. CategoriesShapes'
  BY DEF Acts, CategoriesShapes
<1>2. FilingHolds'
  <2>1. ASSUME NEW q \in Editors
        PROVE  /\ task'[q].at = "write" /\ task'[q].op \in {"categorize", "assign"}
                  => task'[q].to \in {"general", "service"}
               /\ task'[q].op = "sync" /\ task'[q].at \in {"read", "write"}
                  => service'.made # "none"
               /\ task'[q].op = "prune" /\ task'[q].at = "delete" => service'.status # "none"
    <3>1. CASE q = p
      BY <3>1 DEF Acts
    <3>2. CASE q # p
      BY <3>2 DEF Acts, FilingHolds, At
    <3> QED BY <3>1, <3>2
  <2> QED BY <2>1 DEF FilingHolds, At
<1>3. TasksStand'
  <2>1. ASSUME NEW q \in Editors, q # p, ~task'[q].overtaken
        PROVE  /\ task[q].op = "categorize" /\ task[q].at \in {"match", "write"}
                  => article'.by # "manual"
               /\ At(q, "reject", "delete") => article'.under # "service"
               /\ At(q, "prune", "delete") => service'.status # "approved"
               /\ At(q, "sync", "write") =>
                     \/ task[q].seen = service'.status \/ service'.status = "gone"
                     \/ task[q].seen = "none" /\ service'.status # "none"
    <3>1. ~task[q].overtaken /\ q \notin hit /\ q \in Editors \ {p}
      BY <2>1 DEF Acts
    <3>2. /\ task[q].op = "categorize" /\ task[q].at \in {"match", "write"}
             => article'.by # "manual"
          /\ At(q, "reject", "delete") => article'.under # "service"
      BY <3>1 DEF TasksStand
    <3>3. At(q, "prune", "delete") => service'.status # "approved"
      BY <3>1 DEF TasksStand, StatusReaders
    <3>4. At(q, "sync", "write") =>
             \/ task[q].seen = service'.status \/ service'.status = "gone"
             \/ task[q].seen = "none" /\ service'.status # "none"
      BY <3>1 DEF TasksStand, StatusReaders
    <3> QED BY <3>2, <3>3, <3>4
  <2>2. ASSUME NEW q \in Editors, ~task'[q].overtaken
        PROVE  /\ task'[q].op = "categorize" /\ task'[q].at \in {"match", "write"}
                  => article'.by # "manual"
               /\ task'[q].op = "reject" /\ task'[q].at = "delete" => article'.under # "service"
               /\ task'[q].op = "prune" /\ task'[q].at = "delete" => service'.status # "approved"
               /\ task'[q].op = "sync" /\ task'[q].at = "write" =>
                     \/ task'[q].seen = service'.status \/ service'.status = "gone"
                     \/ task'[q].seen = "none" /\ service'.status # "none"
    <3>1. CASE q = p
      BY <2>2, <3>1 DEF Acts
    <3>2. CASE q # p
      BY <2>1, <2>2, <3>2 DEF Acts, At
    <3> QED BY <3>1, <3>2
  <2> QED BY <2>2 DEF TasksStand, At
<1> QED BY <1>1, <1>2, <1>3

LEMMA CategoriesStep ==
    CategoriesShapes /\ FilingHolds /\ TasksStand /\ [CategoriesNext]_categoriesVars
    => (CategoriesShapes /\ FilingHolds /\ TasksStand)'
<1> SUFFICES ASSUME CategoriesShapes, FilingHolds, TasksStand, [CategoriesNext]_categoriesVars
             PROVE  (CategoriesShapes /\ FilingHolds /\ TasksStand)'
  OBVIOUS
<1>1. CASE CreateManual
  <2>1. service.status = "none"
    BY <1>1 DEF CreateManual, FilingHolds
  <2> QED
    BY <1>1, <2>1
    DEF CreateManual, CategoriesShapes, FilingHolds, TasksStand, At, Service, Status
<1>2. ASSUME NEW p \in Editors, Categorize(p)
      PROVE  (CategoriesShapes /\ FilingHolds /\ TasksStand)'
  <2> DEFINE r == [NoTask EXCEPT !.op = "categorize", !.at = "read"]
  <2>1. r \in Task /\ r.op = "categorize" /\ r.at = "read"
    BY <1>2, NoTaskTyped DEF Categorize, Task, Operations
  <2>2. task' = [task EXCEPT ![p] = r] /\ UNCHANGED <<service, article>>
    BY <1>2 DEF Categorize, Begin
  <2> HIDE DEF r
  <2>3. Acts(p, r, {})
    BY <2>1, <2>2, ActsAlone
  <2> QED BY <1>2, <2>1, <2>2, <2>3, ActsKeep
          DEF Categorize, CategoriesShapes, FilingHolds
<1>3. ASSUME NEW p \in Editors, ReadArticle(p)
      PROVE  (CategoriesShapes /\ FilingHolds /\ TasksStand)'
  <2> DEFINE going(at, to) == [task[p] EXCEPT !.at = at, !.to = to]
  <2>1. UNCHANGED <<service, article>> /\ task[p] \in Task /\ task[p].op = "categorize"
    BY <1>3 DEF ReadArticle, At, CategoriesShapes
  <2>2. CASE article.by = "manual"
    <3>1. Acts(p, NoTask, {})
      BY <1>3, <2>2, ActsDone DEF ReadArticle
    <3> QED BY <2>1, <3>1, NoTaskTyped, ActsKeep DEF CategoriesShapes, FilingHolds
  <2>3. ASSUME NEW at \in {"match", "write"}, NEW to \in {"none", "general"},
               at = "write" => to = "general", article.by # "manual",
               task' = [task EXCEPT ![p].at = at, ![p].to = to]
        PROVE  (CategoriesShapes /\ FilingHolds /\ TasksStand)'
    <3> DEFINE r == [task[p] EXCEPT !.at = at, !.to = to]
    <3>1. r \in Task /\ r.op = "categorize" /\ r.at = at /\ r.to = to
      BY <2>1, <2>3 DEF Task
    <3>2. task' = [task EXCEPT ![p] = r]
      BY <2>3 DEF CategoriesShapes
    <3> HIDE DEF r
    <3>3. Acts(p, r, {})
      BY <3>1, <3>2, ActsAlone
    <3> QED BY <2>1, <2>3, <3>1, <3>3, ActsKeep DEF CategoriesShapes, FilingHolds
  <2> QED BY <1>3, <2>2, <2>3 DEF ReadArticle
<1>4. ASSUME NEW p \in Editors, Match(p)
      PROVE  (CategoriesShapes /\ FilingHolds /\ TasksStand)'
  <2>1. UNCHANGED <<service, article>> /\ task[p] \in Task /\ At(p, "categorize", "match")
    BY <1>4 DEF Match, CategoriesShapes
  <2>2. PICK to \in {"general", "service"} : task' = [task EXCEPT ![p].at = "write", ![p].to = to]
    BY <1>4 DEF Match
  <2> DEFINE r == [task[p] EXCEPT !.at = "write", !.to = to]
  <2>3. /\ r \in Task /\ r.op = "categorize" /\ r.at = "write" /\ r.to = to
        /\ r.overtaken = task[p].overtaken
    BY <2>1 DEF Task, At
  <2>4. task' = [task EXCEPT ![p] = r]
    BY <2>2 DEF CategoriesShapes
  <2> HIDE DEF r
  <2>5. Acts(p, r, {})
    BY <2>3, <2>4, ActsAlone
  <2>6. ~r.overtaken => article'.by # "manual"
    BY <2>1, <2>3 DEF TasksStand, At
  <2> QED BY <2>1, <2>3, <2>5, <2>6, ActsKeep DEF CategoriesShapes, FilingHolds
<1>5. ASSUME NEW p \in Editors, NEW to \in {"general", "service"}, Assign(p, to)
      PROVE  (CategoriesShapes /\ FilingHolds /\ TasksStand)'
  <2> DEFINE r == [NoTask EXCEPT !.op = "assign", !.at = "write", !.to = to]
  <2>1. r \in Task /\ r.op = "assign" /\ r.at = "write" /\ r.to = to
    BY <1>5, NoTaskTyped DEF Assign, Task, Operations
  <2>2. task' = [task EXCEPT ![p] = r] /\ UNCHANGED <<service, article>>
    BY <1>5 DEF Assign, Begin
  <2> HIDE DEF r
  <2>3. Acts(p, r, {})
    BY <2>1, <2>2, ActsAlone
  <2> QED BY <1>5, <2>1, <2>2, <2>3, ActsKeep
          DEF Assign, CategoriesShapes, FilingHolds
<1>6. ASSUME NEW p \in Editors, File(p)
      PROVE  (CategoriesShapes /\ FilingHolds /\ TasksStand)'
  <2>1. /\ task[p].to \in {"general", "service"} /\ service' = service
        /\ task[p].op \in {"categorize", "assign"}
    BY <1>6 DEF File, FilingHolds
  <2>2. CASE task[p].to = "service" /\ ~Exists
    <3>1. Acts(p, NoTask, {}) /\ article' = article
      BY <1>6, <2>2, ActsDone DEF File
    <3> QED BY <2>1, <3>1, NoTaskTyped, ActsKeep DEF CategoriesShapes, FilingHolds
  <2>3. CASE ~(task[p].to = "service" /\ ~Exists)
    <3> DEFINE by == CategorySource(task[p].op, task[p].to)
               hit == {q \in Editors :
                         \/ by = "manual" /\ task[q].op = "categorize"
                            /\ task[q].at \in {"match", "write"}
                         \/ task[p].to = "service" /\ At(q, "reject", "delete")}
    <3>1. article' = [under |-> task[p].to, by |-> by] /\ Overtaking(p, NoTask, hit)
      BY <1>6, <2>3 DEF File
    <3>2. /\ article' \in Article
          /\ article'.by = "ai" => article'.under # "general"
          /\ article'.by = "general" => article'.under = "general"
          /\ article'.under = task[p].to /\ article'.by = by
      BY <2>1, <3>1 DEF CategorySource, Article
    <3>3. Acts(p, NoTask, hit)
      BY <3>1, NoTaskTyped, ActsOvertaking
    <3>4. /\ by = "manual" => \A q \in Editors \ {p} :
                task[q].op = "categorize" /\ task[q].at \in {"match", "write"} => q \in hit
          /\ task[p].to = "service" => \A q \in Editors \ {p} :
                At(q, "reject", "delete") => q \in hit
      OBVIOUS
    <3> HIDE DEF by, hit
    <3> QED BY <2>1, <3>2, <3>3, <3>4, NoTaskTyped, ActsKeep DEF CategoriesShapes, FilingHolds
  <2> QED BY <2>2, <2>3
<1>7. ASSUME NEW p \in Editors, NEW op \in Operations, Decide(p, op)
      PROVE  (CategoriesShapes /\ FilingHolds /\ TasksStand)'
  <2> DEFINE r == [NoTask EXCEPT !.op = op, !.at = "write"]
  <2>1. r \in Task /\ r.op = op /\ op \in {"approve", "reject"} /\ r.at = "write"
    BY <1>7, NoTaskTyped DEF Decide, Task, Operations
  <2>2. task' = [task EXCEPT ![p] = r] /\ UNCHANGED <<service, article>>
    BY <1>7 DEF Decide, Begin
  <2> HIDE DEF r
  <2>3. Acts(p, r, {})
    BY <2>1, <2>2, ActsAlone
  <2> QED BY <1>7, <2>1, <2>2, <2>3, ActsKeep
          DEF Decide, CategoriesShapes, FilingHolds
<1>8. ASSUME NEW p \in Editors, Approve(p)
      PROVE  (CategoriesShapes /\ FilingHolds /\ TasksStand)'
  <2>1. CASE Exists
    <3>1. service' = [service EXCEPT !.status = "approved"] /\ article' = article
      BY <1>8, <2>1 DEF Approve, Approved
    <3>2. service' \in Service /\ service'.status = "approved" /\ service'.made = service.made
      BY <3>1 DEF CategoriesShapes, Service, Status
    <3>3. Acts(p, NoTask, StatusReaders)
      BY <1>8, <2>1, NoTaskTyped, ActsOvertaking DEF Approve, Approved
    <3>4. service.status # "none"
      BY <1>8, <2>1 DEF Approve, Exists
    <3> QED BY <3>1, <3>2, <3>3, <3>4, NoTaskTyped, ActsKeep DEF CategoriesShapes, FilingHolds
  <2>2. CASE ~Exists
    <3>1. Acts(p, NoTask, {}) /\ UNCHANGED <<service, article>>
      BY <1>8, <2>2, ActsDone DEF Approve
    <3> QED BY <3>1, NoTaskTyped, ActsKeep DEF CategoriesShapes, FilingHolds
  <2> QED BY <2>1, <2>2
<1>9. ASSUME NEW p \in Editors, BulkApprove(p)
      PROVE  (CategoriesShapes /\ FilingHolds /\ TasksStand)'
  <2>1. service' = [service EXCEPT !.status = "approved"] /\ article' = article
    BY <1>9 DEF BulkApprove, Approved
  <2>2. service' \in Service /\ service'.status = "approved" /\ service'.made = service.made
    BY <2>1 DEF CategoriesShapes, Service, Status
  <2>3. Acts(p, NoTask, StatusReaders)
    BY <1>9, NoTaskTyped, ActsOvertaking DEF BulkApprove, Approved
  <2>4. service.status # "none"
    BY <1>9 DEF BulkApprove, Exists
  <2> QED BY <2>1, <2>2, <2>3, <2>4, NoTaskTyped, ActsKeep DEF CategoriesShapes, FilingHolds
<1>10. ASSUME NEW p \in Editors, RejectMoves(p)
      PROVE  (CategoriesShapes /\ FilingHolds /\ TasksStand)'
  <2> DEFINE r == [task[p] EXCEPT !.at = "delete"]
  <2>1. r \in Task /\ r.op = "reject" /\ r.at = "delete"
    BY <1>10 DEF RejectMoves, At, CategoriesShapes, Task
  <2>2. task' = [task EXCEPT ![p] = r] /\ service' = service
    BY <1>10 DEF RejectMoves, CategoriesShapes
  <2>3. /\ article' \in Article /\ article'.under # "service"
        /\ article' = article \/ (article'.by = "general" /\ article'.under = "general")
    BY <1>10, UnfiledArticle DEF RejectMoves
  <2> HIDE DEF r
  <2>4. Acts(p, r, {})
    BY <2>1, <2>2, ActsAlone
  <2> QED BY <2>1, <2>2, <2>3, <2>4, ActsKeep DEF CategoriesShapes, FilingHolds
<1>11. ASSUME NEW p \in Editors, RejectDeletes(p)
      PROVE  (CategoriesShapes /\ FilingHolds /\ TasksStand)'
  <2>1. Acts(p, NoTask, {})
    BY <1>11, ActsDone DEF RejectDeletes
  <2>2. CASE UNCHANGED <<service, article>>
    BY <2>1, <2>2, NoTaskTyped, ActsKeep DEF CategoriesShapes, FilingHolds
  <2>3. CASE /\ service' = [service EXCEPT !.status = "gone"] /\ Exists
             /\ article' = [article EXCEPT !.under = IF @ = "service" THEN "null" ELSE @]
    <3>1. service' \in Service /\ service'.status = "gone" /\ service'.made = service.made
      BY <2>3 DEF CategoriesShapes, Service, Status
    <3>2. /\ article' \in Article /\ article'.by = article.by
          /\ article'.under \in {article.under, "null"}
          /\ article.under # "service" => article'.under = article.under
      BY <2>3 DEF CategoriesShapes, Article
    <3> QED BY <2>1, <2>3, <3>1, <3>2, NoTaskTyped, ActsKeep
            DEF CategoriesShapes, FilingHolds, Exists
  <2> QED BY <1>11, <2>2, <2>3 DEF RejectDeletes
<1>12. ASSUME NEW p \in Editors, Prune(p)
      PROVE  (CategoriesShapes /\ FilingHolds /\ TasksStand)'
  <2> DEFINE r == [NoTask EXCEPT !.op = "prune", !.at = "delete"]
  <2>1. r \in Task /\ r.op = "prune" /\ r.at = "delete"
    BY <1>12, NoTaskTyped DEF Prune, Task, Operations
  <2>2. task' = [task EXCEPT ![p] = r] /\ UNCHANGED <<service, article>>
    BY <1>12 DEF Prune, Begin
  <2> HIDE DEF r
  <2>3. Acts(p, r, {})
    BY <2>1, <2>2, ActsAlone
  <2> QED BY <1>12, <2>1, <2>2, <2>3, ActsKeep
          DEF Prune, CategoriesShapes, FilingHolds
<1>13. ASSUME NEW p \in Editors, PruneDeletes(p)
      PROVE  (CategoriesShapes /\ FilingHolds /\ TasksStand)'
  <2>1. Acts(p, NoTask, {})
    BY <1>13, ActsDone DEF PruneDeletes
  <2>2. /\ article' \in Article
        /\ article' = article \/ (article'.by = "general" /\ article'.under = "general")
    BY <1>13, UnfiledArticle DEF PruneDeletes
  <2>3. /\ service' \in Service /\ service'.made = service.made
        /\ service' = service \/ (service.status # "none" /\ service'.status = "gone")
    <3>1. CASE Exists
      <4>1. service' = [service EXCEPT !.status = "gone"]
        BY <1>13, <3>1 DEF PruneDeletes
      <4> QED BY <3>1, <4>1 DEF Exists, CategoriesShapes, Service, Status
    <3>2. CASE ~Exists
      BY <1>13, <3>2 DEF PruneDeletes, CategoriesShapes
    <3> QED BY <3>1, <3>2
  <2> QED BY <2>1, <2>2, <2>3, NoTaskTyped, ActsKeep DEF CategoriesShapes, FilingHolds
<1>14. ASSUME NEW p \in Editors, NEW listed \in BOOLEAN, NEW changed \in BOOLEAN,
             Sync(p, listed, changed)
      PROVE  (CategoriesShapes /\ FilingHolds /\ TasksStand)'
  <2> DEFINE r == [NoTask EXCEPT !.op = "sync", !.at = IF listed THEN "read" ELSE "mark",
                             !.listed = listed, !.changed = changed]
  <2>1. r \in Task /\ r.op = "sync" /\ r.at = IF listed THEN "read" ELSE "mark"
    BY NoTaskTyped DEF Task, Operations
  <2>2. task' = [task EXCEPT ![p] = r] /\ article' = article
    BY <1>14 DEF Sync, Begin
  <2>3. /\ service' \in Service /\ service'.status = service.status
        /\ service'.made = service.made \/ service'.made = "site"
        /\ listed => service'.made = "site"
    BY <1>14 DEF Sync, CategoriesShapes, Service
  <2> HIDE DEF r
  <2>4. Acts(p, r, {})
    BY <2>1, <2>2, ActsAlone
  <2> QED BY <2>1, <2>2, <2>3, <2>4, ActsKeep DEF CategoriesShapes, FilingHolds
<1>15. ASSUME NEW p \in Editors, SyncReads(p)
      PROVE  (CategoriesShapes /\ FilingHolds /\ TasksStand)'
  <2> DEFINE r == [task[p] EXCEPT !.at = "write", !.seen = service.status]
  <2>1. r \in Task /\ r.op = "sync" /\ r.at = "write" /\ r.seen = service.status
    BY <1>15 DEF SyncReads, At, CategoriesShapes, Task, Service
  <2>2. task' = [task EXCEPT ![p] = r] /\ UNCHANGED <<service, article>>
    BY <1>15 DEF SyncReads, CategoriesShapes
  <2>3. service.made # "none"
    BY <1>15 DEF SyncReads, At, FilingHolds
  <2> HIDE DEF r
  <2>4. Acts(p, r, {})
    BY <2>1, <2>2, ActsAlone
  <2> QED BY <2>1, <2>2, <2>3, <2>4, ActsKeep DEF CategoriesShapes, FilingHolds
<1>16. ASSUME NEW p \in Editors, SyncWrites(p)
      PROVE  (CategoriesShapes /\ FilingHolds /\ TasksStand)'
  <2>1. task[p] \in Task /\ At(p, "sync", "write") /\ article' = article
    BY <1>16 DEF SyncWrites, CategoriesShapes
  <2>2. CASE Done(p) /\ service' = service
    <3>1. Acts(p, NoTask, {})
      BY <2>2, ActsDone
    <3> QED BY <2>1, <2>2, <3>1, NoTaskTyped, ActsKeep DEF CategoriesShapes, FilingHolds
  <2>3. CASE ~(\/ (task[p].seen = "none") # (service.status = "none")
               \/ service.status = "gone")
    <3> DEFINE next == NextStatus(task[p].seen, task[p].changed)
               r == [task[p] EXCEPT !.at = "mark"]
               hit == IF next = service.status THEN {} ELSE StatusReaders
    <3>1. service' = [service EXCEPT !.status = next] /\ Overtaking(p, r, hit)
      BY <1>16, <2>3 DEF SyncWrites
    <3>2. next \in Status /\ next # "none"
      BY <2>1 DEF NextStatus, Task, Status
    <3>3. r \in Task /\ r.op = "sync" /\ r.at = "mark"
      BY <2>1 DEF Task, At
    <3>4. service' \in Service /\ service'.status = next /\ service'.made = service.made
      BY <3>1, <3>2 DEF CategoriesShapes, Service
    <3>5. service.made # "none"
      BY <2>1 DEF FilingHolds, At
    <3>6. service'.status = service.status \/ StatusReaders \ {p} \subseteq hit
      BY <3>4
    <3> HIDE DEF next, r, hit
    <3>7. Acts(p, r, hit)
      BY <3>1, <3>3, ActsOvertaking
    <3> QED BY <2>1, <3>2, <3>3, <3>4, <3>5, <3>6, <3>7, ActsKeep
            DEF CategoriesShapes, FilingHolds
  <2> QED BY <1>16, <2>2, <2>3 DEF SyncWrites
<1>17. ASSUME NEW p \in Editors, SyncMarks(p)
      PROVE  (CategoriesShapes /\ FilingHolds /\ TasksStand)'
  <2>1. CASE Exists /\ ~task[p].listed
    <3>1. service' = [service EXCEPT !.status = "stale"] /\ article' = article
      BY <1>17, <2>1 DEF SyncMarks
    <3>2. service' \in Service /\ service'.status = "stale" /\ service'.made = service.made
      BY <3>1 DEF CategoriesShapes, Service, Status
    <3>3. Acts(p, NoTask, StatusReaders)
      BY <1>17, <2>1, NoTaskTyped, ActsOvertaking DEF SyncMarks
    <3> QED BY <2>1, <3>1, <3>2, <3>3, NoTaskTyped, ActsKeep
            DEF CategoriesShapes, FilingHolds, Exists
  <2>2. CASE ~(Exists /\ ~task[p].listed)
    <3>1. Acts(p, NoTask, {}) /\ UNCHANGED <<service, article>>
      BY <1>17, <2>2, ActsDone DEF SyncMarks
    <3> QED BY <3>1, NoTaskTyped, ActsKeep DEF CategoriesShapes, FilingHolds
  <2> QED BY <2>1, <2>2
<1>18. ASSUME NEW p \in Editors, TaskFails(p)
      PROVE  (CategoriesShapes /\ FilingHolds /\ TasksStand)'
  <2>1. Acts(p, NoTask, {}) /\ UNCHANGED <<service, article>>
    BY <1>18, ActsDone DEF TaskFails
  <2> QED BY <2>1, NoTaskTyped, ActsKeep DEF CategoriesShapes, FilingHolds
<1>19. CASE UNCHANGED categoriesVars
  BY <1>19 DEF categoriesVars, CategoriesShapes, FilingHolds, TasksStand, At
<1> QED
  BY <1>1, <1>2, <1>3, <1>4, <1>5, <1>6, <1>7, <1>8, <1>9, <1>10, <1>11,
      <1>12, <1>13, <1>14, <1>15, <1>16, <1>17, <1>18, <1>19
  DEF CategoriesNext

LEMMA CategoriesInvariant == CategoriesSpec => [](CategoriesShapes /\ FilingHolds /\ TasksStand)
<1>1. CategoriesInit => CategoriesShapes /\ FilingHolds /\ TasksStand
  BY NoTaskTyped
  DEF CategoriesInit, CategoriesShapes, FilingHolds, TasksStand, At, Service, Status, Article
<1> QED BY <1>1, CategoriesStep, PTL DEF CategoriesSpec

(* The rows keep their types, and where an article is filed goes with who  *)
(* filed it.                                                               *)
THEOREM CategoriesTyped == CategoriesSpec => []CategoriesTypeOK
<1>1. CategoriesShapes /\ FilingHolds => CategoriesTypeOK
  BY DEF CategoriesShapes, FilingHolds, CategoriesTypeOK
<1> QED BY <1>1, CategoriesInvariant, PTL

(* Who changes the article, ... *)
LEMMA ArticleStep ==
    ASSUME CategoriesShapes, FilingHolds, TasksStand, [CategoriesNext]_categoriesVars,
           article' # article
    PROVE  /\ article.by = "manual" =>
                \E p \in Editors : /\ task'[p] = NoTask \/ task[p].op = "reject"
                                   /\ \/ task[p].op \in {"assign", "reject", "prune"}
                                      \/ task[p].op = "categorize" /\ task[p].overtaken
           /\ article.under = "service" /\ article'.under = "null" =>
                \E p \in Editors : At(p, "reject", "delete") /\ task[p].overtaken
<1>1. PICK p \in Editors : File(p) \/ RejectMoves(p) \/ RejectDeletes(p) \/ PruneDeletes(p)
  BY DEF CategoriesNext, categoriesVars, CreateManual, Categorize, ReadArticle, Match, Assign,
         Decide, Approve, BulkApprove, Prune, Sync, SyncReads, SyncWrites, SyncMarks, TaskFails
<1>2. CASE File(p)
  <2>1. /\ task[p].at = "write" /\ task[p].op \in {"categorize", "assign"}
        /\ article'.under = task[p].to /\ task'[p] = NoTask
    BY <1>2 DEF File, Overtaking, CategoriesShapes
  <2>2. task[p].to # "null"
    BY <2>1 DEF FilingHolds
  <2>3. article.by = "manual" /\ task[p].op = "categorize" => task[p].overtaken
    BY <2>1 DEF TasksStand
  <2> QED BY <2>1, <2>2, <2>3
<1>3. CASE RejectMoves(p)
  BY <1>3 DEF RejectMoves, At, Unfiled
<1>4. CASE RejectDeletes(p)
  BY <1>4 DEF RejectDeletes, At, TasksStand
<1>5. CASE PruneDeletes(p)
  <2>1. task'[p] = NoTask /\ task[p].op = "prune"
    BY <1>5 DEF PruneDeletes, At, Done, CategoriesShapes
  <2>2. article'.under # "null"
    BY <1>5 DEF PruneDeletes, Unfiled
  <2> QED BY <2>1, <2>2
<1> QED BY <1>1, <1>2, <1>3, <1>4, <1>5

(* ... and who the approval of the service. *)
LEMMA ApprovalStep ==
    ASSUME CategoriesShapes, FilingHolds, TasksStand, [CategoriesNext]_categoriesVars
    PROVE  /\ service.status = "approved" /\ service'.status # "approved" =>
                \E p \in Editors :
                    \/ At(p, "reject", "delete")
                    \/ At(p, "sync", "mark") /\ ~task[p].listed
                    \/ At(p, "sync", "write") /\ (task[p].changed \/ task[p].overtaken)
                    \/ At(p, "prune", "delete") /\ task[p].overtaken
           /\ service.status # "approved" /\ service'.status = "approved" =>
                \/ CreateManual
                \/ \E p \in Editors :
                      \/ Approve(p) \/ BulkApprove(p)
                      \/ At(p, "sync", "write") /\ task[p].overtaken
<1> SUFFICES ASSUME service'.status # service.status, ~CreateManual,
                    ~\E p \in Editors : Approve(p) \/ BulkApprove(p)
             PROVE  /\ service.status = "approved" /\ service'.status # "approved" =>
                         \E p \in Editors :
                             \/ At(p, "reject", "delete")
                             \/ At(p, "sync", "mark") /\ ~task[p].listed
                             \/ At(p, "sync", "write") /\ (task[p].changed \/ task[p].overtaken)
                             \/ At(p, "prune", "delete") /\ task[p].overtaken
                    /\ service.status # "approved" /\ service'.status = "approved" =>
                         \E p \in Editors : At(p, "sync", "write") /\ task[p].overtaken
  BY DEF CreateManual, Approve, BulkApprove, Approved, CategoriesShapes, Service
<1>1. PICK p \in Editors : \/ RejectDeletes(p) \/ PruneDeletes(p) \/ SyncWrites(p) \/ SyncMarks(p)
                           \/ \E listed, changed \in BOOLEAN : Sync(p, listed, changed)
  BY DEF CategoriesNext, categoriesVars, Categorize, ReadArticle, Match, Assign, File,
         Decide, RejectMoves, Prune, SyncReads, TaskFails
<1>2. CASE \E listed, changed \in BOOLEAN : Sync(p, listed, changed)
  BY <1>2 DEF Sync, CategoriesShapes, Service
<1>3. CASE RejectDeletes(p)
  BY <1>3 DEF RejectDeletes, CategoriesShapes, Service
<1>4. CASE PruneDeletes(p)
  BY <1>4 DEF PruneDeletes, CategoriesShapes, Service, TasksStand
<1>5. CASE SyncMarks(p)
  BY <1>5 DEF SyncMarks, CategoriesShapes, Service
<1>6. CASE SyncWrites(p)
  <2>1. /\ At(p, "sync", "write") /\ service.status # "gone"
        /\ (task[p].seen = "none") = (service.status = "none")
        /\ service'.status = NextStatus(task[p].seen, task[p].changed)
    BY <1>6 DEF SyncWrites, CategoriesShapes, Service
  <2>2. ~task[p].overtaken => task[p].seen = service.status
    BY <2>1 DEF TasksStand
  <2> QED BY <2>1, <2>2 DEF NextStatus
<1> QED BY <1>1, <1>2, <1>3, <1>4, <1>5, <1>6

(* What a person has decided about an article or a service is undone only  *)
(* in the ways DecisionsKept lists: by a rejection, by what the site lists *)
(* now, or by a categorisation, a synchronisation or a clearing away that  *)
(* had read before the decision was made.  A call that read after it does  *)
(* not undo it, however many others overlap.                               *)
THEOREM CategoriesDecided == CategoriesSpec => DecisionsKept
<1>1. CategoriesShapes /\ FilingHolds /\ TasksStand /\ [CategoriesNext]_categoriesVars
      => [ article.by = "manual" /\ article' # article =>
           \E p \in Editors : /\ task'[p] = NoTask \/ task[p].op = "reject"
                              /\ \/ task[p].op \in {"assign", "reject", "prune"}
                                 \/ task[p].op = "categorize" /\ task[p].overtaken ]_categoriesVars
  BY ArticleStep
<1>2. CategoriesShapes /\ FilingHolds /\ TasksStand /\ [CategoriesNext]_categoriesVars
      => [ article.under = "service" /\ article'.under = "null" =>
           \E p \in Editors : At(p, "reject", "delete") /\ task[p].overtaken ]_categoriesVars
  BY ArticleStep
<1>3. CategoriesShapes /\ FilingHolds /\ TasksStand /\ [CategoriesNext]_categoriesVars
      => [ service.status = "approved" /\ service'.status # "approved" =>
           \E p \in Editors :
               \/ At(p, "reject", "delete")
               \/ At(p, "sync", "mark") /\ ~task[p].listed
               \/ At(p, "sync", "write") /\ (task[p].changed \/ task[p].overtaken)
               \/ At(p, "prune", "delete") /\ task[p].overtaken ]_categoriesVars
  BY ApprovalStep
<1>4. CategoriesShapes /\ FilingHolds /\ TasksStand /\ [CategoriesNext]_categoriesVars
      => [ service.status # "approved" /\ service'.status = "approved" =>
           \/ CreateManual
           \/ \E p \in Editors :
                 \/ Approve(p) \/ BulkApprove(p)
                 \/ At(p, "sync", "write") /\ task[p].overtaken ]_categoriesVars
  BY ApprovalStep
<1> QED
  BY <1>1, <1>2, <1>3, <1>4, CategoriesInvariant, PTL
  DEF CategoriesSpec, DecisionsKept, ManualKept, FiledSomewhere, ApprovalKept, ApprovedByPeople
-----------------------------------------------------------------------------
(* TenantSettings *)

(* The lock of the saves: who saves is in line once, and only calls that   *)
(* save get past the reading.                                              *)
SaversInLine ==
    /\ line \in Seq(Savers)
    /\ \A p \in Savers : Saving(p) <=> \E i \in 1..Len(line) : line[i] = p
    /\ \A i, j \in 1..Len(line) : line[i] = line[j] => i = j
    /\ \A p \in Savers :
          /\ access[p].at = "idle" => ~Saving(p)
          /\ access[p].at \in {"line", "load", "write", "forget"} => Saving(p)
          /\ Saving(p) /\ access[p].at # "line" => p = Head(line)

(* What a call has read is so, unless another has changed it since.        *)
ReadsHold ==
    \A p \in Savers :
        /\ access[p].at = "fill" /\ ~access[p].overtaken => access[p].site = tenant.site
        /\ access[p].at = "load" /\ ~access[p].late =>
              tenant.password = NoSite \/ access[p].site = tenant.site
        /\ access[p].at = "write" /\ ~access[p].overtaken => access[p].row = tenant
        /\ access[p].at = "write" /\ ~access[p].late =>
              access[p].row.password = NoSite \/ access[p].site = access[p].row.site

-----------------------------------------------------------------------------
LEMMA UnsetTyped ==
    Unset \in Tenant /\ Empty \in Cache /\ NoAccess \in Access /\ Nothing \in Inputs
BY DEF Unset, Tenant, Empty, Cache, NoAccess, Access, Nothing, Inputs, Sites0

LEMMA InputsTyped ==
    /\ \A site \in Sites, password \in BOOLEAN :
          [what |-> "site", site |-> site, password |-> password] \in Inputs
    /\ [Nothing EXCEPT !.what = "tab"] \in Inputs
BY DEF Inputs, Nothing, Sites0

LEMMA UpdatedTyped ==
    ASSUME NEW input \in Inputs, NEW site \in Sites0, NEW r \in Tenant
    PROVE  Updated(input, site, r) \in Tenant
BY DEF Updated, Tenant, Inputs, Sites0

SettingsShapes == tenant \in Tenant /\ cache \in Cache /\ access \in [Savers -> Access]

LEMMA SettingsShapesInit == SettingsInit => SettingsShapes
BY UnsetTyped DEF SettingsInit, SettingsShapes

LEMMA GoesTyped ==
    ASSUME SettingsShapes, NEW p \in Savers, NEW r \in Access, Goes(p, r)
    PROVE  access' \in [Savers -> Access]
BY DEF Goes, SettingsShapes

LEMMA GotTyped ==
    ASSUME SettingsShapes, NEW p \in Savers, NEW site \in Sites0,
           NEW late \in BOOLEAN, Got(p, site, late)
    PROVE  access' \in [Savers -> Access]
<1>1. access[p] \in Access
  BY DEF SettingsShapes
<1>2. [access[p] EXCEPT !.at = "load", !.site = site, !.late = late, !.overtaken = FALSE] \in Access
  BY <1>1 DEF Access
<1> QED BY <1>2, GoesTyped, UnsetTyped DEF Got, Leaves

LEMMA SettingsShapesStep == SettingsShapes /\ [SettingsNext]_settingsVars => SettingsShapes'
<1> SUFFICES ASSUME SettingsShapes, [SettingsNext]_settingsVars PROVE SettingsShapes'
  OBVIOUS
<1> USE UnsetTyped DEF SettingsShapes
<1>1. ASSUME NEW p \in Savers, Read(p) PROVE SettingsShapes'
  <2>1. [NoAccess EXCEPT !.at = "look"] \in Access
    BY DEF Access
  <2> QED BY <1>1, <2>1, GoesTyped DEF Read
<1>2. ASSUME NEW p \in Savers, NEW input \in Inputs, Save(p, input) PROVE SettingsShapes'
  BY <1>2 DEF Save, Goes, NoAccess, Access
<1>3. ASSUME NEW p \in Savers, Enter(p) PROVE SettingsShapes'
  BY <1>3 DEF Enter, Goes, Access
<1>4. ASSUME NEW p \in Savers, Look(p) PROVE SettingsShapes'
  <2>1. cache.site \in Sites0 /\ cache.late \in BOOLEAN /\ tenant.site \in Sites0
    BY DEF Cache, Tenant
  <2>2. access[p] \in Access
    OBVIOUS
  <2>3. [access[p] EXCEPT !.at = "fill", !.site = tenant.site, !.overtaken = FALSE] \in Access
    BY <2>1, <2>2 DEF Access
  <2> QED BY <1>4, <2>1, <2>3, GoesTyped, GotTyped DEF Look
<1>5. ASSUME NEW p \in Savers, Fill(p) PROVE SettingsShapes'
  <2>1. access[p].site \in Sites0 /\ access[p].overtaken \in BOOLEAN
    BY DEF Access
  <2>2. [full |-> TRUE, site |-> access[p].site, late |-> access[p].overtaken] \in Cache
    BY <2>1 DEF Cache
  <2>3. cache' \in Cache /\ UNCHANGED tenant
    BY <1>5, <2>2 DEF Fill
  <2>4. Got(p, access[p].site, access[p].overtaken)
    BY <1>5 DEF Fill
  <2>5. access' \in [Savers -> Access]
    BY <2>1, <2>4, GotTyped, Zenon
  <2> QED BY <2>3, <2>5
<1>6. ASSUME NEW p \in Savers, Load(p) PROVE SettingsShapes'
  BY <1>6 DEF Load, Goes, Access
<1>7. ASSUME NEW p \in Savers, Update(p) PROVE SettingsShapes'
  <2>1. tenant' \in Tenant
    BY <1>7, UpdatedTyped DEF Update, Access
  <2> QED BY <1>7, <2>1 DEF Update, GoesOvertaking, Access, Sites0
<1>8. ASSUME NEW p \in Savers, Forget(p) PROVE SettingsShapes'
  BY <1>8 DEF Forget, Goes, Access, Cache
<1>9. ASSUME NEW p \in Savers, SaveFails(p) PROVE SettingsShapes'
  BY <1>9 DEF SaveFails, Leaves, Goes
<1>10. ASSUME NEW p \in Savers, Replace(p) PROVE SettingsShapes'
  BY <1>10 DEF Replace, GoesOvertaking, Access, Cache
<1>11. CASE Expire
  BY <1>11 DEF Expire
<1>12. CASE SettingsCrash
  BY <1>12 DEF SettingsCrash, Cache
<1>13. CASE UNCHANGED settingsVars
  BY <1>13 DEF settingsVars
<1> QED BY <1>1, <1>2, <1>3, <1>4, <1>5, <1>6, <1>7, <1>8, <1>9, <1>10, <1>11, <1>12, <1>13,
    InputsTyped
      DEF SettingsNext
-----------------------------------------------------------------------------
LEMMA LineInit == SettingsInit => SaversInLine
BY DEF SettingsInit, SaversInLine, Saving, NoAccess, Nothing

(* A call goes on, in the lock if it saves: the line stays as it is.       *)
LEMMA LineStays ==
    ASSUME SettingsShapes, SaversInLine, UNCHANGED line,
           access' \in [Savers -> Access],
           \A q \in Savers :
              /\ Saving(q)' <=> Saving(q)
              /\ access'[q].at = "line" => access[q].at = "line"
              /\ access'[q].at = "idle" => ~Saving(q)
              /\ access'[q].at \in {"load", "write", "forget"} => Saving(q)
              /\ Saving(q) /\ access[q].at = "line" /\ access'[q].at # "line" => q = Head(line)
    PROVE  SaversInLine'
BY DEF SaversInLine

LEMMA LineLeft ==
    ASSUME SettingsShapes, SaversInLine, NEW p \in Savers, access[p].at # "line", Leaves(p)
    PROVE  SaversInLine'
<1>1. access' = [access EXCEPT ![p] = NoAccess] /\ ~Saving(p)' /\ access'[p].at = "idle"
  BY DEF Leaves, Goes, Saving, NoAccess, Nothing, SettingsShapes
<1>2. \A q \in Savers \ {p} : access'[q] = access[q]
  BY <1>1 DEF SettingsShapes
<1>3. CASE ~Saving(p)
  BY <1>1, <1>2, <1>3 DEF SaversInLine, Leaves, Saving
<1>4. CASE Saving(p)
  <2>1. p = Head(line) /\ line # <<>> /\ line' = Tail(line)
    BY <1>4 DEF SaversInLine, Leaves
  <2>2. Len(line') = Len(line) - 1 /\ \A i \in 1..Len(line') : line'[i] = line[i + 1]
    BY <2>1 DEF SaversInLine
  <2>3. line[1] = p /\ \A i \in 2..Len(line) : line[i] # p
    BY <2>1 DEF SaversInLine
  <2>4. \A q \in Savers : Saving(q)' <=> \E i \in 1..Len(line') : line'[i] = q
    <3>1. ~\E i \in 1..Len(line') : line'[i] = p
      BY <2>2, <2>3 DEF SaversInLine
    <3>2. ASSUME NEW q \in Savers, q # p PROVE Saving(q)' <=> \E i \in 1..Len(line') : line'[i] = q
      <4>1. Saving(q)' <=> \E i \in 1..Len(line) : line[i] = q
        BY <1>2, <3>2 DEF SaversInLine, Saving
      <4>2. ASSUME NEW i \in 1..Len(line), line[i] = q PROVE \E j \in 1..Len(line') : line'[j] = q
        <5>1. i - 1 \in 1..Len(line') /\ line'[i - 1] = q
          BY <2>2, <2>3, <3>2, <4>2 DEF SaversInLine
        <5> QED BY <5>1
      <4>3. ASSUME NEW j \in 1..Len(line'), line'[j] = q PROVE \E i \in 1..Len(line) : line[i] = q
        <5>1. j + 1 \in 1..Len(line) /\ line[j + 1] = q
          BY <2>2, <4>3 DEF SaversInLine
        <5> QED BY <5>1
      <4> QED BY <4>1, <4>2, <4>3
    <3> QED BY <1>1, <3>1, <3>2
  <2>5. \A q \in Savers \ {p} : Saving(q) => access[q].at = "line"
    BY <2>1 DEF SaversInLine
  <2>6. line' \in Seq(Savers) /\ \A i, j \in 1..Len(line') : line'[i] = line'[j] => i = j
    <3>1. line' \in Seq(Savers)
      BY <2>1 DEF SaversInLine
    <3>2. ASSUME NEW i \in 1..Len(line'), NEW j \in 1..Len(line'), line'[i] = line'[j] PROVE i = j
      <4>1. i + 1 \in 1..Len(line) /\ j + 1 \in 1..Len(line) /\ line[i + 1] = line[j + 1]
        BY <2>2, <3>2 DEF SaversInLine
      <4> QED BY <4>1 DEF SaversInLine
    <3> QED BY <3>1, <3>2
  <2>7. \A q \in Savers \ {p} : access'[q] = access[q] /\ (Saving(q)' <=> Saving(q))
    BY <1>2 DEF Saving
  <2> QED BY <1>1, <2>4, <2>5, <2>6, <2>7 DEF SaversInLine
<1> QED BY <1>3, <1>4

LEMMA LineJoined ==
    ASSUME SettingsShapes, SaversInLine, NEW p \in Savers, NEW input \in Inputs, Save(p, input)
    PROVE  SaversInLine'
<1>1. /\ line' = Append(line, p) /\ ~Saving(p)
      /\ access' = [access EXCEPT ![p] = [NoAccess EXCEPT !.at = "line", !.input = input]]
  BY DEF Save, Goes, SaversInLine
<1>2. Saving(p)' /\ access'[p].at = "line" /\ \A q \in Savers \ {p} : access'[q] = access[q]
  BY <1>1 DEF Save, Saving, SettingsShapes, NoAccess, Nothing
<1>3. /\ Len(line') = Len(line) + 1 /\ line'[Len(line) + 1] = p
      /\ \A i \in 1..Len(line) : line'[i] = line[i]
  BY <1>1 DEF SaversInLine
<1>4. \A i \in 1..Len(line) : line[i] # p
  BY <1>1 DEF SaversInLine
<1>5. line' \in Seq(Savers) /\ \A i, j \in 1..Len(line') : line'[i] = line'[j] => i = j
  BY <1>1, <1>3, <1>4 DEF SaversInLine
<1>6. \A q \in Savers : Saving(q)' <=> \E i \in 1..Len(line') : line'[i] = q
  <2>1. ASSUME NEW q \in Savers \ {p} PROVE Saving(q)' <=> \E i \in 1..Len(line') : line'[i] = q
    <3>1. Saving(q)' <=> \E i \in 1..Len(line) : line[i] = q
      BY <1>2 DEF Saving, SaversInLine
    <3> QED BY <1>3, <3>1 DEF SaversInLine
  <2>2. \E i \in 1..Len(line') : line'[i] = p
    BY <1>3 DEF SaversInLine
  <2> QED BY <1>2, <2>1, <2>2
<1>7. line # <<>> => Head(line') = Head(line)
  BY <1>1, <1>3 DEF SaversInLine
<1>8. \A q \in Savers \ {p} :
         /\ (Saving(q)' <=> Saving(q)) /\ (Saving(q) => line # <<>>)
  BY <1>2 DEF Saving, SaversInLine
<1> QED BY <1>2, <1>5, <1>6, <1>7, <1>8 DEF SaversInLine

LEMMA LineStep == SettingsShapes /\ SaversInLine /\ [SettingsNext]_settingsVars => SaversInLine'
<1> SUFFICES ASSUME SettingsShapes, SaversInLine, [SettingsNext]_settingsVars PROVE SaversInLine'
  OBVIOUS
<1> USE DEF SettingsShapes
<1>0. access' \in [Savers -> Access]
  BY SettingsShapesStep
<1>1. ASSUME NEW p \in Savers, Read(p) PROVE SaversInLine'
  BY <1>0, <1>1, LineStays DEF Read, Goes, Saving, NoAccess, Nothing, SaversInLine
<1>2. ASSUME NEW p \in Savers, Enter(p) PROVE SaversInLine'
  BY <1>0, <1>2, LineStays DEF Enter, Goes, Saving, SaversInLine
<1>3. ASSUME NEW p \in Savers, NEW site, NEW late, access[p].at \in {"look", "fill"},
             Got(p, site, late)
      PROVE  SaversInLine'
  <2>1. CASE Saving(p) /\ ~access[p].written
    <3>1. UNCHANGED line /\ access' = [access EXCEPT ![p] = [access[p] EXCEPT
             !.at = "load", !.site = site, !.late = late, !.overtaken = FALSE]]
      BY <1>3, <2>1 DEF Got, Goes
    <3> QED BY <1>0, <1>3, <2>1, <3>1, LineStays DEF Saving, SaversInLine
  <2>2. CASE ~(Saving(p) /\ ~access[p].written)
    BY <1>3, <2>2, LineLeft DEF Got
  <2> QED BY <2>1, <2>2
<1>4. ASSUME NEW p \in Savers, Look(p) PROVE SaversInLine'
  <2>1. CASE ~cache.full
    <3>1. /\ UNCHANGED line /\ access[p].at = "look"
          /\ access' = [access EXCEPT ![p] =
                [access[p] EXCEPT !.at = "fill", !.site = tenant.site, !.overtaken = FALSE]]
      BY <1>4, <2>1 DEF Look, Goes
    <3> QED BY <1>0, <3>1, LineStays DEF Saving, SaversInLine
  <2>2. CASE cache.full
    <3>1. access[p].at = "look" /\ Got(p, cache.site, cache.late)
      BY <1>4, <2>2 DEF Look
    <3> QED BY <1>3, <3>1
  <2> QED BY <2>1, <2>2
<1>5. ASSUME NEW p \in Savers, Fill(p) PROVE SaversInLine'
  <2>1. access[p].at = "fill" /\ Got(p, access[p].site, access[p].overtaken)
    BY <1>5 DEF Fill
  <2> QED BY <1>3, <2>1
<1>6. ASSUME NEW p \in Savers, Load(p) PROVE SaversInLine'
  BY <1>0, <1>6, LineStays DEF Load, Goes, Saving, SaversInLine
<1>7. ASSUME NEW p \in Savers, Update(p) PROVE SaversInLine'
  BY <1>0, <1>7, LineStays DEF Update, GoesOvertaking, Saving, SaversInLine
<1>8. ASSUME NEW p \in Savers, Forget(p) PROVE SaversInLine'
  BY <1>0, <1>8, LineStays DEF Forget, Goes, Saving, SaversInLine
<1>9. ASSUME NEW p \in Savers, SaveFails(p) PROVE SaversInLine'
  BY <1>9, LineLeft DEF SaveFails
<1>10. ASSUME NEW p \in Savers, Replace(p) PROVE SaversInLine'
  BY <1>0, <1>10, LineStays DEF Replace, GoesOvertaking, Saving, SaversInLine, NoAccess, Nothing
<1>11. CASE Expire
  BY <1>11 DEF Expire, SaversInLine, Saving
<1>12. CASE SettingsCrash
  BY <1>12 DEF SettingsCrash, SaversInLine, Saving, NoAccess, Nothing
<1>13. CASE UNCHANGED settingsVars
  BY <1>13 DEF settingsVars, SaversInLine, Saving
<1> QED BY <1>1, <1>2, <1>4, <1>5, <1>6, <1>7, <1>8, <1>9, <1>10, <1>11, <1>12, <1>13,
    LineJoined, InputsTyped
      DEF SettingsNext
-----------------------------------------------------------------------------
SettingsCurrent == CacheCurrent /\ ReadsHold

(* Two saves are never past the line at once. *)
LEMMA OneSaver ==
    ASSUME SaversInLine, NEW p \in Savers, NEW q \in Savers,
           access[p].at \in {"load", "write", "forget"},
           Saving(q) /\ access[q].at \notin {"line"}
    PROVE  p = q
BY DEF SaversInLine

LEMMA SettingsCurrentInit == SettingsInit => SettingsCurrent
BY DEF SettingsInit, SettingsCurrent, CacheCurrent, ReadsHold, NoAccess, Empty

(* A call that only reads what is there, or ends, disturbs nothing.        *)
LEMMA SettingsCurrentGot ==
    ASSUME SettingsShapes, SaversInLine, SettingsCurrent, NEW p \in Savers,
           access[p].at \in {"look", "fill"},
           NEW site \in Sites0, NEW late \in BOOLEAN, Got(p, site, late),
           ~late => site = tenant.site, UNCHANGED tenant
    PROVE  ReadsHold' /\ \A q \in Savers : access[q].at = "forget" => access'[q].at = "forget"
<1>1. \A q \in Savers \ {p} : access'[q] = access[q]
  BY DEF Got, Leaves, Goes, SettingsShapes
<1>2. CASE Saving(p) /\ ~access[p].written
  <2>1. access'[p] = [access[p] EXCEPT !.at = "load", !.site = site, !.late = late,
                                       !.overtaken = FALSE]
    BY <1>2 DEF Got, Goes, SettingsShapes
  <2>2. access'[p].at = "load" /\ access'[p].site = site /\ access'[p].late = late
    BY <2>1 DEF SettingsShapes, Access
  <2> QED BY <1>1, <2>2 DEF SettingsCurrent, ReadsHold
<1>3. CASE ~(Saving(p) /\ ~access[p].written)
  <2>1. access'[p].at = "idle"
    BY <1>3 DEF Got, Leaves, Goes, NoAccess, SettingsShapes
  <2> QED BY <1>1, <2>1 DEF SettingsCurrent, ReadsHold
<1> QED BY <1>2, <1>3

LEMMA SettingsCurrentStep ==
    SettingsShapes /\ SaversInLine /\ SettingsCurrent /\ [SettingsNext]_settingsVars
    => SettingsCurrent'
<1> SUFFICES ASSUME SettingsShapes, SaversInLine, SettingsCurrent, [SettingsNext]_settingsVars
             PROVE  SettingsCurrent'
  OBVIOUS
<1> USE DEF SettingsShapes
<1>1. ASSUME NEW p \in Savers, Read(p) PROVE SettingsCurrent'
  BY <1>1 DEF Read, Goes, SettingsCurrent, CacheCurrent, ReadsHold, NoAccess
<1>2. ASSUME NEW p \in Savers, NEW input \in Inputs, Save(p, input) PROVE SettingsCurrent'
  BY <1>2 DEF Save, Goes, SettingsCurrent, CacheCurrent, ReadsHold, NoAccess
<1>3. ASSUME NEW p \in Savers, Enter(p) PROVE SettingsCurrent'
  BY <1>3 DEF Enter, Goes, SettingsCurrent, CacheCurrent, ReadsHold
<1>4. ASSUME NEW p \in Savers, Look(p) PROVE SettingsCurrent'
  <2>1. cache.site \in Sites0 /\ cache.late \in BOOLEAN /\ tenant.site \in Sites0
    BY DEF Cache, Tenant
  <2>2. CASE ~cache.full
    <3>1. /\ UNCHANGED <<tenant, cache>> /\ access[p].at = "look"
          /\ access' = [access EXCEPT ![p] =
                [access[p] EXCEPT !.at = "fill", !.site = tenant.site, !.overtaken = FALSE]]
      BY <1>4, <2>2 DEF Look, Goes
    <3>2. access'[p].at = "fill" /\ access'[p].site = tenant.site
      BY <3>1 DEF Access
    <3> QED BY <2>2, <3>1, <3>2 DEF SettingsCurrent, CacheCurrent, ReadsHold
  <2>3. CASE cache.full
    <3>1. access[p].at = "look" /\ Got(p, cache.site, cache.late) /\ UNCHANGED <<tenant, cache>>
      BY <1>4, <2>3 DEF Look
    <3>2. CASE \E q \in Savers : access[q].at = "forget"
      <4>1. PICK q \in Savers : access[q].at = "forget"
        BY <3>2
      <4>2. ~Saving(p)
        BY <3>1, <4>1, OneSaver
      <4>3. access' = [access EXCEPT ![p] = NoAccess]
        BY <3>1, <4>2 DEF Got, Leaves, Goes
      <4> QED BY <3>1, <4>1, <4>3 DEF SettingsCurrent, CacheCurrent, ReadsHold, NoAccess
    <3>3. CASE ~\E q \in Savers : access[q].at = "forget"
      <4>1. ~cache.late => cache.site = tenant.site
        BY <2>3, <3>3 DEF SettingsCurrent, CacheCurrent
      <4>2. ReadsHold'
        BY <2>1, <3>1, <4>1, SettingsCurrentGot
      <4> QED BY <3>1, <4>1, <4>2 DEF SettingsCurrent, CacheCurrent
    <3> QED BY <3>2, <3>3
  <2> QED BY <2>2, <2>3
<1>5. ASSUME NEW p \in Savers, Fill(p) PROVE SettingsCurrent'
  <2>1. access[p].site \in Sites0 /\ access[p].overtaken \in BOOLEAN
    BY DEF Access
  <2>2. /\ access[p].at = "fill" /\ Got(p, access[p].site, access[p].overtaken) /\ UNCHANGED tenant
        /\ \/ UNCHANGED cache
           \/ cache' = [full |-> TRUE, site |-> access[p].site, late |-> access[p].overtaken]
    BY <1>5 DEF Fill
  <2>3. ~access[p].overtaken => access[p].site = tenant.site
    BY <2>2 DEF SettingsCurrent, ReadsHold
  <2>4. ReadsHold' /\ \A q \in Savers : access[q].at = "forget" => access'[q].at = "forget"
    BY <2>1, <2>2, <2>3, SettingsCurrentGot
  <2> QED BY <2>2, <2>3, <2>4 DEF SettingsCurrent, CacheCurrent
<1>6. ASSUME NEW p \in Savers, Load(p) PROVE SettingsCurrent'
  <2>1. /\ UNCHANGED <<tenant, cache>> /\ access[p].at = "load"
        /\ access' = [access EXCEPT ![p] =
              [access[p] EXCEPT !.at = "write", !.row = tenant, !.overtaken = FALSE]]
    BY <1>6 DEF Load, Goes
  <2>2. /\ access'[p].at = "write" /\ access'[p].row = tenant
        /\ access'[p].site = access[p].site /\ access'[p].late = access[p].late
    BY <2>1 DEF Access
  <2> QED BY <2>1, <2>2 DEF SettingsCurrent, CacheCurrent, ReadsHold
<1>7. ASSUME NEW p \in Savers, Update(p) PROVE SettingsCurrent'
  <2>1. access[p].at = "write" /\ UNCHANGED cache /\ access'[p].at = "forget"
    BY <1>7 DEF Update, GoesOvertaking, Access
  <2>2. ASSUME NEW q \in Savers, q # p
        PROVE  /\ access'[q].at = access[q].at
               /\ access'[q].at = "fill" => access'[q].overtaken
               /\ access'[q].at \notin {"load", "write"}
    <3>1. access[q].at \notin {"load", "write"}
      BY <2>1, <2>2, OneSaver DEF SaversInLine
    <3> QED BY <1>7, <2>2, <3>1 DEF Update, GoesOvertaking, Access
  <2> QED BY <2>1, <2>2 DEF SettingsCurrent, CacheCurrent, ReadsHold
<1>8. ASSUME NEW p \in Savers, Forget(p) PROVE SettingsCurrent'
  <2>1. /\ UNCHANGED tenant /\ access[p].at = "forget"
        /\ access' = [access EXCEPT ![p] = [access[p] EXCEPT !.at = "look"]]
    BY <1>8 DEF Forget, Goes
  <2>2. ~cache'.full \/ cache'.late
    BY <1>8 DEF Forget, Empty, Cache
  <2>3. access'[p].at = "look"
    BY <2>1 DEF Access
  <2> QED BY <2>1, <2>2, <2>3 DEF SettingsCurrent, CacheCurrent, ReadsHold
<1>9. ASSUME NEW p \in Savers, SaveFails(p) PROVE SettingsCurrent'
  BY <1>9 DEF SaveFails, Leaves, Goes, SettingsCurrent, CacheCurrent, ReadsHold, NoAccess
<1>10. ASSUME NEW p \in Savers, Replace(p) PROVE SettingsCurrent'
  <2>1. ~cache'.full \/ cache'.late
    BY <1>10 DEF Replace, Cache
  <2>2. tenant'.password = NoSite /\ access'[p].at = "idle"
    BY <1>10 DEF Replace, Unset, GoesOvertaking, NoAccess
  <2>3. ASSUME NEW q \in Savers, q # p
        PROVE  /\ access'[q].at = access[q].at /\ access'[q].site = access[q].site
               /\ access'[q].late = access[q].late /\ access'[q].row = access[q].row
               /\ access'[q].at \in {"fill", "write"} => access'[q].overtaken
    BY <1>10, <2>3 DEF Replace, GoesOvertaking, Access
  <2> QED BY <2>1, <2>2, <2>3 DEF SettingsCurrent, CacheCurrent, ReadsHold
<1>11. CASE Expire
  BY <1>11 DEF Expire, SettingsCurrent, CacheCurrent, ReadsHold, Empty
<1>12. CASE SettingsCrash
  <2>1. \A p \in Savers : access'[p].at = "idle"
    BY <1>12 DEF SettingsCrash, NoAccess
  <2>2. /\ UNCHANGED tenant /\ cache'.full = cache.full /\ cache'.site = cache.site
        /\ cache.full /\ (cache.late \/ \E p \in Savers : access[p].at = "forget") => cache'.late
    BY <1>12 DEF SettingsCrash, Cache
  <2> QED BY <2>1, <2>2 DEF SettingsCurrent, CacheCurrent, ReadsHold
<1>13. CASE UNCHANGED settingsVars
  BY <1>13 DEF settingsVars, SettingsCurrent, CacheCurrent, ReadsHold
<1> QED BY <1>1, <1>2, <1>3, <1>4, <1>5, <1>6, <1>7, <1>8, <1>9, <1>10, <1>11, <1>12, <1>13,
    InputsTyped
      DEF SettingsNext
-----------------------------------------------------------------------------
(* Who writes, and what. *)
LEMMA SaveWrites ==
    ASSUME SettingsShapes, [SettingsNext]_settingsVars
    PROVE  /\ \A p \in Savers :
                 access[p].at = "write" /\ access'[p].at = "forget" => Update(p)
           /\ \/ UNCHANGED tenant \/ tenant' = Unset
              \/ \E p \in Savers : Update(p)
<1> DEFINE Claim == /\ \A p \in Savers :
                          access[p].at = "write" /\ access'[p].at = "forget" => Update(p)
                    /\ \/ UNCHANGED tenant \/ tenant' = Unset
                       \/ \E p \in Savers : Update(p)
<1> USE DEF SettingsShapes
<1>1. ASSUME NEW p \in Savers, Read(p) PROVE Claim
  BY <1>1 DEF Read, Goes, NoAccess
<1>2. ASSUME NEW p \in Savers, NEW input, Save(p, input) PROVE Claim
  BY <1>2 DEF Save, Goes, NoAccess
<1>3. ASSUME NEW p \in Savers, Enter(p) PROVE Claim
  BY <1>3 DEF Enter, Goes
<1>4. ASSUME NEW p \in Savers, Look(p) \/ Fill(p) PROVE Claim
  <2>1. access[p].at \in {"look", "fill"} /\ UNCHANGED tenant
    BY <1>4 DEF Look, Fill
  <2>2. \A q \in Savers \ {p} : access'[q] = access[q]
    BY <1>4 DEF Look, Fill, Got, Leaves, Goes
  <2> QED BY <2>1, <2>2
<1>5. ASSUME NEW p \in Savers, Load(p) PROVE Claim
  BY <1>5 DEF Load, Goes, Access
<1>6. ASSUME NEW p \in Savers, Update(p) PROVE Claim
  <2>1. \A q \in Savers \ {p} : access'[q].at = access[q].at
    BY <1>6 DEF Update, GoesOvertaking, Access
  <2> QED BY <1>6, <2>1
<1>7. ASSUME NEW p \in Savers, Forget(p) PROVE Claim
  BY <1>7 DEF Forget, Goes
<1>8. ASSUME NEW p \in Savers, SaveFails(p) PROVE Claim
  BY <1>8 DEF SaveFails, Leaves, Goes, NoAccess
<1>9. ASSUME NEW p \in Savers, Replace(p) PROVE Claim
  <2>1. \A q \in Savers : access'[q].at = access[q].at \/ access'[q].at = "idle"
    BY <1>9 DEF Replace, GoesOvertaking, Access, NoAccess
  <2> QED BY <1>9, <2>1 DEF Replace
<1>10. CASE Expire
  BY <1>10 DEF Expire
<1>11. CASE SettingsCrash
  BY <1>11 DEF SettingsCrash, NoAccess
<1>12. CASE UNCHANGED settingsVars
  BY <1>12 DEF settingsVars
<1> QED BY <1>1, <1>2, <1>3, <1>4, <1>5, <1>6, <1>7, <1>8, <1>9, <1>10, <1>11, <1>12
    DEF SettingsNext

LEMMA PasswordStep ==
    ASSUME SettingsShapes, SaversInLine, SettingsCurrent, [SettingsNext]_settingsVars,
           PasswordMisplaced(tenant'), ~PasswordMisplaced(tenant)
    PROVE  \E p \in Savers :
               /\ access[p].at = "write" /\ access'[p].at = "forget"
               /\ \/ binds /\ (access[p].late \/ access[p].overtaken)
                  \/ /\ ~binds
                     /\ \/ access[p].input.what = "site" /\ ~access[p].input.password
                        \/ access[p].overtaken
<1>1. tenant' # Unset /\ tenant' # tenant
  BY DEF PasswordMisplaced, Unset
<1>2. PICK p \in Savers : Update(p)
  BY <1>1, SaveWrites
<1>3. /\ access[p].at = "write" /\ access'[p].at = "forget"
      /\ tenant' = Updated(access[p].input, access[p].site, access[p].row)
  BY <1>2 DEF Update, GoesOvertaking, SettingsShapes, Access
<1>4. tenant.password \in {NoSite, tenant.site}
  BY DEF PasswordMisplaced
<1>5. CASE access[p].overtaken
  BY <1>3, <1>5
<1>6. CASE ~access[p].overtaken /\ binds
  <2>1. SUFFICES ASSUME ~access[p].late PROVE FALSE
    BY <1>3, <1>6
  <2>2. /\ access[p].row = tenant
        /\ tenant.password = NoSite \/ access[p].site = tenant.site
    BY <1>3, <1>6, <2>1 DEF SettingsCurrent, ReadsHold
  <2>3. ~PasswordMisplaced(tenant')
    BY <1>3, <1>4, <1>6, <2>2 DEF Updated, PasswordMisplaced, SettingsShapes, Tenant
  <2> QED BY <2>3
<1>7. CASE ~access[p].overtaken /\ ~binds
  <2>1. access[p].row = tenant
    BY <1>3, <1>7 DEF SettingsCurrent, ReadsHold
  <2>2. access[p].input \in Inputs /\ access[p].input.what # "none"
    <3>1. access[p].input.what # "none"
      BY <1>3 DEF SaversInLine, Saving
    <3> QED BY <3>1 DEF SettingsShapes, Access
  <2>3. SUFFICES ASSUME access[p].input.what = "tab" \/ access[p].input.password PROVE FALSE
    BY <1>3, <1>7, <2>2 DEF Inputs
  <2>4. ~PasswordMisplaced(tenant')
    BY <1>3, <1>4, <2>1, <2>3 DEF Updated, PasswordMisplaced, SettingsShapes, Tenant
  <2> QED BY <2>4
<1> QED BY <1>5, <1>6, <1>7

LEMMA TabStep ==
    ASSUME SettingsShapes, SettingsCurrent, [SettingsNext]_settingsVars, NEW p \in Savers,
           access[p].at = "write", access'[p].at = "forget", ~access[p].overtaken
    PROVE  /\ access[p].input.what = "site" => tenant'.tab = tenant.tab
           /\ access[p].input.what = "tab" =>
                 tenant'.site = tenant.site /\ tenant'.password = tenant.password
<1>1. tenant' = Updated(access[p].input, access[p].site, tenant)
  BY SaveWrites DEF Update, SettingsCurrent, ReadsHold
<1> QED BY <1>1 DEF Updated, SettingsShapes, Tenant
-----------------------------------------------------------------------------
SettingsHold == binds \in BOOLEAN /\ SettingsShapes /\ SaversInLine /\ SettingsCurrent

LEMMA SettingsInvariant == SettingsSpec => []SettingsHold
<1>1. SettingsInit => SettingsHold
  BY SettingsShapesInit, LineInit, SettingsCurrentInit DEF SettingsInit, SettingsHold
<1>2. SettingsHold /\ [SettingsNext]_settingsVars => SettingsHold'
  <2> SUFFICES ASSUME SettingsHold, [SettingsNext]_settingsVars PROVE SettingsHold'
    OBVIOUS
  <2>1. binds' = binds
    BY DEF SettingsNext, settingsVars
  <2>2. (SettingsShapes /\ SaversInLine /\ SettingsCurrent)'
    BY SettingsShapesStep, LineStep, SettingsCurrentStep DEF SettingsHold
  <2> QED BY <2>1, <2>2 DEF SettingsHold
<1> QED BY <1>1, <1>2, PTL DEF SettingsSpec

LEMMA SettingsTypes == SettingsHold => TenantSettingsTypeOK
<1> SUFFICES ASSUME binds \in BOOLEAN, SettingsShapes, SaversInLine PROVE TenantSettingsTypeOK
  BY DEF SettingsHold
<1>1. \A i \in 1..Len(line) : line[i] \in Savers
  BY DEF SaversInLine
<1>2. {line[i] : i \in 1..Len(line)} = {p \in Savers : Saving(p)}
  BY <1>1 DEF SaversInLine
<1> QED BY <1>2 DEF TenantSettingsTypeOK, SettingsShapes, SaversInLine

(* The settings and their cache keep their types, and who saves is in line.*)
THEOREM SettingsTyped == SettingsSpec => []TenantSettingsTypeOK
BY SettingsInvariant, SettingsTypes, PTL

(* The cache of the settings is behind them only as far as the run checks. *)
THEOREM SettingsCached == SettingsSpec => []CacheCurrent
<1>1. SettingsHold => CacheCurrent
  BY DEF SettingsHold, SettingsCurrent
<1> QED BY <1>1, SettingsInvariant, PTL

(* A save of one tab of the settings takes nothing from a save of another, *)
(* and leaves a password beside an address it was not given for only where *)
(* PasswordForItsHost says so: always possible for an address that does    *)
(* not bind its password, and otherwise by a cache that is out of date or  *)
(* a replacement of all settings.                                          *)
THEOREM SettingsSaved == SettingsSpec => SavesKept
<1>1. SettingsHold /\ [SettingsNext]_settingsVars
        => [ PasswordMisplaced(tenant') /\ ~PasswordMisplaced(tenant) =>
             \E p \in Savers :
                 /\ access[p].at = "write" /\ access'[p].at = "forget"
                 /\ \/ binds /\ (access[p].late \/ access[p].overtaken)
                    \/ /\ ~binds
                       /\ \/ access[p].input.what = "site" /\ ~access[p].input.password
                          \/ access[p].overtaken ]_settingsVars
  BY PasswordStep DEF SettingsHold
<1>2. SettingsHold /\ [SettingsNext]_settingsVars
        => [ \A p \in Savers :
        access[p].at = "write" /\ access'[p].at = "forget" /\ ~access[p].overtaken =>
            /\ access[p].input.what = "site" => tenant'.tab = tenant.tab
            /\ access[p].input.what = "tab" =>
                  tenant'.site = tenant.site /\ tenant'.password = tenant.password ]_settingsVars
  BY TabStep DEF SettingsHold
<1> QED BY <1>1, <1>2, SettingsInvariant, PTL
    DEF SavesKept, PasswordForItsHost, TabsKept, SettingsSpec
-----------------------------------------------------------------------------
(* PlatformConfig *)

ConfigShapes == row \in Row /\ writing \in [Writers -> Writing]

(* What a call that could read everything and was not overtaken has read   *)
(* is still so: the host, the languages, and at the end the whole row.     *)
ReadsCurrent ==
    \A p \in Writers :
        /\ writing[p].at # "idle" => writing[p].op \in {"keyed", "learn"}
        /\ writing[p].at \in {"row", "write"} /\ ~writing[p].unread /\ ~writing[p].overtaken
           => /\ writing[p].op = "keyed" => writing[p].host = row.keyed.host
              /\ writing[p].op = "learn" => row.languages \subseteq writing[p].languages
        /\ Clean(p) => writing[p].row = row
-----------------------------------------------------------------------------
LEMMA NoRowTyped == NoRow \in Row
BY ConfigAssumption DEF ConfigAssumption, NoRow, Row, NoKeyed, Keyed

LEMMA NoWritingTyped == NoWriting \in Writing
<1>1. NoneGiven \in Given
  BY DEF NoneGiven, Given
<1> QED BY <1>1, NoRowTyped, ConfigAssumption DEF ConfigAssumption, NoWriting, Writing

LEMMA SavedTyped ==
    ASSUME NEW given \in Given, NEW host \in Hosts, NEW k \in Keyed
    PROVE  Saved(given, host, k) \in Keyed
BY DEF Saved, Given, Keyed

LEMMA WrittenTyped == ASSUME NEW r \in Writing PROVE Written(r) \in Row
<1>1. Saved(r.given, r.host, r.row.keyed) \in Keyed
  <2>1. r.given \in Given /\ r.host \in Hosts /\ r.row.keyed \in Keyed
    BY DEF Writing, Row
  <2> QED BY <2>1, SavedTyped
<1>2. r.row \in Row /\ r.languages \in SUBSET Languages
  BY DEF Writing
<1> QED BY <1>1, <1>2 DEF Written, Row

(* A call that goes on. *)
LEMMA ProceedKeeps ==
    ASSUME ConfigShapes, ReadsCurrent, NEW p \in Writers, NEW r \in Writing, Proceed(p, r),
           /\ r.at # "idle" => r.op \in {"keyed", "learn"}
           /\ r.at \in {"row", "write"} /\ ~r.unread /\ ~r.overtaken
              => /\ r.op = "keyed" => r.host = row.keyed.host
                 /\ r.op = "learn" => row.languages \subseteq r.languages
           /\ r.at = "write" /\ ~r.unread /\ ~r.overtaken => r.row = row
    PROVE  (ConfigShapes /\ ReadsCurrent)'
<1>1. row' = row /\ writing' \in [Writers -> Writing]
  BY DEF Proceed, ConfigShapes
<1>2. \A q \in Writers : writing'[q] = IF q = p THEN r ELSE writing[q]
  BY DEF Proceed, ConfigShapes
<1>3. ReadsCurrent'
  BY <1>1, <1>2 DEF ReadsCurrent, Clean
<1> QED BY <1>1, <1>3 DEF ConfigShapes

LEMMA BeginKeeps ==
    ASSUME ConfigShapes, ReadsCurrent, NEW p \in Writers,
           \/ \E given \in Given : SaveKeyed(p, given)
           \/ \E l \in Languages : Learn(p, l)
           \/ WriteFails(p)
    PROVE  (ConfigShapes /\ ReadsCurrent)'
<1>1. ASSUME NEW given \in Given, SaveKeyed(p, given) PROVE (ConfigShapes /\ ReadsCurrent)'
  <2> DEFINE r == [NoWriting EXCEPT !.op = "keyed", !.at = "section", !.given = given]
  <2>1. r \in Writing /\ r.at = "section" /\ r.op = "keyed"
    BY NoWritingTyped DEF Writing
  <2> QED BY <1>1, <2>1, ProceedKeeps DEF SaveKeyed
<1>2. ASSUME NEW l \in Languages, Learn(p, l) PROVE (ConfigShapes /\ ReadsCurrent)'
  <2> DEFINE r == [NoWriting EXCEPT !.op = "learn", !.at = "section", !.languages = {l}]
  <2>1. r \in Writing /\ r.at = "section" /\ r.op = "learn"
    BY NoWritingTyped DEF Writing
  <2> QED BY <1>2, <2>1, ProceedKeeps DEF Learn
<1>3. CASE WriteFails(p)
  <2>1. NoWriting.at = "idle"
    BY DEF NoWriting
  <2> QED BY <1>3, <2>1, NoWritingTyped, ProceedKeeps DEF WriteFails
<1> QED BY <1>1, <1>2, <1>3

LEMMA ReadSectionKeeps ==
    ASSUME ConfigShapes, ReadsCurrent, NEW p \in Writers, ReadSection(p)
    PROVE  (ConfigShapes /\ ReadsCurrent)'
<1>1. PICK read \in {row, NoRow} :
        Proceed(p, [writing[p] EXCEPT
                      !.at = "row", !.unread = read # row,
                      !.host = IF writing[p].op = "keyed" THEN read.keyed.host ELSE @,
                      !.languages = IF writing[p].op = "learn" THEN @ \cup read.languages ELSE @])
  BY DEF ReadSection
<1> DEFINE r == [writing[p] EXCEPT
                   !.at = "row", !.unread = read # row,
                   !.host = IF writing[p].op = "keyed" THEN read.keyed.host ELSE @,
                   !.languages = IF writing[p].op = "learn" THEN @ \cup read.languages ELSE @]
<1>2. read \in Row /\ writing[p] \in Writing /\ writing[p].at = "section"
  BY NoRowTyped DEF ConfigShapes, ReadSection
<1>3. read.keyed.host \in Hosts /\ read.languages \subseteq Languages
  BY <1>2 DEF Row, Keyed
<1>4. r \in Writing
  BY <1>2, <1>3 DEF Writing
<1>5. /\ r.at = "row" /\ r.op = writing[p].op /\ r.unread = (read # row)
      /\ r.op = "keyed" => r.host = read.keyed.host
      /\ r.op = "learn" => read.languages \subseteq r.languages
  BY <1>2 DEF Writing
<1>6. writing[p].op \in {"keyed", "learn"}
  BY <1>2 DEF ReadsCurrent
<1> HIDE DEF r
<1> QED BY <1>1, <1>4, <1>5, <1>6, ProceedKeeps DEF r

LEMMA ReadRowKeeps ==
    ASSUME ConfigShapes, ReadsCurrent, NEW p \in Writers, ReadRow(p)
    PROVE  (ConfigShapes /\ ReadsCurrent)'
<1>1. PICK read \in {row, NoRow} :
        Proceed(p, [writing[p] EXCEPT !.at = "write", !.row = read, !.unread = @ \/ read # row])
  BY DEF ReadRow
<1> DEFINE r == [writing[p] EXCEPT !.at = "write", !.row = read, !.unread = @ \/ read # row]
<1>2. read \in Row /\ writing[p] \in Writing /\ writing[p].at = "row"
  BY NoRowTyped DEF ConfigShapes, ReadRow
<1>3. r \in Writing
  BY <1>2 DEF Writing
<1>4. /\ r.at = "write" /\ r.op = writing[p].op /\ r.row = read
      /\ r.host = writing[p].host /\ r.languages = writing[p].languages
      /\ r.overtaken = writing[p].overtaken /\ (r.unread <=> writing[p].unread \/ read # row)
  BY <1>2 DEF Writing
<1>5. /\ r.op \in {"keyed", "learn"}
      /\ ~r.unread /\ ~r.overtaken
         => /\ r.op = "keyed" => r.host = row.keyed.host
            /\ r.op = "learn" => row.languages \subseteq r.languages
            /\ r.row = row
  BY <1>2, <1>4 DEF ReadsCurrent
<1> HIDE DEF r
<1> QED BY <1>1, <1>3, <1>4, <1>5, ProceedKeeps DEF r

LEMMA WriteRowKeeps ==
    ASSUME ConfigShapes, ReadsCurrent, NEW p \in Writers, WriteRow(p)
    PROVE  (ConfigShapes /\ ReadsCurrent)'
<1>1. row' \in Row
  BY WrittenTyped DEF WriteRow, ConfigShapes
<1>2. ASSUME NEW q \in Writers PROVE [writing[q] EXCEPT !.overtaken = TRUE] \in Writing
  BY DEF ConfigShapes, Writing
<1>3. writing' \in [Writers -> Writing]
  BY <1>2, NoWritingTyped DEF WriteRow, ConfigShapes
<1>4. ASSUME NEW q \in Writers
      PROVE  \/ q = p /\ writing'[q] = NoWriting
             \/ /\ q # p /\ writing[q].at \in {"row", "write"}
                /\ writing'[q].at = writing[q].at /\ writing'[q].op = writing[q].op
                /\ writing'[q].overtaken = TRUE
             \/ writing[q].at \notin {"row", "write"} /\ writing'[q] = writing[q]
  BY DEF WriteRow, ConfigShapes, Writing
<1>5. NoWriting.at = "idle"
  BY DEF NoWriting
<1>6. ReadsCurrent'
  BY <1>4, <1>5 DEF ReadsCurrent, Clean
<1> QED BY <1>1, <1>3, <1>6 DEF ConfigShapes

LEMMA ConfigStep ==
    ConfigShapes /\ ReadsCurrent /\ [ConfigNext]_configVars => (ConfigShapes /\ ReadsCurrent)'
<1> SUFFICES ASSUME ConfigShapes, ReadsCurrent, [ConfigNext]_configVars
             PROVE  (ConfigShapes /\ ReadsCurrent)'
  OBVIOUS
<1>1. CASE UNCHANGED configVars
  BY <1>1 DEF configVars, ConfigShapes, ReadsCurrent, Clean
<1>2. CASE ConfigNext
  BY <1>2, BeginKeeps, ReadSectionKeeps, ReadRowKeeps, WriteRowKeeps DEF ConfigNext
<1> QED BY <1>1, <1>2

ConfigHold == clears \in BOOLEAN /\ ConfigShapes /\ ReadsCurrent

LEMMA ConfigInvariant == ConfigSpec => []ConfigHold
<1>1. ConfigInit => ConfigHold
  BY NoRowTyped, NoWritingTyped
  DEF ConfigInit, ConfigHold, ConfigShapes, ReadsCurrent, Clean, NoWriting
<1>2. ConfigHold /\ [ConfigNext]_configVars => ConfigHold'
  <2> SUFFICES ASSUME ConfigHold, [ConfigNext]_configVars PROVE ConfigHold'
    OBVIOUS
  <2>1. clears' = clears
    BY DEF ConfigNext, configVars
  <2>2. (ConfigShapes /\ ReadsCurrent)'
    BY ConfigStep DEF ConfigHold
  <2> QED BY <2>1, <2>2 DEF ConfigHold
<1> QED BY <1>1, <1>2, PTL DEF ConfigSpec

(* Nothing but WriteRow changes the row. *)
LEMMA RowWrites ==
    ASSUME [ConfigNext]_configVars, row' # row PROVE \E p \in Writers : WriteRow(p)
BY DEF ConfigNext, configVars, SaveKeyed, Learn, ReadSection, ReadRow, WriteFails, Proceed

LEMMA WritesOne ==
    ASSUME ConfigShapes, NEW p \in Writers, WriteRow(p)
    PROVE  writing[p].at = "write" /\ writing'[p] = NoWriting /\ row' = Written(writing[p])
BY DEF WriteRow, ConfigShapes

LEMMA CleanWrites ==
    ASSUME ConfigShapes, ReadsCurrent, NEW p \in Writers, WriteRow(p), Clean(p)
    PROVE  /\ row.languages \subseteq row'.languages
           /\ row'.keyed # row.keyed => writing[p].op = "keyed"
           /\ KeyMisplaced(row'.keyed) =>
                 \/ KeyMisplaced(row.keyed)
                 \/ /\ ~clears /\ writing[p].op = "keyed"
                    /\ writing[p].given.host # NoKey /\ ~writing[p].given.key
<1>1. /\ row' = Written(writing[p]) /\ writing[p].row = row /\ row \in Row
      /\ writing[p].op \in {"keyed", "learn"} /\ writing[p].given \in Given
      /\ writing[p].op = "keyed" => writing[p].host = row.keyed.host
      /\ writing[p].op = "learn" => row.languages \subseteq writing[p].languages
  BY WritesOne DEF Clean, ReadsCurrent, ConfigShapes, Writing
<1>2. CASE writing[p].op = "keyed"
  <2>1. row' = [row EXCEPT !.keyed = Saved(writing[p].given, row.keyed.host, row.keyed)]
    BY <1>1, <1>2 DEF Written
  <2>2. row'.languages = row.languages
        /\ row'.keyed = Saved(writing[p].given, row.keyed.host, row.keyed)
    BY <1>1, <2>1 DEF Row
  <2>3. KeyMisplaced(row'.keyed) =>
           \/ KeyMisplaced(row.keyed)
           \/ ~clears /\ writing[p].given.host # NoKey /\ ~writing[p].given.key
    BY <1>1, <2>2, ConfigAssumption
    DEF ConfigAssumption, Saved, KeyMisplaced, Given, Row, Keyed
  <2> QED BY <1>2, <2>2, <2>3
<1>3. CASE writing[p].op = "learn"
  <2>1. row' = [row EXCEPT !.languages = writing[p].languages]
    BY <1>1, <1>3 DEF Written
  <2> QED BY <1>1, <1>3, <2>1 DEF Row
<1> QED BY <1>1, <1>2, <1>3

(* The row keeps its type, and who could read everything and was not       *)
(* overtaken has read it as it is.                                         *)
THEOREM ConfigTyped == ConfigSpec => []PlatformConfigTypeOK
<1>1. ConfigHold => PlatformConfigTypeOK
  BY DEF ConfigHold, ConfigShapes, ReadsCurrent, PlatformConfigTypeOK
<1> QED BY <1>1, ConfigInvariant, PTL

(* A save of a section leaves the others alone, and a key beside its host, *)
(* but for reads that failed and writes that overlapped, and for the       *)
(* worker's secret, which a save of a new worker alone leaves beside it.   *)
THEOREM ConfigSaved == ConfigSpec => ConfigKept
<1>1. ConfigHold /\ [ConfigNext]_configVars
      => [ row' # row =>
           \E p \in Writers : /\ writing[p].at = "write" /\ writing'[p] = NoWriting
                              /\ Clean(p) =>
                                   /\ row.languages \subseteq row'.languages
                                   /\ row'.keyed # row.keyed => writing[p].op = "keyed" ]_configVars
  BY RowWrites, WritesOne, CleanWrites DEF ConfigHold
<1>2. ConfigHold /\ [ConfigNext]_configVars
      => [ KeyMisplaced(row'.keyed) /\ ~KeyMisplaced(row.keyed) =>
           \E p \in Writers :
               /\ writing[p].at = "write" /\ writing'[p] = NoWriting
               /\ \/ ~Clean(p)
                  \/ /\ ~clears /\ writing[p].op = "keyed"
                     /\ writing[p].given.host # NoKey /\ ~writing[p].given.key ]_configVars
  BY RowWrites, WritesOne, CleanWrites DEF ConfigHold
<1> QED BY <1>1, <1>2, ConfigInvariant, PTL
    DEF ConfigSpec, ConfigKept, SectionsKept, KeyForItsHost
-----------------------------------------------------------------------------
(* Release *)

(* Stages of a release by what it has done. *)
Prepared == {"candidate", "backedUp", "pulled", "migrated", "moved"}
Switched == {"switched", "started", "verified", "recorded"}
Backed   == {"backedUp", "pulled", "migrated", "moved"} \cup Switched

(* Whatever may be started has its migrations. *)
Migrated ==
    /\ env.version <= schema /\ backup.env.version <= schema
    /\ api # NoContainers => api.version <= schema
    /\ stage \in {"migrated", "moved"} => target <= schema

(* What the stages leave behind them. *)
FilesOfStage ==
    /\ stage \in Prepared \cup Switched => candidate.version = target
    /\ stage \in {"backedUp", "pulled", "migrated"} => compose = backup.compose
    /\ stage \in {"backedUp", "pulled", "migrated", "moved"} =>
          env.version = backup.env.version
    /\ stage \in Backed => installed = IF stage = "recorded" THEN target ELSE backup.installed
    /\ stage \in {"moved"} \cup Switched => compose = target
    /\ stage \in Switched => env.version = target
    /\ stage \in Backed \ {"backedUp"} => target \in images

(* Unless a release was left half done, the version that runs, or the one  *)
(* a rollback would bring back, is whole and its images are there.         *)
Whole ==
    ~parted =>
        /\ stage \in {"idle", "reclaimed", "candidate"} =>
              compose = env.version /\ installed = env.version /\ installed \in images
        /\ stage \in Backed =>
              /\ backup.compose = backup.env.version /\ backup.installed = backup.env.version
              /\ backup.installed \in images

(* Keys: the first one, 0, is replaced once, and kept as the one before.   *)
KeysKept ==
    /\ env.previous = 0 /\ backup.env.previous = 0 /\ candidate.previous = 0
    /\ stage \in Prepared /\ env.key # 0 => candidate.key = env.key
    /\ api # NoContainers => api.previous = 0 /\ api.key \in {0, env.key}
    /\ ~undone => /\ sealed \subseteq {0, env.key}
                  /\ api # NoContainers => sealed \subseteq {0, api.key}

-----------------------------------------------------------------------------
LEMMA ReleaseTypeInit == ReleaseInit => ReleaseTypeOK
<1> SUFFICES ASSUME ReleaseInit PROVE ReleaseTypeOK
  OBVIOUS
<1>1. 1 \in Versions /\ 0 \in 0..MaxReleases
  BY ReleaseAssumption DEF ReleaseAssumption, Versions
<1>2. env \in Envs
  BY <1>1 DEF ReleaseInit, Envs
<1>3. backup \in [compose : Versions, env : Envs, installed : Versions]
  BY <1>1, <1>2 DEF ReleaseInit
<1> QED BY <1>1, <1>2, <1>3 DEF ReleaseInit, ReleaseTypeOK, Stages

LEMMA ReleaseTypeStep == ReleaseTypeOK /\ [ReleaseNext]_releaseVars => ReleaseTypeOK'
<1> SUFFICES ASSUME ReleaseTypeOK, [ReleaseNext]_releaseVars PROVE ReleaseTypeOK'
  OBVIOUS
<1> USE ReleaseAssumption
    DEF ReleaseTypeOK, Envs, Versions, Stages, files, plan, marks, From, OnlyImages
<1>1. ASSUME NEW v \in Versions, Reclaim(v) PROVE ReleaseTypeOK'
  BY <1>1 DEF Reclaim
<1>2. CASE Prepare
  BY <1>2 DEF Prepare
<1>3. CASE BackUp
  BY <1>3 DEF BackUp
<1>4. CASE Pull
  BY <1>4 DEF Pull
<1>5. CASE Migrate
  BY <1>5 DEF Migrate
<1>6. CASE MoveCompose
  BY <1>6 DEF MoveCompose
<1>7. CASE MoveEnv
  BY <1>7 DEF MoveEnv
<1>8. CASE RemoveOld
  BY <1>8 DEF RemoveOld
<1>9. CASE StartServices
  BY <1>9 DEF StartServices
<1>10. CASE Verify
  BY <1>10 DEF Verify
<1>11. CASE Record
  BY <1>11 DEF Record
<1>12. CASE Retire
  BY <1>12 DEF Retire
<1>13. CASE FailsBefore
  BY <1>13 DEF FailsBefore
<1>14. CASE RollBack
  BY <1>14 DEF RollBack
<1>15. CASE CutOff
  BY <1>15 DEF CutOff
<1>16. CASE StoreSecret
  BY <1>16 DEF StoreSecret
<1>17. CASE UNCHANGED releaseVars
  BY <1>17 DEF releaseVars
<1> QED BY <1>1, <1>2, <1>3, <1>4, <1>5, <1>6, <1>7, <1>8, <1>9, <1>10, <1>11, <1>12, <1>13,
    <1>14, <1>15, <1>16, <1>17 DEF ReleaseNext

LEMMA MigratedStep ==
    ReleaseTypeOK /\ Migrated /\ FilesOfStage /\ [ReleaseNext]_releaseVars => Migrated'
<1> SUFFICES ASSUME ReleaseTypeOK, Migrated, FilesOfStage, [ReleaseNext]_releaseVars PROVE Migrated'
  OBVIOUS
<1> USE
    DEF Migrated, files, plan, marks, From, OnlyImages, FilesOfStage, ReleaseTypeOK, Envs,
        Versions, Stages, Prepared, Switched, Backed
<1>1. ASSUME NEW v \in Versions, Reclaim(v) PROVE Migrated'
  BY <1>1 DEF Reclaim
<1>2. CASE Prepare
  BY <1>2 DEF Prepare
<1>3. CASE BackUp
  BY <1>3 DEF BackUp
<1>4. CASE Pull
  BY <1>4 DEF Pull
<1>5. CASE Migrate
  BY <1>5 DEF Migrate
<1>6. CASE MoveCompose
  BY <1>6 DEF MoveCompose
<1>7. CASE MoveEnv
  BY <1>7 DEF MoveEnv
<1>8. CASE RemoveOld
  BY <1>8 DEF RemoveOld
<1>9. CASE StartServices
  BY <1>9 DEF StartServices
<1>10. CASE Verify
  BY <1>10 DEF Verify
<1>11. CASE Record
  BY <1>11 DEF Record
<1>12. CASE Retire
  BY <1>12 DEF Retire
<1>13. CASE FailsBefore
  BY <1>13 DEF FailsBefore
<1>14. CASE RollBack
  BY <1>14 DEF RollBack
<1>15. CASE CutOff
  BY <1>15 DEF CutOff
<1>16. CASE StoreSecret
  BY <1>16 DEF StoreSecret
<1>17. CASE UNCHANGED releaseVars
  BY <1>17 DEF releaseVars
<1> QED BY <1>1, <1>2, <1>3, <1>4, <1>5, <1>6, <1>7, <1>8, <1>9, <1>10, <1>11, <1>12, <1>13,
    <1>14, <1>15, <1>16, <1>17 DEF ReleaseNext

LEMMA FilesStep == ReleaseTypeOK /\ FilesOfStage /\ [ReleaseNext]_releaseVars => FilesOfStage'
<1> SUFFICES ASSUME ReleaseTypeOK, FilesOfStage, [ReleaseNext]_releaseVars PROVE FilesOfStage'
  OBVIOUS
<1> USE
    DEF files, plan, marks, From, OnlyImages, FilesOfStage, ReleaseTypeOK, Envs, Versions,
        Stages, Prepared, Switched, Backed
<1>1. ASSUME NEW v \in Versions, Reclaim(v) PROVE FilesOfStage'
  BY <1>1 DEF Reclaim
<1>2. CASE Prepare
  BY <1>2 DEF Prepare
<1>3. CASE BackUp
  BY <1>3 DEF BackUp
<1>4. CASE Pull
  BY <1>4 DEF Pull
<1>5. CASE Migrate
  BY <1>5 DEF Migrate
<1>6. CASE MoveCompose
  BY <1>6 DEF MoveCompose
<1>7. CASE MoveEnv
  BY <1>7 DEF MoveEnv
<1>8. CASE RemoveOld
  BY <1>8 DEF RemoveOld
<1>9. CASE StartServices
  BY <1>9 DEF StartServices
<1>10. CASE Verify
  BY <1>10 DEF Verify
<1>11. CASE Record
  BY <1>11 DEF Record
<1>12. CASE Retire
  BY <1>12 DEF Retire
<1>13. CASE FailsBefore
  BY <1>13 DEF FailsBefore
<1>14. CASE RollBack
  BY <1>14 DEF RollBack
<1>15. CASE CutOff
  BY <1>15 DEF CutOff
<1>16. CASE StoreSecret
  BY <1>16 DEF StoreSecret
<1>17. CASE UNCHANGED releaseVars
  BY <1>17 DEF releaseVars
<1> QED BY <1>1, <1>2, <1>3, <1>4, <1>5, <1>6, <1>7, <1>8, <1>9, <1>10, <1>11, <1>12, <1>13,
    <1>14, <1>15, <1>16, <1>17 DEF ReleaseNext

LEMMA WholeStep == ReleaseTypeOK /\ FilesOfStage /\ Whole /\ [ReleaseNext]_releaseVars => Whole'
<1> SUFFICES ASSUME ReleaseTypeOK, FilesOfStage, Whole, [ReleaseNext]_releaseVars PROVE Whole'
  OBVIOUS
<1> USE
    DEF Whole, files, plan, marks, From, OnlyImages, FilesOfStage, ReleaseTypeOK, Envs,
        Versions, Stages, Prepared, Switched, Backed
<1>1. ASSUME NEW v \in Versions, Reclaim(v) PROVE Whole'
  BY <1>1 DEF Reclaim
<1>2. CASE Prepare
  BY <1>2 DEF Prepare
<1>3. CASE BackUp
  BY <1>3 DEF BackUp
<1>4. CASE Pull
  BY <1>4 DEF Pull
<1>5. CASE Migrate
  BY <1>5 DEF Migrate
<1>6. CASE MoveCompose
  BY <1>6 DEF MoveCompose
<1>7. CASE MoveEnv
  BY <1>7 DEF MoveEnv
<1>8. CASE RemoveOld
  BY <1>8 DEF RemoveOld
<1>9. CASE StartServices
  BY <1>9 DEF StartServices
<1>10. CASE Verify
  BY <1>10 DEF Verify
<1>11. CASE Record
  BY <1>11 DEF Record
<1>12. CASE Retire
  BY <1>12 DEF Retire
<1>13. CASE FailsBefore
  BY <1>13 DEF FailsBefore
<1>14. CASE RollBack
  <2>1. ~parted' => ~parted /\ installed' = backup.installed
    BY <1>14 DEF RollBack
  <2>2. env'.version = backup.env.version /\ compose' = backup.compose /\ images' = images
    BY <1>14 DEF RollBack
  <2> QED BY <1>14, <2>1, <2>2 DEF RollBack
<1>15. CASE CutOff
  BY <1>15 DEF CutOff
<1>16. CASE StoreSecret
  BY <1>16 DEF StoreSecret
<1>17. CASE UNCHANGED releaseVars
  BY <1>17 DEF releaseVars
<1> QED BY <1>1, <1>2, <1>3, <1>4, <1>5, <1>6, <1>7, <1>8, <1>9, <1>10, <1>11, <1>12, <1>13,
    <1>14, <1>15, <1>16, <1>17 DEF ReleaseNext

LEMMA KeysStep == ReleaseTypeOK /\ KeysKept /\ [ReleaseNext]_releaseVars => KeysKept'
<1> SUFFICES ASSUME ReleaseTypeOK, KeysKept, [ReleaseNext]_releaseVars PROVE KeysKept'
  OBVIOUS
<1> USE
    DEF KeysKept, files, plan, marks, From, OnlyImages, ReleaseTypeOK, Envs, Versions, Stages,
        Prepared, Switched, Backed
<1>1. ASSUME NEW v \in Versions, Reclaim(v) PROVE KeysKept'
  BY <1>1 DEF Reclaim
<1>2. CASE Prepare
  BY <1>2 DEF Prepare
<1>3. CASE BackUp
  BY <1>3 DEF BackUp
<1>4. CASE Pull
  BY <1>4 DEF Pull
<1>5. CASE Migrate
  BY <1>5 DEF Migrate
<1>6. CASE MoveCompose
  BY <1>6 DEF MoveCompose
<1>7. CASE MoveEnv
  BY <1>7 DEF MoveEnv
<1>8. CASE RemoveOld
  BY <1>8 DEF RemoveOld
<1>9. CASE StartServices
  BY <1>9 DEF StartServices
<1>10. CASE Verify
  BY <1>10 DEF Verify
<1>11. CASE Record
  BY <1>11 DEF Record
<1>12. CASE Retire
  BY <1>12 DEF Retire
<1>13. CASE FailsBefore
  BY <1>13 DEF FailsBefore
<1>14. CASE RollBack
  BY <1>14 DEF RollBack
<1>15. CASE CutOff
  BY <1>15 DEF CutOff
<1>16. CASE StoreSecret
  BY <1>16 DEF StoreSecret
<1>17. CASE UNCHANGED releaseVars
  BY <1>17 DEF releaseVars
<1> QED BY <1>1, <1>2, <1>3, <1>4, <1>5, <1>6, <1>7, <1>8, <1>9, <1>10, <1>11, <1>12, <1>13,
    <1>14, <1>15, <1>16, <1>17 DEF ReleaseNext

LEMMA ReleaseRestInit == ReleaseInit => Migrated /\ FilesOfStage /\ Whole /\ KeysKept
BY ReleaseAssumption
DEF ReleaseAssumption, ReleaseInit, Migrated, FilesOfStage, Whole, KeysKept, Prepared, Switched,
    Backed, Versions

LEMMA ReleaseInvariant ==
    ReleaseSpec => [](ReleaseTypeOK /\ Migrated /\ FilesOfStage /\ Whole /\ KeysKept)
<1>1. ReleaseInit => ReleaseTypeOK /\ Migrated /\ FilesOfStage /\ Whole /\ KeysKept
  BY ReleaseTypeInit, ReleaseRestInit
<1>2. ReleaseTypeOK /\ Migrated /\ FilesOfStage /\ Whole /\ KeysKept /\ [ReleaseNext]_releaseVars
      => (ReleaseTypeOK /\ Migrated /\ FilesOfStage /\ Whole /\ KeysKept)'
  BY ReleaseTypeStep, MigratedStep, FilesStep, WholeStep, KeysStep
<1> QED BY <1>1, <1>2, PTL DEF ReleaseSpec

(* The files, the containers and the database of the server keep their     *)
(* types through releases that fail anywhere.                              *)
THEOREM ReleaseTyped == ReleaseSpec => []ReleaseTypeOK
BY ReleaseInvariant, PTL

(* Migrations come first, the files name one version between releases,     *)
(* secrets can be decrypted, and what a rollback starts is there.          *)
THEOREM ReleaseSafe == ReleaseSpec => []ReleaseHolds
<1>1. ReleaseTypeOK /\ Migrated /\ FilesOfStage /\ Whole /\ KeysKept => ReleaseHolds
  <2> SUFFICES ASSUME ReleaseTypeOK, Migrated, FilesOfStage, Whole, KeysKept PROVE ReleaseHolds
    OBVIOUS
  <2>1. SchemaFirst
    BY DEF SchemaFirst, Migrated, ReleaseTypeOK, Envs, Versions
  <2>2. OneVersion
    BY DEF OneVersion, Whole
  <2>3. Decrypted
    BY DEF Decrypted, KeysKept
  <2>4. CanRollBack
    BY DEF CanRollBack, Whole, Backed, Switched
  <2> QED BY <2>1, <2>2, <2>3, <2>4 DEF ReleaseHolds
<1> QED BY <1>1, ReleaseInvariant, PTL
-----------------------------------------------------------------------------
(* The parts together *)

(* In the run of all parts, the one that is explored takes the steps of    *)
(* its specification, and the others none.                                 *)
LEMMA PartsStep ==
    [PartsNext]_<<part, members, health, reader, categories, settings, platform, server>>
    => /\ [MembershipNext]_membershipVars /\ [HealthNext]_healthVars
       /\ [ReaderNext]_readerVars /\ [CategoriesNext]_categoriesVars
       /\ [SettingsNext]_settingsVars /\ [ConfigNext]_configVars
       /\ [ReleaseNext]_releaseVars /\ UNCHANGED part
BY DEF PartsNext, members, health, reader, categories, settings, platform, server

(* The composition behaves as each of its seven parts does.                *)
THEOREM PartsImplement ==
    PartsSpec => /\ MembershipSpec /\ HealthSpec /\ ReaderSpec /\ CategoriesSpec
                 /\ SettingsSpec /\ ConfigSpec /\ ReleaseSpec
BY PartsStep, PTL DEF PartsSpec, PartsInit, MembershipSpec, HealthSpec, ReaderSpec,
   CategoriesSpec, SettingsSpec, ConfigSpec, ReleaseSpec

(* The types of the part that runs, and what goes with them. *)
THEOREM PartsTyped == PartsSpec => []PartsInv
<1>1. PartsInit => part \in Parts
  BY DEF PartsInit
<1>2. (part \in Parts)
      /\ [PartsNext]_<<part, members, health, reader, categories, settings, platform, server>>
      => (part \in Parts)'
  BY PartsStep
<1>3. PartsSpec => [](part \in Parts)
  BY <1>1, <1>2, PTL DEF PartsSpec
<1>4. /\ part \in Parts
      /\ MembershipTypeOK /\ OneOwner /\ HealthTypeOK /\ ReaderTypeOK /\ CategoriesTypeOK
      /\ TenantSettingsTypeOK /\ PlatformConfigTypeOK /\ ReleaseTypeOK
      => PartsInv
  BY DEF Parts, PartsInv
<1> QED
  BY <1>3, <1>4, PartsImplement, MembershipTyped, HealthTyped, ReaderTyped, CategoriesTyped,
     SettingsTyped, ConfigTyped, ReleaseTyped, PTL

(* Saves of the settings of an organisation and of the platform take       *)
(* nothing from saves that do not overlap them, and leave a secret beside  *)
(* an address it was not given for only where PasswordForItsHost and       *)
(* KeyForItsHost say so: the code does for IranSamaneh, Nastooh and the    *)
(* worker.                                                                 *)
THEOREM PartsKeepSettings == PartsSpec => SettingsKept
BY PartsImplement, SettingsSaved, ConfigSaved, PTL DEF SettingsKept

(* What the run checks of the other parts. *)
THEOREM PartsSafe ==
    PartsSpec => /\ []HealthTold /\ []EffortAsAsked /\ []CacheCurrent /\ []ReleaseHolds
                 /\ MembersKept /\ DecisionsKept
BY PartsImplement, HealthToldTrue, ReaderEffort, SettingsCached, ReleaseSafe, MembersSafe,
   CategoriesDecided, PTL
=============================================================================
