----------------------------- MODULE Membership -----------------------------
(***************************************************************************)
(* The members of one organisation and its invitations: TenantService, and *)
(* what the platform's administrators do to organisations and accounts in  *)
(* PlatformAdminService.                                                   *)
(*                                                                         *)
(* Every operation reads rows, checks them, and writes later; only the     *)
(* answers to an invitation and the transfer of ownership check again as   *)
(* they write.  A call whose target another has changed since it read it   *)
(* is overtaken.  What permissions a member has is left out.               *)
(***************************************************************************)
EXTENDS Naturals, FiniteSets

CONSTANTS
    Users, Admins,
    Founder,        \* who creates the organisation
    Invites,        \* bound: invitations the organisation writes
    Nobody

ASSUME MembershipAssumption == Founder \in Users /\ Nobody \notin Users

VARIABLES
    org,        \* Tenant.status
    owner,      \* Tenant.primaryOwnerUserId
    account,    \* User.isActive, and whether there is the user
    role,       \* TenantMember.role, "none" without a row
    inv,        \* the rows of TenantInvitation
    withdrawn,  \* invitations revoked or rejected, and not sent again since
    request     \* local variables of the calls

membershipVars == <<org, owner, account, role, inv, withdrawn, request>>
-----------------------------------------------------------------------------
Roles == {"none", "owner", "admin", "member"}
Invitation == [status : {"none", "pending", "accepted", "rejected", "revoked", "expired"},
               user     : Users \cup {Nobody},
               open     : BOOLEAN,      \* expiresAt is in the future
               accepted : BOOLEAN,
               revoked  : BOOLEAN]      \* revokedAt is set
NoInvitation == [status |-> "none", user |-> Nobody, open |-> FALSE,
                 accepted |-> FALSE, revoked |-> FALSE]

UserOps   == {"invite", "add", "remove", "suspend", "delete"}
InviteOps == {"accept", "reject", "revoke", "resend"}
Request == [op : UserOps \cup InviteOps \cup {"none"},
            user : Users \cup {Nobody}, id : Invites \cup {Nobody}, overtaken : BOOLEAN]
NoRequest == [op |-> "none", user |-> Nobody, id |-> Nobody, overtaken |-> FALSE]

MembershipInit ==
    /\ org = "none" /\ owner = Nobody
    /\ account = [u \in Users |-> "active"] /\ role = [u \in Users |-> "none"]
    /\ inv = [i \in Invites |-> NoInvitation] /\ withdrawn = {}
    /\ request = [p \in Admins |-> NoRequest]

Answered(p) == request' = [request EXCEPT ![p] = NoRequest]

(* p returns, and the calls of hit are overtaken. *)
Overtake(p, hit) ==
    request' = [q \in Admins |-> IF q = p THEN NoRequest
                                 ELSE IF q \in hit THEN [request[q] EXCEPT !.overtaken = TRUE]
                                 ELSE request[q]]
-----------------------------------------------------------------------------
(* What the operations check when they read *)

Pending(i) == inv[i].status = "pending" /\ inv[i].open

(* One that removes the owner too. *)
RemovableAny(u) == role[u] # "none"

Removable(u) == role[u] \notin {"none", "owner"}

(* One that sends an accepted invitation again. *)
ResendableAny(i) == inv[i].status # "none"

Resendable(i) == inv[i].status \notin {"none", "accepted"}

MayBegin(op, u, i) ==
    CASE op = "invite"  -> /\ org = "active" /\ account[u] = "active" /\ role[u] = "none"
                           /\ ~\E j \in Invites : Pending(j) /\ inv[j].user = u
      [] op = "add"     -> org = "active" /\ account[u] = "active" /\ role[u] = "none"
      [] op = "remove"  -> org = "active" /\ Removable(u)
      [] op = "suspend" -> account[u] # "gone" /\ ~(owner = u /\ org = "active")
      [] op = "delete"  -> account[u] # "gone" /\ owner # u
      [] op = "accept"  -> /\ inv[i].status \notin {"none", "accepted", "revoked"}
                           /\ ~inv[i].accepted /\ ~inv[i].revoked /\ inv[i].open
                           /\ account[inv[i].user] = "active"
      [] op = "reject"  -> inv[i].status = "pending" /\ account[inv[i].user] = "active"
      [] op = "revoke"  -> org = "active" /\ inv[i].status = "pending"
      [] op = "resend"  -> org = "active" /\ Resendable(i)

Ask(p, op, u, i) ==
    /\ request[p].op = "none"
    /\ op \in UserOps => u \in Users /\ i = Nobody
    /\ op \in InviteOps => u = Nobody /\ i \in Invites
    /\ MayBegin(op, u, i)
    /\ request' = [request EXCEPT ![p] = [op |-> op, user |-> u, id |-> i, overtaken |-> FALSE]]
    /\ UNCHANGED <<org, owner, account, role, inv, withdrawn>>
-----------------------------------------------------------------------------
(* Organisations *)

Create ==
    /\ org = "none" /\ account[Founder] = "active"
    /\ org' = "active" /\ owner' = Founder
    /\ role' = [role EXCEPT ![Founder] = "owner"]
    /\ request' = [q \in Admins |-> IF request[q].user = Founder
                                    THEN [request[q] EXCEPT !.overtaken = TRUE] ELSE request[q]]
    /\ UNCHANGED <<account, inv, withdrawn>>

(* updateOrganizationStatus does not look at the owner. *)
SetOrganization(s) ==
    /\ org \in {"active", "suspended"} /\ s \in {"active", "suspended"} \ {org}
    /\ org' = s
    /\ request' = [q \in Admins |-> IF s = "active" /\ request[q].op = "suspend"
                                    THEN [request[q] EXCEPT !.overtaken = TRUE] ELSE request[q]]
    /\ UNCHANGED <<owner, account, role, inv, withdrawn>>

(* Members and invitations go with the organisation. *)
DeleteOrganization ==
    /\ org \in {"active", "suspended"}
    /\ org' = "gone" /\ owner' = Nobody
    /\ role' = [u \in Users |-> "none"]
    /\ inv' = [i \in Invites |-> [NoInvitation EXCEPT !.user = inv[i].user]]
    /\ UNCHANGED <<account, withdrawn, request>>

(* One that leaves the role of the owner of before. *)
TransferTwoOwners(u) ==
    /\ org \in {"active", "suspended"}
    /\ role[u] # "none" /\ account[u] = "active" /\ owner # u
    /\ owner' = u
    /\ role' = [role EXCEPT ![u] = "owner"]
    /\ request' = [q \in Admins |-> IF request[q].user = u
                                    THEN [request[q] EXCEPT !.overtaken = TRUE] ELSE request[q]]
    /\ UNCHANGED <<org, account, inv, withdrawn>>

(* transferOwnership, in one serializable transaction. *)
Transfer(u) ==
    /\ org \in {"active", "suspended"}
    /\ role[u] # "none" /\ account[u] = "active" /\ owner # u
    /\ owner' = u
    /\ role' = [v \in Users |-> IF v = u THEN "owner"
                                ELSE IF role[v] = "owner" THEN "admin" ELSE role[v]]
    /\ request' = [q \in Admins |-> IF request[q].user = u
                                    THEN [request[q] EXCEPT !.overtaken = TRUE] ELSE request[q]]
    /\ UNCHANGED <<org, account, inv, withdrawn>>
-----------------------------------------------------------------------------
(* Members *)

Add(p) ==
    /\ request[p].op = "add"
    /\ LET u == request[p].user IN
       role' = IF org # "gone" /\ account[u] # "gone" /\ role[u] = "none"
               THEN [role EXCEPT ![u] = "member"] ELSE role
    /\ Answered(p)
    /\ UNCHANGED <<org, owner, account, inv, withdrawn>>

(* removeMember deletes the row whatever role it has by then. *)
Remove(p) ==
    /\ request[p].op = "remove"
    /\ role' = [role EXCEPT ![request[p].user] = "none"]
    /\ Answered(p)
    /\ UNCHANGED <<org, owner, account, inv, withdrawn>>
-----------------------------------------------------------------------------
(* Accounts *)

(* updateUserStatus *)
Suspend(p) ==
    /\ request[p].op = "suspend"
    /\ account' = [account EXCEPT ![request[p].user] = IF @ = "gone" THEN @ ELSE "suspended"]
    /\ Answered(p)
    /\ UNCHANGED <<org, owner, role, inv, withdrawn>>

Activate(u) ==
    /\ account[u] = "suspended"
    /\ account' = [account EXCEPT ![u] = "active"]
    /\ UNCHANGED <<org, owner, role, inv, withdrawn, request>>

(* One that leaves the rows of the user. *)
DeleteUserAlone(p) ==
    /\ request[p].op = "delete"
    /\ LET u == request[p].user IN
       account' = IF owner = u THEN account ELSE [account EXCEPT ![u] = "gone"]
    /\ Answered(p)
    /\ UNCHANGED <<org, owner, role, inv, withdrawn>>

(* deleteUser: the database refuses for the owner of an organisation. *)
DeleteUser(p) ==
    /\ request[p].op = "delete"
    /\ LET u == request[p].user IN
       IF owner = u THEN UNCHANGED <<account, role, inv>>
       ELSE /\ account' = [account EXCEPT ![u] = "gone"]
            /\ role' = [role EXCEPT ![u] = "none"]
            /\ inv' = [i \in Invites |->
                         IF inv[i].user = u THEN [NoInvitation EXCEPT !.user = u] ELSE inv[i]]
    /\ Answered(p)
    /\ UNCHANGED <<org, owner, withdrawn>>
-----------------------------------------------------------------------------
(* Invitations *)

(* A row is written once; an invitation deleted with its user keeps his    *)
(* name here, so that its number is not used again.                        *)
Invite(p) ==
    /\ request[p].op = "invite"
    /\ LET u == request[p].user IN
       IF org = "gone" \/ account[u] = "gone" THEN UNCHANGED inv
       ELSE \E i \in Invites :
              /\ inv[i].user = Nobody
              /\ inv' = [inv EXCEPT ![i] = [status |-> "pending", user |-> u, open |-> TRUE,
                                            accepted |-> FALSE, revoked |-> FALSE]]
    /\ Answered(p)
    /\ UNCHANGED <<org, owner, account, role, withdrawn>>

(* One that trusts the row it has read. *)
AcceptTrusting(p) ==
    /\ request[p].op = "accept"
    /\ LET i == request[p].id IN
       IF inv[i].status # "none" /\ role[inv[i].user] = "none"
       THEN /\ inv' = [inv EXCEPT ![i].status = "accepted", ![i].accepted = TRUE]
            /\ role' = [role EXCEPT ![inv[i].user] = "member"]
            /\ Overtake(p, {q \in Admins : request[q].id = i})
       ELSE UNCHANGED <<inv, role>> /\ Answered(p)
    /\ UNCHANGED <<org, owner, account, withdrawn>>

(* acceptResolvedInvitation: the invitation is claimed and the member      *)
(* created in one transaction, or nothing is.                              *)
Accept(p) ==
    /\ request[p].op = "accept"
    /\ LET i == request[p].id IN
       IF Pending(i) /\ ~inv[i].accepted /\ ~inv[i].revoked /\ role[inv[i].user] = "none"
       THEN /\ inv' = [inv EXCEPT ![i].status = "accepted", ![i].accepted = TRUE]
            /\ role' = [role EXCEPT ![inv[i].user] = "member"]
            /\ Overtake(p, {q \in Admins : request[q].id = i})
       ELSE UNCHANGED <<inv, role>> /\ Answered(p)
    /\ UNCHANGED <<org, owner, account, withdrawn>>

Reject(p) ==
    /\ request[p].op = "reject"
    /\ LET i == request[p].id IN
       IF Pending(i) /\ ~inv[i].accepted
       THEN inv' = [inv EXCEPT ![i].status = "rejected"] /\ withdrawn' = withdrawn \cup {i}
       ELSE UNCHANGED <<inv, withdrawn>>
    /\ Answered(p)
    /\ UNCHANGED <<org, owner, account, role>>

(* revokeInvitation writes whatever the row says by then. *)
Revoke(p) ==
    /\ request[p].op = "revoke"
    /\ LET i == request[p].id IN
       IF inv[i].status # "none"
       THEN /\ inv' = [inv EXCEPT ![i].status = "revoked", ![i].revoked = TRUE]
            /\ withdrawn' = withdrawn \cup {i}
       ELSE UNCHANGED <<inv, withdrawn>>
    /\ Answered(p)
    /\ UNCHANGED <<org, owner, account, role>>

(* So does resendInvitation. *)
Resend(p) ==
    /\ request[p].op = "resend"
    /\ LET i == request[p].id IN
       IF inv[i].status # "none"
       THEN /\ inv' = [inv EXCEPT ![i] = [@ EXCEPT !.status = "pending", !.open = TRUE,
                                                   !.accepted = FALSE, !.revoked = FALSE]]
            /\ withdrawn' = withdrawn \ {i}
       ELSE UNCHANGED <<inv, withdrawn>>
    /\ Answered(p)
    /\ UNCHANGED <<org, owner, account, role>>

(* Seven days pass, and a list of invitations marks those that lapsed.     *)
Lapse(i) ==
    /\ inv[i].open
    /\ inv' = [inv EXCEPT ![i].open = FALSE]
    /\ UNCHANGED <<org, owner, account, role, withdrawn, request>>

MarkExpired ==
    /\ \E i \in Invites : inv[i].status = "pending" /\ ~inv[i].open
    /\ inv' = [i \in Invites |-> IF inv[i].status = "pending" /\ ~inv[i].open
                                 THEN [inv[i] EXCEPT !.status = "expired"] ELSE inv[i]]
    /\ UNCHANGED <<org, owner, account, role, withdrawn, request>>
-----------------------------------------------------------------------------
MembershipNext ==
    \/ Create \/ DeleteOrganization \/ MarkExpired
    \/ \E s \in {"active", "suspended"} : SetOrganization(s)
    \/ \E u \in Users : Transfer(u) \/ Activate(u)
    \/ \E i \in Invites : Lapse(i)
    \/ \E p \in Admins :
          \/ \E op \in UserOps, u \in Users : Ask(p, op, u, Nobody)
          \/ \E op \in InviteOps, i \in Invites : Ask(p, op, Nobody, i)
          \/ Add(p) \/ Remove(p) \/ Suspend(p) \/ DeleteUser(p)
          \/ Invite(p) \/ Accept(p) \/ Reject(p) \/ Revoke(p) \/ Resend(p)

MembershipSpec == MembershipInit /\ [][MembershipNext]_membershipVars
-----------------------------------------------------------------------------
(* Properties *)

(* Types; who is a member has an account, and belongs to an organisation. *)
MembershipTypeOK ==
    /\ org \in {"none", "active", "suspended", "gone"}
    /\ owner \in Users \cup {Nobody}
    /\ account \in [Users -> {"active", "suspended", "gone"}]
    /\ role \in [Users -> Roles]
    /\ inv \in [Invites -> Invitation]
    /\ withdrawn \subseteq Invites
    /\ request \in [Admins -> Request]
    /\ \A u \in Users : role[u] # "none" => account[u] # "gone" /\ org \in {"active", "suspended"}

(* Nobody but the primary owner has the role of the owner, however often   *)
(* the organisation changes hands.                                         *)
OneOwner == \A u \in Users : role[u] = "owner" => owner = u

(* An organisation loses its owner, as a member or as an active account,   *)
(* only to a call that a foundation, a transfer or a reactivation overtook.*)
Led == org = "active" /\ role[owner] = "owner" /\ account[owner] = "active"
OwnerKept ==
    [][Led /\ org' = "active" /\ ~Led' => \E p \in Admins : request[p].overtaken]_membershipVars

(* An accepted invitation stays accepted while there is the row, but for a *)
(* call that read it before it was accepted.                               *)
AcceptedStays ==
    [][\A i \in Invites :
          inv[i].status = "accepted" /\ inv'[i].status \notin {"accepted", "none"}
            => \E p \in Admins : request[p].id = i /\ request[p].overtaken]_membershipVars

(* Whoever answers an invitation that has been withdrawn meanwhile does    *)
(* not become a member, until it is sent again.                            *)
WithdrawnAdmitsNobody ==
    [][\A i \in withdrawn :
          inv[i].status # "accepted" => inv'[i].status # "accepted"]_membershipVars

(* Together: what a call that nobody overtook cannot do to the members.    *)
MembersKept == OwnerKept /\ AcceptedStays /\ WithdrawnAdmitsNobody
=============================================================================
