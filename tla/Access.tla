------------------------------- MODULE Access -------------------------------
(***************************************************************************)
(* What one member may do in an organisation: the permissions and services *)
(* the owner ticks, what is stored of them, what the guards of the API     *)
(* make of the row, and what the member's menu shows.                      *)
(*                                                                         *)
(* Four translations of the same row have to agree (the picker, the API's  *)
(* normalisation, the guards, the menu), also for rows that releases with  *)
(* other permissions, or an invitation, have written.                      *)
(***************************************************************************)
EXTENDS Naturals, FiniteSets

CONSTANTS
    Services,   \* destination categories of the organisation
    OldRows,    \* bound: permissions of rows written by older releases
    Ticks       \* bound: sections the owner ticks and unticks

(* The sections of ORGANIZATION_MENU_PERMISSIONS, publishing.* under the   *)
(* last part of the key, settings.manage as "organization"; and the keys   *)
(* that are no longer given.                                               *)
Publishing == {"feeds", "news", "social", "media", "settings", "operations"}
Menu       == {"dashboard", "organization"} \cup Publishing
Legacy     == {"view", "manage", "publish", "members"}
All        == "*"

ASSUME AccessAssumption ==
    OldRows \subseteq SUBSET (Menu \cup Legacy) /\ Ticks \subseteq Menu /\ All \notin Services

VARIABLES
    member,     \* the row of TenantMember
    category,   \* status of each service
    dialog,     \* the owner's dialog
    ticked      \* what the owner last saved, "none" before

accessVars == <<member, category, dialog, ticked>>
-----------------------------------------------------------------------------
Roles == {"none", "owner", "admin", "manager", "senior_specialist", "member", "viewer"}
Row == [role : Roles, permissions : SUBSET (Menu \cup Legacy),
        services : SUBSET (Services \cup {All})]
NoRow == [role |-> "none", permissions |-> {}, services |-> {}]
Dialog == [mode : {"closed", "add", "edit"}, permissions : SUBSET Menu,
           services : SUBSET (Services \cup {All})]
Closed == [mode |-> "closed", permissions |-> {}, services |-> {}]
NoTicks == [permissions |-> {}, services |-> {}]

Defaults(role) ==
    CASE role = "admin"             -> Menu \cup Legacy
      [] role = "manager"           -> Menu
      [] role = "senior_specialist" -> Menu \ {"organization"}
      [] role = "member"            -> {"dashboard", "news", "social"}
      [] role = "viewer"            -> {"dashboard", "news"}
      [] OTHER                      -> {}

(* One that gives the settings to whoever had publishing.view. *)
ExpandToAll(P) ==
    P \cup (IF P \cap {"view", "manage", "publish"} # {} THEN Publishing ELSE {})
      \cup (IF "members" \in P THEN {"organization"} ELSE {})

Expand(P) ==
    P \cup (IF P \cap {"view", "manage", "publish"} # {} THEN Publishing \ {"settings"} ELSE {})
      \cup (IF "members" \in P THEN {"organization"} ELSE {})

Has(P, key) ==
    key \in Expand(P) \/ (key = "view" /\ Expand(P) \cap Publishing # {})

(* permissionsForPicker *)
Picker(P) == Expand(P) \cap Menu

Normalized(P, S) ==
    IF "news" \notin Expand(P) THEN {} ELSE IF S = {} \/ All \in S THEN {All} ELSE S

AccessInit ==
    /\ member \in {NoRow} \cup
                  {[role |-> "member", permissions |-> P, services |-> {}] : P \in OldRows}
    /\ category = [s \in Services |-> "approved"]
    /\ dialog = Closed /\ ticked = NoTicks
-----------------------------------------------------------------------------
(* The guards *)

(* TenantGuard: a row without permissions has those of its role. *)
Permissions ==
    IF member.permissions # {} THEN Expand(member.permissions) ELSE Expand(Defaults(member.role))

Owner == member.role = "owner"

(* PermissionsGuard, which wants the settings granted by name. *)
Allows(key) ==
    \/ Owner
    \/ /\ member.role # "none" /\ Has(Permissions, key)
       /\ key = "settings" => "settings" \in Permissions

(* resolveNewsroomServiceAccess *)
Seen ==
    IF Owner THEN {All}
    ELSE IF "news" \notin Permissions THEN {} ELSE Normalized(Permissions, member.services)

(* newsroomCategoryFilter, for an article of the category s, of the        *)
(* general one, or of none.                                                *)
Listed(s) == All \in Seen \/ (Seen # {} /\ s = "general") \/ s \in Seen

(* assertNewsroomArticleAccess *)
MayActOn(s) == All \in Seen \/ (Seen # {} /\ (s = "general" \/ s \in Seen))

(* filterNavItem, for the permissions /auth/me has given. *)
Shown(section) == Owner \/ (member.role # "none" /\ Has(member.permissions, section))

(* What the page of a section asks the API for first, and whether it shows *)
(* anything to whoever is not the owner.                                   *)
Asks(section) == IF section = "feeds" THEN {"news", "feeds"}
                 ELSE IF section \in {"media", "organization"} THEN {} ELSE {section}
OwnersOnly == {"organization"}

Opens(section) == (section \in OwnersOnly => Owner) /\ \A key \in Asks(section) : Allows(key)
-----------------------------------------------------------------------------
(* The owner *)

OpenAdd ==
    /\ dialog.mode = "closed" /\ member.role = "none"
    /\ dialog' = [mode |-> "add", permissions |-> {"dashboard", "news"}, services |-> {All}]
    /\ UNCHANGED <<member, category, ticked>>

OpenEdit ==
    /\ dialog.mode = "closed" /\ member.role \notin {"none", "owner"}
    /\ dialog' = [mode |-> "edit", permissions |-> Picker(member.permissions),
                  services |-> IF member.services = {} THEN {All} ELSE member.services]
    /\ UNCHANGED <<member, category, ticked>>

Close == dialog.mode # "closed" /\ dialog' = Closed /\ UNCHANGED <<member, category, ticked>>

(* togglePermission: without the newsroom no services, with it all. *)
Toggle(key) ==
    /\ dialog.mode # "closed"
    /\ LET off == key \in dialog.permissions IN
       dialog' = [dialog EXCEPT
           !.permissions = IF off THEN @ \ {key} ELSE @ \cup {key},
           !.services = IF key # "news" THEN @ ELSE IF off THEN {}
                        ELSE IF @ = {} THEN {All} ELSE @]
    /\ UNCHANGED <<member, category, ticked>>

ToggleAll ==
    /\ "news" \in dialog.permissions
    /\ dialog' = [dialog EXCEPT !.services = IF All \in @ THEN {} ELSE {All}]
    /\ UNCHANGED <<member, category, ticked>>

ToggleService(s) ==
    /\ "news" \in dialog.permissions /\ All \notin dialog.services /\ category[s] = "approved"
    /\ dialog' = [dialog EXCEPT !.services = IF s \in @ THEN @ \ {s} ELSE @ \cup {s}]
    /\ UNCHANGED <<member, category, ticked>>

Existing(S) == {s \in S \cap Services : category[s] \in {"approved", "pending"}}

(* One that stores all services when none of the ticked is left.           *)
StoredOrAll(P, S) ==
    LET n == Normalized(P, S) IN
    IF n = {} \/ All \in n THEN n ELSE IF Existing(n) = {} THEN {All} ELSE Existing(n)

Stored(P, S) ==
    LET n == Normalized(P, S) IN IF n = {} \/ All \in n THEN n ELSE Existing(n)
Acceptable(P, S) == P # {} /\ (Normalized(P, S) # {} => Stored(P, S) # {})

(* One that adds what was ticked to the keys the row already has.          *)
SubmitKeepingOld ==
    /\ dialog.mode # "closed"
    /\ dialog.permissions # {}
    /\ "news" \in dialog.permissions => dialog.services # {}
    /\ (dialog.mode = "add") = (member.role = "none") /\ ~Owner
    /\ Acceptable(dialog.permissions, dialog.services)
    /\ member' = [role |-> IF dialog.mode = "add" THEN "member" ELSE member.role,
                  permissions |-> member.permissions \cup dialog.permissions,
                  services |-> Stored(dialog.permissions, dialog.services)]
    /\ ticked' = [permissions |-> dialog.permissions, services |-> dialog.services]
    /\ dialog' = Closed
    /\ UNCHANGED category

(* handleSubmit, and addMember or updateMember: the row may have changed   *)
(* since the dialog was opened.                                            *)
Submit ==
    /\ dialog.mode # "closed"
    /\ dialog.permissions # {}
    /\ "news" \in dialog.permissions => dialog.services # {}
    /\ (dialog.mode = "add") = (member.role = "none") /\ ~Owner
    /\ Acceptable(dialog.permissions, dialog.services)
    /\ member' = [role |-> IF dialog.mode = "add" THEN "member" ELSE member.role,
                  permissions |-> Picker(dialog.permissions),
                  services |-> Stored(dialog.permissions, dialog.services)]
    /\ ticked' = [permissions |-> dialog.permissions, services |-> dialog.services]
    /\ dialog' = Closed
    /\ UNCHANGED category

Remove ==
    /\ member.role \notin {"none", "owner"}
    /\ member' = NoRow /\ ticked' = NoTicks
    /\ UNCHANGED <<category, dialog>>
-----------------------------------------------------------------------------
(* Invitations, transfers and the services themselves *)

(* acceptResolvedInvitation writes the role alone. *)
Accept(role) ==
    /\ member.role = "none" /\ role \in Roles \ {"none", "owner"}
    /\ member' = [NoRow EXCEPT !.role = role] /\ ticked' = NoTicks
    /\ UNCHANGED <<category, dialog>>

(* transferOwnership: the row keeps its permissions, also when the member  *)
(* is the owner no longer, but an administrator.                           *)
Transfer(role) ==
    /\ member.role # "none" /\ role \in {"owner", "admin"} /\ Owner = (role = "admin")
    /\ member' = [member EXCEPT !.role = role]
    /\ UNCHANGED <<category, dialog, ticked>>

SetCategory(s, status) ==
    /\ category[s] # "gone" /\ category[s] # status
    /\ category' = [category EXCEPT ![s] = status]
    /\ UNCHANGED <<member, dialog, ticked>>

AccessNext ==
    \/ OpenAdd \/ OpenEdit \/ Close \/ ToggleAll \/ Submit \/ Remove
    \/ \E key \in Ticks : Toggle(key)
    \/ \E s \in Services : ToggleService(s)
    \/ \E role \in Roles : Accept(role) \/ Transfer(role)
    \/ \E s \in Services, status \in {"pending", "approved", "rejected", "gone"} :
          SetCategory(s, status)

AccessSpec == AccessInit /\ [][AccessNext]_accessVars
-----------------------------------------------------------------------------
AccessTypeOK ==
    /\ member \in Row /\ dialog \in Dialog
    /\ category \in [Services -> {"pending", "approved", "rejected", "gone"}]
    /\ ticked.permissions \subseteq Menu /\ ticked.services \subseteq Services \cup {All}

(* After the owner has saved, the guards admit the member to exactly the   *)
(* sections that were ticked, and the menu shows exactly those             *)
(* (normalizeAssignablePermissions, TenantGuard, filterNavItem).           *)
TickedIsGiven ==
    ticked # NoTicks /\ ~Owner =>
        \A key \in Menu : (Allows(key) <=> key \in ticked.permissions) /\ (Shown(key) <=> Allows(key))

(* Whatever becomes of services, a member never sees more of the newsroom  *)
(* than was ticked for them, and what is listed is what they may act on.   *)
NeverWiderThanTicked ==
    /\ ticked # NoTicks /\ ~Owner => All \in ticked.services \/ Seen \subseteq ticked.services
    /\ \A s \in Services \cup {"general", "none"} : Listed(s) = MayActOn(s)

(* permissions.test: the settings come of an explicit grant, or of a role  *)
(* whose defaults hold them, never of a key of old.                        *)
SettingsExplicit ==
    Allows("settings") => \/ Owner \/ "settings" \in member.permissions
                          \/ member.permissions = {} /\ "settings" \in Defaults(member.role)

AccessHolds ==
    member.role # "none" => TickedIsGiven /\ NeverWiderThanTicked /\ SettingsExplicit

(* permission-picker.tsx:69 has the owner choose "the sections this member *)
(* can have access to": a section that was ticked and is shown opens.      *)
SectionsOpen ==
    ticked # NoTicks => \A section \in ticked.permissions : Shown(section) => Opens(section)
=============================================================================
