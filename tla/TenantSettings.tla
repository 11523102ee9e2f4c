--------------------------- MODULE TenantSettings ---------------------------
(***************************************************************************)
(* The publishing settings of one organisation: PublishingSettingsService  *)
(* reads them through a cache of a minute, and saves one tab of them at a  *)
(* time under a lock of the process.  Two tabs: an address with the secret *)
(* given for it, here called site and password, and another.               *)
(*                                                                         *)
(* There are two kinds of addresses.  With the site of WordPress and the   *)
(* accounts of Instagram, LinkedIn and Facebook, a new one clears the      *)
(* secret of the old one; with the sites of IranSamaneh and Nastooh the    *)
(* secret is kept, although a test of the connection (mergeForTest) would  *)
(* not use it for the new site.                                            *)
(*                                                                         *)
(* A save compares with what the cache says and writes to what the row     *)
(* says: a cache filled by a reader that a save overtook outlives it, and  *)
(* then a change of the host goes unnoticed and the password is kept.      *)
(***************************************************************************)
EXTENDS Naturals, Sequences

CONSTANTS Savers, Sites, NoSite

VARIABLES
    binds,      \* of the first kind; fixed
    tenant,     \* Tenant.settings.publishing
    cache,      \* the host in the cache, and whether it was filled too late
    line,       \* saveLocks: who saves, and who waits behind it
    access      \* local variables of the calls

settingsVars == <<binds, tenant, cache, line, access>>
-----------------------------------------------------------------------------
(* A password is known by the host it was given for. *)
Sites0 == Sites \cup {NoSite}
Tenant == [site : Sites0, password : Sites0, tab : BOOLEAN]
Unset == [site |-> NoSite, password |-> NoSite, tab |-> FALSE]
Cache == [full : BOOLEAN, site : Sites0, late : BOOLEAN]
Empty == [full |-> FALSE, site |-> NoSite, late |-> FALSE]

(* What is saved: the site, with a password or without, or the other tab.  *)
Inputs == [what : {"none", "site", "tab"}, site : Sites0, password : BOOLEAN]
Nothing == [what |-> "none", site |-> NoSite, password |-> FALSE]
Access == [at        : {"idle", "line", "look", "fill", "load", "write", "forget"},
           input     : Inputs,
           site      : Sites0,    \* the host as getRaw gave it
           late      : BOOLEAN,   \* ... from a cache filled too late
           row       : Tenant,    \* what the save writes to
           written   : BOOLEAN,
           overtaken : BOOLEAN]   \* the row has changed since, past the lock for a save
NoAccess == [at |-> "idle", input |-> Nothing, site |-> NoSite, late |-> FALSE, row |-> Unset,
             written |-> FALSE, overtaken |-> FALSE]

SettingsInit ==
    /\ binds \in BOOLEAN /\ tenant = Unset /\ cache = Empty /\ line = <<>>
    /\ access = [p \in Savers |-> NoAccess]

Saving(p) == access[p].input.what # "none"
Goes(p, r) == access' = [access EXCEPT ![p] = r]
(* p goes on as r, and those at ats, who hold the row, are overtaken.      *)
GoesOvertaking(p, r, ats) ==
    access' = [q \in Savers |-> IF q = p THEN r
                                ELSE IF access[q].at \in ats
                                THEN [access[q] EXCEPT !.overtaken = TRUE] ELSE access[q]]
-----------------------------------------------------------------------------
Read(p) ==
    /\ access[p].at = "idle"
    /\ Goes(p, [NoAccess EXCEPT !.at = "look"])
    /\ UNCHANGED <<tenant, cache, line>>

Save(p, input) ==
    /\ access[p].at = "idle" /\ input.what # "none"
    /\ Goes(p, [NoAccess EXCEPT !.at = "line", !.input = input])
    /\ line' = Append(line, p)
    /\ UNCHANGED <<tenant, cache>>

(* One that does not wait. *)
EnterAtOnce(p) ==
    /\ access[p].at = "line"
    /\ Goes(p, [access[p] EXCEPT !.at = "look"])
    /\ UNCHANGED <<tenant, cache, line>>

Enter(p) ==
    /\ access[p].at = "line" /\ p = Head(line)
    /\ Goes(p, [access[p] EXCEPT !.at = "look"])
    /\ UNCHANGED <<tenant, cache, line>>

(* The end of a call: that of a save, the first in line, gives the lock on *)
(* to the next.  A save that has written reads everything back before.     *)
Leaves(p) == line' = (IF Saving(p) THEN Tail(line) ELSE line) /\ Goes(p, NoAccess)
Got(p, site, late) ==
    IF Saving(p) /\ ~access[p].written
    THEN /\ Goes(p, [access[p] EXCEPT !.at = "load", !.site = site, !.late = late,
                                      !.overtaken = FALSE])
         /\ UNCHANGED line
    ELSE Leaves(p)

(* getRaw: the cache, ... *)
Look(p) ==
    /\ access[p].at = "look"
    /\ IF cache.full THEN Got(p, cache.site, cache.late)
       ELSE /\ Goes(p, [access[p] EXCEPT !.at = "fill", !.site = tenant.site, !.overtaken = FALSE])
            /\ UNCHANGED line
    /\ UNCHANGED <<tenant, cache>>

(* ... or the row, which then fills the cache, if Redis answers. *)
Fill(p) ==
    /\ access[p].at = "fill"
    /\ cache' \in {cache, [full |-> TRUE, site |-> access[p].site, late |-> access[p].overtaken]}
    /\ Got(p, access[p].site, access[p].overtaken)
    /\ UNCHANGED tenant

(* saveUnlocked: the row once more, ... *)
Load(p) ==
    /\ access[p].at = "load"
    /\ Goes(p, [access[p] EXCEPT !.at = "write", !.row = tenant, !.overtaken = FALSE])
    /\ UNCHANGED <<tenant, cache, line>>

(* One that keeps the password for the new host. *)
UpdatedKeepsPassword(input, site, row) ==
    IF input.what = "tab" THEN [row EXCEPT !.tab = ~@]
    ELSE [row EXCEPT !.site = input.site,
                     !.password = IF input.password THEN input.site ELSE row.password]

(* The row with what is given: an address that binds its password and is   *)
(* new without one clears the one there was.                               *)
Updated(input, site, row) ==
    IF input.what = "tab" THEN [row EXCEPT !.tab = ~@]
    ELSE [row EXCEPT !.site = input.site,
                     !.password = CASE input.password -> input.site
                                    [] ~input.password /\ binds /\ input.site # site -> NoSite
                                    [] OTHER -> row.password]

(* ... its update, ... *)
Update(p) ==
    /\ access[p].at = "write"
    /\ tenant' = Updated(access[p].input, access[p].site, access[p].row)
    /\ GoesOvertaking(p, [access[p] EXCEPT !.at = "forget", !.written = TRUE, !.site = NoSite,
                                           !.row = Unset, !.late = FALSE, !.overtaken = FALSE],
                    {"fill"})
    /\ UNCHANGED <<cache, line>>

(* One that leaves the cache to its time. *)
ForgetNothing(p) ==
    /\ access[p].at = "forget"
    /\ Goes(p, [access[p] EXCEPT !.at = "look"])
    /\ UNCHANGED <<tenant, line, cache>>

(* ... and the end of what the cache holds, if Redis answers. *)
Forget(p) ==
    /\ access[p].at = "forget"
    /\ cache' \in {Empty, [cache EXCEPT !.late = cache.full]}
    /\ Goes(p, [access[p] EXCEPT !.at = "look"])
    /\ UNCHANGED <<tenant, line>>
-----------------------------------------------------------------------------
(* One without the finally. *)
FailHoldsLock(p) ==
    /\ access[p].at \in {"look", "fill", "load", "write"} /\ ~access[p].written
    /\ Goes(p, NoAccess)
    /\ UNCHANGED <<tenant, cache, line>>

(* A save is refused, or the database fails it; its lock is given on.      *)
SaveFails(p) ==
    /\ access[p].at \in {"look", "fill", "load", "write"} /\ ~access[p].written
    /\ Leaves(p)
    /\ UNCHANGED <<tenant, cache>>

(* TenantService.update writes all settings of the organisation, past the  *)
(* lock and the cache.                                                     *)
Replace(p) ==
    /\ access[p].at = "idle" /\ tenant # Unset
    /\ tenant' = Unset
    /\ cache' = [cache EXCEPT !.late = cache.full]
    /\ GoesOvertaking(p, NoAccess, {"fill", "write"})
    /\ UNCHANGED line

(* A minute. *)
Expire ==
    /\ cache.full /\ cache' = Empty
    /\ UNCHANGED <<tenant, line, access>>

(* The process stops, perhaps between an update and the end of the cache.  *)
SettingsCrash ==
    /\ \E p \in Savers : access[p].at # "idle"
    /\ cache' = [cache EXCEPT
          !.late = cache.full /\ (@ \/ \E p \in Savers : access[p].at = "forget")]
    /\ line' = <<>> /\ access' = [p \in Savers |-> NoAccess]
    /\ UNCHANGED tenant

SettingsNext ==
    /\ UNCHANGED binds
    /\ \/ Expire \/ SettingsCrash
       \/ \E p \in Savers :
             \/ Read(p)
             \/ \E site \in Sites, password \in BOOLEAN :
                   Save(p, [what |-> "site", site |-> site, password |-> password])
             \/ Save(p, [Nothing EXCEPT !.what = "tab"])
             \/ Enter(p) \/ Look(p) \/ Fill(p) \/ Load(p) \/ Update(p) \/ Forget(p)
             \/ SaveFails(p) \/ Replace(p)

SettingsSpec == SettingsInit /\ [][SettingsNext]_settingsVars
-----------------------------------------------------------------------------
(* Properties *)

(* Types; who saves is in line, the first only has begun, and nobody waits *)
(* behind a save that is over.                                             *)
TenantSettingsTypeOK ==
    /\ binds \in BOOLEAN
    /\ tenant \in Tenant /\ cache \in Cache /\ access \in [Savers -> Access]
    /\ {line[i] : i \in 1 .. Len(line)} = {p \in Savers : Saving(p)}
    /\ \A p \in Savers : Saving(p) /\ access[p].at # "line" => p = Head(line)

(* The cache has the host of the row, unless a save is about to clear it,  *)
(* it was filled by a reader that a save had overtaken, or it was left to  *)
(* its time by a fault or by TenantService.update.                         *)
CacheCurrent ==
    cache.full /\ cache.site # tenant.site =>
        cache.late \/ \E p \in Savers : access[p].at = "forget"

(* A password gets to stand beside an address it was not given for in      *)
(* these cases only.  The address binds its password, and the save took    *)
(* the old one from a cache that was out of date, or the settings were     *)
(* replaced between its reading and its writing.  Or it does not bind it,  *)
(* and the save gave an address without a password (or the settings were   *)
(* replaced, as before).                                                   *)
PasswordMisplaced(t) == t.password # NoSite /\ t.password # t.site
PasswordForItsHost ==
    [][ PasswordMisplaced(tenant') /\ ~PasswordMisplaced(tenant) =>
        \E p \in Savers :
            /\ access[p].at = "write" /\ access'[p].at = "forget"
            /\ \/ binds /\ (access[p].late \/ access[p].overtaken)
               \/ /\ ~binds
                  /\ \/ access[p].input.what = "site" /\ ~access[p].input.password
                     \/ access[p].overtaken ]_settingsVars

(* The comment of saveLocks: two quick saves of different tabs do not      *)
(* erase one another.  Not so a replacement of all settings, which takes   *)
(* no lock: a save that overlaps one may undo it.                          *)
TabsKept ==
    [][ \A p \in Savers :
        access[p].at = "write" /\ access'[p].at = "forget" /\ ~access[p].overtaken =>
            /\ access[p].input.what = "site" => tenant'.tab = tenant.tab
            /\ access[p].input.what = "tab" =>
                  tenant'.site = tenant.site /\ tenant'.password = tenant.password ]_settingsVars

(* Together: what a save of one tab does to the rest.                      *)
SavesKept == PasswordForItsHost /\ TabsKept
=============================================================================
