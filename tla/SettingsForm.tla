---------------------------- MODULE SettingsForm ----------------------------
(***************************************************************************)
(* The publishing settings in the dashboard: one form over the settings of *)
(* the active organisation, saved a tab at a time, with the unsaved edits  *)
(* of each organisation kept in sessionStorage (drafts; passwords are not  *)
(* kept there and are no fields of this module).  Answers come late: after *)
(* an edit, after a save, and after the organisation has been changed.     *)
(*                                                                         *)
(* A value is known by the organisation it is of and the edit it was typed *)
(* with.  The answer of a save or a disconnection replaces the whole form, *)
(* with it the edits of other tabs and those made since, and the answer of *)
(* a save drops the drafts of its tab, also one it did not hold.           *)
(***************************************************************************)
EXTENDS Naturals, FiniteSets

CONSTANTS
    Desks,       \* organisations
    Fields,
    Tabs,        \* what one press of save sends: sets of fields
    Fetched,     \* the field a test of the connection fills: wp_categories
    Unset,       \* an empty field, and a field without a draft
    NotHere,     \* no load, no call
    MaxAsked,    \* bound: calls of the page and saves of others
    MaxVisits,   \* bound: openings of the page and changes of organisation
    MaxTyped     \* bound: edits by hand

ASSUME SettingsFormAssumption ==
    /\ Tabs \subseteq SUBSET Fields /\ Fetched \in Fields
    /\ Unset \notin [of : Desks, edit : Nat]
    /\ MaxAsked \in Nat /\ MaxVisits \in Nat /\ MaxTyped \in Nat

VARIABLES
    settings, version, \* on the server: values, and how often they were written
    active, values,    \* the organisation and the fields the form shows
    load,              \* the latest GET of useApi
    drafts,            \* sessionStorage: what was typed and not yet saved
    hasLocalEdits, hasSavedInSession,
    asked, busyWith,   \* POSTs and PUTs under way, the key of the last one
    sent, visits,      \* counters of the bounds
    typed,             \* how many edits there were
    covered,           \* fields whose draft an answer has taken off the form
    filled, asOf,      \* an answer is shown; how old the newest one shown is
    early,             \* a save was sent before any answer was shown
    crossed, overlap   \* an answer came in another's form; two calls at once

server == <<settings, version>>
screen == <<values, filled, asOf>>
marks  == <<hasLocalEdits, hasSavedInSession>>
asking == <<asked, busyWith, sent>>
crossings == <<early, crossed, overlap>>
edits  == <<drafts, typed, covered>>
settingsFormVars == <<server, active, visits, screen, load, edits, marks, asking, crossings>>
-----------------------------------------------------------------------------
Value   == [of : Desks, edit : Nat]   \* edit 0: there from the start
Form    == [Fields -> Value \cup {Unset}]
Blank   == [k \in Fields |-> Unset]
Answers == [values : Form, at : Nat] \cup {NotHere}
Asked   == [kind : {"save", "disconnect", "test"}, of : Desks, section : SUBSET Fields,
            body : Form, got : Answers, here : BOOLEAN,
            last : Nat,              \* the last edit there was when it was sent
            unseen : SUBSET Fields]  \* whose draft the form may not have shown then

Put(section, body, fields) == [k \in Fields |-> IF k \in section THEN body[k] ELSE fields[k]]
Get(o)  == [of |-> o, got |-> NotHere]

FormInit ==
    /\ settings = [o \in Desks |-> [k \in Fields |-> [of |-> o, edit |-> 0]]]
    /\ version = [o \in Desks |-> 0]
    /\ active \in Desks /\ values = Blank /\ load = Get(active)
    /\ drafts = [o \in Desks |-> Blank] /\ typed = 0 /\ covered = {}
    /\ hasLocalEdits = FALSE /\ hasSavedInSession = FALSE
    /\ asked = {} /\ busyWith = NotHere /\ sent = 0 /\ visits = 0
    /\ filled = FALSE /\ asOf = 0 /\ early = FALSE /\ crossed = FALSE /\ overlap = FALSE
-----------------------------------------------------------------------------
(* The value goes in the form, and in the drafts of the organisation that  *)
(* was active when the handler was made.                                   *)
Set(o, k) ==
    /\ typed' = typed + 1
    /\ values' = [values EXCEPT ![k] = [of |-> o, edit |-> typed']]
    /\ drafts' = [drafts EXCEPT ![o] = [@ EXCEPT ![k] = [of |-> o, edit |-> typed']]]
    /\ covered' = IF o = active THEN covered \ {k} ELSE covered \cup {k}
    /\ hasLocalEdits' = TRUE

Type(k) ==
    /\ typed < MaxTyped
    /\ Set(active, k)
    /\ UNCHANGED <<server, active, visits, filled, asOf, load, hasSavedInSession, asking,
                   crossings>>

Unseen(section) == IF filled THEN section \cap covered ELSE section

(* A button is disabled only while its own key is the last one begun; the  *)
(* end of any call clears the key.                                         *)
Press(kind, section) ==
    /\ busyWith # kind /\ busyWith' = kind
    /\ sent < MaxAsked /\ sent' = sent + 1
    /\ asked' = asked \cup {[kind |-> kind, of |-> active, section |-> section,
                             body |-> Put(section, values, Blank), got |-> NotHere, here |-> TRUE,
                             last |-> typed, unseen |-> Unseen(section)]}
    /\ overlap' = (overlap \/ \E c \in asked : c.here)
    /\ early' = (early \/ (kind = "save" /\ ~filled))
    /\ UNCHANGED <<server, active, visits, screen, load, edits, marks, crossed>>

SaveTab(section)    == Press("save", section)
DisconnectInstagram == Press("disconnect", {})
TestDestination     == Press("test", {})

(* One whose form stays as it is until the answer comes.                   *)
ShowDeskUncleared(o) ==
    /\ o # active /\ active' = o /\ load' = Get(o)
    /\ hasLocalEdits' = FALSE /\ hasSavedInSession' = FALSE
    /\ visits < MaxVisits /\ visits' = visits + 1
    /\ UNCHANGED <<server, screen, edits, asking, crossings>>

Emptied ==
    /\ values' = Blank /\ filled' = FALSE /\ asOf' = 0 /\ covered' = {}
    /\ hasLocalEdits' = FALSE /\ hasSavedInSession' = FALSE
    /\ visits < MaxVisits /\ visits' = visits + 1

(* The page stays mounted: calls under way are heard in the new form.      *)
ShowDesk(o) ==
    /\ o # active /\ active' = o /\ load' = Get(o)
    /\ Emptied
    /\ UNCHANGED <<server, drafts, typed, asking, crossings>>

(* Another page and back, or a reload: nobody hears the calls under way.   *)
Reopen ==
    /\ load' = Get(active) /\ Emptied
    /\ asked' = {[c EXCEPT !.here = FALSE] :
                    c \in {d \in asked : d.kind = "save" /\ d.got = NotHere}}
    /\ busyWith' = NotHere /\ overlap' = FALSE
    /\ UNCHANGED <<server, active, drafts, typed, sent, early, crossed>>

(* The same settings are saved in another tab or by another administrator. *)
SavedElsewhere(o) ==
    /\ sent < MaxAsked /\ sent' = sent + 1
    /\ version' = [version EXCEPT ![o] = @ + 1]
    /\ UNCHANGED <<settings, active, visits, screen, load, edits, marks, asked, busyWith,
                   crossings>>
-----------------------------------------------------------------------------
(* The GET of the page, and of a change of organisation *)

LoadServed ==
    /\ load # NotHere /\ load.got = NotHere
    /\ load' = [load EXCEPT !.got = [values |-> settings[load.of], at |-> version[load.of]]]
    /\ UNCHANGED <<server, active, visits, screen, edits, marks, asking, crossings>>

(* One that leaves the drafts where they are.                              *)
DrawAlone(got) == values' = got.values /\ filled' = TRUE /\ asOf' = got.at /\ covered' = {}

Draw(got) ==
    /\ values' = [k \in Fields |-> IF drafts[active][k] # Unset THEN drafts[active][k]
                                   ELSE got.values[k]]
    /\ filled' = TRUE /\ asOf' = got.at /\ covered' = {}

(* One without the guard against a save before it.                         *)
LoadHeardLate ==
    /\ load # NotHere /\ load.got # NotHere /\ load' = NotHere
    /\ IF hasLocalEdits THEN UNCHANGED <<screen, covered>> ELSE Draw(load.got)
    /\ UNCHANGED <<server, active, visits, drafts, typed, marks, asking, crossings>>

LoadHeard ==
    /\ load # NotHere /\ load.got # NotHere /\ load' = NotHere
    /\ IF hasLocalEdits \/ hasSavedInSession THEN UNCHANGED <<screen, covered>>
       ELSE Draw(load.got)
    /\ UNCHANGED <<server, active, visits, drafts, typed, marks, asking, crossings>>

LoadFails ==
    /\ load # NotHere /\ load' = NotHere
    /\ UNCHANGED <<server, active, visits, screen, edits, marks, asking, crossings>>
-----------------------------------------------------------------------------
(* The calls *)

(* setSettings writes the fields of the tab and answers with all of them;  *)
(* the others change no field of the form.                                 *)
Served(c) ==
    /\ c.got = NotHere
    /\ IF c.kind = "save"
       THEN /\ settings' = [settings EXCEPT ![c.of] = Put(c.section, c.body, @)]
            /\ version' = [version EXCEPT ![c.of] = @ + 1]
       ELSE UNCHANGED <<settings, version>>
    /\ asked' = (asked \ {c}) \cup
          {[d EXCEPT !.got = [values |-> settings'[c.of], at |-> version'[c.of]]] :
              d \in {e \in {c} : e.here}}
    /\ UNCHANGED <<active, visits, screen, load, edits, marks, busyWith,
                   sent, crossings>>

AnswerComes(c) ==
    /\ c.here /\ c.got # NotHere
    /\ asked' = asked \ {c} /\ busyWith' = NotHere
    /\ crossed' = (crossed \/ c.of # active)
    /\ UNCHANGED <<server, active, visits, load, sent, early, overlap>>

(* The answer fills the whole form, and covers what drafts are left.       *)
FillsForm(c, left) ==
    /\ values' = c.got.values /\ filled' = TRUE /\ asOf' = c.got.at
    /\ drafts' = left
    /\ covered' = {k \in Fields : left[active][k] \notin {Unset, c.got.values[k]}}
    /\ UNCHANGED typed

(* One that drops every draft of the organisation.                         *)
SaveHeardDropsAll(c) ==
    /\ c.kind = "save" /\ AnswerComes(c)
    /\ FillsForm(c, [drafts EXCEPT ![c.of] = Blank])
    /\ hasLocalEdits' = FALSE /\ hasSavedInSession' = TRUE

SaveHeard(c) ==
    /\ c.kind = "save" /\ AnswerComes(c)
    /\ FillsForm(c, [drafts EXCEPT ![c.of] = Put(c.section, Blank, @)])
    /\ hasLocalEdits' = FALSE /\ hasSavedInSession' = TRUE

DisconnectHeard(c) ==
    /\ c.kind = "disconnect" /\ AnswerComes(c)
    /\ FillsForm(c, drafts)
    /\ UNCHANGED marks

TestHeard(c) ==
    /\ c.kind = "test" /\ AnswerComes(c)
    /\ Set(c.of, Fetched)
    /\ UNCHANGED <<hasSavedInSession, filled, asOf>>

(* Refused, cut off, or the answer is lost after the server has written.   *)
AskFails(c) ==
    /\ c.here
    /\ asked' = asked \ {c} /\ busyWith' = NotHere
    /\ UNCHANGED <<server, active, visits, screen, load, edits, marks, sent, crossings>>

FormNext ==
    \/ \E k \in Fields : Type(k)
    \/ \E section \in Tabs : SaveTab(section)
    \/ DisconnectInstagram
    \/ TestDestination
    \/ \E o \in Desks : ShowDesk(o) \/ SavedElsewhere(o)
    \/ Reopen
    \/ LoadServed
    \/ LoadHeard
    \/ LoadFails
    \/ \E c \in asked :
          Served(c) \/ SaveHeard(c) \/ DisconnectHeard(c) \/ TestHeard(c) \/ AskFails(c)

FormSpec == FormInit /\ [][FormNext]_settingsFormVars
-----------------------------------------------------------------------------
FormTypeOK ==
    /\ settings \in [Desks -> Form] /\ version \in [Desks -> Nat]
    /\ active \in Desks /\ values \in Form
    /\ load = NotHere \/ (load.of \in Desks /\ load.got \in Answers)
    /\ drafts \in [Desks -> Form] /\ typed \in Nat /\ covered \subseteq Fields
    /\ asked \subseteq Asked
    /\ busyWith \in {"save", "disconnect", "test", NotHere}
    /\ sent \in 0..MaxAsked /\ visits \in 0..MaxVisits
    /\ {hasLocalEdits, hasSavedInSession, filled, early, crossed, overlap} \subseteq BOOLEAN
    /\ asOf \in Nat

(* The form and the settings of an organisation hold values stored or      *)
(* typed for it, unless a call of one was heard in the form of another.    *)
Of(o, value) == value = Unset \/ value.of = o
OwnValues ==
    ~crossed =>
        \A k \in Fields :
            /\ Of(active, values[k])
            /\ \A o \in Desks : Of(o, settings[o][k])

(* No stored field becomes empty, unless a save was sent before any answer *)
(* was in the form.                                                        *)
NotEmptied == early \/ \A o \in Desks, k \in Fields : settings[o][k] # Unset

(* The form shows every draft of its organisation, unless no answer is in  *)
(* it yet, or an answer has replaced it: that of a save or a disconnection,*)
(* or of a test of another organisation.                                   *)
EditsShown ==
    filled => \A k \in Fields \ covered : drafts[active][k] \in {Unset, values[k]}

FormHolds == OwnValues /\ NotEmptied /\ EditsShown

(* An edit leaves the drafts by a later edit of its field, or by the answer*)
(* of a save of its tab; and that save has held it, unless the edit was    *)
(* made after the save was sent, or the form may not have shown it then.   *)
(* In the last two cases it is lost: nobody has saved it.                  *)
EditsKept ==
    \A o \in Desks, k \in Fields :
        LET d == drafts[o][k] IN
        d # Unset /\ drafts'[o][k] # d =>
            \/ drafts'[o][k] # Unset /\ drafts'[o][k].edit > d.edit
            \/ \E c \in asked \ asked' :
                  /\ c.kind = "save" /\ c.of = o /\ k \in c.section /\ c.got # NotHere
                  /\ c.body[k] = d \/ d.edit > c.last \/ k \in c.unseen

(* "Once this form has received a confirmed PUT response, never let an     *)
(* older GET overwrite it": what it shows never goes back to an older      *)
(* state of the server, unless two calls were under way at once.           *)
NeverOlder ==
    hasSavedInSession /\ hasSavedInSession' /\ ~crossed' /\ ~overlap => asOf' >= asOf

FormStep == EditsKept /\ NeverOlder
FormKept == [][FormStep]_settingsFormVars
=============================================================================
