---------------------------- MODULE MCOperation ----------------------------
(***************************************************************************)
(* The dashboard in front of the services: a tab of the browser, one call  *)
(* of it, what a member may do, the sources that are kept there, the form  *)
(* of the settings and the window of the news page.  They share no state,  *)
(* so each is explored while the others are as at the start (the sum of    *)
(* their states).                                                          *)
(***************************************************************************)
EXTENDS Browser, ApiCall, Access, Sources, SettingsForm, NewsModal, TLC

CONSTANTS
    ann, bob,   \* users: one of two organisations, one of a single one
    x, y, z,    \* organisations, services and addresses
    jo, kim,    \* administrators
    site, link  \* fields of the settings, each in a tab of its own

VARIABLE part   \* the part whose behaviour this is

browser == browserVars
call    == callVars
access  == accessVars
sources == sourcesVars
setting == settingsFormVars
modal   == newsModalVars

Parts   == {"browser", "call", "access", "sources", "setting", "modal"}
Belongs == (ann :> {x, y}) @@ (bob :> {x})
Two     == <<x, y>>
OneEach == {{site}, {link}}

(* Rows of releases before: publishing.view alone, two old keys, and none. *)
Old     == {{}, {"view"}, {"manage", "members"}}
Some    == {"news", "settings", "organization"}

OperationInit ==
    /\ part \in Parts
    /\ BrowserInit /\ CallInit /\ AccessInit /\ SourcesInit /\ FormInit /\ ModalInit
    /\ part # "access" => member = NoRow
    /\ part # "sources" => owner = "platform" /\ feed[2].group = NoId
    /\ active = x

OperationNext ==
    /\ UNCHANGED part
    /\ \/ /\ part = "browser" /\ BrowserNext
          /\ UNCHANGED <<call, access, sources, setting, modal>>
       \/ /\ part = "call" /\ CallNext
          /\ UNCHANGED <<browser, access, sources, setting, modal>>
       \/ /\ part = "access" /\ AccessNext
          /\ UNCHANGED <<browser, call, sources, setting, modal>>
       \/ /\ part = "sources" /\ SourcesNext
          /\ UNCHANGED <<browser, call, access, setting, modal>>
       \/ /\ part = "setting" /\ FormNext
          /\ UNCHANGED <<browser, call, access, sources, modal>>
       \/ /\ part = "modal" /\ ModalNext
          /\ UNCHANGED <<browser, call, access, sources, setting>>

OperationSpec ==
    OperationInit /\ [][OperationNext]_<<part, browser, call, access, sources, setting, modal>>

(* The types of all parts; those of the others are as at the start. *)
OperationTypeOK ==
    CASE part = "browser" -> BrowserTypeOK
      [] part = "call"    -> CallTypeOK
      [] part = "access"  -> AccessTypeOK
      [] part = "sources" -> SourcesTypeOK
      [] part = "setting" -> FormTypeOK
      [] part = "modal"   -> ModalTypeOK

(* The types, and what an owner has ticked: guards and menu give a member  *)
(* that and nothing else, whatever rows older releases have left.          *)
OperationInv == OperationTypeOK /\ AccessHolds

(* The tab, the form of the settings and the window of the news page show, *)
(* hold and send only what is theirs, and nothing twice.                   *)
PagesHold ==
    /\ part = "browser" => BrowserHolds
    /\ part = "setting" => FormHolds
    /\ part = "modal" => ModalHolds

(* What a person typed is taken back only in the ways EditsKept lists, what *)
(* a later answer showed by none, and no operation ends another's window.  *)
PagesKept ==
    [][/\ part = "setting" => FormStep
       /\ part = "modal" => OwnWindow]_<<part, setting, modal>>
=============================================================================
