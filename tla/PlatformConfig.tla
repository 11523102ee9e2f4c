--------------------------- MODULE PlatformConfig ---------------------------
(***************************************************************************)
(* The one row of PlatformConfig, a JSON object with a section for each of *)
(* the model (AI), the worker of the sources, payments, the languages      *)
(* learned, the health checks and others.  Whoever saves a section reads   *)
(* it, reads the row, and writes the row back with the section replaced;   *)
(* there is no lock and no transaction, and most writers go on with an     *)
(* empty row when they cannot read it.                                     *)
(*                                                                         *)
(* Two sections: one with a key, saved by an administrator, the host of a  *)
(* service and the key given for it; and the languages, to which the       *)
(* program adds while it reads feeds.  The service is the model or the     *)
(* worker of the sources.  Their saves are alike but for this: a new host  *)
(* of the model clears the key of the old one, and a new worker is left    *)
(* the secret of the one before.                                           *)
(***************************************************************************)
CONSTANTS
    Writers,
    Hosts, Default,   \* DEFAULTS.gapgpt_base_url
    NoKey,
    Languages

ASSUME ConfigAssumption == Default \in Hosts /\ NoKey \notin Hosts

VARIABLES
    clears,     \* the section with a key is the model's, not the worker's; fixed
    row,        \* PlatformConfig.settings
    writing     \* local variables of the calls

configVars == <<clears, row, writing>>
-----------------------------------------------------------------------------
(* A key is known by the host it was given for. *)
Keyed == [host : Hosts, key : Hosts \cup {NoKey}]
NoKeyed == [host |-> Default, key |-> NoKey]
Row == [keyed : Keyed, languages : SUBSET Languages]
NoRow == [keyed |-> NoKeyed, languages |-> {}]

(* What an administrator enters: a host or none, a key or none. *)
Given == [host : Hosts \cup {NoKey}, key : BOOLEAN]
NoneGiven == [host |-> NoKey, key |-> FALSE]
Writing == [op        : {"none", "keyed", "learn"},
            at        : {"idle", "section", "row", "write"},
            given     : Given,
            host      : Hosts,              \* the host as the section said
            languages : SUBSET Languages,   \* those learned, with the new one
            row       : Row,
            unread    : BOOLEAN,            \* a read has failed
            overtaken : BOOLEAN]            \* another call has written since
NoWriting == [op |-> "none", at |-> "idle", given |-> NoneGiven, host |-> Default,
              languages |-> {}, row |-> NoRow, unread |-> FALSE, overtaken |-> FALSE]

ConfigInit == clears \in BOOLEAN /\ row = NoRow /\ writing = [p \in Writers |-> NoWriting]

Proceed(p, r) == writing' = [writing EXCEPT ![p] = r] /\ UNCHANGED row
-----------------------------------------------------------------------------
SaveKeyed(p, given) ==
    /\ writing[p].at = "idle" /\ given # NoneGiven
    /\ Proceed(p, [NoWriting EXCEPT !.op = "keyed", !.at = "section", !.given = given])

Learn(p, l) ==
    /\ writing[p].at = "idle"
    /\ Proceed(p, [NoWriting EXCEPT !.op = "learn", !.at = "section", !.languages = {l}])

(* getGlobalAiRaw or loadLearnedSourceLanguagesStored; a failed read is an *)
(* empty section.                                                          *)
ReadSection(p) ==
    /\ writing[p].at = "section"
    /\ \E read \in {row, NoRow} :
          Proceed(p, [writing[p] EXCEPT
                        !.at = "row", !.unread = read # row,
                        !.host = IF writing[p].op = "keyed" THEN read.keyed.host ELSE @,
                        !.languages = IF writing[p].op = "learn" THEN @ \cup read.languages ELSE @])

(* One that writes without reading. *)
ReadNoRow(p) == writing[p].at = "row" /\ Proceed(p, [writing[p] EXCEPT !.at = "write"])

(* The row; a failed read is an empty row. *)
ReadRow(p) ==
    /\ writing[p].at = "row"
    /\ \E read \in {row, NoRow} :
          Proceed(p, [writing[p] EXCEPT !.at = "write", !.row = read, !.unread = @ \/ read # row])

(* One that keeps the key for the new host. *)
SavedKeepsKey(given, host, k) ==
    [host |-> IF given.host = NoKey THEN k.host ELSE given.host,
     key  |-> IF given.key THEN IF given.host = NoKey THEN host ELSE given.host ELSE k.key]

(* The section with what is given: a new host of the model without its key *)
(* clears the one there was.  A key alone is for the host the              *)
(* administrator saw.                                                      *)
Saved(given, host, k) ==
    [host |-> IF given.host = NoKey THEN k.host ELSE given.host,
     key  |-> CASE given.key -> IF given.host = NoKey THEN host ELSE given.host
                [] ~given.key /\ clears /\ given.host \notin {NoKey, host} -> NoKey
                [] OTHER -> k.key]

(* One that writes its section for the row. *)
WrittenAlone(r) ==
    IF r.op = "keyed" THEN [NoRow EXCEPT !.keyed = Saved(r.given, r.host, r.row.keyed)]
    ELSE [NoRow EXCEPT !.languages = r.languages]

Written(r) ==
    IF r.op = "keyed" THEN [r.row EXCEPT !.keyed = Saved(r.given, r.host, r.row.keyed)]
    ELSE [r.row EXCEPT !.languages = r.languages]

WriteRow(p) ==
    /\ writing[p].at = "write"
    /\ row' = Written(writing[p])
    /\ writing' = [q \in Writers |-> IF q = p THEN NoWriting
                                     ELSE IF writing[q].at \in {"row", "write"}
                                     THEN [writing[q] EXCEPT !.overtaken = TRUE] ELSE writing[q]]

(* The write fails, or the process stops. *)
WriteFails(p) == writing[p].at # "idle" /\ Proceed(p, NoWriting)

ConfigNext ==
    /\ UNCHANGED clears
    /\ \E p \in Writers :
          \/ \E given \in Given : SaveKeyed(p, given)
          \/ \E l \in Languages : Learn(p, l)
          \/ ReadSection(p) \/ ReadRow(p) \/ WriteRow(p) \/ WriteFails(p)

ConfigSpec == ConfigInit /\ [][ConfigNext]_configVars
-----------------------------------------------------------------------------
(* Properties *)

Clean(p) == writing[p].at = "write" /\ ~writing[p].unread /\ ~writing[p].overtaken

(* Types; who could read everything and was not overtaken has the row.     *)
PlatformConfigTypeOK ==
    /\ clears \in BOOLEAN /\ row \in Row /\ writing \in [Writers -> Writing]
    /\ \A p \in Writers : Clean(p) => writing[p].row = row

(* A section is changed by its own save only, and a language that was      *)
(* learned stays; but a save that overlapped another's write, or could not *)
(* read the row, takes back what others saved: learning a language while   *)
(* an administrator saves a new key brings the old one back.               *)
SectionsKept ==
    [][ row' # row =>
        \E p \in Writers : /\ writing[p].at = "write" /\ writing'[p] = NoWriting
                           /\ Clean(p) =>
                                /\ row.languages \subseteq row'.languages
                                /\ row'.keyed # row.keyed => writing[p].op = "keyed" ]_configVars

(* A key gets to stand beside a host it was not given for only by a save   *)
(* that overlapped another's write or could not read the row, or, when it  *)
(* is the worker's secret, by one that gave a worker and no secret.        *)
KeyMisplaced(k) == k.key \notin {NoKey, k.host}
KeyForItsHost ==
    [][ KeyMisplaced(row'.keyed) /\ ~KeyMisplaced(row.keyed) =>
        \E p \in Writers :
            /\ writing[p].at = "write" /\ writing'[p] = NoWriting
            /\ \/ ~Clean(p)
               \/ /\ ~clears /\ writing[p].op = "keyed"
                  /\ writing[p].given.host # NoKey /\ ~writing[p].given.key ]_configVars

(* Together: what a save of one section does to the rest.                  *)
ConfigKept == SectionsKept /\ KeyForItsHost
=============================================================================
