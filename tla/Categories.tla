---------------------------- MODULE Categories -----------------------------
(***************************************************************************)
(* The services (categories) of an organisation's site and the service an  *)
(* article is filed under: DestinationCategoryService.  One service of the *)
(* site, or made by hand, one article, and calls that file it by the model *)
(* or by hand, approve, reject, synchronise and clear away.  Every call    *)
(* reads first and writes by id later.                                     *)
(*                                                                         *)
(* The general service always is (ensureGeneralCategory, an upsert before  *)
(* every use).  A deleted service that is listed again is another row and  *)
(* not modelled.                                                           *)
(***************************************************************************)
CONSTANTS Editors

VARIABLES
    service,    \* the row of DestinationCategory
    article,    \* destinationCategoryId and categorySource of the article
    task        \* local variables of the calls

categoriesVars == <<service, article, task>>
-----------------------------------------------------------------------------
Status == {"none", "pending", "approved", "stale", "gone"}
Service == [status : Status, made : {"none", "site", "hand"}]
Article == [under : {"null", "general", "service"},
            by    : {"null", "general", "ai", "manual"}]

Operations == {"categorize", "assign", "approve", "reject", "prune", "sync"}
Task == [op        : Operations \cup {"none"},
         at        : {"idle", "read", "match", "write", "delete", "mark"},
         to        : {"none", "general", "service"},
         seen      : Status,
         listed    : BOOLEAN,   \* the site lists the service
         changed   : BOOLEAN,   \* ... with another name or address
         overtaken : BOOLEAN]   \* what it read or moved has changed since
NoTask == [op |-> "none", at |-> "idle", to |-> "none", seen |-> "none",
           listed |-> FALSE, changed |-> FALSE, overtaken |-> FALSE]

CategoriesInit ==
    /\ service = [status |-> "none", made |-> "none"]
    /\ article = [under |-> "null", by |-> "null"]
    /\ task = [p \in Editors |-> NoTask]

Exists == service.status \notin {"none", "gone"}
At(p, op, at) == task[p].op = op /\ task[p].at = at
Begin(p, r) == task[p].at = "idle" /\ task' = [task EXCEPT ![p] = r]
Done(p) == task' = [task EXCEPT ![p] = NoTask]

(* p goes on as r, and the calls of hit are overtaken. *)
Overtaking(p, r, hit) ==
    task' = [q \in Editors |-> IF q = p THEN r
                               ELSE IF q \in hit THEN [task[q] EXCEPT !.overtaken = TRUE]
                               ELSE task[q]]
-----------------------------------------------------------------------------
(* Filing the article *)

(* Articles without a service after a sync of the feeds, and of the        *)
(* general one before their publication, are listed, ...                   *)
Categorize(p) ==
    /\ article.under # "service" /\ article.by # "manual"
    /\ Begin(p, [NoTask EXCEPT !.op = "categorize", !.at = "read"])
    /\ UNCHANGED <<service, article>>

(* One that does not look who filed it. *)
ReadArticleBlindly(p) ==
    /\ At(p, "categorize", "read")
    /\ LET offered == service.status = "approved" /\ service.made = "site" IN
       task' = [task EXCEPT ![p].at = IF offered THEN "match" ELSE "write",
                            ![p].to = IF offered THEN "none" ELSE "general"]
    /\ UNCHANGED <<service, article>>

(* ... read again one by one, and shown to the model with the approved     *)
(* services of the site that have a number there, ...                      *)
ReadArticle(p) ==
    /\ At(p, "categorize", "read")
    /\ LET offered == service.status = "approved" /\ service.made = "site" IN
       IF article.by = "manual" THEN Done(p)
       ELSE task' = [task EXCEPT ![p].at = IF offered THEN "match" ELSE "write",
                                 ![p].to = IF offered THEN "none" ELSE "general"]
    /\ UNCHANGED <<service, article>>

(* ... whose answer is looked up among the approved ones; general else. *)
Match(p) ==
    /\ At(p, "categorize", "match")
    /\ \E to \in {"general"} \cup {s \in {"service"} : service.status = "approved"} :
          task' = [task EXCEPT ![p].at = "write", ![p].to = to]
    /\ UNCHANGED <<service, article>>

(* assignManualCategory, up to its write. *)
Assign(p, to) ==
    /\ to = "service" => service.status = "approved"
    /\ Begin(p, [NoTask EXCEPT !.op = "assign", !.at = "write", !.to = to])
    /\ UNCHANGED <<service, article>>

(* One that calls all it does the model's choice. *)
CategorySourceAi(op, to) == IF op = "assign" THEN "manual" ELSE "ai"

CategorySource(op, to) ==
    CASE op = "assign" -> "manual"
      [] op = "categorize" /\ to = "service" -> "ai"
      [] OTHER -> "general"

(* The write fails on a service that is gone; it overtakes categorisations *)
(* if it is by hand, and rejections that have moved the articles.          *)
File(p) ==
    /\ task[p].at = "write" /\ task[p].op \in {"categorize", "assign"}
    /\ IF task[p].to = "service" /\ ~Exists THEN Done(p) /\ UNCHANGED article
       ELSE LET by == CategorySource(task[p].op, task[p].to)
                hit == {q \in Editors :
                          \/ by = "manual" /\ task[q].op = "categorize"
                             /\ task[q].at \in {"match", "write"}
                          \/ task[p].to = "service" /\ At(q, "reject", "delete")}
            IN article' = [under |-> task[p].to, by |-> by] /\ Overtaking(p, NoTask, hit)
    /\ UNCHANGED service

Unfiled == article' = IF article.under = "service" THEN [under |-> "general", by |-> "general"]
                      ELSE article
-----------------------------------------------------------------------------
(* The service *)

CreateManual ==
    /\ service.made = "none"
    /\ service' = [status |-> "approved", made |-> "hand"]
    /\ UNCHANGED <<article, task>>

(* Who has read the status and will write from it. *)
StatusReaders == {q \in Editors : At(q, "sync", "write") \/ At(q, "prune", "delete")}

Approved(p) ==
    /\ service' = [service EXCEPT !.status = "approved"]
    /\ Overtaking(p, NoTask, StatusReaders)

(* updateStatus *)
Decide(p, op) ==
    /\ op \in {"approve", "reject"} /\ Exists
    /\ Begin(p, [NoTask EXCEPT !.op = op, !.at = "write"])
    /\ UNCHANGED <<service, article>>
Approve(p) ==
    /\ At(p, "approve", "write")
    /\ IF Exists THEN Approved(p) ELSE Done(p) /\ UNCHANGED service
    /\ UNCHANGED article

(* bulkApprove, one statement. *)
BulkApprove(p) ==
    /\ task[p].at = "idle" /\ service.status = "pending"
    /\ Approved(p)
    /\ UNCHANGED article

(* One that leaves the articles to the database. *)
RejectMovesNothing(p) ==
    /\ At(p, "reject", "write")
    /\ task' = [task EXCEPT ![p].at = "delete"]
    /\ UNCHANGED <<service, article>>

(* A rejection moves the articles, and then deletes the service, of which  *)
(* the database clears what was filed under it since.                      *)
RejectMoves(p) ==
    /\ At(p, "reject", "write")
    /\ Unfiled
    /\ task' = [task EXCEPT ![p].at = "delete"]
    /\ UNCHANGED service
RejectDeletes(p) ==
    /\ At(p, "reject", "delete")
    /\ Done(p)
    /\ IF ~Exists THEN UNCHANGED <<service, article>>
       ELSE /\ service' = [service EXCEPT !.status = "gone"]
            /\ article' = [article EXCEPT !.under = IF @ = "service" THEN "null" ELSE @]

(* bulkDeleteStale looks for stale ones, ... *)
Prune(p) ==
    /\ service.status = "stale"
    /\ Begin(p, [NoTask EXCEPT !.op = "prune", !.at = "delete"])
    /\ UNCHANGED <<service, article>>

(* ... and moves and deletes in one transaction what it found. *)
PruneDeletes(p) ==
    /\ At(p, "prune", "delete")
    /\ Done(p)
    /\ Unfiled
    /\ service' = IF Exists THEN [service EXCEPT !.status = "gone"] ELSE service

(* syncFromDestination reads the site, which lists no service made by hand,*)
Sync(p, listed, changed) ==
    /\ changed => listed
    /\ listed => service.made # "hand"
    /\ service' = IF listed THEN [service EXCEPT !.made = "site"] ELSE service
    /\ Begin(p, [NoTask EXCEPT !.op = "sync", !.at = IF listed THEN "read" ELSE "mark",
                               !.listed = listed, !.changed = changed])
    /\ UNCHANGED article

(* ... each of its services as it is stored, ... *)
SyncReads(p) ==
    /\ At(p, "sync", "read") /\ service.status # "gone"
    /\ task' = [task EXCEPT ![p].at = "write", ![p].seen = service.status]
    /\ UNCHANGED <<service, article>>

(* One that asks for an approval of every service again. *)
NextStatusPending(seen, changed) == "pending"

(* One that takes a service that is back for approved. *)
NextStatusBack(seen, changed) ==
    IF seen = "none" \/ (seen = "approved" /\ changed) THEN "pending"
    ELSE IF seen = "stale" THEN "approved" ELSE seen

(* A stale one, and an approved one that has changed, wait for approval.   *)
NextStatus(seen, changed) ==
    IF seen \in {"none", "stale"} \/ (seen = "approved" /\ changed) THEN "pending" ELSE seen

(* ... writes what follows from it, or fails if it is created or deleted   *)
(* meanwhile, ...                                                          *)
SyncWrites(p) ==
    LET r == task[p]
        next == NextStatus(r.seen, r.changed)
        hit == IF next = service.status THEN {} ELSE StatusReaders IN
    /\ At(p, "sync", "write")
    /\ IF (r.seen = "none") # (service.status = "none") \/ service.status = "gone"
       THEN Done(p) /\ UNCHANGED service
       ELSE /\ service' = [service EXCEPT !.status = next]
            /\ Overtaking(p, [r EXCEPT !.at = "mark"], hit)
    /\ UNCHANGED article

(* ... and calls all others stale, those made by hand among them.          *)
SyncMarks(p) ==
    /\ At(p, "sync", "mark")
    /\ IF Exists /\ ~task[p].listed
       THEN service' = [service EXCEPT !.status = "stale"] /\ Overtaking(p, NoTask, StatusReaders)
       ELSE UNCHANGED service /\ Done(p)
    /\ UNCHANGED article

(* The database fails a call, or the process stops. *)
TaskFails(p) ==
    /\ task[p].at # "idle"
    /\ Done(p)
    /\ UNCHANGED <<service, article>>

CategoriesNext ==
    \/ CreateManual
    \/ \E p \in Editors :
          \/ Categorize(p) \/ ReadArticle(p) \/ Match(p)
          \/ \E to \in {"general", "service"} : Assign(p, to)
          \/ File(p)
          \/ \E op \in Operations : Decide(p, op)
          \/ Approve(p) \/ BulkApprove(p) \/ RejectMoves(p) \/ RejectDeletes(p)
          \/ Prune(p) \/ PruneDeletes(p)
          \/ \E listed, changed \in BOOLEAN : Sync(p, listed, changed)
          \/ SyncReads(p) \/ SyncWrites(p) \/ SyncMarks(p) \/ TaskFails(p)

CategoriesSpec == CategoriesInit /\ [][CategoriesNext]_categoriesVars
-----------------------------------------------------------------------------
(* Properties *)

(* Types; what the model filed is filed under a service, and what it could *)
(* not file under the general one.                                         *)
CategoriesTypeOK ==
    /\ service \in Service /\ article \in Article /\ task \in [Editors -> Task]
    /\ article.by = "ai" => article.under # "general"
    /\ article.by = "general" => article.under = "general"

(* What a person filed is filed anew by a person only, or when the service *)
(* is deleted, or by a categorisation that had read the article before.    *)
ManualKept ==
    [][ article.by = "manual" /\ article' # article =>
        \E p \in Editors : /\ task'[p] = NoTask \/ task[p].op = "reject"
                           /\ \/ task[p].op \in {"assign", "reject", "prune"}
                              \/ task[p].op = "categorize" /\ task[p].overtaken ]_categoriesVars

(* An article loses its service without getting the general one only if it *)
(* was filed there between the two statements of a rejection.              *)
FiledSomewhere ==
    [][ article.under = "service" /\ article'.under = "null" =>
        \E p \in Editors : At(p, "reject", "delete") /\ task[p].overtaken ]_categoriesVars

(* An approval is undone by a rejection, by a site that has changed or no  *)
(* longer lists the service, or by a call that had read the service before:*)
(* a synchronisation, or the clearing away of stale ones.                  *)
ApprovalKept ==
    [][ service.status = "approved" /\ service'.status # "approved" =>
        \E p \in Editors :
            \/ At(p, "reject", "delete")
            \/ At(p, "sync", "mark") /\ ~task[p].listed
            \/ At(p, "sync", "write") /\ (task[p].changed \/ task[p].overtaken)
            \/ At(p, "prune", "delete") /\ task[p].overtaken ]_categoriesVars

(* A service is approved by people, who make or approve it.  Only a        *)
(* synchronisation that another call has overtaken writes an approval back.*)
ApprovedByPeople ==
    [][ service.status # "approved" /\ service'.status = "approved" =>
        \/ CreateManual
        \/ \E p \in Editors :
              \/ Approve(p) \/ BulkApprove(p)
              \/ At(p, "sync", "write") /\ task[p].overtaken ]_categoriesVars

(* Together: what people have decided about articles and services is undone*)
(* by a later decision, by what the site lists, or by a call that had read *)
(* before the decision.  The last does happen in the code, which writes by *)
(* id; it is excused here, and a call that read afterwards is not.         *)
DecisionsKept == ManualKept /\ FiledSomewhere /\ ApprovalKept /\ ApprovedByPeople
=============================================================================
