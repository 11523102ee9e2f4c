---------------------------- MODULE PlatformFeed ----------------------------
(***************************************************************************)
(* One source of the shared catalog, one of its stories, and the articles  *)
(* organisations get from it: PlatformFeedService and the part of          *)
(* NewsroomService.summarize that is about shared stories.                 *)
(*                                                                         *)
(* The minute's maintenance of one replica and people fetch the source,    *)
(* copy its stories to the subscribers, and prepare a story once for all   *)
(* of them.  Each of these reads, waits, and writes without another look.  *)
(***************************************************************************)
EXTENDS Naturals

CONSTANTS
    Tenants, People, Worker,
    MaxFaults,      \* bound: fetches and models that fail, and crashes
    NoTenant

Callers == People \cup {Worker}
ASSUME PlatformAssumption == Worker \notin People /\ NoTenant \notin Tenants /\ MaxFaults \in Nat

VARIABLES
    feed,       \* PlatformFeed.enabled, "none" or "gone" without a row
    sub,        \* TenantPlatformFeed.enabled
    story,      \* PlatformFeedArticle.prepStatus
    art,        \* the NewsArticle each organisation has of the story
    call,       \* local variables of the calls
    departing,       \* who left with a call on its way to them
    faults

feedsVars == <<feed, sub, story, art, call, departing, faults>>
news == <<feed, sub, story, art, departing>>
-----------------------------------------------------------------------------
Article == [status : {"none", "new", "ready", "decided"},
            linked : BOOLEAN,                   \* platformFeedArticleId is set
            text   : BOOLEAN]                   \* titleFa and summaryFa
NoArticle == [status |-> "none", linked |-> FALSE, text |-> FALSE]

CallState == [op    : {"none", "tick", "fetch", "join", "prepare"},
              at    : {"idle", "fetch", "list", "read", "create", "ready", "prune",
                       "look", "copy", "again", "model", "share"},
              todo  : SUBSET Tenants,           \* whose copies are to come
              t     : Tenants \cup {NoTenant},
              seen  : {"none", "new", "ready"}, \* the story as it read it
              fresh : BOOLEAN]                  \* it found a story to create
NoCall == [op |-> "none", at |-> "idle", todo |-> {}, t |-> NoTenant, seen |-> "none",
           fresh |-> FALSE]

FeedsInit ==
    /\ feed = "none" /\ sub = [t \in Tenants |-> "none"]
    /\ story = "none" /\ art = [t \in Tenants |-> NoArticle]
    /\ call = [c \in Callers |-> NoCall]
    /\ departing = {} /\ faults = 0

Fault == faults < MaxFaults /\ faults' = faults + 1
Then(c, at) == call' = [call EXCEPT ![c].at = at]
Ends(c) == call' = [call EXCEPT ![c] = NoCall]

(* The minute's maintenance ends with pruneCatalogCache, whatever failed. *)
End(c) ==
    call' = [call EXCEPT ![c] = IF c = Worker THEN [NoCall EXCEPT !.op = "tick", !.at = "prune"]
                                ELSE NoCall]

(* One that stops at the first organisation. *)
NextTenantNever(c) == End(c)

(* The next organisation, or the end. *)
NextTenant(c) ==
    IF call[c].todo = {} THEN End(c)
    ELSE call' = [call EXCEPT ![c] = [NoCall EXCEPT !.op = call[c].op, !.at = "read",
                                            !.todo = call[c].todo]]
-----------------------------------------------------------------------------
(* The catalog *)

(* create gives every organisation a subscription that is off. *)
CreateFeed ==
    /\ feed = "none"
    /\ feed' = "on" /\ sub' = [t \in Tenants |-> "off"]
    /\ UNCHANGED <<story, art, call, departing, faults>>

SwitchFeed ==
    /\ feed \in {"on", "off"}
    /\ feed' = IF feed = "on" THEN "off" ELSE "on"
    /\ UNCHANGED <<sub, story, art, departing, call, faults>>

(* Stories and subscriptions go with the source; articles lose their link. *)
DeleteFeed ==
    /\ feed \in {"on", "off"}
    /\ feed' = "gone" /\ story' = "gone"
    /\ sub' = [t \in Tenants |-> "none"]
    /\ art' = [t \in Tenants |-> [art[t] EXCEPT !.linked = FALSE]]
    /\ UNCHANGED <<departing, call, faults>>
-----------------------------------------------------------------------------
(* Fetching and copying *)

Subscribers == {t \in Tenants : sub[t] = "on"}

(* The maintenance finds the source and the subscriptions that are due;    *)
(* with none due it may still fetch for whoever subscribes by then.        *)
Maintain(due) ==
    /\ call[Worker].at = "idle" /\ feed = "on" /\ due \subseteq Subscribers
    /\ \E at \in {"fetch", "read"} :
          /\ at = "read" => due # {}
          /\ call' = [call EXCEPT ![Worker] = [NoCall EXCEPT
                        !.op = IF due = {} THEN "fetch" ELSE "tick", !.at = at, !.todo = due]]
    /\ UNCHANGED <<news, faults>>

(* A person fetches it: the subscribers are read afterwards. *)
AskFetch(p) ==
    /\ p \in People /\ call[p].at = "idle" /\ feed = "on"
    /\ call' = [call EXCEPT ![p] = [NoCall EXCEPT !.op = "fetch", !.at = "fetch"]]
    /\ UNCHANGED <<news, faults>>

(* refreshCatalog creates the story; a failure ends the call, unless it is *)
(* of one who joins.                                                       *)
Fetch(c) ==
    /\ call[c].at = "fetch"
    /\ \/ /\ feed # "gone"
          /\ story' = IF story = "none" THEN "new" ELSE story
          /\ IF call[c].op = "fetch" THEN Then(c, "list") ELSE NextTenant(c)
          /\ UNCHANGED faults
       \/ /\ feed = "gone" \/ (call[c].op = "join" /\ feed = "off")
          /\ End(c) /\ UNCHANGED <<story, faults>>
       \/ /\ Fault /\ UNCHANGED story
          /\ IF call[c].op = "join" THEN NextTenant(c) ELSE End(c)
    /\ UNCHANGED <<feed, sub, art, departing>>

List(c) ==
    /\ call[c].at = "list"
    /\ IF Subscribers = {} THEN End(c)
       ELSE call' = [call EXCEPT ![c].at = "read", ![c].todo = Subscribers]
    /\ UNCHANGED <<news, faults>>

(* pruneCatalogCache: a story that is old and that no article links to. *)
PruneCatalog ==
    /\ call[Worker].at = "prune"
    /\ \/ UNCHANGED story
       \/ /\ story # "none" /\ \A t \in Tenants : ~art[t].linked
          /\ story' = "gone"
    /\ Ends(Worker)
    /\ UNCHANGED <<feed, sub, art, departing, faults>>

(* updateSubscriptionForTenant: who joins gets the stories at once. *)
Join(p, t) ==
    /\ p \in People /\ call[p].at = "idle"
    /\ feed = "on" /\ sub[t] # "none"
    /\ sub' = [sub EXCEPT ![t] = "on"]
    /\ call' = [call EXCEPT ![p] = [NoCall EXCEPT
                  !.op = "join", !.at = IF story = "none" THEN "fetch" ELSE "read", !.todo = {t}]]
    /\ departing' = departing \ {t}
    /\ UNCHANGED <<feed, story, art, faults>>

Leave(t) ==
    /\ sub[t] = "on"
    /\ sub' = [sub EXCEPT ![t] = "off"]
    /\ departing' = IF \E c \in Callers : t \in call[c].todo \cup {call[c].t}
                    THEN departing \cup {t} ELSE departing
    /\ UNCHANGED <<feed, story, art, call, faults>>

(* One that goes through all subscriptions. *)
ReadAnyTenant(c, t) ==
    /\ call[c].at = "read" /\ t \in Tenants
    /\ LET todo == call[c].todo \ {t}
           fresh == art[t].status = "none" IN
       \E more \in BOOLEAN :
       IF feed = "gone" THEN End(c)
       ELSE IF story \notin {"new", "ready"} \/ ~(fresh \/ more)
       THEN IF todo = {} THEN End(c) ELSE call' = [call EXCEPT ![c].todo = todo]
       ELSE call' = [call EXCEPT ![c] = [@ EXCEPT
                        !.at = "create", !.todo = todo, !.t = t, !.seen = story, !.fresh = fresh]]
    /\ UNCHANGED <<news, faults>>

(* syncFeedToTenant reads the stories and those the organisation has; with *)
(* none to create, of this or another entry, it is done.                   *)
ReadStories(c, t) ==
    /\ call[c].at = "read" /\ t \in call[c].todo
    /\ LET todo == call[c].todo \ {t}
           fresh == art[t].status = "none" IN
       \E more \in BOOLEAN :
       IF feed = "gone" THEN End(c)
       ELSE IF story \notin {"new", "ready"} \/ ~(fresh \/ more)
       THEN IF todo = {} THEN End(c) ELSE call' = [call EXCEPT ![c].todo = todo]
       ELSE call' = [call EXCEPT ![c] = [@ EXCEPT
                        !.at = "create", !.todo = todo, !.t = t, !.seen = story, !.fresh = fresh]]
    /\ UNCHANGED <<news, faults>>

(* createMany skips the rows there are, and fails without the story. *)
CreateArticle(c) ==
    /\ call[c].at = "create"
    /\ LET t == call[c].t IN
       IF call[c].fresh /\ art[t].status = "none" /\ story = "gone"
       THEN UNCHANGED art /\ End(c)
       ELSE /\ art' = IF call[c].fresh /\ art[t].status = "none"
                      THEN [art EXCEPT ![t] =
                              [status |-> call[c].seen, linked |-> TRUE,
                               text |-> call[c].seen = "ready"]]
                      ELSE art
            /\ IF call[c].seen = "ready" THEN Then(c, "ready") ELSE NextTenant(c)
    /\ UNCHANGED <<feed, sub, story, departing, faults>>

Readied(a) == IF a.linked THEN [a EXCEPT !.status = "ready", !.text = TRUE] ELSE a

(* A story read as ready makes the article ready, whatever it is. *)
MakeReady(c) ==
    /\ call[c].at = "ready"
    /\ art' = [art EXCEPT ![call[c].t] = Readied(@)]
    /\ NextTenant(c)
    /\ UNCHANGED <<feed, sub, story, departing, faults>>
-----------------------------------------------------------------------------
(* Preparing *)

(* summarize reads the article of t, and refuses one that was decided ...  *)
Prepare(p, t) ==
    /\ p \in People /\ call[p].at = "idle"
    /\ art[t].linked /\ art[t].status # "decided"
    /\ call' = [call EXCEPT ![p] = [NoCall EXCEPT !.op = "prepare", !.at = "look", !.t = t]]
    /\ UNCHANGED <<news, faults>>

(* ... then the story, ...                                                 *)
LookShared(p) ==
    /\ call[p].at = "look"
    /\ Then(p, IF story = "ready" THEN "copy" ELSE "again")
    /\ UNCHANGED <<news, faults>>

(* ... and copies one that is ready into the article, whatever it is now.  *)
CopyShared(p) ==
    /\ call[p].at = "copy"
    /\ art' = [art EXCEPT ![call[p].t] = [@ EXCEPT !.status = "ready", !.text = TRUE]]
    /\ Ends(p)
    /\ UNCHANGED <<feed, sub, story, departing, faults>>

(* prepareSharedArticle reads the story for itself: one that is gone, or   *)
(* ready by now, needs no model.                                           *)
LookAgain(p) ==
    /\ call[p].at = "again"
    /\ IF story = "new" THEN Then(p, "model") ELSE Ends(p)
    /\ UNCHANGED <<news, faults>>

(* It writes the story, or fails without it, ... *)
Prepared(p) ==
    /\ call[p].at = "model"
    /\ \/ /\ story # "gone" /\ story' = "ready"
          /\ Then(p, "share") /\ UNCHANGED faults
       \/ /\ story = "gone" /\ Ends(p) /\ UNCHANGED <<story, faults>>
       \/ /\ Fault /\ Ends(p) /\ UNCHANGED story
    /\ UNCHANGED <<feed, sub, art, departing>>

(* ... and the articles of all organisations. *)
Share(p) ==
    /\ call[p].at = "share"
    /\ art' = [t \in Tenants |-> Readied(art[t])]
    /\ Ends(p)
    /\ UNCHANGED <<feed, sub, story, departing, faults>>

(* What editors do with an article is NewsArticle's; here they reject or   *)
(* publish it, and take a rejection back.                                  *)
Decide(t) ==
    /\ art[t].status \in {"new", "ready"}
    /\ art' = [art EXCEPT ![t].status = "decided"]
    /\ UNCHANGED <<feed, sub, story, departing, call, faults>>

(* One that does not look for a text. *)
RestoreToReady(t) ==
    /\ art[t].status = "decided"
    /\ art' = [art EXCEPT ![t].status = "ready"]
    /\ UNCHANGED <<feed, sub, story, departing, call, faults>>

Restore(t) ==
    /\ art[t].status = "decided"
    /\ art' = [art EXCEPT ![t].status = IF art[t].text THEN "ready" ELSE "new"]
    /\ UNCHANGED <<feed, sub, story, departing, call, faults>>
-----------------------------------------------------------------------------
(* The process stops. *)
Dies ==
    /\ \E c \in Callers : call[c].at # "idle"
    /\ Fault
    /\ call' = [c \in Callers |-> NoCall]
    /\ UNCHANGED news

SyncStep(c) ==
    \/ Fetch(c) \/ List(c) \/ CreateArticle(c) \/ MakeReady(c)
    \/ \E t \in Tenants : ReadStories(c, t)

FeedsNext ==
    \/ CreateFeed \/ SwitchFeed \/ DeleteFeed \/ PruneCatalog \/ Dies
    \/ \E due \in SUBSET Tenants : Maintain(due)
    \/ \E t \in Tenants : Leave(t) \/ Decide(t) \/ Restore(t)
    \/ \E c \in Callers : SyncStep(c)
    \/ \E p \in People :
          \/ AskFetch(p) \/ LookShared(p) \/ CopyShared(p) \/ LookAgain(p)
          \/ Prepared(p) \/ Share(p)
          \/ \E t \in Tenants : Join(p, t) \/ Prepare(p, t)

FeedsSpec == FeedsInit /\ [][FeedsNext]_feedsVars

(* The maintenance runs every minute, and a run it has begun goes on. *)
FeedsFairness ==
    /\ SF_feedsVars(Maintain(Subscribers))
    /\ WF_feedsVars(SyncStep(Worker)) /\ WF_feedsVars(PruneCatalog)
-----------------------------------------------------------------------------
(* Properties *)

(* Types; an article is ready with a text. *)
PlatformTypeOK ==
    /\ feed \in {"none", "on", "off", "gone"} /\ sub \in [Tenants -> {"none", "off", "on"}]
    /\ story \in {"none", "new", "ready", "gone"}
    /\ art \in [Tenants -> Article]
    /\ call \in [Callers -> CallState]
    /\ departing \subseteq Tenants /\ faults \in 0 .. MaxFaults
    /\ \A t \in Tenants : art[t].status = "ready" => art[t].text

(* An organisation gets the story while it subscribes, or from a call that *)
(* was on its way when it left.                                            *)
OnlySubscribers ==
    [][\A t \in Tenants :
          art[t].status = "none" /\ art'[t].status # "none" =>
              sub[t] = "on" \/ t \in departing]_feedsVars

(* While a story waits in the catalog, whoever subscribes to stay gets it. *)
StoriesArrive ==
    \A t \in Tenants :
        <>[](feed = "on" /\ sub[t] = "on" /\ story \in {"new", "ready"}) => <>(art[t].status # "none")

(* newsroom.service.ts:959 and :1062: a rejected or published article is   *)
(* not prepared, and a rejection is only taken back on request.            *)
DecidedStays ==
    [][\A t \in Tenants :
          art[t].status = "decided" => art'[t].status = "decided" \/ Restore(t)]_feedsVars
=============================================================================
