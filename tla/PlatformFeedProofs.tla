------------------------- MODULE PlatformFeedProofs -------------------------
(***************************************************************************)
(* What holds of a source of the catalog for any number of organisations,  *)
(* people and faults: the types with the texts of ready articles, and that *)
(* nobody gets a story who neither subscribes nor left while a call was on *)
(* its way.                                                                *)
(***************************************************************************)
EXTENDS PlatformFeed, TLAPS

(* Which operation a call can be in where, and what it has read by then.   *)
FeedShape(c) ==
    /\ c.at \in {"look", "copy", "again", "model", "share"} <=> c.op = "prepare"
    /\ c.op = "prepare" => c.t \in Tenants
    /\ c.at \in {"create", "ready"} => c.t \in Tenants
    /\ c.at = "create" => c.seen # "none"

(* Whoever has left did so with a call on the way.                         *)
Near(t) == sub[t] = "on" \/ t \in departing

Aims(c) == c.todo \cup {c.t}

FeedShapes == \A c \in Callers : FeedShape(call[c])
NoStory    == feed = "gone" => story = "gone"
NobodyYet  == feed = "none" => \A t \in Tenants : sub[t] # "on"
LinkedIs   == \A t \in Tenants : art[t].linked => art[t].status # "none"
AimsNear   == feed # "gone" =>
                \A c \in Callers : call[c].op # "prepare" =>
                    \A t \in Tenants : t \in Aims(call[c]) => Near(t)
HasArticle == \A c \in Callers : call[c].op = "prepare" => art[call[c].t].status # "none"
FeedInv    == /\ PlatformTypeOK /\ FeedShapes /\ NoStory /\ NobodyYet /\ LinkedIs /\ AimsNear
              /\ HasArticle

LEMMA Somebody == NoTenant \notin Tenants /\ Worker \in Callers /\ 0 \in 0 .. MaxFaults
BY PlatformAssumption DEF PlatformAssumption, Callers

LEMMA NoCallAims ==
    /\ NoCall \in CallState /\ FeedShape(NoCall) /\ Aims(NoCall) \cap Tenants = {}
    /\ NoCall.op = "none" /\ NoCall.todo = {} /\ NoCall.t = NoTenant
BY Somebody DEF NoCall, CallState, FeedShape, Aims

LEMMA CallOf ==
    ASSUME FeedInv, NEW c \in Callers
    PROVE  call[c] \in CallState /\ FeedShape(call[c]) /\ call[c].todo \subseteq Tenants
           /\ call[c].op \in {"none", "tick", "fetch", "join", "prepare"}
BY DEF FeedInv, PlatformTypeOK, FeedShapes, CallState

LEMMA ArticleOf ==
    ASSUME FeedInv, NEW t \in Tenants
    PROVE  /\ art[t] \in Article /\ Readied(art[t]) \in Article
           /\ art[t].status = "ready" => art[t].text
           /\ Readied(art[t]).status = "ready" => Readied(art[t]).text
           /\ Readied(art[t]).linked => Readied(art[t]).status # "none"
           /\ art[t].status = "none" <=> Readied(art[t]).status = "none"
<1> DEFINE a == art[t]
<1>1. a \in Article /\ (a.status = "ready" => a.text) /\ (a.linked => a.status # "none")
  BY DEF FeedInv, PlatformTypeOK, LinkedIs
<1> HIDE DEF a
<1>2. Readied(a) \in Article
  BY <1>1 DEF Readied, Article
<1>3. a.linked => Readied(a).status = "ready" /\ Readied(a).text /\ Readied(a).linked
  BY <1>1 DEF Readied, Article
<1>4. ~a.linked => Readied(a) = a
  BY DEF Readied
<1>5. /\ Readied(a).status = "ready" => Readied(a).text
      /\ Readied(a).linked => Readied(a).status # "none"
      /\ a.status = "none" <=> Readied(a).status = "none"
  BY <1>1, <1>3, <1>4
<1> QED BY <1>1, <1>2, <1>5 DEF a

(* A call that prepares goes on with its article, or has just read it.     *)
Preparing == \A c \in Callers : call'[c].op = "prepare" =>
    \/ call[c].op = "prepare" /\ call'[c].t = call[c].t
    \/ art[call'[c].t].status # "none"

(* The calls keep what the invariant says of them.                         *)
Moved ==
    call' \in [Callers -> CallState] /\ FeedShapes' /\ AimsNear' /\ Preparing

(* A call moves on, aiming at nobody new.                                  *)
LEMMA CallMoves ==
    ASSUME FeedInv, NEW c \in Callers, NEW d \in CallState, FeedShape(d),
           call' = [call EXCEPT ![c] = d], UNCHANGED <<sub, departing>>, feed' = feed,
           feed # "gone" /\ d.op # "prepare" => \A t \in Tenants : t \in Aims(d) => Near(t),
           d.op = "prepare" => \/ call[c].op = "prepare" /\ d.t = call[c].t
                               \/ art[d.t].status # "none"
    PROVE  Moved
<1>1. call' \in [Callers -> CallState] /\ call'[c] = d
      /\ \A q \in Callers \ {c} : call'[q] = call[q]
  BY DEF FeedInv, PlatformTypeOK
<1>2. FeedShapes'
  BY <1>1 DEF FeedInv, FeedShapes
<1>3. AimsNear'
  <2> SUFFICES ASSUME feed # "gone", NEW q \in Callers, call'[q].op # "prepare",
                      NEW t \in Tenants, t \in Aims(call'[q])
               PROVE  Near(t)
    BY DEF AimsNear, Near, Aims
  <2>1. CASE q = c
    BY <1>1, <2>1
  <2>2. CASE q # c
    BY <1>1, <2>2 DEF FeedInv, AimsNear
  <2> QED BY <2>1, <2>2
<1>4. Preparing
  BY <1>1 DEF Preparing
<1> QED BY <1>1, <1>2, <1>3, <1>4 DEF Moved

LEMMA EndMoves ==
    ASSUME FeedInv, NEW c \in Callers, End(c) \/ Ends(c), UNCHANGED <<sub, departing, feed>>
    PROVE  Moved
<1> DEFINE d == [NoCall EXCEPT !.op = "tick", !.at = "prune"]
<1>1. d \in CallState /\ FeedShape(d) /\ Aims(d) \cap Tenants = {} /\ d.op = "tick"
  BY Somebody DEF NoCall, CallState, FeedShape, Aims
<1>2. call' = [call EXCEPT ![c] = d] \/ call' = [call EXCEPT ![c] = NoCall]
  BY DEF End, Ends
<1> HIDE DEF d
<1> QED BY <1>1, <1>2, NoCallAims, CallMoves

LEMMA NextMoves ==
    ASSUME FeedInv, NEW c \in Callers, call[c].op # "prepare", NextTenant(c),
           UNCHANGED <<sub, departing, feed>>
    PROVE  Moved
<1>1. CASE call[c].todo = {}
  BY <1>1, EndMoves DEF NextTenant
<1>2. CASE call[c].todo # {}
  <2> DEFINE d == [NoCall EXCEPT !.op = call[c].op, !.at = "read", !.todo = call[c].todo]
  <2>1. d \in CallState /\ d.op = call[c].op /\ d.at = "read" /\ d.todo = call[c].todo
        /\ d.t = NoTenant
    BY CallOf, NoCallAims DEF NoCall, CallState
  <2>2. call' = [call EXCEPT ![c] = d]
    BY <1>2 DEF NextTenant
  <2> HIDE DEF d
  <2>3. FeedShape(d)
    BY <2>1 DEF FeedShape
  <2>4. feed # "gone" => \A t \in Tenants : t \in Aims(d) => Near(t)
    BY <2>1, Somebody DEF Aims, FeedInv, AimsNear
  <2> QED BY <2>1, <2>2, <2>3, <2>4, CallMoves
<1> QED BY <1>1, <1>2

(* A call that only goes to another place.                                 *)
LEMMA ThenMoves ==
    ASSUME FeedInv, NEW c \in Callers, NEW at, Then(c, at), UNCHANGED <<sub, departing, feed>>,
           \/ at = "list" /\ call[c].op # "prepare"
           \/ at = "ready" /\ call[c].at = "create"
           \/ at \in {"copy", "again", "model", "share"} /\ call[c].op = "prepare"
    PROVE  Moved
<1> DEFINE d == [call[c] EXCEPT !.at = at]
<1>1. d \in CallState /\ d.op = call[c].op /\ d.at = at /\ d.todo = call[c].todo
      /\ d.t = call[c].t
  BY CallOf DEF CallState
<1>2. call' = [call EXCEPT ![c] = d]
  BY DEF Then
<1> HIDE DEF d
<1>3. FeedShape(d)
  BY <1>1, CallOf DEF FeedShape
<1>4. feed # "gone" /\ d.op # "prepare" => \A t \in Tenants : t \in Aims(d) => Near(t)
  BY <1>1 DEF Aims, FeedInv, AimsNear
<1> QED BY <1>1, <1>2, <1>3, <1>4, CallMoves
-----------------------------------------------------------------------------
(* The articles keep what the invariant says of them.                      *)
ArtKeeps ==
    /\ art' \in [Tenants -> Article] /\ LinkedIs'
    /\ \A t \in Tenants : art'[t].status = "ready" => art'[t].text
    /\ \A t \in Tenants : art[t].status # "none" => art'[t].status # "none"

(* Who prepares an article has read it, so it is there.                    *)
LEMMA ArticleStays ==
    ASSUME FeedInv, FeedShapes', \A t \in Tenants : art[t].status # "none" => art'[t].status # "none",
           \A c \in Callers : call'[c].op = "prepare" =>
              \/ call[c].op = "prepare" /\ call'[c].t = call[c].t
              \/ art[call'[c].t].status # "none"
    PROVE  HasArticle'
<1> SUFFICES ASSUME NEW c \in Callers, call'[c].op = "prepare" PROVE art'[call'[c].t].status # "none"
  BY DEF HasArticle
<1>1. call'[c].t \in Tenants
  BY DEF FeedShapes, FeedShape
<1>2. art[call'[c].t].status # "none"
  BY DEF FeedInv, HasArticle
<1> QED BY <1>1, <1>2

LEMMA SameArt == ASSUME FeedInv, art' = art PROVE ArtKeeps
BY DEF ArtKeeps, FeedInv, PlatformTypeOK, LinkedIs

LEMMA OneArt ==
    ASSUME FeedInv, NEW t \in Tenants, NEW a \in Article, art' = [art EXCEPT ![t] = a],
           a.linked => a.status # "none", a.status = "ready" => a.text,
           art[t].status # "none" => a.status # "none"
    PROVE  ArtKeeps
BY DEF ArtKeeps, FeedInv, PlatformTypeOK, LinkedIs

LEMMA FaultCounted == ASSUME FeedInv, Fault \/ UNCHANGED faults PROVE faults' \in 0 .. MaxFaults
BY PlatformAssumption DEF PlatformAssumption, Fault, FeedInv, PlatformTypeOK

(* A step that leaves source and subscriptions alone.                      *)
LEMMA Assembled ==
    ASSUME FeedInv, UNCHANGED <<feed, sub, departing>>, ArtKeeps,
           Moved,
           story' \in {"none", "new", "ready", "gone"}, feed = "gone" => story' = "gone",
           Fault \/ UNCHANGED faults
    PROVE  FeedInv'
<1>1. faults' \in 0 .. MaxFaults
  BY FaultCounted
<1>2. HasArticle'
  BY ArticleStays DEF Moved, Preparing, ArtKeeps
<1> QED BY <1>1, <1>2 DEF FeedInv, PlatformTypeOK, NoStory, NobodyYet, ArtKeeps, Moved
-----------------------------------------------------------------------------
(* The catalog                                                             *)

LEMMA CreateFeedKeeps == ASSUME FeedInv, CreateFeed PROVE FeedInv'
<1>1. PlatformTypeOK'
  BY DEF FeedInv, PlatformTypeOK, CreateFeed
<1>2. AimsNear'
  BY DEF FeedInv, AimsNear, NobodyYet, Near, Aims, CreateFeed
<1> QED BY <1>1, <1>2 DEF FeedInv, FeedShapes, NoStory, NobodyYet, LinkedIs, HasArticle, CreateFeed

LEMMA SwitchFeedKeeps == ASSUME FeedInv, SwitchFeed PROVE FeedInv'
<1>1. PlatformTypeOK'
  BY DEF FeedInv, PlatformTypeOK, SwitchFeed
<1>2. AimsNear'
  BY DEF FeedInv, AimsNear, Near, Aims, SwitchFeed
<1> QED BY <1>1, <1>2 DEF FeedInv, FeedShapes, NoStory, NobodyYet, LinkedIs, HasArticle, SwitchFeed

LEMMA DeleteFeedKeeps == ASSUME FeedInv, DeleteFeed PROVE FeedInv'
<1>1. \A t \in Tenants :
        LET a == [art[t] EXCEPT !.linked = FALSE] IN
        a \in Article /\ a.linked = FALSE /\ (a.status = "ready" => a.text)
  BY ArticleOf DEF Article
<1>2. \A t \in Tenants : /\ art'[t] \in Article /\ art'[t].linked = FALSE
                         /\ art'[t].status = "ready" => art'[t].text
  BY <1>1 DEF DeleteFeed
<1>3. art' \in [Tenants -> Article]
  BY <1>2 DEF DeleteFeed
<1>4. PlatformTypeOK'
  BY <1>2, <1>3 DEF FeedInv, PlatformTypeOK, DeleteFeed
<1>5. LinkedIs'
  BY <1>2 DEF LinkedIs
<1>6. \A t \in Tenants : art'[t].status = art[t].status
  BY ArticleOf DEF DeleteFeed, Article
<1>7. HasArticle'
  BY <1>6, CallOf DEF FeedInv, HasArticle, FeedShape, DeleteFeed
<1> QED BY <1>4, <1>5, <1>7 DEF FeedInv, FeedShapes, NoStory, NobodyYet, AimsNear, DeleteFeed

LEMMA LeaveKeeps == ASSUME FeedInv, NEW t \in Tenants, Leave(t) PROVE FeedInv'
<1>1. PlatformTypeOK'
  BY DEF FeedInv, PlatformTypeOK, Leave
<1>2. NobodyYet'
  BY DEF FeedInv, PlatformTypeOK, NobodyYet, Leave
<1>3. AimsNear'
  <2> SUFFICES ASSUME feed # "gone", NEW c \in Callers, call[c].op # "prepare",
                      NEW u \in Tenants, u \in Aims(call[c])
               PROVE  Near(u)'
    BY DEF AimsNear, Aims, Leave
  <2>1. Near(u)
    BY DEF FeedInv, AimsNear
  <2>2. CASE u = t
    BY <2>2 DEF Leave, Near, Aims
  <2>3. CASE u # t
    BY <2>1, <2>3 DEF Leave, Near, FeedInv, PlatformTypeOK
  <2> QED BY <2>2, <2>3
<1> QED BY <1>1, <1>2, <1>3 DEF FeedInv, FeedShapes, NoStory, LinkedIs, HasArticle, Leave

LEMMA JoinKeeps == ASSUME FeedInv, NEW p, NEW t \in Tenants, Join(p, t) PROVE FeedInv'
<1>1. p \in Callers
  BY DEF Join, Callers
<1>2. PICK at \in {"fetch", "read"} :
        call' = [call EXCEPT ![p] = [NoCall EXCEPT !.op = "join", !.at = at, !.todo = {t}]]
  BY DEF Join
<1> DEFINE d == [NoCall EXCEPT !.op = "join", !.at = at, !.todo = {t}]
<1>3. d \in CallState /\ d.op = "join" /\ d.at = at /\ d.todo = {t} /\ d.t = NoTenant
  BY <1>2 DEF NoCall, CallState
<1>4. call' = [call EXCEPT ![p] = d]
  BY <1>2
<1> HIDE DEF d
<1>5. FeedShape(d)
  BY <1>2, <1>3 DEF FeedShape
<1>6. call' \in [Callers -> CallState] /\ call'[p] = d
      /\ \A q \in Callers \ {p} : call'[q] = call[q]
  BY <1>1, <1>3, <1>4 DEF FeedInv, PlatformTypeOK
<1>7. PlatformTypeOK'
  BY <1>6 DEF FeedInv, PlatformTypeOK, Join
<1>8. FeedShapes'
  BY <1>5, <1>6 DEF FeedInv, FeedShapes
<1>9. \A u \in Tenants : u = t \/ Near(u) => Near(u)'
  BY DEF Near, Join, FeedInv, PlatformTypeOK
<1>10. AimsNear'
  <2> SUFFICES ASSUME NEW q \in Callers, call'[q].op # "prepare",
                      NEW u \in Tenants, u \in Aims(call'[q])
               PROVE  Near(u)'
    BY DEF AimsNear, Aims
  <2>1. CASE q = p
    BY <1>3, <1>6, <1>9, <2>1, Somebody DEF Aims
  <2>2. CASE q # p
    BY <1>6, <1>9, <2>2 DEF FeedInv, AimsNear, Join
  <2> QED BY <2>1, <2>2
<1>11. HasArticle'
  BY <1>3, <1>6 DEF FeedInv, HasArticle, Join
<1> QED BY <1>7, <1>8, <1>10, <1>11 DEF FeedInv, NoStory, NobodyYet, LinkedIs, Join
-----------------------------------------------------------------------------
(* Fetching and copying                                                    *)

LEMMA MaintainKeeps == ASSUME FeedInv, NEW due \in SUBSET Tenants, Maintain(due) PROVE FeedInv'
<1>1. PICK at \in {"fetch", "read"} :
        call' = [call EXCEPT ![Worker] = [NoCall EXCEPT
                    !.op = IF due = {} THEN "fetch" ELSE "tick", !.at = at, !.todo = due]]
  BY DEF Maintain
<1> DEFINE d == [NoCall EXCEPT !.op = IF due = {} THEN "fetch" ELSE "tick", !.at = at, !.todo = due]
<1>2. d \in CallState /\ d.op \in {"fetch", "tick"} /\ d.at = at /\ d.todo = due /\ d.t = NoTenant
  BY <1>1 DEF NoCall, CallState
<1>3. call' = [call EXCEPT ![Worker] = d]
  BY <1>1
<1> HIDE DEF d
<1>4. FeedShape(d)
  BY <1>1, <1>2 DEF FeedShape
<1>5. \A t \in Tenants : t \in Aims(d) => Near(t)
  BY <1>2, Somebody DEF Aims, Near, Maintain, Subscribers
<1>6. UNCHANGED <<feed, sub, story, art, departing, faults>>
  BY DEF Maintain, news
<1>7. Moved
  BY <1>2, <1>3, <1>4, <1>5, <1>6, Somebody, CallMoves
<1>8. story \in {"none", "new", "ready", "gone"} /\ (feed = "gone" => story = "gone")
  BY DEF FeedInv, PlatformTypeOK, NoStory
<1> QED BY <1>6, <1>7, <1>8, SameArt, Assembled

LEMMA AskFetchKeeps == ASSUME FeedInv, NEW p, AskFetch(p) PROVE FeedInv'
<1> DEFINE d == [NoCall EXCEPT !.op = "fetch", !.at = "fetch"]
<1>1. d \in CallState /\ FeedShape(d) /\ Aims(d) \cap Tenants = {} /\ d.op = "fetch"
  BY Somebody DEF NoCall, CallState, FeedShape, Aims
<1>2. p \in Callers /\ call' = [call EXCEPT ![p] = d]
  BY DEF AskFetch, Callers
<1> HIDE DEF d
<1>3. UNCHANGED <<feed, sub, story, art, departing, faults>>
  BY DEF AskFetch, news
<1>4. Moved
  BY <1>1, <1>2, <1>3, CallMoves
<1>5. story \in {"none", "new", "ready", "gone"} /\ (feed = "gone" => story = "gone")
  BY DEF FeedInv, PlatformTypeOK, NoStory
<1> QED BY <1>3, <1>4, <1>5, SameArt, Assembled

LEMMA FetchKeeps == ASSUME FeedInv, NEW c \in Callers, Fetch(c) PROVE FeedInv'
<1>1. call[c].op # "prepare" /\ UNCHANGED <<feed, sub, art, departing>>
  BY CallOf DEF Fetch, FeedShape
<1>2. Moved
  <2>1. End(c) \/ NextTenant(c) \/ Then(c, "list")
    BY DEF Fetch
  <2> QED BY <1>1, <2>1, EndMoves, NextMoves, ThenMoves
<1>3. story' \in {"none", "new", "ready", "gone"} /\ (feed = "gone" => story' = "gone")
      /\ (Fault \/ UNCHANGED faults)
  BY DEF Fetch, FeedInv, PlatformTypeOK, NoStory
<1> QED BY <1>1, <1>2, <1>3, SameArt, Assembled

LEMMA ListKeeps == ASSUME FeedInv, NEW c \in Callers, List(c) PROVE FeedInv'
<1>1. call[c].op # "prepare" /\ UNCHANGED <<feed, sub, story, art, departing, faults>>
  BY CallOf DEF List, FeedShape, news
<1>2. Moved
  <2>1. CASE End(c)
    BY <1>1, <2>1, EndMoves
  <2>2. CASE ~End(c)
    <3> DEFINE d == [call[c] EXCEPT !.at = "read", !.todo = Subscribers]
    <3>1. d \in CallState /\ d.op = call[c].op /\ d.at = "read" /\ d.todo = Subscribers
          /\ d.t = call[c].t
      BY CallOf DEF CallState, Subscribers
    <3>2. call' = [call EXCEPT ![c] = d]
      BY <2>2, CallOf DEF List, FeedInv, PlatformTypeOK
    <3> HIDE DEF d
    <3>3. FeedShape(d)
      BY <1>1, <3>1 DEF FeedShape
    <3>4. feed # "gone" => \A t \in Tenants : t \in Aims(d) => Near(t)
      BY <1>1, <3>1 DEF Aims, FeedInv, AimsNear, Near, Subscribers
    <3> QED BY <1>1, <3>1, <3>2, <3>3, <3>4, CallMoves
  <2> QED BY <2>1, <2>2
<1>3. story \in {"none", "new", "ready", "gone"} /\ (feed = "gone" => story = "gone")
  BY DEF FeedInv, PlatformTypeOK, NoStory
<1> QED BY <1>1, <1>2, <1>3, SameArt, Assembled

LEMMA ReadStoriesKeeps ==
    ASSUME FeedInv, NEW c \in Callers, NEW t \in Tenants, ReadStories(c, t) PROVE FeedInv'
<1>1. call[c].op # "prepare" /\ call[c].at = "read" /\ t \in call[c].todo
      /\ UNCHANGED <<feed, sub, story, art, departing, faults>>
  BY CallOf DEF ReadStories, FeedShape, news
<1> DEFINE todo == call[c].todo \ {t}
           fresh == art[t].status = "none"
           d == [call[c] EXCEPT !.todo = todo]
           e == [call[c] EXCEPT !.at = "create", !.todo = todo, !.t = t, !.seen = story,
                                !.fresh = fresh]
<1>2. /\ d \in CallState /\ d.op = call[c].op /\ d.at = "read" /\ d.todo = todo /\ d.t = call[c].t
      /\ FeedShape(d)
  BY <1>1, CallOf DEF CallState, FeedShape
<1>3. story \in {"new", "ready"} =>
        /\ e \in CallState /\ e.op = call[c].op /\ e.at = "create" /\ e.todo = todo /\ e.t = t
        /\ e.seen = story
  BY CallOf DEF CallState
<1>4. \/ End(c)
      \/ call' = [call EXCEPT ![c] = d]
      \/ story \in {"new", "ready"} /\ call' = [call EXCEPT ![c] = e]
  BY CallOf DEF ReadStories, FeedInv, PlatformTypeOK
<1> HIDE DEF d, e
<1>5. Moved
  <2>1. CASE End(c)
    BY <1>1, <2>1, EndMoves
  <2>2. CASE call' = [call EXCEPT ![c] = d]
    <3>1. feed # "gone" => \A u \in Tenants : u \in Aims(d) => Near(u)
      BY <1>1, <1>2 DEF Aims, FeedInv, AimsNear
    <3> QED BY <1>1, <1>2, <2>2, <3>1, CallMoves
  <2>3. CASE story \in {"new", "ready"} /\ call' = [call EXCEPT ![c] = e]
    <3>1. feed # "gone" => \A u \in Tenants : u \in Aims(e) => Near(u)
      BY <1>1, <1>3, <2>3 DEF Aims, FeedInv, AimsNear
    <3>2. FeedShape(e)
      BY <1>1, <1>3, <2>3 DEF FeedShape
    <3> QED BY <1>1, <1>3, <2>3, <3>1, <3>2, CallMoves
  <2> QED BY <1>4, <2>1, <2>2, <2>3
<1>6. story \in {"none", "new", "ready", "gone"} /\ (feed = "gone" => story = "gone")
  BY DEF FeedInv, PlatformTypeOK, NoStory
<1> QED BY <1>1, <1>5, <1>6, SameArt, Assembled

LEMMA CreateArticleKeeps == ASSUME FeedInv, NEW c \in Callers, CreateArticle(c) PROVE FeedInv'
<1>1. call[c].op # "prepare" /\ call[c].t \in Tenants /\ call[c].seen \in {"new", "ready"}
      /\ call[c].at = "create" /\ UNCHANGED <<feed, sub, story, departing, faults>>
  BY CallOf DEF CreateArticle, FeedShape, CallState
<1>2. Moved
  <2>1. End(c) \/ NextTenant(c) \/ Then(c, "ready")
    BY DEF CreateArticle
  <2> QED BY <1>1, <2>1, EndMoves, NextMoves, ThenMoves
<1>3. ArtKeeps
  <2>1. CASE art' = art
    BY <2>1, SameArt
  <2>2. CASE art' # art
    <3> DEFINE a == [status |-> call[c].seen, linked |-> TRUE, text |-> call[c].seen = "ready"]
    <3>1. a \in Article /\ a.status # "none" /\ (a.status = "ready" => a.text)
      BY <1>1 DEF Article
    <3>2. art' = [art EXCEPT ![call[c].t] = a]
      BY <2>2 DEF CreateArticle
    <3> HIDE DEF a
    <3> QED BY <1>1, <3>1, <3>2, OneArt
  <2> QED BY <2>1, <2>2
<1>4. story \in {"none", "new", "ready", "gone"} /\ (feed = "gone" => story = "gone")
  BY DEF FeedInv, PlatformTypeOK, NoStory
<1> QED BY <1>1, <1>2, <1>3, <1>4, Assembled

LEMMA MakeReadyKeeps == ASSUME FeedInv, NEW c \in Callers, MakeReady(c) PROVE FeedInv'
<1>1. call[c].op # "prepare" /\ call[c].t \in Tenants
      /\ UNCHANGED <<feed, sub, story, departing, faults>>
  BY CallOf DEF MakeReady, FeedShape
<1>2. Moved
  BY <1>1, NextMoves DEF MakeReady
<1>3. ArtKeeps
  <2>1. PICK t \in Tenants : t = call[c].t
    BY <1>1
  <2>2. art' = [art EXCEPT ![t] = Readied(art[t])]
    BY <2>1 DEF MakeReady
  <2>3. PICK a \in Article : a = Readied(art[t])
    BY ArticleOf
  <2> QED BY <2>2, <2>3, ArticleOf, OneArt
<1>4. story \in {"none", "new", "ready", "gone"} /\ (feed = "gone" => story = "gone")
  BY DEF FeedInv, PlatformTypeOK, NoStory
<1> QED BY <1>1, <1>2, <1>3, <1>4, Assembled

LEMMA PruneCatalogKeeps == ASSUME FeedInv, PruneCatalog PROVE FeedInv'
<1>1. UNCHANGED <<feed, sub, art, departing, faults>>
  BY DEF PruneCatalog
<1>2. Moved
  BY <1>1, Somebody, EndMoves DEF PruneCatalog
<1>3. story' \in {"none", "new", "ready", "gone"} /\ (feed = "gone" => story' = "gone")
  BY DEF PruneCatalog, FeedInv, PlatformTypeOK, NoStory
<1> QED BY <1>1, <1>2, <1>3, SameArt, Assembled
-----------------------------------------------------------------------------
(* Preparing and deciding                                                  *)

LEMMA PrepareKeeps == ASSUME FeedInv, NEW p, NEW t \in Tenants, Prepare(p, t) PROVE FeedInv'
<1>1. p \in Callers /\ UNCHANGED <<feed, sub, story, art, departing, faults>>
  BY DEF Prepare, Callers, news
<1>2. story \in {"none", "new", "ready", "gone"} /\ (feed = "gone" => story = "gone")
  BY DEF FeedInv, PlatformTypeOK, NoStory
<1> DEFINE d == [NoCall EXCEPT !.op = "prepare", !.at = "look", !.t = t]
<1>3. d \in CallState /\ FeedShape(d) /\ d.op = "prepare" /\ d.t = t
  BY DEF NoCall, CallState, FeedShape
<1>4. call' = [call EXCEPT ![p] = d]
  BY DEF Prepare
<1> HIDE DEF d
<1>5. art[t].status # "none"
  BY DEF Prepare, FeedInv, LinkedIs
<1>6. Moved
  BY <1>1, <1>3, <1>4, <1>5, CallMoves
<1> QED BY <1>1, <1>2, <1>6, SameArt, Assembled

LEMMA LookKeeps ==
    ASSUME FeedInv, NEW p \in Callers, LookShared(p) \/ LookAgain(p) PROVE FeedInv'
<1>1. call[p].op = "prepare" /\ UNCHANGED <<feed, sub, story, art, departing, faults>>
  BY CallOf DEF LookShared, LookAgain, FeedShape, news
<1>2. Moved
  <2>1. Ends(p) \/ \E at \in {"copy", "again", "model"} : Then(p, at)
    BY DEF LookShared, LookAgain
  <2> QED BY <1>1, <2>1, EndMoves, ThenMoves
<1>3. story \in {"none", "new", "ready", "gone"} /\ (feed = "gone" => story = "gone")
  BY DEF FeedInv, PlatformTypeOK, NoStory
<1> QED BY <1>1, <1>2, <1>3, SameArt, Assembled

LEMMA CopySharedKeeps == ASSUME FeedInv, NEW p \in Callers, CopyShared(p) PROVE FeedInv'
<1>1. /\ call[p].op = "prepare" /\ call[p].t \in Tenants
      /\ UNCHANGED <<feed, sub, story, departing, faults>>
  BY CallOf DEF CopyShared, FeedShape
<1>2. Moved
  BY <1>1, EndMoves DEF CopyShared
<1>3. PICK t \in Tenants : t = call[p].t
  BY <1>1
<1> DEFINE a == [art[t] EXCEPT !.status = "ready", !.text = TRUE]
<1>4. a \in Article /\ a.status = "ready" /\ a.text
  BY ArticleOf DEF Article
<1>5. art' = [art EXCEPT ![t] = a]
  BY <1>3 DEF CopyShared
<1> HIDE DEF a
<1>6. ArtKeeps
  BY <1>4, <1>5, OneArt
<1>7. story \in {"none", "new", "ready", "gone"} /\ (feed = "gone" => story = "gone")
  BY DEF FeedInv, PlatformTypeOK, NoStory
<1> QED BY <1>1, <1>2, <1>6, <1>7, Assembled

LEMMA PreparedKeeps == ASSUME FeedInv, NEW p \in Callers, Prepared(p) PROVE FeedInv'
<1>1. UNCHANGED <<feed, sub, art, departing>> /\ call[p].op = "prepare"
  BY CallOf DEF Prepared, FeedShape
<1>2. Moved
  <2>1. Ends(p) \/ Then(p, "share")
    BY DEF Prepared
  <2> QED BY <1>1, <2>1, EndMoves, ThenMoves
<1>3. story' \in {"none", "new", "ready", "gone"} /\ (feed = "gone" => story' = "gone")
      /\ (Fault \/ UNCHANGED faults)
  BY DEF Prepared, FeedInv, PlatformTypeOK, NoStory
<1> QED BY <1>1, <1>2, <1>3, SameArt, Assembled

LEMMA ShareKeeps == ASSUME FeedInv, NEW p \in Callers, Share(p) PROVE FeedInv'
<1>1. UNCHANGED <<feed, sub, story, departing, faults>> /\ art' = [t \in Tenants |-> Readied(art[t])]
  BY DEF Share
<1>2. Moved
  BY <1>1, EndMoves DEF Share
<1>3. \A t \in Tenants : art'[t] = Readied(art[t])
  BY <1>1
<1>4. ArtKeeps
  BY <1>1, <1>3, ArticleOf DEF ArtKeeps, LinkedIs
<1>5. story \in {"none", "new", "ready", "gone"} /\ (feed = "gone" => story = "gone")
  BY DEF FeedInv, PlatformTypeOK, NoStory
<1> QED BY <1>1, <1>2, <1>4, <1>5, Assembled

(* An editor changes the status of an article with a status.               *)
LEMMA EditorKeeps == ASSUME FeedInv, NEW t \in Tenants, Decide(t) \/ Restore(t) PROVE FeedInv'
<1> DEFINE s == IF Decide(t) THEN "decided" ELSE IF art[t].text THEN "ready" ELSE "new"
           a == [art[t] EXCEPT !.status = s]
<1>1. art' = [art EXCEPT ![t] = a] /\ UNCHANGED <<feed, sub, story, departing, call, faults>>
  BY DEF Decide, Restore
<1>2. s \in {"decided", "ready", "new"} /\ (s = "ready" => art[t].text)
  OBVIOUS
<1> HIDE DEF s
<1>3. a \in Article /\ a.status # "none" /\ (a.status = "ready" => a.text)
  BY <1>2, ArticleOf DEF Article
<1> HIDE DEF a
<1>4. ArtKeeps
  BY <1>1, <1>3, OneArt
<1>5. Moved
  BY <1>1, CallOf DEF FeedInv, PlatformTypeOK, FeedShapes, AimsNear, Near, Aims, Moved, Preparing
<1>6. story \in {"none", "new", "ready", "gone"} /\ (feed = "gone" => story = "gone")
  BY DEF FeedInv, PlatformTypeOK, NoStory
<1> QED BY <1>1, <1>4, <1>5, <1>6, Assembled

LEMMA DiesKeeps == ASSUME FeedInv, Dies PROVE FeedInv'
<1>1. UNCHANGED <<feed, sub, story, art, departing>> /\ call' = [c \in Callers |-> NoCall] /\ Fault
  BY DEF Dies, news
<1>2. \A c \in Callers : call'[c] = NoCall
  BY <1>1
<1>3. call' \in [Callers -> CallState]
  BY <1>1, NoCallAims
<1>4. Moved
  BY <1>2, <1>3, NoCallAims DEF FeedShapes, AimsNear, Moved, Preparing
<1>5. story \in {"none", "new", "ready", "gone"} /\ (feed = "gone" => story = "gone")
  BY DEF FeedInv, PlatformTypeOK, NoStory
<1> QED BY <1>1, <1>3, <1>4, <1>5, SameArt, Assembled
-----------------------------------------------------------------------------
LEMMA FeedStarts == FeedsInit => FeedInv
<1> SUFFICES ASSUME FeedsInit PROVE FeedInv
  OBVIOUS
<1>1. \A c \in Callers : call[c] = NoCall
  BY DEF FeedsInit
<1>2. NoArticle \in Article /\ NoArticle.status = "none" /\ NoArticle.linked = FALSE
  BY DEF NoArticle, Article
<1>3. \A t \in Tenants : art[t] = NoArticle
  BY DEF FeedsInit
<1>4. call \in [Callers -> CallState] /\ art \in [Tenants -> Article]
  BY <1>2, NoCallAims DEF FeedsInit
<1>5. PlatformTypeOK
  BY <1>2, <1>3, <1>4, Somebody DEF FeedsInit, PlatformTypeOK
<1>6. FeedShapes /\ AimsNear
  BY <1>1, NoCallAims DEF FeedShapes, AimsNear
<1>7. NoStory /\ NobodyYet /\ LinkedIs /\ HasArticle
  BY <1>1, <1>2, <1>3, NoCallAims DEF FeedsInit, NoStory, NobodyYet, LinkedIs, HasArticle
<1> QED BY <1>5, <1>6, <1>7 DEF FeedInv

LEMMA FeedStep == FeedInv /\ [FeedsNext]_feedsVars => FeedInv'
<1> SUFFICES ASSUME FeedInv, [FeedsNext]_feedsVars PROVE FeedInv'
  OBVIOUS
<1>1. ASSUME NEW p \in People,
             \/ AskFetch(p) \/ LookShared(p) \/ CopyShared(p) \/ LookAgain(p)
             \/ Prepared(p) \/ Share(p) \/ \E t \in Tenants : Join(p, t) \/ Prepare(p, t)
      PROVE  FeedInv'
  <2>1. p \in Callers
    BY DEF Callers
  <2> QED BY <1>1, <2>1, AskFetchKeeps, LookKeeps, CopySharedKeeps, PreparedKeeps, ShareKeeps, JoinKeeps, PrepareKeeps
<1>2. ASSUME NEW c \in Callers, SyncStep(c) PROVE FeedInv'
  BY <1>2, FetchKeeps, ListKeeps, CreateArticleKeeps, MakeReadyKeeps, ReadStoriesKeeps DEF SyncStep
<1>3. ASSUME NEW t \in Tenants, Leave(t) \/ Decide(t) \/ Restore(t) PROVE FeedInv'
  BY <1>3, LeaveKeeps, EditorKeeps
<1>4. CASE UNCHANGED feedsVars
  BY <1>4 DEF feedsVars, FeedInv, PlatformTypeOK, FeedShapes, NoStory, NobodyYet, LinkedIs, AimsNear,
              Near, Aims, HasArticle
<1> QED BY <1>1, <1>2, <1>3, <1>4, CreateFeedKeeps, SwitchFeedKeeps, DeleteFeedKeeps,
           PruneCatalogKeeps, DiesKeeps, MaintainKeeps DEF FeedsNext

(* The inductive invariant: whoever a call aims at subscribes, or left     *)
(* with the call on its way, as long as there is the source.               *)
THEOREM FeedKept == FeedsSpec => []FeedInv
BY FeedStarts, FeedStep, PTL DEF FeedsSpec

(* The types hold, and an article is ready with a text only.               *)
THEOREM FeedTyped == FeedsSpec => []PlatformTypeOK
<1>1. FeedInv => PlatformTypeOK
  BY DEF FeedInv
<1> QED BY <1>1, FeedKept, PTL

NewFor(t) == art[t].status = "none" /\ art'[t].status # "none"

(* Only the insertion of an article gives an organisation the story.       *)
LEMMA OnlyCreated ==
    ASSUME FeedInv, [FeedsNext]_feedsVars, NEW t \in Tenants, NewFor(t)
    PROVE  \E c \in Callers : CreateArticle(c) /\ call[c].t = t
<1>1. art' # art
  BY DEF NewFor
<1>2. CASE DeleteFeed
  BY <1>2, ArticleOf DEF DeleteFeed, NewFor, Article
<1>3. ASSUME NEW u \in Tenants, Decide(u) \/ Restore(u) PROVE FALSE
  BY <1>3 DEF Decide, Restore, NewFor, FeedInv, PlatformTypeOK, Article
<1>4. ASSUME NEW u \in Tenants, art' = [art EXCEPT ![u] = Readied(art[u])] PROVE FALSE
  BY <1>4, ArticleOf DEF NewFor, FeedInv, PlatformTypeOK
<1>5. ASSUME NEW c \in Callers, MakeReady(c) PROVE FALSE
  <2>1. call[c].t \in Tenants
    BY <1>5, CallOf DEF MakeReady, FeedShape
  <2> QED BY <1>4, <1>5, <2>1 DEF MakeReady
<1>6. ASSUME NEW p, Share(p) PROVE FALSE
  BY <1>6, ArticleOf DEF Share, NewFor
<1>7. ASSUME NEW p \in Callers, CopyShared(p) PROVE FALSE
  <2>1. call[p].t \in Tenants /\ art[call[p].t].status # "none"
    BY <1>7, CallOf DEF CopyShared, FeedShape, FeedInv, HasArticle
  <2> QED BY <1>7, <2>1 DEF CopyShared, NewFor, FeedInv, PlatformTypeOK
<1>8. PICK c \in Callers : CreateArticle(c)
  <2>1. People \subseteq Callers
    BY DEF Callers
  <2> QED BY <2>1, <1>1, <1>2, <1>3, <1>5, <1>6, <1>7
       DEF FeedsNext, SyncStep, feedsVars, news, CreateFeed, SwitchFeed, DeleteFeed, PruneCatalog, Dies,
         Maintain, Leave, Fetch, List, ReadStories, AskFetch, Prepared, Join, Prepare, LookShared, LookAgain, NewFor
<1>9. call[c].t = t
  BY <1>1, <1>8 DEF CreateArticle, NewFor, FeedInv, PlatformTypeOK
<1> QED BY <1>8, <1>9

(* No organisation gets the story but one that subscribes, or left with a  *)
(* call on its way.                                                        *)
THEOREM FeedOnlySubscribers == FeedsSpec => OnlySubscribers
<1>1. FeedInv /\ [FeedsNext]_feedsVars =>
        [\A t \in Tenants : art[t].status = "none" /\ art'[t].status # "none" =>
            sub[t] = "on" \/ t \in departing]_feedsVars
  <2> SUFFICES ASSUME FeedInv, [FeedsNext]_feedsVars, NEW t \in Tenants, NewFor(t) PROVE Near(t)
    BY DEF NewFor, Near
  <2>1. PICK c \in Callers : CreateArticle(c) /\ call[c].t = t
    BY OnlyCreated
  <2>2. call[c].op # "prepare"
    BY <2>1, CallOf DEF CreateArticle, FeedShape
  <2>3. story # "gone"
    BY <2>1 DEF CreateArticle, NewFor
  <2> QED BY <2>1, <2>2, <2>3 DEF FeedInv, NoStory, AimsNear, Aims
<1> QED BY <1>1, FeedKept, PTL DEF FeedsSpec, OnlySubscribers
=============================================================================
