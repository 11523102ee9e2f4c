---------------------------- MODULE SourceReader ----------------------------
(***************************************************************************)
(* How a page of a source is got: SourceReaderService.  A text comes       *)
(* directly or through the platform's worker (the bridge), an article or a *)
(* list of stories is taken from it, and what gives nothing is rendered in *)
(* a browser, one page at a time from a short queue.  The stories of a     *)
(* website are read together, each by a request of its own and, when that  *)
(* fails, with a place of its own in the queue.                            *)
(*                                                                         *)
(* All calls of the process share the queue and previewFetchDepth, the     *)
(* number of previews in flight, which makes every call of that time do    *)
(* without the browser.                                                    *)
(***************************************************************************)
EXTENDS Naturals, Sequences, FiniteSets

CONSTANTS
    Readers,
    Stories,    \* links of a listing: up to 20 in the code
    MaxQueued   \* MAX_QUEUED_BROWSER_JOBS

ASSUME SourceAssumption == MaxQueued \in Nat /\ Stories \cap {"home", "self"} = {}

VARIABLES
    policy,     \* the platform's setting of the bridge
    chromium,   \* there is a browser, and it is not switched off
    reading,    \* local variables of the calls
    depth,      \* previewFetchDepth
    queued,     \* queuedBrowserJobs
    tail        \* browserTail: the page that is rendered, and those behind it

readerVars == <<policy, chromium, reading, depth, queued, tail>>
-----------------------------------------------------------------------------
(* Routes *)

Policy == {"none", "social", "all"}  \* no worker; for social hosts; for news too

(* How a direct request and one through the worker may end.                *)
Direct == {"ok", "filtered", "unreachable", "forbidden", "error"}
Bridge == {"ok", "upstream", "unreachable", "refused"}

UseBridge(social, p) == p # "none" /\ (social \/ p = "all")

(* shouldRetryNewsFetchDirectly *)
RetryDirectly(social, p, bridge) == ~social /\ p # "all" /\ bridge \in {"upstream", "unreachable"}

(* One that asks a social host when there is no worker. *)
FetchTextAnyway(social, p, direct, bridge) ==
    IF UseBridge(social, p)
    THEN IF bridge = "ok" THEN [got |-> TRUE, asked |-> {"bridge"}, error |-> "none"]
         ELSE [got |-> FALSE, asked |-> {"bridge"}, error |-> "worker"]
    ELSE [got |-> direct = "ok", asked |-> {"direct"},
          error |-> IF direct = "ok" THEN "none" ELSE direct]

(* safeFetchText: what it returns, whom it asked, and the kind of error.   *)
FetchText(social, p, direct, bridge) ==
    LET Asked(s, ok, e) == [got |-> ok, asked |-> s, error |-> IF ok THEN "none" ELSE e] IN
    IF UseBridge(social, p)
    THEN IF bridge # "ok" /\ RetryDirectly(social, p, bridge)
         THEN Asked({"bridge", "direct"}, direct = "ok", "worker")
         ELSE Asked({"bridge"}, bridge = "ok", "worker")
    ELSE IF social THEN Asked({}, FALSE, "noworker")
    ELSE IF direct = "filtered" /\ p # "none"
         THEN Asked({"direct", "bridge"}, bridge = "ok", "worker")
         ELSE Asked({"direct"}, direct = "ok", direct)

(* serverCouldNotReachArticle, which of the worker's messages takes some,  *)
(* of a timeout or of HTTP 403, for the server's own.                      *)
CouldNotReach(error) ==
    IF error = "worker" THEN BOOLEAN ELSE {error \in {"filtered", "unreachable", "forbidden"}}
-----------------------------------------------------------------------------
(* Calls *)

(* A feed (of news or of a social account), the stories of a website, and  *)
(* the text of one article.  A preview is of a source.                     *)
Kinds  == {"feed", "website", "article"}
Pages  == Stories \cup {"home"}   \* read by readPagePreview: stories, or the website as one
Places == Pages \cup {"self"}     \* and what was asked for itself
Reading == [kind    : Kinds \cup {"none"},
            preview : BOOLEAN,
            at      : {"idle", "fetch", "bridge", "extract", "list", "wait", "page", "done"},
            more    : BOOLEAN,  \* the browser is for what a page did not give
            browser : {"untried", "tried", "refused", "preview"}, \* or why it was not tried
            toRead  : SUBSET Pages,
            inLine  : SUBSET Places,  \* what waits for the browser, or is rendered
            gave    : BOOLEAN,  \* a page gave a story
            result  : {"none", "found", "feed", "failed"}]
NoReading == [kind |-> "none", preview |-> FALSE, at |-> "idle", more |-> FALSE,
              browser |-> "untried", toRead |-> {}, inLine |-> {}, gave |-> FALSE,
              result |-> "none"]

ReaderInit ==
    /\ policy = "none" /\ chromium \in BOOLEAN
    /\ reading = [c \in Readers |-> NoReading]
    /\ depth = 0 /\ queued = 0 /\ tail = <<>>

Queue  == <<queued, tail>>
Shared == <<policy, chromium, depth>>
Set(c, r) == reading' = [reading EXCEPT ![c] = r]
Ended(r, result) == [r EXCEPT !.at = "done", !.result = result]

(* Nothing more to try: the text of the feed may stand in for an article,  *)
(* and the page of a website for a story.                                  *)
Without(c, r) ==
    \/ r.kind = "website" /\ Set(c, [r EXCEPT !.at = "page", !.toRead = {"home"}])
    \/ r.kind = "article" /\ \E result \in {"failed", "feed"} : Set(c, Ended(r, result))

(* renderArticlePage refuses at once, or page p of c stands in line, ...   *)
Free == chromium /\ queued < MaxQueued
StandInLine(c, p, r) ==
    /\ queued' = queued + 1 /\ tail' = Append(tail, <<c, p>>)
    /\ Set(c, [r EXCEPT !.inLine = @ \cup {p}])

(* ... and leaves it when it has been rendered, or could not be.           *)
Turn(c, p) == tail # <<>> /\ Head(tail) = <<c, p>>
LeaveLine(c, p) == queued' = queued - 1 /\ tail' = Tail(tail)

(* A mistake: its place in line is taken before the queue is found full.   *)
BrowseAhead(c, more) ==
    LET r == [reading[c] EXCEPT !.more = more] IN
    IF Free
    THEN StandInLine(c, "self", [r EXCEPT !.at = "wait", !.browser = "tried"])
    ELSE /\ tail' = Append(tail, <<c, "self">>) /\ UNCHANGED queued
         /\ LET refused == [r EXCEPT !.browser = IF @ = "tried" THEN @ ELSE "refused"] IN
            IF more THEN Without(c, refused) ELSE Set(c, Ended(refused, "failed"))

(* The page that was asked for in the browser. *)
Browse(c, more) ==
    LET r == [reading[c] EXCEPT !.more = more] IN
    IF Free
    THEN StandInLine(c, "self", [r EXCEPT !.at = "wait", !.browser = "tried"])
    ELSE /\ UNCHANGED Queue
         /\ LET refused == [r EXCEPT !.browser = IF @ = "tried" THEN @ ELSE "refused"] IN
            IF more THEN Without(c, refused) ELSE Set(c, Ended(refused, "failed"))

(* Previews do without it, and with them all others. *)
Spared(c) ==
    [reading[c] EXCEPT !.browser = IF @ = "tried" THEN @ ELSE "preview"]
-----------------------------------------------------------------------------
SetPolicy(p) == policy # p /\ policy' = p /\ UNCHANGED <<chromium, reading, depth, Queue>>

Start(c, kind, preview) ==
    /\ reading[c].at = "idle" /\ (preview => kind # "article")
    /\ Set(c, [NoReading EXCEPT !.kind = kind, !.preview = preview, !.at = "fetch"])
    /\ depth' = IF preview THEN depth + 1 ELSE depth
    /\ UNCHANGED <<policy, chromium, Queue>>

(* The answer, and the finally of runPreviewFetch. *)
Finish(c) ==
    /\ reading[c].at = "done"
    /\ Set(c, NoReading)
    /\ depth' = IF reading[c].preview /\ depth > 0 THEN depth - 1 ELSE depth
    /\ UNCHANGED <<policy, chromium, Queue>>

(* The feed of a website, when it has one that gives anything. *)
FeedFirst(c) ==
    /\ reading[c].at = "fetch" /\ reading[c].kind = "website"
    /\ Set(c, Ended(reading[c], "found"))
    /\ UNCHANGED <<Shared, Queue>>

(* The page, directly or by the worker. *)
Fetch(c) ==
    /\ reading[c].at = "fetch"
    /\ \E social \in BOOLEAN, direct \in Direct, bridge \in Bridge :
          LET r == FetchText(social, policy, direct, bridge) IN
          /\ reading[c].kind = "website" => ~social
          /\ \/ r.got /\ Set(c, [reading[c] EXCEPT !.at = "extract"]) /\ UNCHANGED Queue
             \/ /\ ~r.got /\ reading[c].kind = "feed"
                /\ Set(c, Ended(reading[c], "failed")) /\ UNCHANGED Queue
             \/ /\ ~r.got /\ reading[c].kind = "website"
                /\ IF depth > 0 THEN Set(c, Ended(Spared(c), "failed")) /\ UNCHANGED Queue
                   ELSE Browse(c, FALSE)
             \/ /\ ~r.got /\ reading[c].kind = "article"
                /\ \E unreached \in CouldNotReach(r.error) :
                      IF unreached
                      THEN Set(c, [reading[c] EXCEPT !.at = "bridge"]) /\ UNCHANGED Queue
                      ELSE Browse(c, TRUE)
    /\ UNCHANGED Shared

(* An article the server could not reach is asked of the worker, if any.   *)
FetchByBridge(c) ==
    /\ reading[c].at = "bridge"
    /\ \/ policy # "none" /\ Set(c, [reading[c] EXCEPT !.at = "extract"]) /\ UNCHANGED Queue
       \/ Browse(c, TRUE)
    /\ UNCHANGED Shared

(* A mistake: an article that its page does not give is not looked for in  *)
(* the browser.                                                            *)
ExtractOnce(c) ==
    /\ reading[c].at = "extract"
    /\ UNCHANGED Queue
    /\ \/ Set(c, Ended(reading[c], "found"))
       \/ reading[c].kind = "feed" /\ Set(c, Ended(reading[c], "failed"))
       \/ /\ reading[c].kind = "website"
          /\ \E S \in SUBSET Stories :
                Set(c, [reading[c] EXCEPT !.at = "list", !.toRead = S, !.gave = FALSE])
       \/ reading[c].kind = "article" /\ Without(c, reading[c])
    /\ UNCHANGED Shared

(* The page of a feed or an article gives what was asked for, or nothing;  *)
(* that of a website gives links, whose pages are read together.           *)
Extract(c) ==
    /\ reading[c].at = "extract"
    /\ \/ /\ reading[c].kind # "website"
          /\ Set(c, Ended(reading[c], "found")) /\ UNCHANGED Queue
       \/ reading[c].kind = "feed" /\ Set(c, Ended(reading[c], "failed")) /\ UNCHANGED Queue
       \/ /\ reading[c].kind = "website"
          /\ \E S \in SUBSET Stories :
                Set(c, [reading[c] EXCEPT !.at = "list", !.toRead = S, !.gave = FALSE])
          /\ UNCHANGED Queue
       \/ /\ reading[c].kind = "article"
          /\ IF reading[c].more THEN Without(c, reading[c]) /\ UNCHANGED Queue
                                ELSE Browse(c, TRUE)
    /\ UNCHANGED Shared

(* A mistake: a story stands in line also while a preview is on. *)
PageByBrowser(c, p) ==
    /\ p \in reading[c].toRead
    /\ LET r == [reading[c] EXCEPT !.toRead = @ \ {p}] IN
       \/ Set(c, [r EXCEPT !.gave = TRUE]) /\ UNCHANGED Queue
       \/ Set(c, r) /\ UNCHANGED Queue
       \/ Free /\ StandInLine(c, p, r)
    /\ UNCHANGED Shared

(* readPagePreview: a page gives a story, or none.  One that is not got is *)
(* rendered when no preview is on, and none when that is refused.          *)
Page(c, p) ==
    /\ p \in reading[c].toRead
    /\ LET r == [reading[c] EXCEPT !.toRead = @ \ {p}] IN
       \/ Set(c, [r EXCEPT !.gave = TRUE]) /\ UNCHANGED Queue
       \/ Set(c, r) /\ UNCHANGED Queue
       \/ depth = 0 /\ Free /\ StandInLine(c, p, r)
    /\ UNCHANGED Shared

PageRendered(c, p) ==
    /\ p \in reading[c].inLine \ {"self"} /\ Turn(c, p)
    /\ LeaveLine(c, p)
    /\ \E found \in BOOLEAN :
          Set(c, [reading[c] EXCEPT !.inLine = @ \ {p}, !.gave = @ \/ found])
    /\ UNCHANGED Shared

(* All the stories are in.  A listing that gave none is rendered once, if  *)
(* no preview is on, and then taken for a story itself.                    *)
Listed(c) ==
    LET r == reading[c] IN
    /\ r.at = "list" /\ r.toRead = {} /\ r.inLine = {}
    /\ \/ r.gave /\ Set(c, Ended(r, "found")) /\ UNCHANGED Queue
       \/ ~r.gave /\ r.more /\ Without(c, r) /\ UNCHANGED Queue
       \/ /\ ~r.gave /\ ~r.more
          /\ IF depth > 0 THEN Without(c, Spared(c)) /\ UNCHANGED Queue ELSE Browse(c, TRUE)
    /\ UNCHANGED Shared

AsStory(c) ==
    LET r == reading[c] IN
    /\ r.at = "page" /\ r.toRead = {} /\ r.inLine = {}
    /\ Set(c, Ended(r, IF r.gave THEN "found" ELSE "failed"))
    /\ UNCHANGED <<Shared, Queue>>

(* A mistake: a page that cannot be rendered keeps its place.              *)
RenderEndsLeaky(c) ==
    /\ reading[c].at = "wait" /\ Turn(c, "self")
    /\ tail' = Tail(tail)
    /\ LET r == [reading[c] EXCEPT !.inLine = {}] IN
       \/ queued' = queued - 1 /\ Set(c, [r EXCEPT !.at = "extract"])
       \/ /\ UNCHANGED queued
          /\ IF r.more THEN Without(c, r) ELSE Set(c, Ended(r, "failed"))
    /\ UNCHANGED Shared

(* Its turn: the page is rendered, or not, and the next has its turn.      *)
RenderEnds(c) ==
    /\ reading[c].at = "wait" /\ Turn(c, "self")
    /\ LeaveLine(c, "self")
    /\ LET r == [reading[c] EXCEPT !.inLine = {}] IN
       \/ Set(c, [r EXCEPT !.at = "extract"])
       \/ IF r.more THEN Without(c, r) ELSE Set(c, Ended(r, "failed"))
    /\ UNCHANGED Shared

ReaderNext ==
    \/ \E p \in Policy : SetPolicy(p)
    \/ \E c \in Readers :
          \/ \E kind \in Kinds, preview \in BOOLEAN : Start(c, kind, preview)
          \/ FeedFirst(c) \/ Fetch(c) \/ FetchByBridge(c) \/ Extract(c) \/ RenderEnds(c)
          \/ \E p \in Pages : Page(c, p) \/ PageRendered(c, p)
          \/ Listed(c) \/ AsStory(c) \/ Finish(c)

ReaderSpec == ReaderInit /\ [][ReaderNext]_readerVars
-----------------------------------------------------------------------------
(* Properties *)

Previews == {c \in Readers : reading[c].preview}
Browsing == {x \in Readers \X Places : x[2] \in reading[x[1]].inLine}

(* Types.  The counters are right whatever failed: no preview and no place *)
(* in the queue is left behind, and the queue is never longer than allowed.*)
ReaderTypeOK ==
    /\ policy \in Policy /\ chromium \in BOOLEAN /\ reading \in [Readers -> Reading]
    /\ depth = Cardinality(Previews)
    /\ queued = Len(tail) /\ queued <= MaxQueued

(* The comment of previewFetchDepth, "no browser rendering": a preview     *)
(* never waits for the browser, neither for its source nor for one of the  *)
(* stories, also while others begin and end.                               *)
PreviewsDoWithout == \A c \in Previews : reading[c].inLine = {}

(* Each page that waits for the browser has one place in the queue, and    *)
(* only those have: nothing waits behind a page that is over, however many *)
(* stories of how many listings are read together.                         *)
WaitsInLine ==
    /\ {tail[i] : i \in 1 .. Len(tail)} = Browsing
    /\ Cardinality(Browsing) = Len(tail)

(* A website or an article is given up with the browser only, or because   *)
(* it was refused (there is none, or the queue was full), or because a     *)
(* preview was on at that moment.  That preview need not be this reading:  *)
(* previewFetchDepth is one for all, and a preview of another source takes *)
(* the browser from those that read beside it.                             *)
FullEffort ==
    \A c \in Readers :
        /\ reading[c].kind # "feed" /\ reading[c].result \in {"failed", "feed"}
        => reading[c].browser # "untried"

(* Telegram and X are read by the worker only, and the worker is asked     *)
(* only when there is one.  It is asked for news where the platform says   *)
(* so, and else in two cases, of which the comment of safeFetchText names  *)
(* neither: the host is filtered, or it is an article that the server      *)
(* could not reach.                                                        *)
RoutesAsSaid ==
    /\ \A c \in {r \in Readers : reading[r].at = "fetch"} :
        \A social \in BOOLEAN, direct \in Direct, bridge \in Bridge :
            LET asked == FetchText(social, policy, direct, bridge).asked IN
            /\ social => "direct" \notin asked
            /\ ~social /\ "bridge" \in asked /\ policy # "all"
               => policy = "social" /\ direct = "filtered"
            /\ policy = "none" => "bridge" \notin asked
    /\ \A c \in Readers : reading[c].at = "bridge" => reading[c].kind = "article"

(* Together: a reading has its places in the queue and no other, goes the  *)
(* way its host and the platform's policy give it, and does without the    *)
(* browser when it is a preview, or beside one.                            *)
EffortAsAsked == PreviewsDoWithout /\ FullEffort /\ WaitsInLine /\ RoutesAsSaid
=============================================================================
