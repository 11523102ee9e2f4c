------------------------- MODULE NewsArticleProofs -------------------------
(***************************************************************************)
(* What holds of a news article for any number of requests, workers,       *)
(* attempts and faults: one stage works on it at a time, the site gets one *)
(* post of it, and published it stays, unless it was taken from the call   *)
(* that worked on it.                                                      *)
(***************************************************************************)
EXTENDS NewsArticle, TLAPS

(* Which stage a call can be in where.                                     *)
Shape(c) ==
    /\ c.at \in {"begin", "claim", "report", "store", "enqueue", "mark"} => c.stage \in Stages
    /\ c.at \in {"content", "lookup", "post", "record"} => c.stage = "publish"
    /\ c.at = "work" => c.stage \in Stages \ {"publish"}
    /\ c.at = "decide" => c.stage \in Decisions

Shapes == \A p \in Callers : Shape(call[p])

(* A queued job has an attempt left.                                       *)
JobsBudget == \A t \in Stages : job[t].at = "queued" => job[t].attempts < MaxAttempts

(* Whoever works on the article has claimed it: it is in the status of the *)
(* stage, in the name of the call.                                         *)
Holding ==
    \A p \in Callers : Works(p) /\ ~taken => claim = p /\ status = Busy[call[p].stage]

(* Who is about to create a post has looked, and there still is none.      *)
Unposted ==
    \A p \in Callers : call[p].at = "post" /\ ~call[p].seen /\ ~taken /\ ~blind => posts = 0

ArticleInv ==
    NewsTypeOK /\ Shapes /\ JobsBudget /\ Holding /\ Unposted /\ NoSecondPost

LEMMA Named == Nobody \notin Callers /\ "deferred" \notin Callers /\ Nobody # "deferred"
BY NewsAssumption DEF NewsAssumption

LEMMA NoCallShape ==
    NoCall \in CallState /\ Shape(NoCall) /\ NoCall.at = "idle"
BY DEF NoCall, CallState, Shape, Texts

LEMMA BusyTransient ==
    /\ \A t \in Stages : /\ Busy[t] \in Transient /\ FailedAs[t] \in Status \ Transient
                         /\ ClaimFrom[t] \cap Transient = {} /\ "published" \notin ClaimFrom[t]
                         /\ FailedAs[t] # "published"
    /\ \A s \in Transient : ResetTo[s] \in Status \ Transient
    /\ "published" \notin Transient /\ Transient \subseteq Status
BY DEF Stages, Busy, FailedAs, ClaimFrom, Transient, Status, ResetTo

LEMMA CallerFields ==
    ASSUME ArticleInv, NEW p \in Callers
    PROVE  call[p] \in CallState /\ Shape(call[p]) /\ call[p].job \in Stages \cup {Nobody}
BY DEF ArticleInv, NewsTypeOK, Shapes, CallState

(* A call goes to another place.                                           *)
LEMMA Moves ==
    ASSUME ArticleInv, NEW p \in Callers, NEW c \in CallState, Shape(c),
           call' = [call EXCEPT ![p] = c]
    PROVE  /\ call' \in [Callers -> CallState] /\ Shapes' /\ call'[p] = c
           /\ \A q \in Callers \ {p} : call'[q] = call[q]
BY DEF ArticleInv, NewsTypeOK, Shapes

LEMMA GoesTo ==
    ASSUME NEW c \in CallState, NEW at \in {"idle", "begin", "claim", "content", "work", "lookup",
               "post", "record", "report", "store", "enqueue", "mark", "decide"}
    PROVE  /\ [c EXCEPT !.at = at] \in CallState /\ [c EXCEPT !.at = at].at = at
           /\ [c EXCEPT !.at = at].stage = c.stage /\ [c EXCEPT !.at = at].seen = c.seen
           /\ [c EXCEPT !.at = at].text = c.text /\ [c EXCEPT !.at = at].job = c.job
BY DEF CallState

LEMMA Going ==
    ASSUME ArticleInv, NEW p \in Callers,
           NEW at \in {"content", "work", "lookup", "post", "record", "report", "enqueue"},
           Goto(p, at), Shape([call[p] EXCEPT !.at = at])
    PROVE  /\ call' \in [Callers -> CallState] /\ Shapes'
           /\ call'[p].at = at /\ call'[p].stage = call[p].stage /\ call'[p].seen = call[p].seen
           /\ \A q \in Callers \ {p} : call'[q] = call[q]
<1> DEFINE c == [call[p] EXCEPT !.at = at]
<1>1. c \in CallState /\ c.at = at /\ c.stage = call[p].stage /\ c.seen = call[p].seen
  <2>1. call[p] \in CallState
    BY CallerFields
  <2> QED BY <2>1 DEF CallState
<1>2. call' = [call EXCEPT ![p] = c] /\ Shape(c)
  BY DEF Goto
<1> HIDE DEF c
<1> QED BY <1>1, <1>2, Moves

LEMMA RetriedTyped ==
    ASSUME NEW j \in JobState
    PROVE  /\ Retried(j) \in JobState
           /\ Retried(j).at = "queued" => Retried(j).attempts < MaxAttempts
BY NewsAssumption DEF Retried, JobState, NewsAssumption

LEMMA JobConstants ==
    /\ NoJob \in JobState /\ Queued \in JobState /\ Queued.attempts < MaxAttempts
    /\ NoJob.at = "none"
BY NewsAssumption DEF NoJob, Queued, JobState, NewsAssumption

LEMMA JobMoves ==
    ASSUME ArticleInv, NEW t \in Stages, NEW j \in JobState,
           j.at = "queued" => j.attempts < MaxAttempts, job' = [job EXCEPT ![t] = j]
    PROVE  job' \in [Stages -> JobState] /\ JobsBudget'
BY DEF ArticleInv, NewsTypeOK, JobsBudget

LEMMA Returns ==
    ASSUME ArticleInv, NEW p \in Callers, NEW ok \in BOOLEAN, Return(p, ok)
    PROVE  /\ call' \in [Callers -> CallState] /\ Shapes' /\ call'[p].at = "idle"
           /\ \A q \in Callers \ {p} : call'[q] = call[q]
           /\ job' \in [Stages -> JobState] /\ JobsBudget'
<1>1. /\ call' \in [Callers -> CallState] /\ Shapes' /\ call'[p].at = "idle"
      /\ \A q \in Callers \ {p} : call'[q] = call[q]
  BY Moves, NoCallShape DEF Return
<1>2. CASE call[p].job = Nobody
  BY <1>1, <1>2 DEF Return, ArticleInv, NewsTypeOK, JobsBudget
<1>3. CASE call[p].job # Nobody
  <2>1. PICK t \in Stages : t = call[p].job
    BY <1>3, CallerFields
  <2>2. job[t] \in JobState
    BY DEF ArticleInv, NewsTypeOK
  <2> DEFINE j == IF ok THEN NoJob ELSE Retried(job[t])
  <2>3. job' = [job EXCEPT ![t] = j]
    BY <1>3, <2>1 DEF Return
  <2>4. j \in JobState /\ (j.at = "queued" => j.attempts < MaxAttempts)
    BY <2>2, RetriedTyped, JobConstants
  <2> HIDE DEF j
  <2> QED BY <1>1, <2>3, <2>4, JobMoves
<1> QED BY <1>2, <1>3

(* Nobody else works on what one has claimed, or nobody has.               *)
LEMMA Alone ==
    ASSUME ArticleInv, ~taken, NEW p \in Callers, Works(p) \/ claim = p \/ status \notin Transient
    PROVE  \A q \in Callers \ {p} : ~Works(q)
<1> SUFFICES ASSUME NEW q \in Callers \ {p}, Works(q) PROVE FALSE
  OBVIOUS
<1>1. claim = q /\ status = Busy[call[q].stage]
  BY DEF ArticleInv, Holding
<1>2. call[q].stage \in Stages
  BY CallerFields DEF Works, Shape, Stages
<1>3. status \in Transient
  BY <1>1, <1>2, BusyTransient
<1> QED BY <1>1, <1>3 DEF ArticleInv, Holding

(* What the others hold and have seen stays so, if nobody else works where *)
(* the status, the claim or the posts change.                              *)
LEMMA OthersHold ==
    ASSUME ArticleInv, NEW p \in Callers, \A q \in Callers \ {p} : call'[q] = call[q],
           taken => taken', blind => blind',
           \/ taken' \/ UNCHANGED <<status, claim, posts>>
           \/ \A q \in Callers \ {p} : ~Works(q),
           Works(p)' /\ ~taken' => claim' = p /\ status' = Busy[call'[p].stage],
           call'[p].at = "post" /\ ~call'[p].seen /\ ~taken' /\ ~blind' => posts' = 0
    PROVE  Holding' /\ Unposted'
<1>1. ASSUME NEW q \in Callers, Works(q)', ~taken'
      PROVE  claim' = q /\ status' = Busy[call'[q].stage]
  <2>1. CASE q = p
    BY <1>1, <2>1
  <2>2. CASE q # p
    <3>1. Works(q) /\ call'[q] = call[q]
      BY <1>1, <2>2 DEF Works
    <3>2. UNCHANGED <<status, claim>>
      BY <1>1, <2>2, <3>1
    <3> QED BY <1>1, <3>1, <3>2 DEF ArticleInv, Holding
  <2> QED BY <2>1, <2>2
<1>2. ASSUME NEW q \in Callers, call'[q].at = "post", ~call'[q].seen, ~taken', ~blind'
      PROVE  posts' = 0
  <2>1. CASE q = p
    BY <1>2, <2>1
  <2>2. CASE q # p
    <3>1. Works(q) /\ call'[q] = call[q]
      BY <1>2, <2>2 DEF Works
    <3>2. UNCHANGED posts
      BY <1>2, <2>2, <3>1
    <3> QED BY <1>2, <3>1, <3>2 DEF ArticleInv, Unposted
  <2> QED BY <2>1, <2>2
<1> QED BY <1>1, <1>2 DEF Holding, Unposted
-----------------------------------------------------------------------------
(* One lemma for each kind of step                                         *)

(* The catch block of a call that is at work, or that has reported.        *)
LEMMA AbortKeeps ==
    ASSUME ArticleInv, NEW p \in Callers, call[p].stage \in Stages, Abort(p),
           blind => blind', blind' \in BOOLEAN, UNCHANGED text, posts' \in Nat,
           faults' \in 0 .. MaxFaults,
           taken' \/ blind' \/ posts' <= 1,
           taken \/ posts' = posts \/ Works(p)
    PROVE  ArticleInv'
<1> DEFINE t == call[p].stage
<1>1. /\ call' \in [Callers -> CallState] /\ Shapes' /\ call'[p].at = "idle"
      /\ \A q \in Callers \ {p} : call'[q] = call[q]
      /\ job' \in [Stages -> JobState] /\ JobsBudget'
  BY Returns DEF Abort
<1>2. \/ status' = FailedAs[t] /\ claim' = Nobody /\ status = Busy[t]
         /\ taken' = (taken \/ claim # p)
      \/ UNCHANGED <<status, claim, taken>>
  BY DEF Abort
<1>3. NewsTypeOK'
  BY <1>1, <1>2, BusyTransient DEF ArticleInv, NewsTypeOK, text
<1>4. \/ taken' \/ UNCHANGED <<status, claim, posts>>
      \/ \A q \in Callers \ {p} : ~Works(q)
  <2>1. CASE taken
    BY <1>2, <2>1
  <2>2. CASE ~taken /\ (claim = p \/ Works(p))
    BY <2>2, Alone
  <2>3. CASE ~taken /\ claim # p /\ ~Works(p)
    BY <1>2, <2>3
  <2> QED BY <2>1, <2>2, <2>3
<1>5. taken => taken'
  BY <1>2
<1>6. Holding' /\ Unposted'
  BY <1>1, <1>4, <1>5, OthersHold DEF Works
<1> QED BY <1>1, <1>3, <1>6 DEF ArticleInv, NoSecondPost

(* Nothing but the call moves, or the jobs too.                            *)
LEMMA CallMovesOnly ==
    ASSUME ArticleInv, NEW p \in Callers, ~Works(p)',
           call' \in [Callers -> CallState], Shapes', \A q \in Callers \ {p} : call'[q] = call[q],
           job' \in [Stages -> JobState], JobsBudget',
           UNCHANGED <<status, claim, site, taken>>, titled' \in BOOLEAN, body' \in Texts,
           faults' \in 0 .. MaxFaults
    PROVE  ArticleInv'
<1>1. NewsTypeOK'
  BY DEF ArticleInv, NewsTypeOK, site
<1>2. Holding' /\ Unposted'
  BY OthersHold DEF Works, site
<1> QED BY <1>1, <1>2 DEF ArticleInv, NoSecondPost, site

LEMMA CountsFault ==
    ASSUME ArticleInv, NEW kind, Fault(kind) PROVE faults' \in 0 .. MaxFaults
BY NewsAssumption DEF ArticleInv, NewsTypeOK, Fault, NewsAssumption

LEMMA JobsStay ==
    ASSUME ArticleInv, UNCHANGED job PROVE job' \in [Stages -> JobState] /\ JobsBudget'
BY DEF ArticleInv, NewsTypeOK, JobsBudget

LEMMA RequestKeeps ==
    ASSUME ArticleInv, NEW p \in Requests, NEW t \in Asked, NEW given \in Texts,
           NEW inline \in Inline, Request(p, t, given, inline)
    PROVE  ArticleInv'
<1> DEFINE at == IF inline THEN "claim" ELSE IF t = "publish" THEN "store" ELSE "enqueue"
           c == [NoCall EXCEPT !.stage = t, !.text = given, !.at = at]
<1>1. t \in Stages /\ p \in Callers
  BY NewsAssumption DEF NewsAssumption, Callers
<1>2. call' = [call EXCEPT ![p] = c]
  BY DEF Request
<1>3. c \in CallState /\ c.at \in {"claim", "store", "enqueue"} /\ c.stage = t
  BY <1>1 DEF NoCall, CallState, Texts
<1> HIDE DEF c
<1>4. Shape(c)
  BY <1>1, <1>3 DEF Shape
<1> QED
  BY <1>1, <1>2, <1>3, <1>4, Moves, JobsStay, CallMovesOnly
     DEF Request, text, site, Works, ArticleInv, NewsTypeOK

LEMMA ConsiderKeeps ==
    ASSUME ArticleInv, NEW p \in Requests, NEW d \in People, Consider(p, d) PROVE ArticleInv'
<1> DEFINE c == [NoCall EXCEPT !.at = "decide", !.stage = d, !.seen = titled /\ d = "restore"]
<1>1. d \in Decisions /\ p \in Callers
  BY NewsAssumption DEF NewsAssumption, Callers
<1>2. call' = [call EXCEPT ![p] = c]
  BY DEF Consider
<1>3. c \in CallState /\ c.at = "decide" /\ c.stage = d
  BY <1>1 DEF NoCall, CallState, Texts
<1> HIDE DEF c
<1>4. Shape(c)
  BY <1>1, <1>3 DEF Shape
<1> QED
  BY <1>1, <1>2, <1>3, <1>4, Moves, JobsStay, CallMovesOnly
     DEF Consider, text, site, Works, ArticleInv, NewsTypeOK

LEMMA BeginKeeps ==
    ASSUME ArticleInv, NEW w \in Workers, NEW t \in Stages, Begin(w, t) PROVE ArticleInv'
<1> DEFINE u == IF t = "publish" THEN "translate" ELSE t
           c == [NoCall EXCEPT !.at = "begin", !.job = t, !.stage = u]
           n == job[t].attempts + 1
           j == [at |-> "running", attempts |-> n]
<1>1. w \in Callers /\ u \in Stages
  BY DEF Callers, Stages
<1>2. call' = [call EXCEPT ![w] = c] /\ job' = [job EXCEPT ![t] = j]
  BY DEF Begin
<1>3. c \in CallState /\ c.at = "begin" /\ c.stage = u
  BY <1>1 DEF NoCall, CallState, Texts
<1>4. n \in 0 .. MaxAttempts
  <2>1. job[t] \in JobState /\ job[t].attempts < MaxAttempts
    BY DEF ArticleInv, NewsTypeOK, JobsBudget, Begin
  <2> QED BY <2>1, NewsAssumption DEF JobState, NewsAssumption
<1>5. j \in JobState /\ j.at # "queued"
  BY <1>4 DEF JobState
<1> HIDE DEF c, j
<1>6. Shape(c)
  BY <1>1, <1>3 DEF Shape
<1>7. job' \in [Stages -> JobState] /\ JobsBudget'
  BY <1>2, <1>5, JobMoves
<1> QED
  BY <1>1, <1>2, <1>3, <1>6, <1>7, Moves, CallMovesOnly
     DEF Begin, text, site, Works, ArticleInv, NewsTypeOK

LEMMA EnqueueKeeps ==
    ASSUME ArticleInv, NEW p \in Callers, Enqueue(p) PROVE ArticleInv'
<1> DEFINE t == call[p].stage
           c == IF t = "translate" THEN [call[p] EXCEPT !.at = "mark"] ELSE NoCall
<1>1. t \in Stages
  BY CallerFields DEF Enqueue, Shape
<1>2. call' = [call EXCEPT ![p] = c]
  BY DEF Enqueue
<1>3. c \in CallState /\ Shape(c) /\ c.at \in {"mark", "idle"}
  <2>1. CASE t = "translate"
    <3>1. call[p] \in CallState
      BY CallerFields
    <3>2. c \in CallState /\ c.at = "mark" /\ c.stage = t
      BY <2>1, <3>1, GoesTo
    <3> QED BY <1>1, <3>2 DEF Shape
  <2>2. CASE t # "translate"
    BY <2>2, NoCallShape
  <2> QED BY <2>1, <2>2
<1> HIDE DEF c
<1>4. job' \in [Stages -> JobState] /\ JobsBudget'
  BY <1>1, JobConstants, JobMoves, JobsStay DEF Enqueue
<1> QED
  BY <1>2, <1>3, <1>4, Moves, CallMovesOnly
     DEF Enqueue, text, site, Works, ArticleInv, NewsTypeOK

LEMMA MarkKeeps ==
    ASSUME ArticleInv, NEW p \in Callers, Mark(p) PROVE ArticleInv'
<1>1. /\ call' \in [Callers -> CallState] /\ Shapes' /\ call'[p].at = "idle"
      /\ \A q \in Callers \ {p} : call'[q] = call[q]
      /\ job' \in [Stages -> JobState] /\ JobsBudget'
  BY Returns DEF Mark
<1>2. CASE UNCHANGED <<status, claim>>
  BY <1>1, <1>2, CallMovesOnly DEF Mark, Works, ArticleInv, NewsTypeOK, text, site
<1>3. CASE status \in ClaimFrom["translate"] /\ status' = "processing" /\ claim' = "deferred"
  <2>1. status \notin Transient
    BY <1>3, BusyTransient DEF Stages
  <2>2. NewsTypeOK'
    BY <1>1, <1>3, Named, BusyTransient DEF ArticleInv, NewsTypeOK, Mark, text, site, Transient
  <2>3. Holding' /\ Unposted'
    BY <1>1, <2>1, Alone, OthersHold DEF Mark, Works, site
  <2> QED BY <1>1, <2>2, <2>3 DEF ArticleInv, NoSecondPost, Mark, site
<1> QED BY <1>2, <1>3 DEF Mark

LEMMA ReadForJobKeeps ==
    ASSUME ArticleInv, NEW w \in Callers, ReadForJob(w) PROVE ArticleInv'
<1>1. ASSUME NEW ok \in BOOLEAN, Return(w, ok) PROVE ArticleInv'
  BY <1>1, Returns, CallMovesOnly DEF ReadForJob, Works, ArticleInv, NewsTypeOK, text, site
<1>2. CASE UNCHANGED job /\ call' = [call EXCEPT ![w].at = "claim",
                ![w].text = IF call[w].stage = "publish" THEN body ELSE "none"]
  <2> DEFINE x == IF call[w].stage = "publish" THEN body ELSE "none"
             c == [call[w] EXCEPT !.at = "claim", !.text = x]
  <2>1. x \in Texts /\ call[w] \in CallState /\ call[w].stage \in Stages
    BY CallerFields DEF ArticleInv, NewsTypeOK, Texts, ReadForJob, Shape
  <2>2. call' = [call EXCEPT ![w] = c]
    BY <1>2, <2>1 DEF ArticleInv, NewsTypeOK
  <2> HIDE DEF x
  <2>3. c \in CallState /\ c.at = "claim" /\ c.stage = call[w].stage
    BY <2>1 DEF CallState
  <2> HIDE DEF c
  <2>4. Shape(c)
    BY <2>1, <2>3 DEF Shape
  <2> QED
    BY <1>2, <2>2, <2>3, <2>4, Moves, JobsStay, CallMovesOnly
       DEF ReadForJob, Works, ArticleInv, NewsTypeOK, text, site
<1> QED BY <1>1, <1>2 DEF ReadForJob, AlreadyDone

LEMMA ClaimKeeps ==
    ASSUME ArticleInv, NEW p \in Callers, Claim(p) PROVE ArticleInv'
<1> DEFINE t == call[p].stage
           at == IF t = "publish" THEN "content" ELSE "work"
           c == [call[p] EXCEPT !.at = at]
<1>1. t \in Stages /\ call[p] \in CallState /\ call[p].at = "claim"
  BY CallerFields DEF Claim, Shape
<1>2. ASSUME Return(p, FALSE)
      PROVE  /\ call' \in [Callers -> CallState] /\ Shapes' /\ call'[p].at = "idle"
             /\ \A q \in Callers \ {p} : call'[q] = call[q]
             /\ job' \in [Stages -> JobState] /\ JobsBudget'
  BY <1>2, Returns
<1>3. CASE UNCHANGED <<status, claim, faults>> /\ Return(p, FALSE)
  BY <1>2, <1>3, CallMovesOnly DEF Claim, Works, ArticleInv, NewsTypeOK, text, site
<1>4. CASE /\ status \in ClaimFrom[t] /\ status' = Busy[t] /\ claim' = p
           /\ Goto(p, at) /\ UNCHANGED <<job, faults>>
  <2>1. ASSUME Goto(p, at)
        PROVE  /\ call' \in [Callers -> CallState] /\ Shapes' /\ call'[p].at \in {"content", "work"}
               /\ call'[p].stage = t
               /\ \A q \in Callers \ {p} : call'[q] = call[q]
    <3>1. c \in CallState /\ c.at = at /\ c.stage = t
      BY <1>1 DEF CallState
    <3>2. call' = [call EXCEPT ![p] = c]
      BY <2>1 DEF Goto
    <3> HIDE DEF c
    <3>3. Shape(c)
      BY <1>1, <3>1 DEF Shape
    <3> QED BY <3>1, <3>2, <3>3, Moves
  <2>2. /\ call' \in [Callers -> CallState] /\ Shapes'
        /\ call'[p].at \in {"content", "work", "idle"}
        /\ call'[p].at # "idle" => call'[p].stage = t
        /\ \A q \in Callers \ {p} : call'[q] = call[q]
        /\ job' \in [Stages -> JobState] /\ JobsBudget'
    BY <1>2, <1>4, <2>1, JobsStay
  <2>3. faults' \in 0 .. MaxFaults
    BY <1>4, CountsFault DEF ArticleInv, NewsTypeOK
  <2>4. NewsTypeOK'
    BY <1>1, <1>4, <2>2, <2>3, Named, BusyTransient
       DEF ArticleInv, NewsTypeOK, Claim, text, site
  <2>5. status \notin Transient
    BY <1>1, <1>4, BusyTransient
  <2>6. \/ taken' \/ UNCHANGED <<status, claim, posts>>
        \/ \A q \in Callers \ {p} : ~Works(q)
    BY <2>5, Alone DEF Claim
  <2>7. Works(p)' /\ ~taken' => claim' = p /\ status' = Busy[call'[p].stage]
    BY <1>4, <2>2 DEF Works
  <2>8. Holding' /\ Unposted'
    BY <2>2, <2>6, <2>7, OthersHold DEF Claim, site
  <2> QED BY <2>2, <2>4, <2>8 DEF ArticleInv, NoSecondPost, Claim, site
<1> QED BY <1>3, <1>4 DEF Claim

(* A stage ends well and goes on to write the history.                     *)
LEMMA OutcomeKeeps ==
    ASSUME ArticleInv, NEW p \in Callers, Works(p), Goto(p, "report"),
           UNCHANGED <<site, job, taken, faults>>, titled' \in BOOLEAN, body' \in Texts,
           \/ UNCHANGED <<status, claim>>
           \/ status' \in {"ready", "social_sent", "published"} /\ claim' = Nobody
    PROVE  ArticleInv'
<1>1. call[p].stage \in Stages
  BY CallerFields DEF Works, Shape, Stages
<1>2. Shape([call[p] EXCEPT !.at = "report"])
  <2>1. call[p] \in CallState
    BY CallerFields
  <2> QED BY <1>1, <2>1 DEF Shape, CallState
<1>3. /\ call' \in [Callers -> CallState] /\ Shapes' /\ call'[p].at = "report"
      /\ \A q \in Callers \ {p} : call'[q] = call[q]
  BY <1>2, Going
<1>4. NewsTypeOK'
  BY <1>3, JobsStay DEF ArticleInv, NewsTypeOK, site, Status, Transient
<1>5. \/ taken' \/ UNCHANGED <<status, claim, posts>>
      \/ \A q \in Callers \ {p} : ~Works(q)
  BY Alone
<1>6. Holding' /\ Unposted'
  BY <1>3, <1>5, OthersHold DEF Works, site
<1> QED BY <1>3, <1>4, <1>6, JobsStay DEF ArticleInv, NoSecondPost, site

LEMMA WriteTextKeeps ==
    ASSUME ArticleInv, NEW p \in Callers, WriteText(p) PROVE ArticleInv'
<1>1. call[p] \in CallState /\ Shape(call[p]) /\ call[p].text \in Texts
  BY CallerFields DEF CallState
<1>2. \/ call[p].at = "content" /\ Goto(p, "lookup")
      \/ call[p].at = "store" /\ Goto(p, "enqueue")
  BY DEF WriteText
<1>3. PICK at \in {"lookup", "enqueue"} :
        Goto(p, at) /\ (at = "lookup" => call[p].at = "content")
        /\ (at = "enqueue" => call[p].at = "store")
  BY <1>2
<1>4. Shape([call[p] EXCEPT !.at = at])
  BY <1>1, <1>3 DEF Shape, CallState
<1>5. /\ call' \in [Callers -> CallState] /\ Shapes' /\ call'[p].at = at
      /\ call'[p].stage = call[p].stage
      /\ \A q \in Callers \ {p} : call'[q] = call[q]
  BY <1>3, <1>4, Going
<1>6. NewsTypeOK'
  BY <1>1, <1>5, JobsStay DEF ArticleInv, NewsTypeOK, site, WriteText
<1>7. Works(p)' /\ ~taken' => claim' = p /\ status' = Busy[call'[p].stage]
  BY <1>3, <1>5 DEF Works, WriteText, ArticleInv, Holding
<1>8. Holding' /\ Unposted'
  BY <1>3, <1>5, <1>7, OthersHold DEF WriteText, site
<1> QED BY <1>5, <1>6, <1>8, JobsStay DEF ArticleInv, NoSecondPost, WriteText, site

LEMMA LookUpKeeps ==
    ASSUME ArticleInv, NEW p \in Callers, LookUp(p) PROVE ArticleInv'
<1>1. PICK seen \in BOOLEAN :
        /\ call' = [call EXCEPT ![p].at = "post", ![p].seen = seen]
        /\ \/ seen = (posts > 0) /\ UNCHANGED <<blind, faults>>
           \/ Fault("lookup") /\ blind' = TRUE
  <2>1. CASE /\ call' = [call EXCEPT ![p].at = "post", ![p].seen = (posts > 0)]
             /\ UNCHANGED <<blind, faults>>
    <3>1. (posts > 0) \in BOOLEAN
      OBVIOUS
    <3> QED BY <2>1, <3>1
  <2>2. CASE /\ Fault("lookup") /\ blind' = TRUE
             /\ call' = [call EXCEPT ![p].at = "post", ![p].seen = FALSE]
    BY <2>2
  <2> QED BY <2>1, <2>2 DEF LookUp
<1>2. blind' \in BOOLEAN /\ (blind => blind')
  <2>1. blind \in BOOLEAN
    BY DEF ArticleInv, NewsTypeOK
  <2>2. blind' = blind \/ blind' = TRUE
    BY <1>1
  <2> QED BY <2>1, <2>2
<1> DEFINE c == [call[p] EXCEPT !.at = "post", !.seen = seen]
<1>3. call[p] \in CallState /\ Shape(call[p]) /\ call[p].at = "lookup"
  BY CallerFields DEF LookUp
<1>4. call' = [call EXCEPT ![p] = c]
  BY <1>1 DEF ArticleInv, NewsTypeOK
<1>5. c \in CallState /\ c.at = "post" /\ c.seen = seen /\ c.stage = call[p].stage
  BY <1>3 DEF CallState
<1> HIDE DEF c
<1>6. Shape(c)
  BY <1>3, <1>5 DEF Shape
<1>7. /\ call' \in [Callers -> CallState] /\ Shapes' /\ call'[p].at = "post"
      /\ call'[p].seen = seen /\ call'[p].stage = call[p].stage
      /\ \A q \in Callers \ {p} : call'[q] = call[q]
  BY <1>4, <1>5, <1>6, Moves
<1>8. faults' \in 0 .. MaxFaults
  BY <1>1, CountsFault DEF ArticleInv, NewsTypeOK
<1>9. NewsTypeOK'
  BY <1>2, <1>7, <1>8, JobsStay DEF ArticleInv, NewsTypeOK, text, LookUp
<1>10. ~seen /\ ~blind' => posts = 0
  BY <1>1 DEF ArticleInv, NewsTypeOK
<1>11. Works(p)' /\ ~taken' => claim' = p /\ status' = Busy[call'[p].stage]
  BY <1>3, <1>7 DEF Works, LookUp, ArticleInv, Holding
<1>12. Holding' /\ Unposted'
  BY <1>2, <1>7, <1>10, <1>11, OthersHold DEF LookUp
<1> QED BY <1>2, <1>7, <1>9, <1>12, JobsStay DEF ArticleInv, NoSecondPost, LookUp

LEMMA PostKeeps ==
    ASSUME ArticleInv, NEW p \in Callers, Post(p) PROVE ArticleInv'
<1>1. call[p] \in CallState /\ Shape(call[p]) /\ call[p].at = "post" /\ call[p].stage = "publish"
  BY CallerFields DEF Post, Shape
<1>2. Works(p)
  BY <1>1 DEF Works
<1>3. posts' \in Nat /\ (taken \/ blind \/ posts' <= 1)
  BY <1>1 DEF Post, ArticleInv, NewsTypeOK, Unposted, NoSecondPost
<1>4. CASE Goto(p, "record") /\ UNCHANGED <<status, claim, job, taken, faults>>
  <2>1. Shape([call[p] EXCEPT !.at = "record"])
    BY <1>1 DEF Shape, CallState
  <2>2. /\ call' \in [Callers -> CallState] /\ Shapes' /\ call'[p].at = "record"
        /\ call'[p].stage = call[p].stage
        /\ \A q \in Callers \ {p} : call'[q] = call[q]
    BY <1>4, <2>1, Going
  <2>3. NewsTypeOK'
    BY <1>3, <1>4, <2>2, JobsStay DEF ArticleInv, NewsTypeOK, text, Post
  <2>4. Works(p)' /\ ~taken' => claim' = p /\ status' = Busy[call'[p].stage]
    BY <1>2, <1>4, <2>2 DEF ArticleInv, Holding
  <2>5. taken' \/ \A q \in Callers \ {p} : ~Works(q)
    BY <1>2, <1>4, Alone
  <2>6. Holding' /\ Unposted'
    BY <1>4, <2>2, <2>4, <2>5, OthersHold DEF Post
  <2> QED BY <1>3, <1>4, <2>2, <2>3, <2>6, JobsStay DEF ArticleInv, NoSecondPost, Post
<1>5. CASE Fault("unanswered") /\ Abort(p)
  <2>1. faults' \in 0 .. MaxFaults
    BY <1>5, CountsFault
  <2>2. call[p].stage \in Stages
    BY <1>1 DEF Stages
  <2>3. taken => taken'
    BY <1>5 DEF Abort
  <2>4. blind' = blind /\ blind \in BOOLEAN /\ UNCHANGED text
    BY DEF Post, ArticleInv, NewsTypeOK
  <2> QED BY <1>2, <1>3, <1>5, <2>1, <2>2, <2>3, <2>4, AbortKeeps
<1> QED BY <1>4, <1>5 DEF Post

LEMMA ReportKeeps ==
    ASSUME ArticleInv, NEW p \in Callers, Report(p) PROVE ArticleInv'
<1>1. call[p] \in CallState /\ call[p].at = "report" /\ call[p].stage \in Stages
  BY CallerFields DEF Report, Shape
<1>2. CASE Fault("reread") /\ Abort(p)
  <2>1. faults' \in 0 .. MaxFaults
    BY <1>2, CountsFault
  <2>2. taken => taken'
    BY <1>2 DEF Abort
  <2> QED
    BY <1>1, <1>2, <2>1, <2>2, AbortKeeps
       DEF Report, text, site, ArticleInv, NewsTypeOK, NoSecondPost
<1>3. CASE Return(p, TRUE) /\ UNCHANGED <<status, claim, taken, faults>>
  BY <1>3, Returns, CallMovesOnly DEF Report, Works, ArticleInv, NewsTypeOK, text, site
<1>4. CASE /\ call' = [call EXCEPT ![p].at = "begin", ![p].stage = "publish"]
           /\ UNCHANGED <<job, status, claim, taken, faults>>
  <2> DEFINE c == [call[p] EXCEPT !.at = "begin", !.stage = "publish"]
  <2>1. call' = [call EXCEPT ![p] = c]
    BY <1>4 DEF ArticleInv, NewsTypeOK
  <2>2. c \in CallState /\ c.at = "begin" /\ c.stage = "publish"
    BY <1>1 DEF CallState, Stages
  <2> HIDE DEF c
  <2>3. Shape(c)
    BY <2>2 DEF Shape, Stages
  <2> QED
    BY <1>4, <2>1, <2>2, <2>3, Moves, JobsStay, CallMovesOnly
       DEF Report, Works, ArticleInv, NewsTypeOK, text, site
<1> QED BY <1>2, <1>3, <1>4 DEF Report

LEMMA FailsKeeps ==
    ASSUME ArticleInv, NEW p \in Callers, Fails(p) PROVE ArticleInv'
<1>1. faults' \in 0 .. MaxFaults
  BY CountsFault DEF Fails
<1>2. call[p].stage \in Stages
  BY CallerFields DEF Fails, Works, Shape, Stages
<1>3. taken => taken'
  BY DEF Fails, Abort
<1> QED
  BY <1>1, <1>2, <1>3, AbortKeeps DEF Fails, text, site, ArticleInv, NewsTypeOK, NoSecondPost

LEMMA DecideKeeps ==
    ASSUME ArticleInv, NEW p \in Callers, Decide(p) PROVE ArticleInv'
<1>1. /\ call' \in [Callers -> CallState] /\ Shapes' /\ call'[p].at = "idle"
      /\ \A q \in Callers \ {p} : call'[q] = call[q]
      /\ job' \in [Stages -> JobState] /\ JobsBudget'
  BY Returns DEF Decide
<1>2. /\ status' \in {"rejected", "ready", "new", status}
      /\ status' = status \/ status' \notin Transient
      /\ claim' = claim \/ (claim' = Nobody /\ status' \notin Transient)
      /\ titled' \in BOOLEAN
  BY DEF Decide, Transient, ArticleInv, NewsTypeOK
<1>3. taken' \in BOOLEAN /\ (taken => taken')
      /\ (status \in Transient /\ status' # status => taken')
  BY DEF Decide, ArticleInv, NewsTypeOK
<1>4. NewsTypeOK'
  BY <1>1, <1>2, <1>3 DEF Decide, ArticleInv, NewsTypeOK, site, Status
<1>5. \/ taken' \/ UNCHANGED <<status, claim, posts>>
      \/ \A q \in Callers \ {p} : ~Works(q)
  <2>1. CASE status \in Transient
    BY <1>2, <1>3, <2>1 DEF Decide, site
  <2>2. CASE status \notin Transient
    BY <1>3, <2>2, Alone
  <2> QED BY <2>1, <2>2
<1>6. Holding' /\ Unposted'
  BY <1>1, <1>3, <1>5, OthersHold DEF Works, Decide, site
<1> QED BY <1>1, <1>3, <1>4, <1>6 DEF ArticleInv, NoSecondPost, Decide, site

LEMMA CrashKeeps ==
    ASSUME ArticleInv, NEW p \in Callers, Crash(p) PROVE ArticleInv'
<1>1. /\ call' \in [Callers -> CallState] /\ Shapes' /\ call'[p].at = "idle"
      /\ \A q \in Callers \ {p} : call'[q] = call[q]
  BY Moves, NoCallShape DEF Crash
<1>2. faults' \in 0 .. MaxFaults
  BY CountsFault DEF Crash
<1> QED
  BY <1>1, <1>2, JobsStay, CallMovesOnly DEF Crash, Works, ArticleInv, NewsTypeOK, text, site

(* What happens without a call: the jobs are queued, or recovered.         *)
LEMMA JobsMoveOnly ==
    ASSUME ArticleInv, job' \in [Stages -> JobState], JobsBudget',
           UNCHANGED <<status, claim, text, site, call, taken, faults>>
    PROVE  ArticleInv'
BY DEF ArticleInv, NewsTypeOK, Shapes, Holding, Unposted, NoSecondPost, Works, text, site

LEMMA ResetKeeps == ASSUME ArticleInv, Reset PROVE ArticleInv'
<1>1. NewsTypeOK'
  BY BusyTransient DEF ArticleInv, NewsTypeOK, Reset, text, site
<1>2. taken \/ \A q \in Callers : ~Works(q)
  BY DEF ArticleInv, Holding, Reset
<1>3. Holding' /\ Unposted'
  BY <1>2 DEF ArticleInv, Holding, Unposted, Reset, Works, site
<1> QED BY <1>1, <1>3 DEF ArticleInv, NoSecondPost, Shapes, JobsBudget, Reset, site
-----------------------------------------------------------------------------
LEMMA ArticleStarts == Init => ArticleInv
<1> SUFFICES ASSUME Init PROVE ArticleInv
  OBVIOUS
<1>1. \A p \in Callers : call[p] = NoCall
  BY DEF Init
<1>2. NewsTypeOK
  <2>1. job \in [Stages -> JobState] /\ call \in [Callers -> CallState]
    BY NoCallShape, JobConstants DEF Init
  <2>2. faults \in 0 .. MaxFaults /\ posts \in Nat
    BY NewsAssumption DEF Init, NewsAssumption
  <2>3. status \in Status \ Transient /\ body \in Texts
    BY DEF Init, Status, Transient, Texts
  <2> QED BY <2>1, <2>2, <2>3 DEF Init, NewsTypeOK
<1>3. Shapes /\ Holding /\ Unposted
  BY <1>1, NoCallShape DEF Shapes, Holding, Unposted, Works
<1> QED BY <1>2, <1>3, JobConstants DEF Init, ArticleInv, JobsBudget, NoSecondPost

LEMMA ArticleStep == ArticleInv /\ [Next]_vars => ArticleInv'
<1> SUFFICES ASSUME ArticleInv, [Next]_vars PROVE ArticleInv'
  OBVIOUS
<1>1. ASSUME NEW p \in Callers, CallStep(p) PROVE ArticleInv'
  <2>1. CASE Prepared(p)
    BY <2>1, OutcomeKeeps DEF Prepared, Works, ArticleInv, NewsTypeOK
  <2>2. CASE Translated(p)
    BY <2>2, OutcomeKeeps DEF Translated, Works, ArticleInv, NewsTypeOK, Texts
  <2>3. CASE Sent(p)
    BY <2>3, OutcomeKeeps DEF Sent, Works, ArticleInv, NewsTypeOK, text
  <2>4. CASE Record(p)
    BY <2>4, OutcomeKeeps DEF Record, Works, ArticleInv, NewsTypeOK, text
  <2> QED
    BY <1>1, <2>1, <2>2, <2>3, <2>4, EnqueueKeeps, MarkKeeps, ReadForJobKeeps, ClaimKeeps,
       WriteTextKeeps, LookUpKeeps, PostKeeps, ReportKeeps, DecideKeeps DEF CallStep
<1>2. ASSUME NEW t \in Stages, Scan(t) PROVE ArticleInv'
  BY <1>2, JobConstants, JobMoves, JobsMoveOnly DEF Scan
<1>3. ASSUME NEW t \in Stages, Recover(t) PROVE ArticleInv'
  <2>1. job[t] \in JobState
    BY DEF ArticleInv, NewsTypeOK
  <2>2. /\ Retried(job[t]) \in JobState
        /\ Retried(job[t]).at = "queued" => Retried(job[t]).attempts < MaxAttempts
    BY <2>1, RetriedTyped
  <2>3. job' = [job EXCEPT ![t] = Retried(job[t])]
    BY <1>3 DEF Recover
  <2> QED BY <1>3, <2>2, <2>3, JobMoves, JobsMoveOnly DEF Recover
<1>4. CASE UNCHANGED vars
  BY <1>4, JobsStay, JobsMoveOnly DEF vars, text, site
<1> QED
  BY <1>1, <1>2, <1>3, <1>4, RequestKeeps, ConsiderKeeps, BeginKeeps, FailsKeeps, CrashKeeps,
     ResetKeeps DEF Next

(* The inductive invariant: who works on the article has claimed it, and   *)
(* who is about to create a post has looked for one.                       *)
THEOREM ArticleKept == Spec => []ArticleInv
BY ArticleStarts, ArticleStep, PTL DEF Spec

(* The types hold, and two calls work on the article at once only after it *)
(* was taken from one of them.                                             *)
THEOREM ArticleSafe == Spec => []NewsInv
<1>1. ArticleInv => NewsInv
  <2> SUFFICES ASSUME ArticleInv PROVE OneStage
    BY DEF ArticleInv, NewsInv
  <2> QED BY DEF ArticleInv, Holding, OneStage
<1> QED BY <1>1, ArticleKept, PTL

(* A post that a call has found, or has just made, is there, and so is     *)
(* that of an article that counts as published.                            *)
Posted ==
    /\ PublishedIsThere
    /\ \A p \in Callers : \/ call[p].at = "record"
                          \/ call[p].at = "post" /\ call[p].seen
                         => posts > 0

(* No step takes posts away, so whoever moves must only see to itself.     *)
LEMMA PostedStays ==
    ASSUME ArticleInv, Posted, posts' \in Nat, posts' >= posts,
           status' = "published" => status = "published" \/ posts' > 0,
           \A q \in Callers :
               /\ call'[q] # call[q]
               /\ call'[q].at = "record" \/ (call'[q].at = "post" /\ call'[q].seen)
               => posts' > 0
    PROVE  Posted'
<1>1. posts \in Nat
  BY DEF ArticleInv, NewsTypeOK
<1>2. ASSUME NEW q \in Callers,
             call'[q].at = "record" \/ (call'[q].at = "post" /\ call'[q].seen)
      PROVE  posts' > 0
  <2>1. CASE call'[q] = call[q]
    BY <1>1, <1>2, <2>1 DEF Posted
  <2>2. CASE call'[q] # call[q]
    BY <1>2, <2>2
  <2> QED BY <2>1, <2>2
<1>3. PublishedIsThere'
  BY <1>1 DEF Posted, PublishedIsThere
<1> QED BY <1>2, <1>3 DEF Posted

LEMMA PostedStep == ArticleInv /\ Posted /\ [Next]_vars => Posted'
<1> SUFFICES ASSUME ArticleInv, Posted, [Next]_vars PROVE Posted'
  OBVIOUS
<1>0. posts \in Nat /\ call \in [Callers -> CallState]
  BY DEF ArticleInv, NewsTypeOK
<1>1. ASSUME NEW p \in Callers, Return(p, TRUE) \/ Return(p, FALSE), posts' \in Nat,
             posts' >= posts, status' = "published" => status = "published"
      PROVE  Posted'
  <2>1. TRUE \in BOOLEAN /\ FALSE \in BOOLEAN
    OBVIOUS
  <2>2. CASE Return(p, TRUE)
    BY <1>1, <2>1, <2>2, Returns, PostedStays
  <2>3. CASE Return(p, FALSE)
    BY <1>1, <2>1, <2>3, Returns, PostedStays
  <2> QED BY <1>1, <2>2, <2>3
<1>2. ASSUME NEW p \in Callers, NEW at \in {"content", "work", "lookup", "report", "enqueue"},
             Goto(p, at), UNCHANGED posts,
             status' = "published" => status = "published" \/ posts > 0
      PROVE  Posted'
  <2>1. call[p] \in CallState /\ call' = [call EXCEPT ![p] = [call[p] EXCEPT !.at = at]]
    BY <1>0, <1>2 DEF Goto
  <2>2. call'[p].at = at /\ \A q \in Callers \ {p} : call'[q] = call[q]
    BY <1>0, <2>1 DEF CallState
  <2> QED BY <1>0, <1>2, <2>2, PostedStays
<1>3. ASSUME NEW p \in Callers, call[p].stage \in Stages, Abort(p), posts' \in Nat, posts' >= posts
      PROVE  Posted'
  <2>1. status' = "published" => status = "published"
    BY <1>3, BusyTransient DEF Abort
  <2> QED BY <1>1, <1>3, <2>1 DEF Abort
<1>4. ASSUME NEW p \in Callers, NEW c \in CallState, call' = [call EXCEPT ![p] = c],
             c.at \notin {"post", "record"}, UNCHANGED posts,
             status' = "published" => status = "published"
      PROVE  Posted'
  <2>1. call'[p] = c /\ \A q \in Callers \ {p} : call'[q] = call[q]
    BY <1>0, <1>4
  <2> QED BY <1>0, <1>4, <2>1, PostedStays
<1>5. ASSUME NEW p \in Callers, NEW t \in Asked, NEW given \in Texts, NEW inline \in Inline,
             p \in Requests, Request(p, t, given, inline)
      PROVE  Posted'
  <2> DEFINE at == IF inline THEN "claim" ELSE IF t = "publish" THEN "store" ELSE "enqueue"
             c == [NoCall EXCEPT !.stage = t, !.text = given, !.at = at]
  <2>1. t \in Stages
    BY NewsAssumption DEF NewsAssumption
  <2>2. c \in CallState /\ c.at = at
    BY <2>1 DEF NoCall, CallState, Texts
  <2>3. call' = [call EXCEPT ![p] = c] /\ UNCHANGED <<posts, status>>
    BY <1>5 DEF Request, site
  <2> HIDE DEF c
  <2> QED BY <1>4, <2>2, <2>3
<1>6. ASSUME NEW p \in Callers, NEW d \in People, Consider(p, d) PROVE Posted'
  <2> DEFINE c == [NoCall EXCEPT !.at = "decide", !.stage = d, !.seen = titled /\ d = "restore"]
  <2>1. d \in Decisions
    BY NewsAssumption DEF NewsAssumption
  <2>2. (titled /\ d = "restore") \in BOOLEAN
    OBVIOUS
  <2>3. c \in CallState /\ c.at = "decide"
    BY <2>1, <2>2 DEF NoCall, CallState, Texts
  <2>4. call' = [call EXCEPT ![p] = c] /\ UNCHANGED <<posts, status>>
    BY <1>6 DEF Consider, site
  <2> HIDE DEF c
  <2> QED BY <1>4, <2>3, <2>4
<1>7. ASSUME NEW w \in Callers, NEW t \in Stages, Begin(w, t) PROVE Posted'
  <2> DEFINE u == IF t = "publish" THEN "translate" ELSE t
             c == [NoCall EXCEPT !.at = "begin", !.job = t, !.stage = u]
  <2>1. c \in CallState /\ c.at = "begin"
    BY DEF NoCall, CallState, Texts, Stages
  <2>2. call' = [call EXCEPT ![w] = c] /\ UNCHANGED <<posts, status>>
    BY <1>7 DEF Begin, site
  <2> HIDE DEF c
  <2> QED BY <1>4, <2>1, <2>2
<1>8. ASSUME NEW p \in Callers, Enqueue(p) PROVE Posted'
  <2>1. PICK c \in CallState : call' = [call EXCEPT ![p] = c] /\ c.at \notin {"post", "record"}
    <3>1. NoCall \in CallState /\ NoCall.at = "idle"
      BY NoCallShape
    <3>2. [call[p] EXCEPT !.at = "mark"] \in CallState /\ [call[p] EXCEPT !.at = "mark"].at = "mark"
      BY <1>0, GoesTo
    <3>3. \/ call' = [call EXCEPT ![p] = NoCall]
          \/ call' = [call EXCEPT ![p] = [call[p] EXCEPT !.at = "mark"]]
      BY <1>0, <1>8 DEF Enqueue
    <3> QED BY <3>1, <3>2, <3>3
  <2> QED BY <1>4, <1>8, <2>1 DEF Enqueue, site
<1>9. ASSUME NEW p \in Callers, Mark(p) PROVE Posted'
  <2>1. status' = "published" => status = "published"
    BY <1>9 DEF Mark
  <2>2. Return(p, TRUE) /\ UNCHANGED posts
    BY <1>9 DEF Mark, site
  <2>3. posts' \in Nat /\ posts' >= posts
    BY <1>0, <2>2
  <2> QED BY <1>1, <2>1, <2>2, <2>3
<1>10. ASSUME NEW p \in Callers, ReadForJob(p) PROVE Posted'
  <2>1. UNCHANGED <<posts, status>>
    BY <1>10 DEF ReadForJob, site
  <2>2. posts' \in Nat /\ posts' >= posts
    BY <1>0, <2>1
  <2>3. CASE Return(p, TRUE) \/ Return(p, FALSE)
    BY <1>1, <2>1, <2>3, <2>2
  <2>4. CASE call' = [call EXCEPT ![p].at = "claim",
                                  ![p].text = IF call[p].stage = "publish" THEN body ELSE "none"]
    <3> DEFINE c == [call[p] EXCEPT !.at = "claim",
                                    !.text = IF call[p].stage = "publish" THEN body ELSE "none"]
    <3>1. c \in CallState /\ c.at = "claim"
      BY <1>0 DEF CallState, ArticleInv, NewsTypeOK, Texts
    <3>2. call' = [call EXCEPT ![p] = c]
      BY <1>0, <2>4
    <3> HIDE DEF c
    <3> QED BY <1>4, <2>1, <3>1, <3>2
  <2>5. AlreadyDone(call[p].stage) \in BOOLEAN
    BY DEF AlreadyDone
  <2> QED BY <1>10, <2>3, <2>4, <2>5 DEF ReadForJob
<1>11. ASSUME NEW p \in Callers, Claim(p) PROVE Posted'
  <2>1. call[p].stage \in Stages
    BY <1>11, CallerFields DEF Claim, Shape
  <2>2. status' = "published" => status = "published"
    BY <1>11, <2>1, BusyTransient DEF Claim
  <2>3. UNCHANGED posts
    BY <1>11 DEF Claim, site
  <2>4. posts' \in Nat /\ posts' >= posts
    BY <1>0, <2>3
  <2>5. CASE Return(p, FALSE)
    BY <1>1, <2>2, <2>5, <2>4
  <2>6. CASE Goto(p, "content")
    BY <1>2, <2>2, <2>3, <2>6
  <2>7. CASE Goto(p, "work")
    BY <1>2, <2>2, <2>3, <2>7
  <2> QED BY <1>11, <2>5, <2>6, <2>7 DEF Claim
<1>12. ASSUME NEW p \in Callers, Prepared(p) \/ Translated(p) \/ Sent(p) \/ Record(p) PROVE Posted'
  <2>1. status' = "published" => status = "published" \/ posts > 0
    BY <1>12 DEF Prepared, Translated, Sent, Record, Posted
  <2> QED BY <1>2, <1>12, <2>1 DEF Prepared, Translated, Sent, Record, site
<1>13. ASSUME NEW p \in Callers, WriteText(p) PROVE Posted'
  BY <1>2, <1>13 DEF WriteText, site
<1>14. ASSUME NEW p \in Callers, LookUp(p) PROVE Posted'
  <2>1. PICK seen \in BOOLEAN : /\ call' = [call EXCEPT ![p].at = "post", ![p].seen = seen]
                                /\ seen => posts > 0
    <3>1. CASE call' = [call EXCEPT ![p].at = "post", ![p].seen = (posts > 0)]
      <4>1. (posts > 0) \in BOOLEAN
        OBVIOUS
      <4> QED BY <3>1, <4>1
    <3>2. CASE call' = [call EXCEPT ![p].at = "post", ![p].seen = FALSE]
      BY <3>2
    <3> QED BY <1>14, <3>1, <3>2 DEF LookUp
  <2> DEFINE c == [call[p] EXCEPT !.at = "post", !.seen = seen]
  <2>2. c \in CallState /\ c.at = "post" /\ c.seen = seen
    BY <1>0 DEF CallState
  <2>3. call' = [call EXCEPT ![p] = c]
    BY <1>0, <2>1
  <2> HIDE DEF c
  <2>4. call'[p] = c /\ \A q \in Callers \ {p} : call'[q] = call[q]
    BY <1>0, <2>3
  <2>5. UNCHANGED <<posts, status>>
    BY <1>14 DEF LookUp
  <2> QED BY <1>0, <2>1, <2>2, <2>4, <2>5, PostedStays
<1>15. ASSUME NEW p \in Callers, Post(p) PROVE Posted'
  <2>1. posts' \in Nat /\ posts' >= posts /\ posts' > 0
    BY <1>0, <1>15 DEF Post, Posted
  <2>2. call[p].stage \in Stages
    BY <1>15, CallerFields DEF Post, Shape, Stages
  <2>3. CASE Abort(p)
    BY <1>3, <2>1, <2>2, <2>3
  <2>4. CASE Goto(p, "record") /\ UNCHANGED status
    BY <2>1, <2>4, PostedStays
  <2> QED BY <1>15, <2>3, <2>4 DEF Post
<1>16. ASSUME NEW p \in Callers, Report(p) \/ Fails(p) PROVE Posted'
  <2>1. call[p].stage \in Stages /\ UNCHANGED posts
    BY <1>16, CallerFields DEF Report, Fails, Works, Shape, Stages, site
  <2>2. CASE Abort(p)
    BY <1>0, <1>3, <2>1, <2>2
  <2>3. CASE Return(p, TRUE) /\ UNCHANGED status
    <3>1. posts' \in Nat /\ posts' >= posts
      BY <1>0, <2>1
    <3> QED BY <1>1, <2>3, <3>1
  <2>4. CASE call' = [call EXCEPT ![p].at = "begin", ![p].stage = "publish"] /\ UNCHANGED status
    <3> DEFINE c == [call[p] EXCEPT !.at = "begin", !.stage = "publish"]
    <3>1. c \in CallState /\ c.at = "begin"
      BY <1>0 DEF CallState, Stages
    <3>2. call' = [call EXCEPT ![p] = c]
      BY <1>0, <2>4
    <3> HIDE DEF c
    <3> QED BY <1>4, <2>1, <2>4, <3>1, <3>2
  <2> QED BY <1>16, <2>2, <2>3, <2>4 DEF Report, Fails
<1>17. ASSUME NEW p \in Callers, Decide(p) PROVE Posted'
  <2>1. status' = "published" => status = "published"
    BY <1>17 DEF Decide
  <2>2. Return(p, TRUE) /\ UNCHANGED posts
    BY <1>17 DEF Decide, site
  <2>3. posts' \in Nat /\ posts' >= posts
    BY <1>0, <2>2
  <2> QED BY <1>1, <2>1, <2>2, <2>3
<1>18. ASSUME NEW p \in Callers, Crash(p) PROVE Posted'
  BY <1>4, <1>18, NoCallShape DEF Crash, site
<1>19. CASE Reset \/ UNCHANGED vars \/ \E t \in Stages : Scan(t) \/ Recover(t)
  <2>1. UNCHANGED <<posts, call>>
    BY <1>19 DEF Reset, Scan, Recover, vars, site
  <2>2. status' = "published" => status = "published"
    BY <1>19 DEF Reset, ResetTo, Transient, Scan, Recover, vars
  <2> QED BY <1>0, <2>1, <2>2, PostedStays
<1>20. Requests \subseteq Callers /\ Workers \subseteq Callers
  BY DEF Callers
<1>21. ASSUME NEW p \in Callers, CallStep(p) PROVE Posted'
  BY <1>8, <1>9, <1>10, <1>11, <1>12, <1>13, <1>14, <1>15, <1>16, <1>17, <1>21 DEF CallStep
<1>22. ASSUME NEW w \in Workers, NEW t \in Stages, Begin(w, t) PROVE Posted'
  BY <1>7, <1>20, <1>22
<1> QED BY <1>5, <1>6, <1>16, <1>18, <1>19, <1>20, <1>21, <1>22 DEF Next

(* Retries, lost answers and crashes of a publication put no second post   *)
(* on the site, unless WordPress did not answer the question for the       *)
(* first; and what counts as published is on the site.                     *)
THEOREM ArticleOnePost == Spec => []OnePost
<1>1. Init => Posted
  BY NoCallShape DEF Init, Posted, PublishedIsThere
<1>2. ArticleInv /\ Posted => OnePost
  BY DEF ArticleInv, Posted, OnePost
<1> QED BY <1>1, <1>2, PostedStep, ArticleKept, PTL DEF Spec

LEMMA StaysPublished ==
    ASSUME ArticleInv, [Next]_vars, status = "published" PROVE status' = "published" \/ taken'
<1>1. taken \/ \A p \in Callers : ~Works(p)
  <2> SUFFICES ASSUME ~taken, NEW p \in Callers, Works(p) PROVE FALSE
    OBVIOUS
  <2>1. call[p].stage \in Stages /\ status = Busy[call[p].stage]
    BY CallerFields DEF ArticleInv, Holding, Works, Shape, Stages
  <2> QED BY <2>1, BusyTransient
<1>2. ASSUME NEW p \in Callers, call[p].stage \in Stages, Abort(p) PROVE status' = "published"
  BY <1>2, BusyTransient DEF Abort
<1>3. ASSUME NEW p \in Callers, Prepared(p) \/ Translated(p) PROVE taken'
  BY <1>1, <1>3 DEF Prepared, Translated, Works
<1>4. ASSUME NEW p \in Callers, Sent(p) \/ Record(p) PROVE status' = "published"
  BY <1>4 DEF Sent, Record
<1>5. ASSUME NEW p \in Callers, Mark(p) PROVE status' = "published"
  BY <1>5, BusyTransient DEF Mark, Stages
<1>6. ASSUME NEW p \in Callers, Claim(p) PROVE status' = "published"
  <2>1. call[p].stage \in Stages
    BY <1>6, CallerFields DEF Claim, Shape
  <2> QED BY <1>6, <2>1, BusyTransient DEF Claim
<1>7. ASSUME NEW p \in Callers, Post(p) \/ Report(p) \/ Fails(p) PROVE status' = "published"
  <2>1. call[p].stage \in Stages
    BY <1>7, CallerFields DEF Post, Report, Fails, Works, Shape, Stages
  <2> QED BY <1>2, <1>7, <2>1 DEF Post, Report, Fails
<1>8. ASSUME NEW p \in Callers, Decide(p) PROVE status' = "published" \/ taken'
  BY <1>8 DEF Decide
<1>9. CASE Reset
  BY <1>9, BusyTransient DEF Reset
<1>10. ASSUME NEW p \in Callers,
              Enqueue(p) \/ ReadForJob(p) \/ WriteText(p) \/ LookUp(p) \/ Crash(p)
       PROVE  status' = "published"
  BY <1>10 DEF Enqueue, ReadForJob, WriteText, LookUp, Crash
<1>11. CASE \/ \E p \in Requests : \/ \E t \in Asked, given \in Texts, inline \in Inline :
                                           Request(p, t, given, inline)
                                   \/ \E d \in People : Consider(p, d)
            \/ \E w \in Workers, t \in Stages : Begin(w, t)
            \/ \E t \in Stages : Scan(t) \/ Recover(t)
            \/ UNCHANGED vars
  BY <1>11 DEF Request, Consider, Begin, Scan, Recover, vars
<1> QED
  BY <1>3, <1>4, <1>5, <1>6, <1>7, <1>8, <1>9, <1>10, <1>11 DEF Next, CallStep

LEMMA StaysRejected == ASSUME ArticleInv, [Next]_vars PROVE RejectedStays
<1> SUFFICES ASSUME status = "rejected", \A p \in Callers : ~Decides(p) /\ ~Succeeds(p)
             PROVE  status' = "rejected"
  BY DEF RejectedStays
<1>0. call \in [Callers -> CallState]
  BY DEF ArticleInv, NewsTypeOK
<1>1. \A t \in Stages : "rejected" \notin ClaimFrom[t] /\ Busy[t] # "rejected"
  BY DEF Stages, ClaimFrom, Busy
<1>2. ASSUME NEW p \in Callers, call[p].stage \in Stages, Abort(p) PROVE status' = "rejected"
  BY <1>1, <1>2 DEF Abort
<1>3. ASSUME NEW p \in Callers, Prepared(p) \/ Translated(p) \/ Record(p) PROVE FALSE
  <2>1. Works(p) /\ Goto(p, "report")
    BY <1>3 DEF Prepared, Translated, Record, Works
  <2>2. call'[p].at = "report"
    BY <1>0, <2>1 DEF Goto, CallState
  <2> QED BY <2>1, <2>2 DEF Succeeds
<1>4. ASSUME NEW p \in Callers, Sent(p) PROVE status' = "rejected"
  BY <1>4 DEF Sent
<1>5. ASSUME NEW p \in Callers, Mark(p) PROVE status' = "rejected"
  BY <1>1, <1>5 DEF Mark, Stages
<1>6. ASSUME NEW p \in Callers, Claim(p) PROVE status' = "rejected"
  <2>1. call[p].stage \in Stages
    BY <1>6, CallerFields DEF Claim, Shape
  <2> QED BY <1>1, <1>6, <2>1 DEF Claim
<1>7. ASSUME NEW p \in Callers, Post(p) \/ Report(p) \/ Fails(p) PROVE status' = "rejected"
  <2>1. call[p].stage \in Stages
    BY <1>7, CallerFields DEF Post, Report, Fails, Works, Shape, Stages
  <2> QED BY <1>2, <1>7, <2>1 DEF Post, Report, Fails
<1>8. ASSUME NEW p \in Callers, Decide(p) PROVE FALSE
  BY <1>8 DEF Decide, Decides
<1>9. CASE Reset
  BY <1>9 DEF Reset, Transient
<1>10. ASSUME NEW p \in Callers,
              Enqueue(p) \/ ReadForJob(p) \/ WriteText(p) \/ LookUp(p) \/ Crash(p)
       PROVE  status' = "rejected"
  BY <1>10 DEF Enqueue, ReadForJob, WriteText, LookUp, Crash
<1>11. CASE \/ \E p \in Requests : \/ \E t \in Asked, given \in Texts, inline \in Inline :
                                           Request(p, t, given, inline)
                                   \/ \E d \in People : Consider(p, d)
            \/ \E w \in Workers, t \in Stages : Begin(w, t)
            \/ \E t \in Stages : Scan(t) \/ Recover(t)
            \/ UNCHANGED vars
  BY <1>11 DEF Request, Consider, Begin, Scan, Recover, vars
<1> QED
  BY <1>3, <1>4, <1>5, <1>6, <1>7, <1>8, <1>9, <1>10, <1>11 DEF Next, CallStep

(* No late failure, no timeout and no job takes a published article back,  *)
(* or brings a rejected one back.                                          *)
THEOREM ArticleEndsStay == Spec => EndsStay
<1>1. ArticleInv /\ [Next]_vars => [PublishedStays /\ RejectedStays]_vars
  BY StaysPublished, StaysRejected DEF PublishedStays
<1> QED BY <1>1, ArticleKept, PTL DEF Spec, EndsStay
=============================================================================
