----------------------------- MODULE NewsArticle -----------------------------
(***************************************************************************)
(* The life of one news article of an own feed in the newsroom:            *)
(* NewsroomService, sendNewsToStudio, and the jobs that call them.         *)
(*                                                                         *)
(* A stage (prepare, translate, publish, social) reads the article, claims *)
(* it by a conditional update of its status, calls external services for   *)
(* minutes, and writes the outcome: a success without a condition on the   *)
(* status, a failure with one.  Requests run a stage themselves or, on a   *)
(* replica of the role api, queue a job for it; workers run jobs; people   *)
(* reject, restore and edit at any time; the maintenance resets what stays *)
(* in a transient status for fifteen minutes.  One statement or external   *)
(* call is one action.                                                     *)
(*                                                                         *)
(* A call that lives ends before the timeout; processingStartedAt is       *)
(* represented by who wrote it (claim).  Of the job queue one job per      *)
(* stage is kept, with its attempts.                                       *)
(***************************************************************************)
EXTENDS Naturals

CONSTANTS
    Requests,      \* people who ask for something
    Asked,         \* bound: which stages they ask for
    Inline,        \* does the replica they reach do heavy work itself? Possible answers
    Workers,
    Automated,     \* stages that automation queues
    People,        \* what people do beside the stages
    MaxAttempts,
    Faults,        \* what may go wrong
    MaxFaults,     \* bound: how often
    Nobody

Callers == Requests \cup Workers
Stages  == {"prepare", "translate", "publish", "social"}
Decisions == {"reject", "restore", "update"}
FaultKinds == {"service", "lookup", "unanswered", "reread", "crash"}

ASSUME NewsAssumption ==
    /\ Asked \subseteq Stages
    /\ Inline \subseteq BOOLEAN
    /\ Requests \cap Workers = {}
    /\ Automated \subseteq Stages \ {"translate"}
    /\ People \subseteq Decisions
    /\ MaxAttempts \in Nat \ {0}
    /\ Faults \subseteq FaultKinds
    /\ MaxFaults \in Nat
    /\ {Nobody, "deferred"} \cap Callers = {}
    /\ Nobody # "deferred"

VARIABLES
    status,     \* NewsArticle.status
    claim,      \* who wrote processingStartedAt, Nobody for null
    titled,     \* titleFa and summaryFa are there
    body,       \* contentFa: none, of the machine, or of an editor
    posts,      \* posts of the article at WordPress
    job,        \* job[t]: the job of stage t
    call,       \* call[p]: local variables of the call of p
    taken,      \* the article was taken from a call that worked on it
    blind,      \* WordPress did not answer whether the post exists
    faults      \* faults so far

vars == <<status, claim, titled, body, posts, job, call, taken, blind, faults>>
text == <<titled, body>>
site == <<posts, blind>>
-----------------------------------------------------------------------------
Transient == {"processing", "publishing", "social_processing"}
Status == Transient \cup {"new", "ready", "failed", "publish_failed", "published",
                          "rejected", "social_sent", "social_failed"}
Texts == {"none", "machine", "editor"}

(* The conditional updates of the stages. *)
ClaimFrom == [prepare   |-> {"new", "ready", "failed", "publish_failed"},
              translate |-> {"ready", "publish_failed"},
              publish   |-> {"ready", "publish_failed"},
              social    |-> {"ready", "publish_failed", "social_failed", "social_sent"}]
Busy     == [prepare |-> "processing", translate |-> "processing",
             publish |-> "publishing", social |-> "social_processing"]
FailedAs == [prepare |-> "failed", translate |-> "publish_failed",
             publish |-> "publish_failed", social |-> "social_failed"]

(* A reset that leaves a publication out. *)
ResetToNoPublishing ==
    [processing |-> "new", publishing |-> "publishing", social_processing |-> "social_failed"]

ResetTo == [processing |-> "new", publishing |-> "publish_failed",
            social_processing |-> "social_failed"]

(* What a stage asks of the article it reads. *)
Accepts(t) == IF t = "prepare" THEN status \notin {"rejected", "publishing", "published"}
              ELSE status \in ClaimFrom[t] \ {"social_sent"}
AlreadyDone(t) == \/ t = "publish" /\ status = "published"
                  \/ t = "social" /\ status = "social_sent"

CallState == [at    : {"idle", "begin", "claim", "content", "work", "lookup", "post", "record",
                       "report", "store", "enqueue", "mark", "decide"},
              stage : Stages \cup Decisions \cup {Nobody},
              text  : Texts,                   \* what publish was given or read
              seen  : BOOLEAN,                 \* titles, or the post, were there
              job   : Stages \cup {Nobody}]    \* the job it runs
NoCall == [at |-> "idle", stage |-> Nobody, text |-> "none", seen |-> FALSE, job |-> Nobody]

JobState == [at : {"none", "queued", "running", "dead"}, attempts : 0 .. MaxAttempts]
NoJob == [at |-> "none", attempts |-> 0]
Queued == [NoJob EXCEPT !.at = "queued"]

Init ==
    /\ status = "new" /\ claim = Nobody
    /\ titled = FALSE /\ body = "none"
    /\ posts = 0
    /\ job = [t \in Stages |-> NoJob]
    /\ call = [p \in Callers |-> NoCall]
    /\ taken = FALSE /\ blind = FALSE
    /\ faults = 0

Fault(kind) == kind \in Faults /\ faults < MaxFaults /\ faults' = faults + 1
Goto(p, at) == call' = [call EXCEPT ![p].at = at]

(* The verdict of the queue on a job that failed. *)
Retried(j) == [j EXCEPT !.at = IF j.attempts >= MaxAttempts THEN "dead" ELSE "queued"]

(* A call returns or throws, and so does the job it runs. *)
Return(p, ok) ==
    LET t == call[p].job IN
    /\ call' = [call EXCEPT ![p] = NoCall]
    /\ job' = IF t = Nobody THEN job
              ELSE [job EXCEPT ![t] = IF ok THEN NoJob ELSE Retried(@)]

(* A catch block that does not look at the status. *)
AbortAnyway(p) ==
    /\ status' = FailedAs[call[p].stage] /\ claim' = Nobody
    /\ taken' = (taken \/ (status \in Transient /\ claim # p))
    /\ Return(p, FALSE)

(* The catch block of a stage. *)
Abort(p) ==
    LET t == call[p].stage IN
    /\ IF status = Busy[t]
       THEN /\ status' = FailedAs[t]
            /\ claim' = Nobody
            /\ taken' = (taken \/ claim # p)
       ELSE UNCHANGED <<status, claim, taken>>
    /\ Return(p, FALSE)
-----------------------------------------------------------------------------
(* Requests and jobs begin *)

(* A request reads the article and passes the checks before the claim.     *)
(* The order to publish carries an editor's text, or relies on the stored. *)
Request(p, t, given, inline) ==
    /\ p \in Requests /\ call[p].at = "idle"
    /\ Accepts(t)
    /\ given \in IF t = "publish" THEN ({body} \cup {"editor"}) \ {"none"} ELSE {"none"}
    /\ t = "publish" => titled \/ given = "editor"
    /\ call' = [call EXCEPT ![p] = [NoCall EXCEPT
                  !.stage = t, !.text = given,
                  !.at = IF inline THEN "claim"
                         ELSE IF t = "publish" THEN "store" ELSE "enqueue"]]
    /\ UNCHANGED <<status, claim, text, site, job, taken, faults>>

(* deferHeavyWork: enqueue with retryDead. *)
Enqueue(p) ==
    LET t == call[p].stage IN
    /\ call[p].at = "enqueue"
    /\ call' = [call EXCEPT ![p] = IF t = "translate" THEN [@ EXCEPT !.at = "mark"] ELSE NoCall]
    /\ job' = IF job[t].at \in {"none", "dead"} THEN [job EXCEPT ![t] = Queued] ELSE job
    /\ UNCHANGED <<status, claim, text, site, taken, faults>>

(* One that leaves processingStartedAt alone. *)
MarkUndated(p) ==
    /\ call[p].at = "mark"
    /\ status' = IF status \in ClaimFrom["translate"] THEN "processing" ELSE status
    /\ Return(p, TRUE)
    /\ UNCHANGED <<claim, text, site, taken, faults>>

(* translateFull alone also claims the article for the job it has queued.  *)
Mark(p) ==
    /\ call[p].at = "mark"
    /\ IF status \in ClaimFrom["translate"]
       THEN status' = "processing" /\ claim' = "deferred"
       ELSE UNCHANGED <<status, claim>>
    /\ Return(p, TRUE)
    /\ UNCHANGED <<text, site, taken, faults>>

(* queueAutomation: a job that is dead stays so. *)
Scan(t) ==
    /\ t \in Automated
    /\ status = IF t = "prepare" THEN "new" ELSE "ready"
    /\ job[t].at = "none"
    /\ job' = [job EXCEPT ![t] = Queued]
    /\ UNCHANGED <<status, claim, text, site, call, taken, faults>>

(* A worker claims a job; news.publish translates first. *)
Begin(w, t) ==
    /\ w \in Workers /\ call[w].at = "idle"
    /\ job[t].at = "queued"
    /\ job' = [job EXCEPT ![t] = [at |-> "running", attempts |-> @.attempts + 1]]
    /\ call' = [call EXCEPT ![w] = [NoCall EXCEPT
                  !.at = "begin", !.job = t,
                  !.stage = IF t = "publish" THEN "translate" ELSE t]]
    /\ UNCHANGED <<status, claim, text, site, taken, faults>>

ReadForJob(w) ==
    LET t == call[w].stage IN
    /\ call[w].at = "begin"
    /\ \/ /\ Accepts(t)
          /\ t = "publish" => titled /\ body # "none"
          /\ call' = [call EXCEPT ![w].at = "claim",
                                  ![w].text = IF t = "publish" THEN body ELSE "none"]
          /\ UNCHANGED job
       \/ ~Accepts(t) /\ Return(w, AlreadyDone(t))
       \/ Accepts(t) /\ t = "publish" /\ ~(titled /\ body # "none") /\ Return(w, FALSE)
    /\ UNCHANGED <<status, claim, text, site, taken, faults>>
-----------------------------------------------------------------------------
(* Stages *)

(* A claim that does not look at the status again. *)
ClaimUnchecked(p) ==
    LET t == call[p].stage IN
    /\ call[p].at = "claim"
    /\ status' = Busy[t] /\ claim' = p
    /\ Goto(p, IF t = "publish" THEN "content" ELSE "work")
    /\ UNCHANGED <<text, site, job, taken, faults>>

(* The conditional update.  The history is written after it; when that     *)
(* fails, the stage goes on.                                               *)
Claim(p) ==
    LET t == call[p].stage IN
    /\ call[p].at = "claim"
    /\ IF status \in ClaimFrom[t]
       THEN /\ status' = Busy[t] /\ claim' = p
            /\ Goto(p, IF t = "publish" THEN "content" ELSE "work")
            /\ UNCHANGED job
       ELSE Return(p, FALSE) /\ UNCHANGED <<status, claim>>
    /\ UNCHANGED <<text, site, taken, faults>>

(* The outcome of a language model or of reading the source. *)
Prepared(p) ==
    /\ call[p].at = "work" /\ call[p].stage = "prepare"
    /\ titled' = TRUE
    /\ status' = "ready" /\ claim' = Nobody
    /\ Goto(p, "report")
    /\ UNCHANGED <<body, site, job, taken, faults>>

(* The job news.publish goes on with publish. *)
Translated(p) ==
    /\ call[p].at = "work" /\ call[p].stage = "translate"
    /\ body' = "machine"
    /\ status' = "ready" /\ claim' = Nobody
    /\ Goto(p, "report")
    /\ UNCHANGED <<titled, site, job, taken, faults>>

Sent(p) ==
    /\ call[p].at = "work" /\ call[p].stage = "social"
    /\ IF status = "social_processing"
       THEN status' = "social_sent" /\ claim' = Nobody
       ELSE UNCHANGED <<status, claim>>
    /\ Goto(p, "report")
    /\ UNCHANGED <<text, site, job, taken, faults>>

(* publish stores the text before anything is sent or queued. *)
WriteText(p) ==
    /\ titled' = TRUE /\ body' = call[p].text
    /\ \/ call[p].at = "content" /\ Goto(p, "lookup")
       \/ call[p].at = "store" /\ Goto(p, "enqueue")
    /\ UNCHANGED <<status, claim, site, job, taken, faults>>

(* One that takes an answer that is not ok for the post.                   *)
LookUpTrusts(p) ==
    /\ call[p].at = "lookup"
    /\ \/ /\ call' = [call EXCEPT ![p].at = "post", ![p].seen = (posts > 0)]
          /\ UNCHANGED <<blind, faults>>
       \/ /\ Fault("lookup")
          /\ call' = [call EXCEPT ![p].at = "post", ![p].seen = TRUE]
          /\ UNCHANGED blind
    /\ UNCHANGED <<status, claim, text, posts, job, taken>>

(* WordPress is asked for the slug of the article; an answer that is not   *)
(* ok counts as no.                                                        *)
LookUp(p) ==
    /\ call[p].at = "lookup"
    /\ \/ /\ call' = [call EXCEPT ![p].at = "post", ![p].seen = (posts > 0)]
          /\ UNCHANGED <<blind, faults>>
       \/ /\ Fault("lookup")
          /\ call' = [call EXCEPT ![p].at = "post", ![p].seen = FALSE]
          /\ blind' = TRUE
    /\ UNCHANGED <<status, claim, text, posts, job, taken>>

(* One that always creates. *)
PostAnew(p) ==
    /\ call[p].at = "post"
    /\ posts' = posts + 1
    /\ Goto(p, "record")
    /\ UNCHANGED <<status, claim, text, blind, job, taken, faults>>

(* The post is updated or created; an answer may be lost. *)
Post(p) ==
    /\ call[p].at = "post"
    /\ posts' = IF call[p].seen THEN posts ELSE posts + 1
    /\ \/ Goto(p, "record") /\ UNCHANGED <<status, claim, job, taken, faults>>
       \/ Fault("unanswered") /\ Abort(p)
    /\ UNCHANGED <<text, blind>>

Record(p) ==
    /\ call[p].at = "record"
    /\ status' = "published" /\ claim' = Nobody
    /\ Goto(p, "report")
    /\ UNCHANGED <<text, site, job, taken, faults>>

(* History and usage are written; when that fails, nobody hears of it.     *)
(* summarize reads the article again, inside of its try block: when that   *)
(* fails, the preparation counts as failed after it was done.              *)
Report(p) ==
    /\ call[p].at = "report"
    /\ \/ /\ IF call[p].job = "publish" /\ call[p].stage = "translate"
             THEN /\ call' = [call EXCEPT ![p].at = "begin", ![p].stage = "publish"]
                  /\ UNCHANGED job
             ELSE Return(p, TRUE)
          /\ UNCHANGED <<status, claim, taken, faults>>
       \/ call[p].stage = "prepare" /\ Fault("reread") /\ Abort(p)
    /\ UNCHANGED <<text, site>>

Works(p) == call[p].at \in {"content", "work", "lookup", "post", "record"}

(* A service or a statement fails. *)
Fails(p) ==
    /\ Works(p)
    /\ Fault("service") /\ Abort(p)
    /\ UNCHANGED <<text, site>>
-----------------------------------------------------------------------------
(* People *)

Allowed(d) ==
    CASE d = "reject"  -> status \notin {"published", "rejected",
                                         "social_processing", "social_sent"}
      [] d = "restore" -> status = "rejected"
      [] d = "update"  -> status \notin {"rejected", "publishing", "published",
                                         "social_processing", "social_sent"}

(* reject, restoreRejected and updateArticle read... *)
Consider(p, d) ==
    /\ p \in Requests /\ call[p].at = "idle"
    /\ d \in People /\ Allowed(d)
    /\ call' = [call EXCEPT ![p] = [NoCall EXCEPT !.at = "decide", !.stage = d,
                                                  !.seen = titled /\ d = "restore"]]
    /\ UNCHANGED <<status, claim, text, site, job, taken, faults>>

(* ...and write what follows from it, whatever the status is by then. *)
Decide(p) ==
    LET d == call[p].stage IN
    /\ call[p].at = "decide"
    /\ \/ d = "reject" /\ status' = "rejected" /\ claim' = Nobody /\ UNCHANGED titled
       \/ /\ d = "restore" /\ status' = IF call[p].seen THEN "ready" ELSE "new"
          /\ claim' = Nobody /\ UNCHANGED titled
       \/ d = "update" /\ titled' = TRUE /\ status' \in {status, "ready"} /\ UNCHANGED claim
    /\ taken' = \/ taken
                \/ status' # status /\ status \in Transient \cup {"published", "social_sent"}
    /\ Return(p, TRUE)
    /\ UNCHANGED <<body, site, faults>>
-----------------------------------------------------------------------------
(* Crashes and time *)

Crash(p) ==
    /\ call[p].at # "idle"
    /\ Fault("crash")
    /\ call' = [call EXCEPT ![p] = NoCall]
    /\ UNCHANGED <<status, claim, text, site, job, taken>>

(* recoverStale, for a job whose worker has stopped. *)
Recover(t) ==
    /\ job[t].at = "running"
    /\ \A w \in Workers : call[w].job # t
    /\ job' = [job EXCEPT ![t] = Retried(@)]
    /\ UNCHANGED <<status, claim, text, site, call, taken, faults>>

(* The maintenance, fifteen minutes after a claim. *)
Reset ==
    /\ status \in Transient
    /\ claim # Nobody
    /\ claim \in Callers => ~Works(claim)
    /\ status' = ResetTo[status] /\ claim' = Nobody
    /\ UNCHANGED <<text, site, job, call, taken, faults>>
-----------------------------------------------------------------------------
CallStep(p) ==
    \/ Enqueue(p) \/ Mark(p) \/ ReadForJob(p) \/ Claim(p)
    \/ Prepared(p) \/ Translated(p) \/ Sent(p)
    \/ WriteText(p) \/ LookUp(p) \/ Post(p) \/ Record(p) \/ Report(p)
    \/ Decide(p)

Next ==
    \/ \E p \in Requests : \/ \E t \in Asked, given \in Texts, inline \in Inline :
                                   Request(p, t, given, inline)
                           \/ \E d \in People : Consider(p, d)
    \/ \E w \in Workers, t \in Stages : Begin(w, t)
    \/ \E p \in Callers : CallStep(p) \/ Fails(p) \/ Crash(p)
    \/ \E t \in Stages : Scan(t) \/ Recover(t)
    \/ Reset

Spec == Init /\ [][Next]_vars

(* Calls go on, or fail, or their process stops, and the maintenance runs  *)
(* every minute.  Nobody needs to ask for anything, no job to be taken.    *)
FairSpec ==
    /\ Spec
    /\ \A p \in Callers : WF_vars(CallStep(p))
    /\ WF_vars(Reset)
-----------------------------------------------------------------------------
(* Properties *)

(* Types; and what is being worked on says since when. *)
NewsTypeOK ==
    /\ status \in Status
    /\ claim \in Callers \cup {"deferred", Nobody}
    /\ titled \in BOOLEAN /\ body \in Texts
    /\ posts \in Nat
    /\ job \in [Stages -> JobState]
    /\ call \in [Callers -> CallState]
    /\ {taken, blind} \subseteq BOOLEAN
    /\ faults \in 0 .. MaxFaults
    /\ status \in Transient => claim # Nobody

(* The claims of the stages: two calls work on the article at the same     *)
(* time only after it was taken from the first one, by a person who        *)
(* rejects or edits it meanwhile or by a call that fails after its end.    *)
OneStage == \A p, q \in Callers : Works(p) /\ Works(q) /\ ~taken => p = q

(* Retries, lost answers and crashes of a publication do not put a second  *)
(* post of the article on the site ...                                     *)
NoSecondPost == posts <= 1 \/ taken \/ blind

(* ... and an article that counts as published is there: no failed look-up *)
(* or lost answer is taken for a post, whoever worked on it before.        *)
PublishedIsThere == status = "published" => posts > 0

OnePost == NoSecondPost /\ PublishedIsThere

(* A published article stays published: no failure that comes late, no     *)
(* timeout, no second stage and no job takes it back.  Only a call from    *)
(* which the article was taken while it worked still writes its outcome.   *)
PublishedStays == status = "published" => status' = "published" \/ taken'

(* A rejected article stays rejected until a person restores or edits it:  *)
(* no claim, failure, timeout or queued job brings it back.  A stage that  *)
(* was at work when it was rejected still does, by its success: that is    *)
(* written without a condition, and it is the only way.                    *)
Decides(p)  == call[p].at = "decide"
Succeeds(p) == Works(p) /\ call'[p].at = "report"
RejectedStays ==
    status = "rejected" => status' = "rejected" \/ \E p \in Callers : Decides(p) \/ Succeeds(p)

EndsStay == [][PublishedStays /\ RejectedStays]_vars

(* No article stays in a transient status, whatever stops. *)
NeverStuck == []<>(status \notin Transient)

(* With the types, what holds in every state of the article. *)
NewsInv == NewsTypeOK /\ OneStage
=============================================================================
