---------------------------- MODULE SocialArticle ----------------------------
(***************************************************************************)
(* The life of one article of the social studio: SocialStudioService, the  *)
(* cover renderer, and what the publisher writes into the article.         *)
(*                                                                         *)
(* Every operation reads the row, waits (for a model, a browser, a         *)
(* network), and writes its outcome; only the preparation writes under a   *)
(* condition.  People and workers run operations at the same time, and the *)
(* maintenance returns a preparation of fifteen minutes to the start.      *)
(*                                                                         *)
(* Of the text it matters only whether what a call or a cover shows is     *)
(* still the text of the row (fresh), and of a row whether it is still     *)
(* there (live).  The delivery to the networks, with its leases and its    *)
(* markers, is SocialDelivery; one network stands here for all.            *)
(***************************************************************************)
EXTENDS Naturals

CONSTANTS
    People, Workers,
    Asked,          \* bound: the operations people ask for
    AutoImages,     \* does automation publish with a cover only?
    MaxFaults,      \* bound: failures, crashes, and deletions of everything
    Nobody

Callers == People \cup Workers
Jobs == {"prepare", "cover", "publish"}
Operations == Jobs \cup {"send", "archive", "text", "caption"}

ASSUME SocialAssumption ==
    /\ People \cap Workers = {}
    /\ Nobody \notin Callers
    /\ Asked \subseteq Operations
    /\ AutoImages \in BOOLEAN
    /\ MaxFaults \in Nat

VARIABLES
    status,     \* SocialArticle.status, "none" without a row
    stamp,      \* who wrote processingStartedAt
    caption,    \* captionText: none, rendered from the template, or edited
    cover,      \* generatedImageUrl: of whom, and still of the text of the row?
    sent,       \* telegramSentAt and the others are set
    job,        \* the jobs of the article
    call,       \* local variables of the calls
    taken,      \* a preparation lost the article while it worked
    shelved,    \* archived, and nothing that may bring it back has begun
    faults

vars == <<status, stamp, caption, cover, sent, job, call, taken, shelved, faults>>
content == <<caption, cover, sent>>
ghosts == <<taken, shelved>>
-----------------------------------------------------------------------------
Status   == {"none", "pending", "processing", "ready", "failed", "archived"}
Captions == {"none", "rendered", "edited"}
CallState == [at    : {"idle", "claim", "work", "write", "image", "publish", "deliver",
                       "record", "failed", "remember"},
              op    : Operations \cup {Nobody},
              live  : BOOLEAN,      \* the row it read is still there
              fresh : BOOLEAN,      \* so is the text
              keep  : BOOLEAN,      \* it read the article as archived
              first : BOOLEAN,      \* so did the job before it
              given : Captions,     \* the caption it was given, or read
              cap   : Captions,     \* the caption it sends
              job   : BOOLEAN]
NoCall == [at |-> "idle", op |-> Nobody, live |-> TRUE, fresh |-> TRUE, keep |-> FALSE,
           first |-> FALSE, given |-> "none", cap |-> "none", job |-> FALSE]

Init ==
    /\ status = "none" /\ stamp = Nobody
    /\ caption = "none" /\ cover = "none" /\ sent = FALSE
    /\ job = [t \in Jobs |-> "none"]
    /\ call = [p \in Callers |-> NoCall]
    /\ taken = FALSE /\ shelved = FALSE
    /\ faults = 0

Kept(keep, s) == IF keep THEN "archived" ELSE s

(* A write of the status by p, which may take the article from another. *)
SetStatus(p, s) ==
    /\ status' = s
    /\ taken' = (taken \/ (status = "processing" /\ s # "processing" /\ stamp # p))

Goto(p, at) == call' = [call EXCEPT ![p].at = at]

(* A write of the text: what a render has read is no longer the text. *)
NewText(c) ==
    [q \in Callers |-> IF c[q].op = "cover" THEN [c[q] EXCEPT !.fresh = FALSE] ELSE c[q]]

(* queueFeaturedImageFallback, when the job of a cover is dead. *)
Fallback(j) ==
    IF j["cover"] = "dead" /\ j["publish"] = "none" /\ status = "ready" /\ ~sent
    THEN {j, [j EXCEPT !["publish"] = "queued"]} ELSE {j}

(* A call returns or throws, and its job is completed, tried again or dead. *)
Ended(p, c, ok) ==
    LET t == c[p].op IN
    /\ call' = [c EXCEPT ![p] = NoCall]
    /\ IF ~c[p].job THEN UNCHANGED job
       ELSE IF ok THEN job' = [job EXCEPT ![t] = "none"]
       ELSE \/ job' = [job EXCEPT ![t] = "queued"]
            \/ job' \in Fallback([job EXCEPT ![t] = "dead"])
Return(p, ok) == Ended(p, call, ok)

Fault == faults < MaxFaults /\ faults' = faults + 1
-----------------------------------------------------------------------------
(* Rows and jobs *)

(* fetchFeed creates the row of an entry it does not have. *)
Discover ==
    /\ status = "none"
    /\ status' = "pending"
    /\ UNCHANGED <<stamp, content, job, call, ghosts, faults>>

DeleteAll ==
    /\ status # "none"
    /\ Fault
    /\ status' = "none" /\ stamp' = Nobody
    /\ caption' = "none" /\ cover' = "none" /\ sent' = FALSE
    /\ call' = [q \in Callers |-> IF call[q].at = "idle" THEN NoCall
                                     ELSE [call[q] EXCEPT !.live = FALSE]]
    /\ shelved' = FALSE
    /\ UNCHANGED <<job, taken>>

(* queueAutomation looks for articles at each stage; a dead job stays so. *)
Scan(t) ==
    /\ CASE t = "prepare" -> status = "pending"
         [] t = "cover"   -> AutoImages /\ status = "ready" /\ cover \in {"none", "browser"}
         [] t = "publish" -> status = "ready" /\ ~sent /\ (AutoImages => cover # "none")
    /\ job[t] = "none"
    /\ job' = [job EXCEPT ![t] = "queued"]
    /\ UNCHANGED <<status, stamp, content, call, ghosts, faults>>

(* deferHeavyWork, for a person on a replica of the role api. *)
Defer(t) ==
    /\ t \in Asked \cap {"prepare"} /\ status # "none"
    /\ job[t] \in {"none", "dead"}
    /\ job' = [job EXCEPT ![t] = "queued"]
    /\ UNCHANGED <<status, stamp, content, call, ghosts, faults>>

FirstStep == [prepare |-> "claim", send |-> "work", cover |-> "work", publish |-> "remember",
              archive |-> "write", text |-> "write", caption |-> "write"]

(* An operation reads the row.  What it reads while an archived article is *)
(* prepared again does not show that it was archived.                      *)
Start(p, op, given) ==
    /\ p \in People /\ call[p].at = "idle" /\ op \in Asked
    /\ op # "send" => status # "none"
    /\ op = "archive" => status \notin {"processing", "archived"}
    /\ op = "send" => status # "processing" /\ \A q \in Callers : call[q].op # "send"
    /\ given \in IF op = "publish" THEN {caption, "edited"} \ {"none"} ELSE {"none"}
    /\ call' = [call EXCEPT ![p] = [NoCall EXCEPT
                  !.at = FirstStep[op], !.op = op, !.given = given,
                  !.keep = (status = "archived" /\ op \notin {"send", "archive"})]]
    /\ shelved' = (shelved /\ status # "processing")
    /\ UNCHANGED <<status, stamp, content, job, taken, faults>>

(* A worker begins a job, and reads the row. *)
Begin(w, t) ==
    /\ w \in Workers /\ call[w].at = "idle"
    /\ job[t] = "queued" /\ status # "none"
    /\ t = "publish" => ~sent
    /\ job' = [job EXCEPT ![t] = "running"]
    /\ call' = [call EXCEPT ![w] = [NoCall EXCEPT
                  !.at = IF t = "publish" THEN "image" ELSE FirstStep[t],
                  !.op = t, !.job = TRUE,
                  !.given = IF t = "publish" THEN caption ELSE "none",
                  !.keep = (status = "archived" /\ t = "prepare"),
                  !.first = (status = "archived" /\ t = "publish")]]
    /\ shelved' = (shelved /\ status # "processing")
    /\ UNCHANGED <<status, stamp, content, taken, faults>>

(* A job that finds its article gone, or published. *)
Pointless(t) ==
    /\ job[t] = "queued"
    /\ status = "none" \/ (t = "publish" /\ sent)
    /\ job' = [job EXCEPT ![t] = IF status = "none" THEN "dead" ELSE "none"]
    /\ UNCHANGED <<status, stamp, content, call, ghosts, faults>>
-----------------------------------------------------------------------------
(* prepare *)

(* A condition on the row alone. *)
UnclaimedAny == Status \ {"none"}

Unclaimed == {"pending", "ready", "failed", "archived"}

(* One that leaves processingStartedAt alone. *)
ClaimUndated(p) ==
    /\ call[p].at = "claim"
    /\ IF call[p].live /\ status \in Unclaimed
       THEN status' = "processing" /\ Goto(p, "work") /\ UNCHANGED job
       ELSE Return(p, FALSE) /\ UNCHANGED status
    /\ UNCHANGED <<stamp, content, ghosts, faults>>

(* The conditional update. *)
Claim(p) ==
    /\ call[p].at = "claim"
    /\ IF call[p].live /\ status \in Unclaimed
       THEN /\ status' = "processing" /\ stamp' = p
            /\ Goto(p, "work") /\ UNCHANGED job
       ELSE Return(p, FALSE) /\ UNCHANGED <<status, stamp>>
    /\ UNCHANGED <<content, ghosts, faults>>

(* One that forgets that the article was archived. *)
PreparedForgetful(p) ==
    /\ call[p].at = "work" /\ call[p].op = "prepare"
    /\ IF call[p].live /\ status = "processing"
       THEN /\ SetStatus(p, "ready")
            /\ stamp' = Nobody /\ caption' = "rendered" /\ cover' = "none"
            /\ Ended(p, NewText(call), TRUE)
       ELSE Return(p, FALSE) /\ UNCHANGED <<status, stamp, caption, cover, taken>>
    /\ UNCHANGED <<sent, shelved, faults>>

(* The outcome of the language model is stored if the row is still as the  *)
(* claim left it.                                                          *)
Prepared(p) ==
    /\ call[p].at = "work" /\ call[p].op = "prepare"
    /\ IF call[p].live /\ status = "processing"
       THEN /\ SetStatus(p, Kept(call[p].keep, "ready"))
            /\ stamp' = Nobody /\ caption' = "rendered" /\ cover' = "none"
            /\ Ended(p, NewText(call), TRUE)
       ELSE Return(p, FALSE) /\ UNCHANGED <<status, stamp, caption, cover, taken>>
    /\ UNCHANGED <<sent, shelved, faults>>

PrepareFails(p) ==
    /\ call[p].at = "work" /\ call[p].op = "prepare"
    /\ Fault
    /\ IF call[p].live /\ status = "processing"
       THEN SetStatus(p, Kept(call[p].keep, "failed")) /\ stamp' = Nobody
       ELSE UNCHANGED <<status, stamp, taken>>
    /\ Return(p, FALSE)
    /\ UNCHANGED <<content, shelved>>
-----------------------------------------------------------------------------
(* sendNewsToStudio: the row is created or written anew, whatever it says.  *)
(* A failure goes to the article of the newsroom.                          *)
Sent(p) ==
    /\ call[p].at = "work" /\ call[p].op = "send"
    /\ SetStatus(p, "ready") /\ stamp' = Nobody
    /\ caption' = "rendered" /\ cover' = "none"
    /\ Ended(p, NewText(call), TRUE)
    /\ shelved' = FALSE
    /\ UNCHANGED <<sent, faults>>
-----------------------------------------------------------------------------
(* What people write *)

Archive(p) ==
    /\ call[p].at = "write" /\ call[p].op = "archive"
    /\ IF call[p].live
       THEN /\ SetStatus(p, "archived") /\ stamp' = Nobody
            /\ shelved' = (\A q \in Callers \ {p} : call[q].at = "idle")
       ELSE UNCHANGED <<status, stamp, ghosts>>
    /\ Return(p, call[p].live)
    /\ UNCHANGED <<content, faults>>

(* One that leaves the cover. *)
WriteTextAlone(p) ==
    /\ call[p].at = "write" /\ call[p].op = "text"
    /\ IF call[p].live
       THEN /\ SetStatus(p, Kept(call[p].keep, "ready"))
            /\ caption' = "rendered"
            /\ cover' = IF cover = "none" THEN "none" ELSE "stale"
            /\ Ended(p, NewText(call), TRUE)
       ELSE Return(p, FALSE) /\ UNCHANGED <<status, caption, cover, taken>>
    /\ UNCHANGED <<stamp, sent, shelved, faults>>

(* updateTitle and updateLead. *)
WriteText(p) ==
    /\ call[p].at = "write" /\ call[p].op = "text"
    /\ IF call[p].live
       THEN /\ SetStatus(p, Kept(call[p].keep, "ready"))
            /\ caption' = "rendered" /\ cover' = "none"
            /\ Ended(p, NewText(call), TRUE)
       ELSE Return(p, FALSE) /\ UNCHANGED <<status, caption, cover, taken>>
    /\ UNCHANGED <<stamp, sent, shelved, faults>>

(* updateFeaturedImage: a cover shows that image too. *)
WriteImage ==
    /\ status # "none" /\ "text" \in Asked
    /\ cover' = "none"
    /\ call' = NewText(call)
    /\ UNCHANGED <<status, stamp, caption, sent, job, ghosts, faults>>

(* updateCaption *)
WriteCaption(p) ==
    /\ call[p].at = "write" /\ call[p].op = "caption"
    /\ IF call[p].live
       THEN SetStatus(p, Kept(call[p].keep, "ready")) /\ caption' = "edited"
       ELSE UNCHANGED <<status, caption, taken>>
    /\ Return(p, call[p].live)
    /\ UNCHANGED <<stamp, cover, sent, shelved, faults>>
-----------------------------------------------------------------------------
(* Covers *)

(* SocialCoverRendererService.generate writes what it rendered from the    *)
(* row as it read it.                                                      *)
Covered(p) ==
    /\ call[p].at = "work" /\ call[p].op = "cover"
    /\ cover' = IF ~call[p].live THEN cover
                ELSE IF call[p].fresh THEN "fresh" ELSE "stale"
    /\ Return(p, call[p].live)
    /\ UNCHANGED <<status, stamp, caption, sent, ghosts, faults>>

(* The browser does not start, a setting is not valid, or six renders wait. *)
CoverFails(p) ==
    /\ call[p].at = "work" /\ call[p].op = "cover"
    /\ Fault
    /\ Return(p, FALSE)
    /\ UNCHANGED <<status, stamp, content, ghosts>>
-----------------------------------------------------------------------------
(* Publication *)

(* The handler of a person stores the caption and the image it was given.  *)
Remember(p) ==
    /\ call[p].at = "remember"
    /\ IF call[p].live
       THEN /\ SetStatus(p, Kept(call[p].keep, "ready"))
            /\ caption' = call[p].given
            /\ cover' \in {cover, "browser"}
            /\ Goto(p, "publish") /\ UNCHANGED job
       ELSE Return(p, FALSE) /\ UNCHANGED <<status, caption, cover, taken>>
    /\ UNCHANGED <<stamp, sent, shelved, faults>>

(* publishAutomatically gets the cover, or else the featured image. *)
GetImage(p) ==
    /\ call[p].at = "image"
    /\ \/ Goto(p, "publish") /\ UNCHANGED <<status, cover, job, taken, faults>>
       \/ /\ Fault /\ call[p].live
          /\ cover' = "none"
          /\ Goto(p, "publish") /\ UNCHANGED <<status, job, taken>>
       \/ /\ Fault
          /\ IF call[p].live THEN SetStatus(p, Kept(call[p].first, "failed"))
             ELSE UNCHANGED <<status, taken>>
          /\ Return(p, FALSE) /\ UNCHANGED cover
    /\ UNCHANGED <<stamp, caption, sent, shelved>>

(* publish reads the row again: a caption that is the stored one, or no    *)
(* caption, is rendered anew.                                              *)
ReadAgain(p) ==
    /\ call[p].at = "publish"
    /\ IF call[p].live
       THEN /\ call' = [call EXCEPT
                  ![p].at = "deliver", ![p].keep = (status = "archived"),
                  ![p].cap = IF call[p].given \in {"none", caption} THEN "rendered"
                             ELSE call[p].given]
            /\ shelved' = (shelved /\ status # "processing")
            /\ UNCHANGED job
       ELSE Return(p, FALSE) /\ UNCHANGED shelved
    /\ UNCHANGED <<status, stamp, content, taken, faults>>

Deliver(p) ==
    /\ call[p].at = "deliver"
    /\ \/ Goto(p, "record") /\ UNCHANGED <<status, taken, faults>>
       \/ /\ Fault
          /\ IF call[p].live THEN SetStatus(p, Kept(call[p].keep, "failed"))
             ELSE UNCHANGED <<status, taken>>
          /\ Goto(p, "failed")
    /\ UNCHANGED <<stamp, content, job, shelved>>

Record(p) ==
    /\ call[p].at = "record"
    /\ IF call[p].live
       THEN /\ SetStatus(p, Kept(call[p].keep, "ready"))
            /\ caption' = call[p].cap /\ sent' = TRUE
       ELSE UNCHANGED <<status, caption, sent, taken>>
    /\ Return(p, call[p].live)
    /\ UNCHANGED <<stamp, cover, shelved, faults>>

(* A job writes its failure after the one of publish. *)
Failed(p) ==
    /\ call[p].at = "failed"
    /\ IF call[p].live /\ call[p].job THEN SetStatus(p, Kept(call[p].first, "failed"))
       ELSE UNCHANGED <<status, taken>>
    /\ Return(p, FALSE)
    /\ UNCHANGED <<stamp, content, shelved, faults>>
-----------------------------------------------------------------------------
(* Crashes and time *)

Crash(p) ==
    /\ call[p].at # "idle"
    /\ Fault
    /\ call' = [call EXCEPT ![p] = NoCall]
    /\ UNCHANGED <<status, stamp, content, job, ghosts>>

Recover(t) ==
    /\ job[t] = "running"
    /\ \A w \in Workers : ~(call[w].job /\ call[w].op = t)
    /\ \/ job' = [job EXCEPT ![t] = "queued"]
       \/ job' = [job EXCEPT ![t] = "dead"]
    /\ UNCHANGED <<status, stamp, content, call, ghosts, faults>>

(* One that looks for rows without a time. *)
ResetUndated ==
    /\ status = "processing" /\ stamp = Nobody
    /\ status' = "pending" /\ shelved' = FALSE
    /\ UNCHANGED <<stamp, content, job, call, taken, faults>>

(* The maintenance, fifteen minutes after the claim; it does not know that *)
(* the article was archived.                                               *)
Reset ==
    /\ status = "processing"
    /\ stamp \in Callers => ~(call[stamp].op = "prepare" /\ call[stamp].at = "work")
    /\ status' = "pending" /\ stamp' = Nobody
    /\ shelved' = FALSE
    /\ UNCHANGED <<content, job, call, taken, faults>>
-----------------------------------------------------------------------------
CallStep(p) ==
    \/ Claim(p) \/ Prepared(p) \/ Sent(p)
    \/ Archive(p) \/ WriteText(p) \/ WriteCaption(p)
    \/ Covered(p) \/ Remember(p)
    \/ GetImage(p) \/ ReadAgain(p) \/ Deliver(p) \/ Record(p) \/ Failed(p)

Next ==
    \/ Discover \/ DeleteAll \/ WriteImage \/ Reset
    \/ \E t \in Jobs : Scan(t) \/ Defer(t) \/ Pointless(t) \/ Recover(t)
    \/ \E p \in People, op \in Operations, given \in Captions : Start(p, op, given)
    \/ \E w \in Workers, t \in Jobs : Begin(w, t)
    \/ \E p \in Callers : CallStep(p) \/ PrepareFails(p) \/ CoverFails(p) \/ Crash(p)

Spec == Init /\ [][Next]_vars

(* A call goes on until it ends or its process stops, and the maintenance  *)
(* runs every minute.                                                      *)
FairSpec ==
    /\ Spec
    /\ \A p \in Callers : WF_vars(CallStep(p))
    /\ WF_vars(Reset)
-----------------------------------------------------------------------------
(* Properties *)

(* Types; who prepares the article has claimed it. *)
SocialTypeOK ==
    /\ status \in Status
    /\ stamp \in Callers \cup {Nobody}
    /\ caption \in Captions
    /\ cover \in {"none", "browser", "fresh", "stale"}
    /\ job \in [Jobs -> {"none", "queued", "running", "dead"}]
    /\ call \in [Callers -> CallState]
    /\ {sent, taken, shelved} \subseteq BOOLEAN
    /\ faults \in 0 .. MaxFaults
    /\ status = "processing" => stamp # Nobody

Preparing(p) == call[p].op = "prepare" /\ call[p].at = "work" /\ call[p].live

(* Two calls prepare an article at once only after another operation, that *)
(* does not look at the claim, took it from the first.                     *)
OnePreparation == \A p, q \in Callers : Preparing(p) /\ Preparing(q) /\ ~taken => p = q

(* An archived article stays archived through preparations, edits,         *)
(* publications and their failures.  What brings it back is news sent      *)
(* again, a call that read the article before the archive or while it was  *)
(* prepared again, and a preparation that times out.                       *)
ArchiveKept == shelved => status \in {"archived", "processing"}

(* A cover that does not show the text of its article can only come from a *)
(* render that an edit overtook: edits drop the cover of before.           *)
CoverOutdatedByRender ==
    [][cover # "stale" /\ cover' = "stale"
        => \E p \in Callers : call[p].op = "cover" /\ ~call[p].fresh /\ call'[p] = NoCall]_vars

(* No article stays in preparation, whatever stops. *)
PreparationEnds == []<>(status # "processing")

(* With the types, what holds in every state of the article. *)
SocialInv == SocialTypeOK /\ OnePreparation
=============================================================================
