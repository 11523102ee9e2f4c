------------------------- MODULE SocialArticleProofs -------------------------
(***************************************************************************)
(* What holds of an article of the social studio for any number of people, *)
(* workers and faults: one call prepares it at a time, what was archived   *)
(* stays so, and only a render that an edit overtook leaves a cover that   *)
(* does not show the text.                                                 *)
(***************************************************************************)
EXTENDS SocialArticle, TLAPS

(* Which operation a call can be in where; who gets the image is a job.    *)
Shape(c) ==
    /\ c.at = "claim" => c.op = "prepare"
    /\ c.at = "work" => c.op \in {"prepare", "send", "cover"}
    /\ c.at = "write" => c.op \in {"archive", "text", "caption"}
    /\ c.at \in {"image", "publish", "deliver", "record", "failed", "remember"} => c.op = "publish"
    /\ c.at = "image" => c.job
    /\ c.at # "idle" /\ c.job => c.op \in Jobs

(* Who prepares the article has claimed it.                                *)
Claimed(p) == status = "processing" /\ stamp = p

(* A call that may write a status knows that the article was archived.     *)
Remembers(c) ==
    c.at # "idle" /\ c.live =>
        /\ c.op \in {"prepare", "text", "caption"} => c.keep
        /\ c.at \in {"remember", "deliver", "record"} => c.keep
        /\ c.op = "publish" /\ c.job => c.first

Shapes    == \A p \in Callers : Shape(call[p])
Claims    == \A p \in Callers : Preparing(p) /\ ~taken => Claimed(p)
Shelf     == shelved => status \in {"archived", "processing"} /\ \A p \in Callers : Remembers(call[p])
StudioInv == SocialTypeOK /\ Shapes /\ Claims /\ Shelf

LEMMA Named == Nobody \notin Callers
BY SocialAssumption DEF SocialAssumption

LEMMA NoCallShape ==
    NoCall \in CallState /\ Shape(NoCall) /\ Remembers(NoCall) /\ NoCall.at = "idle"
BY DEF NoCall, CallState, Shape, Remembers, Captions, Operations

LEMMA CallerFields ==
    ASSUME StudioInv, NEW p \in Callers
    PROVE  /\ call[p] \in CallState /\ Shape(call[p])
           /\ call[p].at \in {"idle", "claim", "work", "write", "image", "publish", "deliver",
                              "record", "failed", "remember"}
           /\ call[p].given \in Captions /\ call[p].cap \in Captions
           /\ {call[p].live, call[p].keep, call[p].first, call[p].job} \subseteq BOOLEAN
BY DEF StudioInv, SocialTypeOK, Shapes, CallState

(* All that the invariant asks of a call, but for the text it has read.    *)
Same(c, d) ==
    /\ c \in CallState
    /\ c.at = d.at /\ c.op = d.op /\ c.live = d.live
    /\ c.keep = d.keep /\ c.first = d.first /\ c.job = d.job


(* The others are as before, or know that the text is another.             *)
LEMMA ReadOrNot ==
    ASSUME StudioInv, NEW q \in Callers
    PROVE  /\ Same(call[q], call[q])
           /\ NewText(call)[q] \in CallState /\ Same(NewText(call)[q], call[q])
BY CallerFields DEF NewText, Same, CallState

LEMMA SameKeeps ==
    ASSUME NEW c, NEW d, Same(c, d)
    PROVE  /\ Shape(d) => Shape(c)
           /\ Remembers(d) => Remembers(c)
BY DEF Same, Shape, Remembers

(* Calls move: that of p to c, the others as before but for what they know *)
(* of the text.                                                            *)
LEMMA Moves ==
    ASSUME StudioInv, NEW p \in Callers, NEW c \in CallState, Shape(c),
           NEW f, f = call \/ f = NewText(call), call' = [f EXCEPT ![p] = c]
    PROVE  /\ call' \in [Callers -> CallState] /\ Shapes' /\ call'[p] = c
           /\ \A q \in Callers \ {p} : Same(call'[q], call[q])
<1>1. /\ f \in [Callers -> CallState]
      /\ \A q \in Callers : Same(f[q], call[q])
  <2>1. CASE f = call
    BY <2>1, ReadOrNot DEF StudioInv, SocialTypeOK
  <2>2. CASE f = NewText(call)
    <3>1. DOMAIN f = Callers /\ \A q \in Callers : f[q] \in CallState
      BY <2>2, ReadOrNot DEF NewText
    <3>2. f = [q \in Callers |-> f[q]]
      BY <2>2 DEF NewText
    <3> QED BY <2>2, <3>1, <3>2, ReadOrNot
  <2> QED BY <2>1, <2>2
<1>2. /\ call' \in [Callers -> CallState] /\ call'[p] = c
      /\ \A q \in Callers \ {p} : call'[q] = f[q]
  BY <1>1
<1>3. \A q \in Callers \ {p} : Same(call'[q], call[q])
  BY <1>1, <1>2
<1>4. \A q \in Callers \ {p} : Shape(call'[q])
  BY <1>3, CallerFields, SameKeeps
<1> QED BY <1>2, <1>3, <1>4 DEF Shapes

LEMMA Ends ==
    ASSUME StudioInv, NEW p \in Callers, NEW f, f = call \/ f = NewText(call), NEW ok, Ended(p, f, ok)
    PROVE  /\ call' \in [Callers -> CallState] /\ Shapes' /\ call'[p] = NoCall
           /\ \A q \in Callers \ {p} : Same(call'[q], call[q])
           /\ job' \in [Jobs -> {"none", "queued", "running", "dead"}]
<1>1. call' = [f EXCEPT ![p] = NoCall]
  BY DEF Ended
<1>2. job \in [Jobs -> {"none", "queued", "running", "dead"}]
  BY DEF StudioInv, SocialTypeOK
<1>3. \A t, s : s \in {"none", "queued", "running", "dead"} =>
        [job EXCEPT ![t] = s] \in [Jobs -> {"none", "queued", "running", "dead"}]
  BY <1>2
<1>4. \A j \in [Jobs -> {"none", "queued", "running", "dead"}] :
        Fallback(j) \subseteq [Jobs -> {"none", "queued", "running", "dead"}]
  BY DEF Fallback
<1>5. job' \in [Jobs -> {"none", "queued", "running", "dead"}]
  <2> DEFINE t == f[p].op
  <2>1. \/ job' = job \/ job' = [job EXCEPT ![t] = "none"] \/ job' = [job EXCEPT ![t] = "queued"]
        \/ job' \in Fallback([job EXCEPT ![t] = "dead"])
    BY DEF Ended
  <2> HIDE DEF t
  <2>2. [job EXCEPT ![t] = "dead"] \in [Jobs -> {"none", "queued", "running", "dead"}]
    BY <1>3
  <2> QED BY <1>2, <1>3, <1>4, <2>1, <2>2
<1> QED BY <1>1, <1>5, Moves, NoCallShape
-----------------------------------------------------------------------------
(* One lemma for each kind of step                                         *)

(* A write of the status by p: another that prepares loses the article.    *)
Writes(p, s) == SetStatus(p, s) /\ (stamp' = stamp \/ stamp' = Nobody)

(* A step of p that claims nothing.                                        *)
LEMMA StepKeeps ==
    ASSUME StudioInv, NEW p \in Callers,
           call' \in [Callers -> CallState], Shapes',
           \A q \in Callers \ {p} : Same(call'[q], call[q]),
           ~Preparing(p)', NEW s \in Status \ {"processing"},
           Writes(p, s) \/ UNCHANGED <<status, stamp, taken>>,
           shelved' \in BOOLEAN, shelved' => shelved /\ Remembers(call'[p]),
           shelved' => status' = status \/ s = "archived",
           job' \in [Jobs -> {"none", "queued", "running", "dead"}],
           caption' \in Captions, cover' \in {"none", "browser", "fresh", "stale"},
           sent' \in BOOLEAN, faults' \in 0 .. MaxFaults
    PROVE  StudioInv'
<1>1. SocialTypeOK'
  BY DEF StudioInv, SocialTypeOK, Writes, SetStatus
<1>2. Claims'
  <2> SUFFICES ASSUME NEW q \in Callers, Preparing(q)', ~taken' PROVE Claimed(q)'
    BY DEF Claims
  <2>1. q # p /\ Same(call'[q], call[q])
    OBVIOUS
  <2>2. Preparing(q) /\ ~taken
    BY <2>1 DEF Same, Preparing, Writes, SetStatus, StudioInv, SocialTypeOK
  <2>3. Claimed(q)
    BY <2>2 DEF StudioInv, Claims
  <2>4. UNCHANGED <<status, stamp>>
    BY <2>1, <2>3 DEF Claimed, Writes, SetStatus
  <2> QED BY <2>3, <2>4 DEF Claimed
<1>3. Shelf'
  <2> SUFFICES ASSUME shelved'
               PROVE  status' \in {"archived", "processing"} /\ \A q \in Callers : Remembers(call'[q])
    BY DEF Shelf
  <2>1. status' \in {"archived", "processing"}
    BY DEF StudioInv, Shelf, Writes, SetStatus
  <2>2. \A q \in Callers \ {p} : Remembers(call'[q])
    BY SameKeeps DEF StudioInv, Shelf
  <2> QED BY <2>1, <2>2
<1> QED BY <1>1, <1>2, <1>3 DEF StudioInv

LEMMA CountsFault ==
    ASSUME StudioInv, Fault PROVE faults' \in 0 .. MaxFaults
BY SocialAssumption DEF StudioInv, SocialTypeOK, Fault, SocialAssumption

LEMMA KeptStatus ==
    ASSUME NEW keep, NEW s \in {"ready", "failed"}
    PROVE  Kept(keep, s) \in Status \ {"processing"} /\ (keep => Kept(keep, s) = "archived")
BY DEF Kept, Status

(* A call ends that has written the status, or nothing.                    *)
LEMMA EndKeeps ==
    ASSUME StudioInv, NEW p \in Callers, NEW f, f = call \/ f = NewText(call), NEW ok,
           Ended(p, f, ok), NEW s \in Status \ {"processing"},
           Writes(p, s) \/ UNCHANGED <<status, stamp, taken>>,
           shelved' \in BOOLEAN, shelved' => shelved,
           shelved' => status' = status \/ s = "archived",
           caption' \in Captions, cover' \in {"none", "browser", "fresh", "stale"},
           sent' \in BOOLEAN, faults' \in 0 .. MaxFaults
    PROVE  StudioInv'
<1>1. /\ call' \in [Callers -> CallState] /\ Shapes' /\ call'[p] = NoCall
      /\ \A q \in Callers \ {p} : Same(call'[q], call[q])
      /\ job' \in [Jobs -> {"none", "queued", "running", "dead"}]
  BY Ends
<1>2. ~Preparing(p)' /\ Remembers(call'[p])
  BY <1>1, NoCallShape DEF Preparing
<1> QED BY <1>1, <1>2, StepKeeps

(* A call goes on, where it claims nothing.                                *)
LEMMA GoKeeps ==
    ASSUME StudioInv, NEW p \in Callers, NEW c \in CallState, Shape(c),
           call' = [call EXCEPT ![p] = c], ~(c.op = "prepare" /\ c.at = "work"),
           NEW s \in Status \ {"processing"},
           Writes(p, s) \/ UNCHANGED <<status, stamp, taken>>,
           shelved' \in BOOLEAN, shelved' => shelved /\ Remembers(c),
           shelved' => status' = status \/ s = "archived", UNCHANGED job,
           caption' \in Captions, cover' \in {"none", "browser", "fresh", "stale"},
           sent' \in BOOLEAN, faults' \in 0 .. MaxFaults
    PROVE  StudioInv'
<1>1. /\ call' \in [Callers -> CallState] /\ Shapes' /\ call'[p] = c
      /\ \A q \in Callers \ {p} : Same(call'[q], call[q])
  BY Moves
<1>2. ~Preparing(p)' /\ (shelved' => Remembers(call'[p]))
  BY <1>1 DEF Preparing
<1>3. job' \in [Jobs -> {"none", "queued", "running", "dead"}]
  BY DEF StudioInv, SocialTypeOK
<1> QED BY <1>1, <1>2, <1>3, StepKeeps

LEMMA StayTyped ==
    ASSUME StudioInv
    PROVE  /\ UNCHANGED content => /\ caption' \in Captions /\ sent' \in BOOLEAN
                                   /\ cover' \in {"none", "browser", "fresh", "stale"}
           /\ UNCHANGED shelved => shelved' \in BOOLEAN
           /\ UNCHANGED faults => faults' \in 0 .. MaxFaults
           /\ {shelved, sent, taken} \subseteq BOOLEAN /\ caption \in Captions
           /\ cover \in {"none", "browser", "fresh", "stale"}
           /\ "ready" \in Status \ {"processing"} /\ "archived" \in Status \ {"processing"}
           /\ "rendered" \in Captions /\ "edited" \in Captions /\ "none" \in Captions
BY DEF StudioInv, SocialTypeOK, content, Status, Captions

LEMMA PreparedKeeps ==
    ASSUME StudioInv, NEW p \in Callers, Prepared(p) PROVE StudioInv'
<1>1. CASE call[p].live /\ status = "processing"
  <2> DEFINE s == Kept(call[p].keep, "ready")
  <2>1. Writes(p, s) /\ Ended(p, NewText(call), TRUE)
    BY <1>1 DEF Prepared, Writes
  <2>2. shelved => call[p].keep
    BY <1>1 DEF Prepared, StudioInv, Shelf, Remembers
  <2>3. s \in Status \ {"processing"} /\ (shelved => s = "archived")
    BY <2>2, KeptStatus
  <2> HIDE DEF s
  <2> QED BY <1>1, <2>1, <2>3, EndKeeps, StayTyped DEF Prepared
<1>2. CASE ~(call[p].live /\ status = "processing")
  BY <1>2, EndKeeps, StayTyped DEF Prepared, Return
<1> QED BY <1>1, <1>2

LEMMA PrepareFailsKeeps ==
    ASSUME StudioInv, NEW p \in Callers, PrepareFails(p) PROVE StudioInv'
<1>1. faults' \in 0 .. MaxFaults
  BY CountsFault DEF PrepareFails
<1>2. CASE call[p].live /\ status = "processing"
  <2> DEFINE s == Kept(call[p].keep, "failed")
  <2>1. Writes(p, s) /\ Ended(p, call, FALSE)
    BY <1>2 DEF PrepareFails, Writes, Return
  <2>2. shelved => call[p].keep
    BY <1>2 DEF PrepareFails, StudioInv, Shelf, Remembers
  <2>3. s \in Status \ {"processing"} /\ (shelved => s = "archived")
    BY <2>2, KeptStatus
  <2> HIDE DEF s
  <2> QED BY <1>1, <2>1, <2>3, EndKeeps, StayTyped DEF PrepareFails
<1>3. CASE ~(call[p].live /\ status = "processing")
  BY <1>1, <1>3, EndKeeps, StayTyped DEF PrepareFails, Return
<1> QED BY <1>2, <1>3

LEMMA SentKeeps ==
    ASSUME StudioInv, NEW p \in Callers, Sent(p) PROVE StudioInv'
<1>1. Writes(p, "ready") /\ Ended(p, NewText(call), TRUE)
  BY DEF Sent, Writes
<1> QED BY <1>1, EndKeeps, StayTyped DEF Sent

(* A text or a caption is written, the status is the one it was read with. *)
LEMMA EditKeeps ==
    ASSUME StudioInv, NEW p \in Callers, call[p].live, call[p].at = "write",
           call[p].op \in {"text", "caption"}, SetStatus(p, Kept(call[p].keep, "ready")),
           NEW f, f = call \/ f = NewText(call), Ended(p, f, TRUE),
           caption' \in Captions, cover' \in {"none", "browser", "fresh", "stale"},
           UNCHANGED <<stamp, sent, shelved, faults>>
    PROVE  StudioInv'
<1> DEFINE s == Kept(call[p].keep, "ready")
<1>1. Writes(p, s)
  BY DEF Writes
<1>2. shelved => call[p].keep
  BY DEF StudioInv, Shelf, Remembers
<1>3. s \in Status \ {"processing"} /\ (shelved => s = "archived")
  BY <1>2, KeptStatus
<1> HIDE DEF s
<1> QED BY <1>1, <1>3, EndKeeps, StayTyped

LEMMA WriteTextKeeps ==
    ASSUME StudioInv, NEW p \in Callers, WriteText(p) PROVE StudioInv'
<1>1. CASE call[p].live
  BY <1>1, EditKeeps, StayTyped DEF WriteText
<1>2. CASE ~call[p].live
  BY <1>2, EndKeeps, StayTyped DEF WriteText, Return
<1> QED BY <1>1, <1>2

LEMMA WriteCaptionKeeps ==
    ASSUME StudioInv, NEW p \in Callers, WriteCaption(p) PROVE StudioInv'
<1>1. CASE call[p].live
  BY <1>1, EditKeeps, StayTyped DEF WriteCaption, Return
<1>2. CASE ~call[p].live
  BY <1>2, EndKeeps, StayTyped DEF WriteCaption, Return
<1> QED BY <1>1, <1>2

LEMMA CoverKeeps ==
    ASSUME StudioInv, NEW p \in Callers, Covered(p) \/ CoverFails(p) PROVE StudioInv'
<1>1. CASE Covered(p)
  BY <1>1, EndKeeps, StayTyped DEF Covered, Return, ghosts
<1>2. CASE CoverFails(p)
  BY <1>2, CountsFault, EndKeeps, StayTyped DEF CoverFails, Return, ghosts
<1> QED BY <1>1, <1>2

(* Nothing but the archive shelves an article, when no other call is on    *)
(* its way.                                                                *)
LEMMA ArchiveKeeps ==
    ASSUME StudioInv, NEW p \in Callers, Archive(p) PROVE StudioInv'
<1>1. CASE ~call[p].live
  BY <1>1, EndKeeps, StayTyped DEF Archive, Return, ghosts
<1>2. CASE call[p].live
  <2>1. /\ call' \in [Callers -> CallState] /\ Shapes' /\ call'[p] = NoCall
        /\ \A q \in Callers \ {p} : Same(call'[q], call[q])
        /\ job' \in [Jobs -> {"none", "queued", "running", "dead"}]
    BY Ends DEF Archive, Return
  <2>2. SetStatus(p, "archived") /\ stamp' = Nobody
        /\ shelved' = (\A q \in Callers \ {p} : call[q].at = "idle")
    BY <1>2 DEF Archive
  <2>3. SocialTypeOK'
    BY <2>1, <2>2, StayTyped DEF StudioInv, SocialTypeOK, Archive, SetStatus
  <2>4. Claims'
    <3> SUFFICES ASSUME NEW q \in Callers, Preparing(q)', ~taken' PROVE FALSE
      BY DEF Claims
    <3>1. q # p /\ Same(call'[q], call[q])
      BY <2>1, NoCallShape DEF Preparing
    <3>2. Claimed(q)
      BY <2>2, <3>1 DEF Same, Preparing, SetStatus, StudioInv, SocialTypeOK, Claims
    <3> QED BY <2>2, <3>1, <3>2 DEF Claimed, SetStatus
  <2>5. Shelf'
    <3> SUFFICES ASSUME shelved', NEW q \in Callers PROVE status' = "archived" /\ Remembers(call'[q])
      BY <2>2 DEF Shelf, SetStatus
    <3>1. call'[q].at = "idle"
      BY <2>1, <2>2, NoCallShape DEF Same
    <3> QED BY <2>2, <3>1 DEF Remembers, SetStatus
  <2> QED BY <2>1, <2>3, <2>4, <2>5 DEF StudioInv
<1> QED BY <1>1, <1>2

LEMMA CrashKeeps ==
    ASSUME StudioInv, NEW p \in Callers, Crash(p) PROVE StudioInv'
<1>1. call' = [call EXCEPT ![p] = NoCall] /\ faults' \in 0 .. MaxFaults
  BY CountsFault DEF Crash
<1>2. ~(NoCall.op = "prepare" /\ NoCall.at = "work")
  BY NoCallShape
<1> QED BY <1>1, <1>2, NoCallShape, GoKeeps, StayTyped DEF Crash, ghosts

LEMMA RememberKeeps ==
    ASSUME StudioInv, NEW p \in Callers, Remember(p) PROVE StudioInv'
<1>1. CASE ~call[p].live
  BY <1>1, EndKeeps, StayTyped DEF Remember, Return
<1>2. CASE call[p].live
  <2> DEFINE s == Kept(call[p].keep, "ready")
             c == [call[p] EXCEPT !.at = "publish"]
  <2>1. Writes(p, s) /\ call' = [call EXCEPT ![p] = c]
    BY <1>2 DEF Remember, Writes, Goto
  <2>2. shelved => call[p].keep /\ (call[p].job => call[p].first)
    BY <1>2, CallerFields DEF Remember, StudioInv, Shelf, Remembers, Shape
  <2>3. s \in Status \ {"processing"} /\ (shelved => s = "archived")
    BY <2>2, KeptStatus
  <2>4. c \in CallState /\ c.at = "publish" /\ c.op = "publish" /\ c.job = call[p].job
        /\ c.first = call[p].first
    BY CallerFields DEF Remember, CallState, Shape
  <2>5. call[p].given \in Captions /\ cover' \in {"none", "browser", "fresh", "stale"}
    BY <1>2, CallerFields, StayTyped DEF Remember
  <2> HIDE DEF s, c
  <2>6. Shape(c) /\ (shelved => Remembers(c))
    BY <2>2, <2>4 DEF Shape, Remembers, Jobs
  <2> QED BY <1>2, <2>1, <2>3, <2>4, <2>5, <2>6, GoKeeps, StayTyped DEF Remember
<1> QED BY <1>1, <1>2

LEMMA GetImageKeeps ==
    ASSUME StudioInv, NEW p \in Callers, GetImage(p) PROVE StudioInv'
<1> DEFINE c == [call[p] EXCEPT !.at = "publish"]
<1>1. call[p].op = "publish" /\ call[p].job
      /\ (shelved /\ call[p].live => call[p].first)
  BY CallerFields DEF GetImage, Shape, StudioInv, Shelf, Remembers
<1>2. c \in CallState /\ c.at = "publish" /\ c.op = "publish" /\ c.job /\ c.live = call[p].live
      /\ c.first = call[p].first
  BY <1>1, CallerFields DEF CallState
<1>3. CASE Goto(p, "publish") /\ UNCHANGED <<status, job, taken>>
  <2>1. call' = [call EXCEPT ![p] = c]
    BY <1>3 DEF Goto
  <2>2. faults' \in 0 .. MaxFaults /\ cover' \in {"none", "browser", "fresh", "stale"}
    BY <1>3, CountsFault, StayTyped DEF GetImage
  <2> HIDE DEF c
  <2>3. Shape(c) /\ (shelved => Remembers(c))
    BY <1>1, <1>2 DEF Shape, Remembers, Jobs
  <2> QED BY <1>2, <1>3, <2>1, <2>2, <2>3, GoKeeps, StayTyped DEF GetImage
<1>4. CASE /\ IF call[p].live THEN SetStatus(p, Kept(call[p].first, "failed"))
              ELSE UNCHANGED <<status, taken>>
           /\ Fault /\ Return(p, FALSE) /\ UNCHANGED cover
  <2> DEFINE s == Kept(call[p].first, "failed")
  <2>1. Ended(p, call, FALSE) /\ faults' \in 0 .. MaxFaults /\ UNCHANGED stamp
    BY <1>4, CountsFault DEF Return, GetImage
  <2>2. (Writes(p, s) /\ call[p].live) \/ UNCHANGED <<status, stamp, taken>>
    BY <1>4, <2>1 DEF Writes
  <2>3. s \in Status \ {"processing"} /\ (shelved /\ call[p].live => s = "archived")
    BY <1>1, KeptStatus
  <2> HIDE DEF s
  <2> QED BY <1>4, <2>1, <2>2, <2>3, EndKeeps, StayTyped DEF GetImage
<1> QED BY <1>3, <1>4 DEF GetImage

LEMMA ReadAgainKeeps ==
    ASSUME StudioInv, NEW p \in Callers, ReadAgain(p) PROVE StudioInv'
<1>1. CASE ~call[p].live
  BY <1>1, EndKeeps, StayTyped DEF ReadAgain, Return
<1>2. CASE call[p].live
  <2> DEFINE keep == status = "archived"
             cap == IF call[p].given \in {"none", caption} THEN "rendered" ELSE call[p].given
             c == [call[p] EXCEPT !.at = "deliver", !.keep = keep, !.cap = cap]
  <2>1. call' = [call EXCEPT ![p] = c] /\ shelved' = (shelved /\ status # "processing")
    BY <1>2 DEF ReadAgain, StudioInv, SocialTypeOK
  <2>2. cap \in Captions
    BY CallerFields, StayTyped
  <2>3. keep \in BOOLEAN
    OBVIOUS
  <2>4. call[p].op = "publish" /\ (shelved /\ call[p].job => call[p].first)
    BY <1>2, CallerFields DEF ReadAgain, Shape, StudioInv, Shelf, Remembers
  <2>5. shelved' => shelved /\ keep
    BY <2>1 DEF StudioInv, Shelf
  <2>6. shelved' \in BOOLEAN
    BY <2>1
  <2> HIDE DEF cap, keep
  <2>7. c \in CallState /\ c.at = "deliver" /\ c.op = "publish" /\ c.job = call[p].job
        /\ c.first = call[p].first /\ c.keep = keep
    BY <2>2, <2>3, <2>4, CallerFields DEF CallState
  <2> HIDE DEF c
  <2>8. Shape(c) /\ (shelved' => shelved /\ Remembers(c))
    BY <2>4, <2>5, <2>7 DEF Shape, Remembers, Jobs
  <2> QED BY <1>2, <2>1, <2>6, <2>7, <2>8, GoKeeps, StayTyped DEF ReadAgain
<1> QED BY <1>1, <1>2

LEMMA DeliverKeeps ==
    ASSUME StudioInv, NEW p \in Callers, Deliver(p) PROVE StudioInv'
<1> DEFINE s == Kept(call[p].keep, "failed")
<1>1. call[p].op = "publish" /\ (shelved /\ call[p].live => call[p].keep)
      /\ (shelved /\ call[p].live /\ call[p].job => call[p].first)
  BY CallerFields DEF Deliver, Shape, StudioInv, Shelf, Remembers
<1>2. PICK at \in {"record", "failed"} : Goto(p, at)
  BY DEF Deliver
<1> DEFINE c == [call[p] EXCEPT !.at = at]
<1>3. call' = [call EXCEPT ![p] = c]
  BY <1>2 DEF Goto
<1>4. c \in CallState /\ c.at = at /\ c.op = "publish" /\ c.live = call[p].live
      /\ c.keep = call[p].keep /\ c.first = call[p].first /\ c.job = call[p].job
  BY <1>1, CallerFields DEF CallState
<1>5. faults' \in 0 .. MaxFaults
  BY CountsFault, StayTyped DEF Deliver
<1>6. (Writes(p, s) /\ call[p].live) \/ UNCHANGED <<status, stamp, taken>>
  BY DEF Deliver, Writes
<1>7. s \in Status \ {"processing"} /\ (shelved /\ call[p].live => s = "archived")
  BY <1>1, KeptStatus
<1> HIDE DEF s, c
<1>8. Shape(c) /\ (shelved => Remembers(c))
  BY <1>1, <1>2, <1>4 DEF Shape, Remembers, Jobs
<1> QED BY <1>2, <1>3, <1>4, <1>5, <1>6, <1>7, <1>8, GoKeeps, StayTyped DEF Deliver

LEMMA RecordKeeps ==
    ASSUME StudioInv, NEW p \in Callers, Record(p) PROVE StudioInv'
<1>1. CASE ~call[p].live
  BY <1>1, EndKeeps, StayTyped DEF Record, Return, content
<1>2. CASE call[p].live
  <2> DEFINE s == Kept(call[p].keep, "ready")
  <2>1. Writes(p, s) /\ Ended(p, call, TRUE)
    BY <1>2 DEF Record, Writes, Return
  <2>2. shelved => call[p].keep
    BY <1>2 DEF Record, StudioInv, Shelf, Remembers
  <2>3. s \in Status \ {"processing"} /\ (shelved => s = "archived")
    BY <2>2, KeptStatus
  <2>4. call[p].cap \in Captions
    BY CallerFields
  <2> HIDE DEF s
  <2> QED BY <1>2, <2>1, <2>3, <2>4, EndKeeps, StayTyped DEF Record
<1> QED BY <1>1, <1>2

LEMMA FailedKeeps ==
    ASSUME StudioInv, NEW p \in Callers, Failed(p) PROVE StudioInv'
<1>1. CASE ~(call[p].live /\ call[p].job)
  BY <1>1, EndKeeps, StayTyped DEF Failed, Return
<1>2. CASE call[p].live /\ call[p].job
  <2> DEFINE s == Kept(call[p].first, "failed")
  <2>1. Writes(p, s) /\ Ended(p, call, FALSE)
    BY <1>2 DEF Failed, Writes, Return
  <2>2. shelved => call[p].first
    BY <1>2, CallerFields DEF Failed, StudioInv, Shelf, Remembers, Shape
  <2>3. s \in Status \ {"processing"} /\ (shelved => s = "archived")
    BY <2>2, KeptStatus
  <2> HIDE DEF s
  <2> QED BY <1>2, <2>1, <2>3, EndKeeps, StayTyped DEF Failed
<1> QED BY <1>1, <1>2

(* The conditional update: nobody prepares an article that is not in       *)
(* preparation.                                                            *)
LEMMA ClaimKeeps ==
    ASSUME StudioInv, NEW p \in Callers, Claim(p) PROVE StudioInv'
<1>1. CASE ~(call[p].live /\ status \in Unclaimed)
  BY <1>1, EndKeeps, StayTyped DEF Claim, Return, ghosts
<1>2. CASE call[p].live /\ status \in Unclaimed
  <2> DEFINE c == [call[p] EXCEPT !.at = "work"]
  <2>1. call' = [call EXCEPT ![p] = c] /\ status' = "processing" /\ stamp' = p /\ UNCHANGED job
    BY <1>2 DEF Claim, Goto
  <2>2. c \in CallState /\ c.at = "work" /\ c.op = "prepare" /\ c.live = call[p].live
        /\ c.keep = call[p].keep /\ c.first = call[p].first /\ c.job = call[p].job
    BY CallerFields DEF Claim, CallState, Shape
  <2> HIDE DEF c
  <2>3. Shape(c) /\ (shelved => Remembers(c))
    <3>1. call[p].op = "prepare" /\ call[p].at # "idle"
      BY CallerFields DEF Shape, Claim
    <3>2. call[p].job => "prepare" \in Jobs
      BY <3>1, CallerFields DEF Shape
    <3>3. Shape(c)
      BY <2>2, <3>2 DEF Shape
    <3>4. shelved => Remembers(call[p])
      BY DEF StudioInv, Shelf
    <3>5. shelved => c.keep
      BY <1>2, <2>2, <3>1, <3>4 DEF Remembers
    <3>6. shelved => Remembers(c)
      BY <2>2, <3>5 DEF Remembers
    <3> QED BY <3>3, <3>6
  <2>4. /\ call' \in [Callers -> CallState] /\ Shapes' /\ call'[p] = c
        /\ \A q \in Callers \ {p} : Same(call'[q], call[q])
    BY <2>1, <2>2, <2>3, Moves
  <2>5. SocialTypeOK'
    BY <2>1, <2>4, Named, StayTyped
       DEF StudioInv, SocialTypeOK, Claim, content, ghosts, Status
  <2>6. Claims'
    <3> SUFFICES ASSUME NEW q \in Callers \ {p}, Preparing(q)', ~taken' PROVE FALSE
      BY <2>1 DEF Claims, Claimed
    <3>1. Same(call'[q], call[q])
      BY <2>4
    <3>2. Claimed(q)
      BY <3>1 DEF Same, Preparing, StudioInv, Claims, Claim, ghosts
    <3> QED BY <1>2, <3>2 DEF Claimed, Unclaimed
  <2>7. Shelf'
    <3> SUFFICES ASSUME shelved', NEW q \in Callers PROVE Remembers(call'[q])
      BY <2>1 DEF Shelf
    <3>1. shelved /\ \A r \in Callers : Remembers(call[r])
      BY DEF Claim, ghosts, StudioInv, Shelf
    <3> QED BY <2>3, <2>4, <3>1, SameKeeps
  <2> QED BY <2>4, <2>5, <2>6, <2>7 DEF StudioInv
<1> QED BY <1>1, <1>2
-----------------------------------------------------------------------------
(* Calls that begin, and what happens without a call                       *)

(* A call begins that knows whether the article is archived.               *)
LEMMA BeginsKeeps ==
    ASSUME StudioInv, NEW p \in Callers, NEW c \in CallState, Shape(c), ~(c.op = "prepare" /\ c.at = "work"),
           call' = [call EXCEPT ![p] = c], shelved' = (shelved /\ status # "processing"),
           status = "archived" => Remembers(c),
           job' \in [Jobs -> {"none", "queued", "running", "dead"}],
           UNCHANGED <<status, stamp, content, taken, faults>>
    PROVE  StudioInv'
<1>1. /\ call' \in [Callers -> CallState] /\ Shapes' /\ call'[p] = c
      /\ \A q \in Callers \ {p} : Same(call'[q], call[q])
  BY Moves
<1>2. ~Preparing(p)' /\ (shelved' => shelved /\ Remembers(call'[p])) /\ shelved' \in BOOLEAN
  BY <1>1 DEF Preparing, StudioInv, Shelf
<1> QED BY <1>1, <1>2, StepKeeps, StayTyped

LEMMA StartKeeps ==
    ASSUME StudioInv, NEW p \in People, NEW op \in Operations, NEW given \in Captions,
           Start(p, op, given)
    PROVE  StudioInv'
<1> DEFINE keep == status = "archived" /\ op \notin {"send", "archive"}
           at == FirstStep[op]
           c == [NoCall EXCEPT !.at = at, !.op = op, !.given = given, !.keep = keep]
<1>1. p \in Callers /\ keep \in BOOLEAN
  BY DEF Callers
<1>2. call' = [call EXCEPT ![p] = c] /\ shelved' = (shelved /\ status # "processing")
  BY DEF Start
<1>3. /\ at \in {"claim", "work", "write", "remember"}
      /\ at = "claim" => op = "prepare"
      /\ at = "work" => op \in {"send", "cover"}
      /\ at = "write" => op \in {"archive", "text", "caption"}
      /\ at = "remember" => op = "publish"
  BY DEF FirstStep, Operations, Jobs
<1>4. status = "archived" /\ op \notin {"send", "archive"} => keep
  OBVIOUS
<1> HIDE DEF keep, at
<1>5. c \in CallState /\ c.at = at /\ c.op = op /\ c.keep = keep /\ c.job = FALSE
  BY <1>1, <1>3 DEF NoCall, CallState, Captions
<1> HIDE DEF c
<1>6. Shape(c) /\ (status = "archived" => Remembers(c)) /\ ~(c.op = "prepare" /\ c.at = "work")
  BY <1>3, <1>4, <1>5 DEF Shape, Remembers
<1>7. job' \in [Jobs -> {"none", "queued", "running", "dead"}]
  BY DEF Start, StudioInv, SocialTypeOK
<1> QED BY <1>1, <1>2, <1>5, <1>6, <1>7, BeginsKeeps DEF Start

LEMMA BeginKeeps ==
    ASSUME StudioInv, NEW w \in Workers, NEW t \in Jobs, Begin(w, t) PROVE StudioInv'
<1> DEFINE at == IF t = "publish" THEN "image" ELSE FirstStep[t]
           given == IF t = "publish" THEN caption ELSE "none"
           keep == status = "archived" /\ t = "prepare"
           first == status = "archived" /\ t = "publish"
           c == [NoCall EXCEPT !.at = at, !.op = t, !.job = TRUE, !.given = given,
                               !.keep = keep, !.first = first]
<1>1. w \in Callers /\ keep \in BOOLEAN /\ first \in BOOLEAN /\ given \in Captions
      /\ t \in Operations
  BY StayTyped DEF Callers, Operations
<1>2. call' = [call EXCEPT ![w] = c] /\ shelved' = (shelved /\ status # "processing")
  BY DEF Begin
<1>3. /\ at \in {"claim", "work", "image"}
      /\ at = "claim" => t = "prepare"
      /\ at = "work" => t = "cover"
      /\ at = "image" => t = "publish"
  BY DEF FirstStep, Jobs
<1>4. status = "archived" => (t = "prepare" => keep) /\ (t = "publish" => first)
  OBVIOUS
<1> HIDE DEF keep, first, given, at
<1>5. c \in CallState /\ c.at = at /\ c.op = t /\ c.keep = keep /\ c.first = first /\ c.job = TRUE
  BY <1>1, <1>3 DEF NoCall, CallState, Captions
<1> HIDE DEF c
<1>6. Shape(c) /\ (status = "archived" => Remembers(c)) /\ ~(c.op = "prepare" /\ c.at = "work")
  BY <1>3, <1>4, <1>5 DEF Shape, Remembers, Jobs
<1>7. job' \in [Jobs -> {"none", "queued", "running", "dead"}]
  BY DEF Begin, StudioInv, SocialTypeOK
<1> QED BY <1>1, <1>2, <1>5, <1>6, <1>7, BeginsKeeps DEF Begin

(* Only the jobs, or the cover and what the calls know of the text.        *)
LEMMA QuietKeeps ==
    ASSUME StudioInv, call' = call \/ call' = NewText(call),
           job' \in [Jobs -> {"none", "queued", "running", "dead"}],
           cover' \in {"none", "browser", "fresh", "stale"},
           UNCHANGED <<status, stamp, caption, sent, ghosts, faults>>
    PROVE  StudioInv'
<1>1. \A q \in Callers : call'[q] \in CallState /\ Same(call'[q], call[q])
  BY ReadOrNot, CallerFields
<1>2. call' \in [Callers -> CallState]
  BY <1>1 DEF NewText, StudioInv, SocialTypeOK
<1>3. SocialTypeOK'
  BY <1>2 DEF StudioInv, SocialTypeOK, ghosts
<1>4. Shapes'
  BY <1>1, SameKeeps DEF StudioInv, Shapes
<1>5. Claims'
  BY <1>1 DEF StudioInv, Claims, Claimed, Preparing, Same, ghosts
<1>6. Shelf'
  BY <1>1, SameKeeps DEF StudioInv, Shelf, ghosts
<1> QED BY <1>3, <1>4, <1>5, <1>6 DEF StudioInv

LEMMA JobsKeep ==
    ASSUME StudioInv, NEW t \in Jobs, Scan(t) \/ Defer(t) \/ Pointless(t) \/ Recover(t)
    PROVE  StudioInv'
<1>1. job' \in [Jobs -> {"none", "queued", "running", "dead"}]
  BY DEF StudioInv, SocialTypeOK, Scan, Defer, Pointless, Recover
<1> QED BY <1>1, QuietKeeps, StayTyped DEF Scan, Defer, Pointless, Recover, content

LEMMA WriteImageKeeps == ASSUME StudioInv, WriteImage PROVE StudioInv'
<1>1. job' \in [Jobs -> {"none", "queued", "running", "dead"}]
  BY DEF StudioInv, SocialTypeOK, WriteImage
<1> QED BY <1>1, QuietKeeps DEF WriteImage

LEMMA DiscoverKeeps == ASSUME StudioInv, Discover PROVE StudioInv'
<1>1. ~shelved /\ \A p \in Callers : Preparing(p) => taken
  BY DEF StudioInv, Shelf, Claims, Claimed, Discover
<1> QED
  BY <1>1 DEF StudioInv, SocialTypeOK, Shapes, Claims, Shelf, Preparing, Discover, content, ghosts,
              Status

LEMMA ResetKeeps == ASSUME StudioInv, Reset PROVE StudioInv'
<1>1. \A p \in Callers : Preparing(p) => taken
  BY DEF StudioInv, Claims, Claimed, Reset, Preparing
<1> QED
  BY <1>1 DEF StudioInv, SocialTypeOK, Shapes, Claims, Shelf, Preparing, Reset, content, Status

LEMMA DeleteAllKeeps == ASSUME StudioInv, DeleteAll PROVE StudioInv'
<1>1. \A q \in Callers : call'[q] \in CallState /\ Shape(call'[q]) /\ ~Preparing(q)'
  <2> SUFFICES ASSUME NEW q \in Callers
               PROVE  call'[q] \in CallState /\ Shape(call'[q]) /\ ~Preparing(q)'
    OBVIOUS
  <2>1. CASE call[q].at = "idle"
    <3>1. call'[q] = NoCall
      BY <2>1 DEF DeleteAll
    <3> QED BY <3>1, NoCallShape DEF Preparing
  <2>2. CASE call[q].at # "idle"
    <3> DEFINE c == [call[q] EXCEPT !.live = FALSE]
    <3>1. call'[q] = c
      BY <2>2 DEF DeleteAll
    <3>2. call[q] \in CallState /\ Shape(call[q])
      BY CallerFields
    <3>3. c \in CallState /\ c.live = FALSE /\ c.at = call[q].at /\ c.op = call[q].op
          /\ c.job = call[q].job
      BY <3>2 DEF CallState
    <3> HIDE DEF c
    <3> QED BY <3>1, <3>2, <3>3 DEF Shape, Preparing
  <2> QED BY <2>1, <2>2
<1>2. call' \in [Callers -> CallState]
  BY <1>1 DEF DeleteAll
<1>3. faults' \in 0 .. MaxFaults
  BY CountsFault DEF DeleteAll
<1>4. SocialTypeOK'
  BY <1>2, <1>3 DEF StudioInv, SocialTypeOK, DeleteAll, Status, Captions
<1> QED BY <1>1, <1>4 DEF StudioInv, Shapes, Claims, Shelf, DeleteAll
-----------------------------------------------------------------------------
LEMMA StudioStarts == Init => StudioInv
<1> SUFFICES ASSUME Init PROVE StudioInv
  OBVIOUS
<1>1. \A p \in Callers : call[p] = NoCall
  BY DEF Init
<1>2. call \in [Callers -> CallState]
  BY NoCallShape DEF Init
<1>3. SocialTypeOK
  <2>1. job \in [Jobs -> {"none", "queued", "running", "dead"}]
    BY DEF Init
  <2>2. faults \in 0 .. MaxFaults
    BY SocialAssumption DEF Init, SocialAssumption
  <2>3. status \in Status /\ status # "processing" /\ caption \in Captions
    BY DEF Init, Status, Captions
  <2> QED BY <1>2, <2>1, <2>2, <2>3 DEF Init, SocialTypeOK
<1> QED BY <1>1, <1>3, NoCallShape DEF Init, StudioInv, Shapes, Claims, Shelf, Preparing

LEMMA StudioStep == StudioInv /\ [Next]_vars => StudioInv'
<1> SUFFICES ASSUME StudioInv, [Next]_vars PROVE StudioInv'
  OBVIOUS
<1>1. ASSUME NEW p \in Callers, CallStep(p) PROVE StudioInv'
  BY <1>1, ClaimKeeps, PreparedKeeps, SentKeeps, ArchiveKeeps, WriteTextKeeps, WriteCaptionKeeps,
     CoverKeeps, RememberKeeps, GetImageKeeps, ReadAgainKeeps, DeliverKeeps, RecordKeeps, FailedKeeps
     DEF CallStep
<1>2. CASE UNCHANGED vars
  <2>1. job' \in [Jobs -> {"none", "queued", "running", "dead"}]
    BY <1>2 DEF StudioInv, SocialTypeOK, vars
  <2>2. cover' \in {"none", "browser", "fresh", "stale"}
    BY <1>2, StayTyped DEF vars, content
  <2>3. call' = call /\ UNCHANGED <<status, stamp, caption, sent, ghosts, faults>>
    BY <1>2 DEF vars, ghosts
  <2> QED BY <2>1, <2>2, <2>3, QuietKeeps
<1> QED
  BY <1>1, <1>2, DiscoverKeeps, DeleteAllKeeps, WriteImageKeeps, ResetKeeps, JobsKeep, StartKeeps,
     BeginKeeps, PrepareFailsKeeps, CoverKeeps, CrashKeeps DEF Next

(* The inductive invariant: who prepares the article has claimed it, and   *)
(* every call that may write a status knows that it was archived.          *)
THEOREM StudioKept == Spec => []StudioInv
BY StudioStarts, StudioStep, PTL DEF Spec

(* The types hold, and two calls prepare the article at once only after it *)
(* was taken from one of them.                                             *)
THEOREM StudioSafe == Spec => []SocialInv
<1>1. StudioInv => SocialInv
  <2> SUFFICES ASSUME StudioInv PROVE OnePreparation
    BY DEF StudioInv, SocialInv
  <2> QED BY DEF StudioInv, Claims, Claimed, OnePreparation
<1> QED BY <1>1, StudioKept, PTL

(* What was archived stays so through everything that began with it.       *)
THEOREM StudioArchiveKept == Spec => []ArchiveKept
<1>1. StudioInv => ArchiveKept
  BY DEF StudioInv, Shelf, ArchiveKept
<1> QED BY <1>1, StudioKept, PTL

LEMMA CoverStep ==
    ASSUME StudioInv, [Next]_vars, cover # "stale", cover' = "stale"
    PROVE  \E p \in Callers : call[p].op = "cover" /\ ~call[p].fresh /\ call'[p] = NoCall
<1>1. PICK p \in Callers : Covered(p)
  BY DEF Next, vars, Discover, DeleteAll, WriteImage, Reset, Scan, Defer, Pointless, Recover, Start,
         Begin, CallStep, Claim, Prepared, Sent, Archive, WriteText, WriteCaption, Remember,
         GetImage, ReadAgain, Deliver, Record, Failed, PrepareFails, CoverFails, Crash, content
<1>2. call'[p] = NoCall
  BY <1>1 DEF Covered, Return, Ended, StudioInv, SocialTypeOK
<1> QED BY <1>1, <1>2 DEF Covered

(* Whatever edits and renders overlap, a cover that does not show the text *)
(* comes from a render that an edit overtook.                              *)
THEOREM StudioCovers == Spec => CoverOutdatedByRender
<1>1. StudioInv /\ [Next]_vars =>
        [cover # "stale" /\ cover' = "stale" => \E p \in Callers :
            call[p].op = "cover" /\ ~call[p].fresh /\ call'[p] = NoCall]_vars
  BY CoverStep
<1> QED BY <1>1, StudioKept, PTL DEF Spec, CoverOutdatedByRender
=============================================================================
