---------------------------- MODULE SocialDelivery ----------------------------
(***************************************************************************)
(* The delivery of one social article to its networks, by                  *)
(* SocialNetworkPublisherService.                                          *)
(*                                                                         *)
(* A sender is a worker with a job of type social.publish: it runs         *)
(* publishAutomatically(), which claims a lease per network, looks again   *)
(* whether the article was delivered meanwhile, and calls publish().  An   *)
(* editor calls publish() directly, without a lease.  One statement, or    *)
(* one call of a network, is one action; what a process has read before    *)
(* (keep: the article was archived) it uses in its later writes.           *)
(*                                                                         *)
(* Of the job queue only what matters here is kept: one live or dead job   *)
(* per set of networks, and MaxAttempts attempts of it.  A lease is a row  *)
(* of the table SchedulerLease.                                            *)
(***************************************************************************)
EXTENDS Naturals

CONSTANTS
    Networks,      \* telegram, instagram, linkedin, facebook
    Senders,       \* workers with jobs of type social.publish
    Editors,       \* people who publish, edit and archive by hand
    MaxAttempts,   \* maxAttempts of a job
    Faults,        \* what may go wrong
    MaxFaults,     \* bound: how often
    Nobody, NoNet

Callers == Senders \cup Editors
FaultKinds == {"image", "settings", "refused", "unanswered", "database", "delete", "crash"}

ASSUME DeliveryAssumption ==
    /\ MaxAttempts \in Nat \ {0}
    /\ Faults \subseteq FaultKinds
    /\ MaxFaults \in Nat
    /\ Nobody \notin Senders
    /\ NoNet \notin Networks
    /\ Senders \cap Editors = {}

VARIABLES
    status,    \* SocialArticle.status
    sent,      \* sent[n]: the column <network>SentAt is set
    lease,     \* lease[n]: the row social-publish:<article>:<network>
    sender,    \* sender[s]: local variables of publishAutomatically
    call,      \* call[p]: local variables of publish, called by p
    posts,     \* posts[n]: posts that senders put on network n
    lost,      \* lost[n]: those nobody could record
    left,      \* networks whose lease a sender could not delete
    faults     \* faults so far

vars == <<status, sent, lease, sender, call, posts, lost, left, faults>>
article == <<status, sent>>
world == <<posts, lost, left, faults>>
-----------------------------------------------------------------------------
(* Rows and local states *)

LeaseRow == [there : BOOLEAN, holder : Senders \cup {Nobody}, expired : BOOLEAN]
NoLease == [there |-> FALSE, holder |-> Nobody, expired |-> TRUE]

SenderState ==
    [at       : {"idle", "queued", "image", "next", "claim", "check", "publish", "release",
                 "stopped", "dead"},
     wanted   : SUBSET Networks,   \* the networks of the job
     todo     : SUBSET Networks,   \* those the loop has not reached
     net      : Networks \cup {NoNet},
     keep     : BOOLEAN,           \* the article was archived when it was read
     failed   : BOOLEAN,           \* a network of this attempt failed
     attempts : 0 .. MaxAttempts]
IdleSender == [at |-> "idle", wanted |-> {}, todo |-> {}, net |-> NoNet,
               keep |-> FALSE, failed |-> FALSE, attempts |-> 0]

CallState == [at : {"idle", "read", "send", "record", "fail", "edit"},
              net : Networks \cup {NoNet}, keep : BOOLEAN]
NoCall == [at |-> "idle", net |-> NoNet, keep |-> FALSE]

Init ==
    /\ status = "ready"
    /\ sent = [n \in Networks |-> FALSE]
    /\ lease = [n \in Networks |-> NoLease]
    /\ sender = [s \in Senders |-> IdleSender]
    /\ call = [p \in Callers |-> NoCall]
    /\ posts = [n \in Networks |-> 0]
    /\ lost = [n \in Networks |-> 0]
    /\ left = {}
    /\ faults = 0

Fault(kind) == kind \in Faults /\ faults < MaxFaults /\ faults' = faults + 1
Kept(keep, otherwise) == IF keep THEN "archived" ELSE otherwise

(* The job after an attempt that failed or whose worker stopped.           *)
Retried(job) ==
    [IdleSender EXCEPT !.at = IF job.attempts >= MaxAttempts THEN "dead" ELSE "queued",
                       !.wanted = job.wanted, !.attempts = job.attempts]
-----------------------------------------------------------------------------
(* publishAutomatically *)

(* The minute scan, or the fallback after a cover that failed, queues a    *)
(* job for the networks that are switched on.                              *)
NewJob(s, wanted) ==
    /\ sender[s].at = "idle"
    /\ status = "ready"
    /\ \E n \in wanted : ~sent[n]
    /\ \A t \in Senders : sender[t].wanted # wanted
    /\ sender' = [sender EXCEPT ![s] = [IdleSender EXCEPT !.at = "queued", !.wanted = wanted]]
    /\ UNCHANGED <<article, lease, call, world>>

(* A manager has a dead job tried again. *)
RetryDead(s) ==
    /\ sender[s].at = "dead"
    /\ sender' = [sender EXCEPT ![s] = [IdleSender EXCEPT !.at = "queued", !.wanted = sender[s].wanted]]
    /\ UNCHANGED <<article, lease, call, world>>

(* The attempt begins with a read of the article; the image comes next.    *)
ReadForAttempt(s) ==
    LET todo == {n \in sender[s].wanted : ~sent[n]} IN
    /\ sender[s].at = "queued"
    /\ sender' = [sender EXCEPT ![s] =
                    IF todo = {} THEN IdleSender
                    ELSE [@ EXCEPT !.at = "image", !.todo = todo,
                                   !.keep = (status = "archived"),
                                   !.attempts = sender[s].attempts + 1]]
    /\ UNCHANGED <<article, lease, call, world>>

ImageFound(s) ==
    /\ sender[s].at = "image"
    /\ sender' = [sender EXCEPT ![s].at = "next"]
    /\ UNCHANGED <<article, lease, call, world>>

ImageMissing(s) ==
    /\ sender[s].at = "image"
    /\ Fault("image")
    /\ status' \in {status, Kept(sender[s].keep, "failed")}
    /\ sender' = [sender EXCEPT ![s] = Retried(@)]
    /\ UNCHANGED <<sent, lease, call, posts, lost, left>>

(* claimDelivery: the row is made unless it is there...                    *)
CreateLease(s, n) ==
    /\ sender[s].at = "next" /\ n \in sender[s].todo
    /\ sender' = [sender EXCEPT ![s].at = "claim", ![s].net = n, ![s].todo = @ \ {n}]
    /\ lease' = IF lease[n].there THEN lease
                ELSE [lease EXCEPT ![n] = [NoLease EXCEPT !.there = TRUE]]
    /\ UNCHANGED <<article, call, world>>

(* ...(a claim of any lease, or only of one that was never held)           *)
ClaimableAnytime(n) == lease[n].there
ClaimableUnheld(n) == lease[n].there /\ lease[n].holder = Nobody

Claimable(n) == lease[n].there /\ lease[n].expired

(* ...and taken if it has expired.  A network whose lease is not to be had *)
(* is passed over, neither published nor failed.                           *)
ClaimLease(s) ==
    LET n == sender[s].net IN
    /\ sender[s].at = "claim"
    /\ \/ /\ Claimable(n)
          /\ lease' = [lease EXCEPT ![n] = [there |-> TRUE, holder |-> s, expired |-> FALSE]]
          /\ sender' = [sender EXCEPT ![s].at = "check"]
       \/ /\ ~Claimable(n)
          /\ sender' = [sender EXCEPT ![s].at = "next", ![s].net = NoNet]
          /\ UNCHANGED lease
    /\ UNCHANGED <<article, call, world>>

(* What a sender does when publish returns or throws. *)
Returned(p, failed) ==
    sender' = IF p \in Senders
              THEN [sender EXCEPT ![p].at = "release", ![p].failed = @ \/ failed]
              ELSE sender

(* A sender that trusts what it read before it had the lease. *)
CheckNothing(s) ==
    /\ sender[s].at = "check"
    /\ sender' = [sender EXCEPT ![s].at = "publish"]
    /\ call' = [call EXCEPT ![s] = [NoCall EXCEPT !.at = "read", !.net = sender[s].net]]
    /\ UNCHANGED <<article, lease, world>>

(* alreadyDelivered, and the call of publish. *)
CheckDelivered(s) ==
    LET n == sender[s].net IN
    /\ sender[s].at = "check"
    /\ \/ /\ sent[n]
          /\ sender' = [sender EXCEPT ![s].at = "release"]
          /\ UNCHANGED <<call, faults>>
       \/ /\ ~sent[n]
          /\ sender' = [sender EXCEPT ![s].at = "publish"]
          /\ call' = [call EXCEPT ![s] = [NoCall EXCEPT !.at = "read", !.net = n]]
          /\ UNCHANGED faults
       \/ /\ Fault("database")
          /\ Returned(s, TRUE)
          /\ UNCHANGED call
    /\ UNCHANGED <<article, lease, posts, lost, left>>

(* The lease is deleted in any case; an error of the delete is swallowed,  *)
(* and the row keeps its name and its ten minutes.                         *)
Release(s) ==
    LET n == sender[s].net IN
    /\ sender[s].at = "release"
    /\ sender' = [sender EXCEPT ![s].at = "next", ![s].net = NoNet]
    /\ \/ /\ lease' = IF lease[n].holder = s THEN [lease EXCEPT ![n] = NoLease] ELSE lease
          /\ UNCHANGED <<left, faults>>
       \/ /\ Fault("delete")
          /\ left' = left \cup {n}
          /\ UNCHANGED lease
    /\ UNCHANGED <<article, call, posts, lost>>

(* After the last network.  A failed one fails the job.                    *)
Finish(s) ==
    /\ sender[s].at = "next" /\ sender[s].todo = {}
    /\ IF sender[s].failed
       THEN /\ status' \in {status, Kept(sender[s].keep, "failed")}
            /\ sender' = [sender EXCEPT ![s] = Retried(@)]
       ELSE /\ sender' = [sender EXCEPT ![s] = IdleSender]
            /\ UNCHANGED status
    /\ UNCHANGED <<sent, lease, call, world>>

(* A statement outside of the try blocks fails, and the attempt with it.   *)
Break(s) ==
    /\ sender[s].at \in {"next", "claim"}
    /\ Fault("database")
    /\ sender' = [sender EXCEPT ![s] = Retried(@)]
    /\ UNCHANGED <<article, lease, call, posts, lost, left>>
-----------------------------------------------------------------------------
(* publish *)

(* The article is read; a caption or settings that do not do end the call  *)
(* before anything is sent or written.                                     *)
ReadArticle(p) ==
    /\ call[p].at = "read"
    /\ \/ /\ call' = [call EXCEPT ![p].at = "send", ![p].keep = (status = "archived")]
          /\ UNCHANGED <<sender, faults>>
       \/ /\ Fault("settings")
          /\ call' = [call EXCEPT ![p] = NoCall]
          /\ Returned(p, TRUE)
    /\ UNCHANGED <<article, lease, posts, lost, left>>

Posted(p, n) == posts' = IF p \in Senders THEN [posts EXCEPT ![n] = @ + 1] ELSE posts
Unrecorded(p, n) == lost' = IF p \in Senders THEN [lost EXCEPT ![n] = @ + 1] ELSE lost

(* The network accepts the post, or refuses it, or accepts it and the      *)
(* answer is lost (thirty seconds).                                        *)
Send(p) ==
    LET n == call[p].net IN
    /\ call[p].at = "send"
    /\ \/ /\ Posted(p, n)
          /\ call' = [call EXCEPT ![p].at = "record"]
          /\ UNCHANGED <<lost, faults>>
       \/ /\ Fault("refused")
          /\ call' = [call EXCEPT ![p].at = "fail"]
          /\ UNCHANGED <<posts, lost>>
       \/ /\ Fault("unanswered")
          /\ call' = [call EXCEPT ![p].at = "fail"]
          /\ Posted(p, n) /\ Unrecorded(p, n)
    /\ UNCHANGED <<article, lease, sender, left>>

(* <network>SentAt and the status are written in one update. *)
Record(p) ==
    LET n == call[p].net IN
    /\ call[p].at = "record"
    /\ \/ /\ sent' = [sent EXCEPT ![n] = TRUE]
          /\ status' = Kept(call[p].keep, "ready")
          /\ call' = [call EXCEPT ![p] = NoCall]
          /\ Returned(p, FALSE)
          /\ UNCHANGED <<lost, faults>>
       \/ /\ Fault("database")
          /\ Unrecorded(p, n)
          /\ call' = [call EXCEPT ![p].at = "fail"]
          /\ UNCHANGED <<article, sender>>
    /\ UNCHANGED <<lease, posts, left>>

(* The catch block: its writes may fail too. *)
RecordFailure(p) ==
    /\ call[p].at = "fail"
    /\ status' \in {status, Kept(call[p].keep, "failed")}
    /\ call' = [call EXCEPT ![p] = NoCall]
    /\ Returned(p, TRUE)
    /\ UNCHANGED <<sent, lease, world>>
-----------------------------------------------------------------------------
(* Editors, crashes and time *)

PublishByHand(e, n) ==
    /\ call[e].at = "idle"
    /\ call' = [call EXCEPT ![e] = [NoCall EXCEPT !.at = "read", !.net = n]]
    /\ UNCHANGED <<article, lease, sender, world>>

(* updateCaption, updateLead and updateTitle read, then write. *)
StartEdit(e) ==
    /\ call[e].at = "idle"
    /\ call' = [call EXCEPT ![e].at = "edit", ![e].keep = (status = "archived")]
    /\ UNCHANGED <<article, lease, sender, world>>

SaveEdit(e) ==
    /\ call[e].at = "edit"
    /\ status' = Kept(call[e].keep, "ready")
    /\ call' = [call EXCEPT ![e] = NoCall]
    /\ UNCHANGED <<sent, lease, sender, world>>

Archive(e) ==
    /\ call[e].at = "idle" /\ status # "archived"
    /\ status' = "archived"
    /\ UNCHANGED <<sent, lease, sender, call, world>>

(* A worker stops.  Its job is recovered after twenty minutes, when the    *)
(* lease of ten minutes that it may have left has expired.                 *)
Crash(s) ==
    /\ sender[s].at \notin {"idle", "queued", "stopped", "dead"}
    /\ Fault("crash")
    /\ lost' = IF call[s].at = "record" THEN [lost EXCEPT ![call[s].net] = @ + 1] ELSE lost
    /\ call' = [call EXCEPT ![s] = NoCall]
    /\ sender' = [sender EXCEPT ![s].at = "stopped", ![s].net = NoNet]
    /\ UNCHANGED <<article, lease, posts, left>>

Recover(s) ==
    /\ sender[s].at = "stopped"
    /\ \A n \in Networks : lease[n].holder = s => lease[n].expired
    /\ sender' = [sender EXCEPT ![s] = Retried(@)]
    /\ UNCHANGED <<article, lease, call, world>>

Holds(s, n) == sender[s].net = n /\ sender[s].at \in {"check", "publish", "release"}

(* Ten minutes pass: longer than the calls of any network may take.        *)
Expire(n) ==
    /\ lease[n].there /\ ~lease[n].expired
    /\ \A s \in Senders : ~Holds(s, n)
    /\ lease' = [lease EXCEPT ![n].expired = TRUE]
    /\ UNCHANGED <<article, sender, call, world>>
-----------------------------------------------------------------------------
AttemptStep(s) ==
    \/ ReadForAttempt(s) \/ ImageFound(s) \/ ImageMissing(s)
    \/ \E n \in Networks : CreateLease(s, n)
    \/ ClaimLease(s) \/ CheckDelivered(s) \/ Release(s) \/ Finish(s)
CallStep(p) == ReadArticle(p) \/ Send(p) \/ Record(p) \/ RecordFailure(p)
EditorStep(e) ==
    \/ \E n \in Networks : PublishByHand(e, n)
    \/ StartEdit(e) \/ SaveEdit(e) \/ Archive(e)

Next ==
    \/ \E s \in Senders : \/ \E wanted \in SUBSET Networks : NewJob(s, wanted)
                          \/ AttemptStep(s)
                          \/ Crash(s) \/ Recover(s) \/ RetryDead(s) \/ Break(s)
    \/ \E p \in Callers : CallStep(p)
    \/ \E e \in Editors : EditorStep(e)
    \/ \E n \in Networks : Expire(n)

Spec == Init /\ [][Next]_vars

(* Workers go on with what they began, time passes, and the scan queues    *)
(* the article once a minute while it is ready and not delivered.          *)
FairSpec ==
    /\ Spec
    /\ \A s \in Senders : WF_vars(AttemptStep(s)) /\ WF_vars(CallStep(s)) /\ WF_vars(Recover(s))
    /\ WF_vars(\E s \in Senders : NewJob(s, Networks))
    /\ \A n \in Networks : WF_vars(Expire(n))
-----------------------------------------------------------------------------
(* Properties *)

(* Types of the article, the leases and the local variables of all calls.  *)
DeliveryTypeOK ==
    /\ status \in {"ready", "failed", "archived"}
    /\ sent \in [Networks -> BOOLEAN]
    /\ lease \in [Networks -> LeaseRow]
    /\ sender \in [Senders -> SenderState]
    /\ call \in [Callers -> CallState]
    /\ posts \in [Networks -> Nat]
    /\ lost \in [Networks -> Nat]
    /\ left \subseteq Networks
    /\ faults \in 0 .. MaxFaults

(* claimDelivery: two workers never send the article to one network at the *)
(* same time, whatever stops, fails or is deleted in between.              *)
OneAutomaticSender ==
    \A s, t \in Senders, n \in Networks : Holds(s, n) /\ Holds(t, n) => s = t

(* Workers deliver the article to a network once, and again only after a   *)
(* delivery that nobody could record: its answer was lost, the worker      *)
(* stopped before the update, or the update failed.                        *)
OnceUnlessLost == \A n \in Networks : posts[n] <= lost[n] + 1

(* While fewer things fail than a job has attempts, the article reaches    *)
(* every network, except one whose lease could not be deleted: a retry     *)
(* before the ten minutes are over passes it over as if another worker had *)
(* it, and completes (claimDelivery, `if (!lease) continue`).  Then the    *)
(* article is left `failed', where a person sees it and the scan does not  *)
(* take it up.  A crash, a claim of another job or a lost answer leaves no *)
(* network out.                                                            *)
LeftOut(n) == ~sent[n] /\ n \in left
EventuallySent ==
    <>[](\/ \A n \in Networks : sent[n]
         \/ status = "failed" /\ \E n \in Networks : LeftOut(n))

(* The invariant from which the two above are proved.  Who is past the     *)
(* claim has the lease in its name; a sender is in publish if and only if  *)
(* it called it; a post that is not accounted for is one that the article  *)
(* records or a sender is about to record.                                 *)
LeaseInHand == \A s \in Senders : sender[s].at \in {"check", "publish", "release"} =>
    /\ sender[s].net \in Networks
    /\ lease[sender[s].net].there
    /\ lease[sender[s].net].holder = s
    /\ ~lease[sender[s].net].expired

NetInHand == /\ \A p \in Callers : call[p].at \notin {"idle", "edit"} => call[p].net \in Networks
             /\ \A s \in Senders : sender[s].at = "claim" => sender[s].net \in Networks

AttemptLeft == \A s \in Senders : sender[s].at = "queued" => sender[s].attempts < MaxAttempts

CallsBelong == \A s \in Senders :
    /\ call[s].at # "edit"
    /\ call[s].at # "idle" => sender[s].at = "publish" /\ call[s].net = sender[s].net
    /\ sender[s].at = "publish" => call[s].at # "idle"

Recording(n) == \E s \in Senders : call[s].at = "record" /\ call[s].net = n

PostsAccounted == \A n \in Networks :
    /\ posts[n] <= lost[n] + 1
    /\ ~sent[n] /\ ~Recording(n) => posts[n] <= lost[n]
    /\ \A s \in Senders : call[s].at \in {"read", "send"} /\ call[s].net = n => posts[n] <= lost[n]
=============================================================================
