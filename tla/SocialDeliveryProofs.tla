------------------------- MODULE SocialDeliveryProofs -------------------------
(***************************************************************************)
(* Theorems of SocialDelivery, for any number of networks, workers and     *)
(* editors and any faults.                                                 *)
(***************************************************************************)
EXTENDS SocialDelivery, TLAPS

(* The inductive invariant. *)
DeliveryInv ==
    /\ DeliveryTypeOK /\ NetInHand /\ AttemptLeft
    /\ LeaseInHand /\ CallsBelong /\ PostsAccounted

(* What a step does to the sender and to the call it moves. *)
SenderGoes(s, at, net) ==
    /\ sender' \in [Senders -> SenderState]
    /\ sender'[s].at = at /\ sender'[s].net = net
    /\ at = "queued" => sender'[s].attempts < MaxAttempts
    /\ \A t \in Senders : t # s => sender'[t] = sender[t]

CallGoes(p, at, net) ==
    /\ call' \in [Callers -> CallState]
    /\ call'[p].at = at /\ call'[p].net = net
    /\ \A q \in Callers : q # p => call'[q] = call[q]

-----------------------------------------------------------------------------
(* How senders and calls move *)

LEMMA IdleTypes ==
    /\ IdleSender \in SenderState /\ IdleSender.at = "idle" /\ IdleSender.net = NoNet
    /\ IdleSender.wanted = {} /\ IdleSender.attempts = 0
    /\ NoCall \in CallState /\ NoCall.at = "idle" /\ NoCall.net = NoNet
BY DeliveryAssumption DEF IdleSender, SenderState, NoCall, CallState

LEMMA SenderSet ==
    ASSUME DeliveryTypeOK, NEW s \in Senders, NEW v \in SenderState,
           v.at = "queued" => v.attempts < MaxAttempts,
           sender' = [sender EXCEPT ![s] = v]
    PROVE  SenderGoes(s, v.at, v.net)
BY DEF SenderGoes, DeliveryTypeOK

LEMMA CallSet ==
    ASSUME DeliveryTypeOK, NEW p \in Callers, NEW v \in CallState,
           call' = [call EXCEPT ![p] = v]
    PROVE  CallGoes(p, v.at, v.net)
BY DEF CallGoes, DeliveryTypeOK

(* A job tried again is dead or queued with attempts left.                 *)
LEMMA RetriedGoes ==
    ASSUME DeliveryTypeOK, NEW s \in Senders,
           sender' = [sender EXCEPT ![s] = Retried(sender[s])]
    PROVE  \E at \in {"dead", "queued"} : SenderGoes(s, at, NoNet)
<1> DEFINE at == IF sender[s].attempts >= MaxAttempts THEN "dead" ELSE "queued"
           v == [IdleSender EXCEPT !.at = at, !.wanted = sender[s].wanted,
                                   !.attempts = sender[s].attempts]
<1>1. sender[s] \in SenderState
  BY DEF DeliveryTypeOK
<1>2. sender' = [sender EXCEPT ![s] = v]
  BY DEF Retried
<1>3. at \in {"dead", "queued"} /\ (at = "queued" => sender[s].attempts < MaxAttempts)
  BY <1>1, DeliveryAssumption DEF SenderState
<1> HIDE DEF at
<1>4. /\ v \in SenderState /\ v.at = at /\ v.net = NoNet
      /\ v.attempts = sender[s].attempts
  BY <1>1, <1>3, DeliveryAssumption DEF SenderState, IdleSender
<1> HIDE DEF v
<1>5. SenderGoes(s, at, NoNet)
  BY <1>2, <1>3, <1>4, SenderSet
<1> QED BY <1>3, <1>5

(* A step that changes where a sender is and leaves the rest of its state. *)
LEMMA StepGoes ==
    ASSUME DeliveryTypeOK, NEW s \in Senders,
           NEW at \in {"image", "next", "check", "publish", "release", "stopped"}
    PROVE  /\ sender' = [sender EXCEPT ![s].at = at] => SenderGoes(s, at, sender[s].net)
           /\ sender' = [sender EXCEPT ![s].at = at, ![s].net = NoNet] => SenderGoes(s, at, NoNet)
<1> DEFINE v == [sender[s] EXCEPT !.at = at]
           w == [sender[s] EXCEPT !.at = at, !.net = NoNet]
<1>1. sender[s] \in SenderState
  BY DEF DeliveryTypeOK
<1>2. v \in SenderState /\ v.at = at /\ v.net = sender[s].net
  BY <1>1 DEF SenderState
<1>3. w \in SenderState /\ w.at = at /\ w.net = NoNet
  BY <1>1 DEF SenderState
<1>4. sender' = [sender EXCEPT ![s].at = at] => sender' = [sender EXCEPT ![s] = v]
  OBVIOUS
<1>5. sender' = [sender EXCEPT ![s].at = at, ![s].net = NoNet] => sender' = [sender EXCEPT ![s] = w]
  BY DEF DeliveryTypeOK
<1> HIDE DEF v, w
<1> QED BY <1>2, <1>3, <1>4, <1>5, SenderSet

LEMMA NewJobGoes ==
    ASSUME DeliveryTypeOK, NEW s \in Senders, NEW wanted \in SUBSET Networks, NewJob(s, wanted)
    PROVE  SenderGoes(s, "queued", NoNet)
<1> DEFINE v == [IdleSender EXCEPT !.at = "queued", !.wanted = wanted]
<1>1. v \in SenderState /\ v.at = "queued" /\ v.net = NoNet /\ v.attempts = 0
  BY IdleTypes DEF SenderState
<1>3. 0 < MaxAttempts
  BY DeliveryAssumption
<1>2. sender' = [sender EXCEPT ![s] = v]
  BY DEF NewJob
<1> HIDE DEF v
<1> QED BY <1>1, <1>2, <1>3, SenderSet

LEMMA RetryDeadGoes ==
    ASSUME DeliveryTypeOK, NEW s \in Senders, RetryDead(s)
    PROVE  SenderGoes(s, "queued", NoNet)
<1> DEFINE v == [IdleSender EXCEPT !.at = "queued", !.wanted = sender[s].wanted]
<1>1. sender[s] \in SenderState
  BY DEF DeliveryTypeOK
<1>2. v \in SenderState /\ v.at = "queued" /\ v.net = NoNet /\ v.attempts = 0
  BY <1>1, IdleTypes DEF SenderState
<1>3. 0 < MaxAttempts
  BY DeliveryAssumption
<1>4. sender' = [sender EXCEPT ![s] = v]
  BY DEF RetryDead
<1> HIDE DEF v
<1> QED BY <1>2, <1>3, <1>4, SenderSet

LEMMA ReadGoes ==
    ASSUME DeliveryTypeOK, AttemptLeft, NEW s \in Senders, ReadForAttempt(s)
    PROVE  \E at \in {"idle", "image"} : \E net \in Networks \cup {NoNet} : SenderGoes(s, at, net)
<1> DEFINE todo == {n \in sender[s].wanted : ~sent[n]}
           next == sender[s].attempts + 1
           v == [sender[s] EXCEPT !.at = "image", !.todo = todo,
                                  !.keep = (status = "archived"), !.attempts = next]
<1>1. sender[s] \in SenderState
  BY DEF DeliveryTypeOK
<1>2. next \in 0 .. MaxAttempts
  BY <1>1, DeliveryAssumption DEF ReadForAttempt, AttemptLeft, SenderState
<1>3. todo \in SUBSET Networks
  BY <1>1 DEF SenderState
<1>6. sender' = [sender EXCEPT ![s] = IF todo = {} THEN IdleSender ELSE v]
  BY DEF ReadForAttempt
<1> HIDE DEF todo, next
<1>4. CASE todo = {}
  <2>1. sender' = [sender EXCEPT ![s] = IdleSender]
    BY <1>4, <1>6
  <2> QED BY <2>1, IdleTypes, SenderSet
<1>5. CASE todo # {}
  <2>1. sender' = [sender EXCEPT ![s] = v]
    BY <1>5, <1>6, Zenon
  <2>2. v \in SenderState /\ v.at = "image" /\ v.net \in Networks \cup {NoNet}
    BY <1>1, <1>2, <1>3 DEF SenderState
  <2> HIDE DEF v
  <2> QED BY <2>1, <2>2, SenderSet
<1> QED BY <1>4, <1>5

LEMMA CreateLeaseGoes ==
    ASSUME DeliveryTypeOK, NEW s \in Senders, NEW n \in Networks, CreateLease(s, n)
    PROVE  SenderGoes(s, "claim", n)
<1> DEFINE todo == sender[s].todo \ {n}
           v == [sender[s] EXCEPT !.at = "claim", !.net = n, !.todo = todo]
<1>1. sender[s] \in SenderState
  BY DEF DeliveryTypeOK
<1>2. todo \in SUBSET Networks
  BY <1>1 DEF SenderState
<1>3. sender' = [sender EXCEPT ![s] = v]
  BY DEF CreateLease, DeliveryTypeOK
<1> HIDE DEF todo
<1>4. v \in SenderState /\ v.at = "claim" /\ v.net = n
  BY <1>1, <1>2 DEF SenderState
<1> HIDE DEF v
<1> QED BY <1>3, <1>4, SenderSet

LEMMA ReturnedGoes ==
    ASSUME DeliveryTypeOK, NEW p \in Callers, NEW failed \in BOOLEAN, Returned(p, failed)
    PROVE  /\ p \in Senders => SenderGoes(p, "release", sender[p].net)
           /\ p \notin Senders => sender' = sender
<1>1. CASE p \in Senders
  <2> DEFINE b == sender[p].failed \/ failed
             v == [sender[p] EXCEPT !.at = "release", !.failed = b]
  <2>1. sender[p] \in SenderState
    BY <1>1 DEF DeliveryTypeOK
  <2>2. b \in BOOLEAN
    BY <2>1 DEF SenderState
  <2>3. sender' = [sender EXCEPT ![p] = v]
    BY <1>1 DEF Returned, DeliveryTypeOK
  <2> HIDE DEF b
  <2>4. v \in SenderState /\ v.at = "release" /\ v.net = sender[p].net
    BY <2>1, <2>2 DEF SenderState
  <2> HIDE DEF v
  <2> QED BY <1>1, <2>3, <2>4, SenderSet
<1> QED BY <1>1 DEF Returned

LEMMA CallSteps ==
    ASSUME DeliveryTypeOK, NEW p \in Callers
    PROVE  /\ call' = [call EXCEPT ![p] = NoCall] => CallGoes(p, "idle", NoNet)
           /\ \A n \in Networks :
                 call' = [call EXCEPT ![p] = [NoCall EXCEPT !.at = "read", !.net = n]]
                    => CallGoes(p, "read", n)
           /\ \A at \in {"record", "fail"} :
                 call' = [call EXCEPT ![p].at = at] => CallGoes(p, at, call[p].net)
           /\ \A at \in {"send", "edit"}, keep \in BOOLEAN :
                 call' = [call EXCEPT ![p].at = at, ![p].keep = keep]
                    => CallGoes(p, at, call[p].net)
<1>1. call[p] \in CallState
  BY DEF DeliveryTypeOK
<1>2. call' = [call EXCEPT ![p] = NoCall] => CallGoes(p, "idle", NoNet)
  BY IdleTypes, CallSet
<1>3. ASSUME NEW n \in Networks,
             call' = [call EXCEPT ![p] = [NoCall EXCEPT !.at = "read", !.net = n]]
      PROVE  CallGoes(p, "read", n)
  <2> DEFINE v == [NoCall EXCEPT !.at = "read", !.net = n]
  <2>1. v \in CallState /\ v.at = "read" /\ v.net = n
    BY DEF CallState, NoCall
  <2>2. call' = [call EXCEPT ![p] = v]
    BY <1>3
  <2> HIDE DEF v
  <2> QED BY <2>1, <2>2, CallSet
<1>4. ASSUME NEW at \in {"record", "fail"}, call' = [call EXCEPT ![p].at = at]
      PROVE  CallGoes(p, at, call[p].net)
  <2> DEFINE v == [call[p] EXCEPT !.at = at]
  <2>1. v \in CallState /\ v.at = at /\ v.net = call[p].net
    BY <1>1 DEF CallState
  <2>2. call' = [call EXCEPT ![p] = v]
    BY <1>4
  <2> HIDE DEF v
  <2> QED BY <2>1, <2>2, CallSet
<1>5. ASSUME NEW at \in {"send", "edit"}, NEW keep \in BOOLEAN,
             call' = [call EXCEPT ![p].at = at, ![p].keep = keep]
      PROVE  CallGoes(p, at, call[p].net)
  <2> DEFINE v == [call[p] EXCEPT !.at = at, !.keep = keep]
  <2>1. v \in CallState /\ v.at = at /\ v.net = call[p].net
    BY <1>1 DEF CallState
  <2>2. call' = [call EXCEPT ![p] = v]
    BY <1>5 DEF DeliveryTypeOK
  <2> HIDE DEF v
  <2> QED BY <2>1, <2>2, CallSet
<1> QED BY <1>2, <1>3, <1>4, <1>5
-----------------------------------------------------------------------------
(* The invariant is kept *)

LEMMA DeliveryInvInit == Init => DeliveryInv
BY DeliveryAssumption, IdleTypes
   DEF Init, DeliveryInv, DeliveryTypeOK, NetInHand, AttemptLeft, LeaseInHand, CallsBelong,
       PostsAccounted, LeaseRow, NoLease, Callers

LEMMA FaultType ==
    ASSUME DeliveryTypeOK, NEW kind, Fault(kind)
    PROVE  faults' \in 0 .. MaxFaults
BY DeliveryAssumption DEF DeliveryTypeOK, Fault

(* A sender moves on before it has a lease, or without one; leases that    *)
(* are there stay as they are.                                             *)
LEMMA QuietStep ==
    ASSUME DeliveryInv, NEW s \in Senders,
           NEW at \in {"idle", "queued", "image", "next", "claim", "stopped", "dead"}, NEW net,
           SenderGoes(s, at, net), at = "claim" => net \in Networks,
           sender[s].at # "publish",
           status' \in {"ready", "failed", "archived"}, faults' \in 0 .. MaxFaults,
           lease' \in [Networks -> LeaseRow],
           \A n \in Networks : lease[n].there => lease'[n] = lease[n],
           UNCHANGED <<sent, call, posts, lost, left>>
    PROVE  DeliveryInv'
<1> USE DEF DeliveryInv
<1>1. DeliveryTypeOK'
  BY DEF DeliveryTypeOK, SenderGoes
<1>2. NetInHand' /\ AttemptLeft'
  BY DEF NetInHand, AttemptLeft, SenderGoes
<1>3. LeaseInHand'
  BY DEF LeaseInHand, SenderGoes
<1>4. CallsBelong'
  BY DEF CallsBelong, SenderGoes
<1>5. PostsAccounted'
  BY DEF PostsAccounted, Recording
<1> QED BY <1>1, <1>2, <1>3, <1>4, <1>5

(* A call ends: its sender goes on to release the lease.                   *)
LEMMA CallEnds ==
    ASSUME DeliveryInv, NEW p \in Callers, NEW failed \in BOOLEAN,
           call[p].at \notin {"idle", "edit"}, CallGoes(p, "idle", NoNet), Returned(p, failed),
           status' \in {"ready", "failed", "archived"}, faults' \in 0 .. MaxFaults,
           sent' \in [Networks -> BOOLEAN],
           \A n \in Networks : sent[n] => sent'[n],
           call[p].at = "record" => sent'[call[p].net],
           UNCHANGED <<lease, posts, lost, left>>
    PROVE  DeliveryInv'
<1> USE DEF DeliveryInv
<1>0. /\ p \in Senders => SenderGoes(p, "release", sender[p].net) /\ sender[p].at = "publish"
      /\ p \notin Senders => sender' = sender
  BY ReturnedGoes DEF CallsBelong
<1>1. DeliveryTypeOK'
  BY <1>0 DEF DeliveryTypeOK, SenderGoes, CallGoes
<1>2. NetInHand' /\ AttemptLeft'
  BY <1>0 DEF NetInHand, AttemptLeft, SenderGoes, CallGoes
<1>3. LeaseInHand'
  BY <1>0 DEF LeaseInHand, SenderGoes
<1>4. CallsBelong'
  BY <1>0 DEF CallsBelong, SenderGoes, CallGoes, Callers
<1>5. PostsAccounted'
  <2>1. \A q \in Callers : call'[q].at # "idle" => q # p /\ call'[q] = call[q]
    BY DEF CallGoes
  <2>2. \A n \in Networks : Recording(n) => Recording(n)' \/ sent'[n]
    BY DEF Recording, CallGoes, Callers
  <2> QED BY <2>1, <2>2 DEF PostsAccounted, Callers
<1> QED BY <1>1, <1>2, <1>3, <1>4, <1>5

(* A sender has the lease to itself, so no other is in publish with it.    *)
LEMMA Alone ==
    ASSUME DeliveryInv, NEW s \in Senders, NEW t \in Senders,
           sender[s].at \in {"check", "publish", "release"},
           sender[t].at \in {"check", "publish", "release"},
           sender[s].net = sender[t].net
    PROVE  s = t
BY DEF DeliveryInv, LeaseInHand

LEMMA HoldsOne == DeliveryInv => OneAutomaticSender
BY Alone DEF OneAutomaticSender, Holds

LEMMA AttemptKeeps ==
    ASSUME DeliveryInv, NEW s \in Senders, AttemptStep(s)
    PROVE  DeliveryInv'
<1> USE DEF DeliveryInv
<1>1. CASE ReadForAttempt(s)
  <2>1. PICK at \in {"idle", "image"}, net \in Networks \cup {NoNet} : SenderGoes(s, at, net)
    BY <1>1, ReadGoes
  <2> QED BY <1>1, <2>1, QuietStep DEF ReadForAttempt, DeliveryTypeOK, article, world
<1>2. CASE ImageFound(s)
  <2>1. SenderGoes(s, "next", sender[s].net)
    BY <1>2, StepGoes DEF ImageFound
  <2> QED BY <1>2, <2>1, QuietStep DEF ImageFound, DeliveryTypeOK, article, world
<1>3. CASE ImageMissing(s)
  <2>1. PICK at \in {"idle", "queued", "dead"} : SenderGoes(s, at, NoNet)
    BY <1>3, RetriedGoes DEF ImageMissing
  <2>2. status' \in {"ready", "failed", "archived"}
    BY <1>3 DEF ImageMissing, Kept, DeliveryTypeOK
  <2> QED BY <1>3, <2>1, <2>2, FaultType, QuietStep DEF ImageMissing, DeliveryTypeOK
<1>4. ASSUME NEW n \in Networks, CreateLease(s, n) PROVE DeliveryInv'
  <2>1. SenderGoes(s, "claim", n)
    BY <1>4, CreateLeaseGoes
  <2>2. /\ lease' \in [Networks -> LeaseRow]
        /\ \A m \in Networks : lease[m].there => lease'[m] = lease[m]
    BY <1>4 DEF CreateLease, DeliveryTypeOK, LeaseRow, NoLease
  <2> QED BY <1>4, <2>1, <2>2, QuietStep DEF CreateLease, DeliveryTypeOK, article, world
<1>5. CASE ClaimLease(s) /\ ~Claimable(sender[s].net)
  <2>1. SenderGoes(s, "next", NoNet)
    BY <1>5, StepGoes DEF ClaimLease
  <2> QED BY <1>5, <2>1, QuietStep DEF ClaimLease, DeliveryTypeOK, article, world
<1>6. CASE ClaimLease(s) /\ Claimable(sender[s].net)
  <2> DEFINE n == sender[s].net
             row == [there |-> TRUE, holder |-> s, expired |-> FALSE]
  <2>1. SenderGoes(s, "check", n) /\ n \in Networks
    BY <1>6, StepGoes DEF ClaimLease, NetInHand
  <2>2. /\ lease' = [lease EXCEPT ![n] = row] /\ lease[n].expired
        /\ UNCHANGED <<status, sent, call, posts, lost, left, faults>>
        /\ sender[s].at = "claim"
    BY <1>6 DEF ClaimLease, Claimable, article, world
  <2>3. row \in LeaseRow /\ row.there /\ row.holder = s /\ ~row.expired
    BY DEF LeaseRow
  <2> HIDE DEF row, n
  <2>4. DeliveryTypeOK'
    BY <2>1, <2>2, <2>3 DEF DeliveryTypeOK, SenderGoes
  <2>5. NetInHand' /\ AttemptLeft'
    BY <2>1, <2>2 DEF NetInHand, AttemptLeft, SenderGoes
  <2>6. LeaseInHand'
    BY <2>1, <2>2, <2>3 DEF LeaseInHand, SenderGoes, DeliveryTypeOK
  <2>7. CallsBelong'
    BY <2>1, <2>2 DEF CallsBelong, SenderGoes
  <2>8. PostsAccounted'
    BY <2>2 DEF PostsAccounted, Recording
  <2> QED BY <2>4, <2>5, <2>6, <2>7, <2>8
<1>7. CASE CheckDelivered(s) /\ UNCHANGED call
                             /\ (sender' = [sender EXCEPT ![s].at = "release"] \/ Returned(s, TRUE))
  <2>1. SenderGoes(s, "release", sender[s].net)
    BY <1>7, StepGoes, ReturnedGoes DEF Callers
  <2>2. /\ UNCHANGED <<status, sent, lease, call, posts, lost, left>> /\ sender[s].at = "check"
        /\ faults' \in 0 .. MaxFaults
    BY <1>7, FaultType DEF CheckDelivered, article, DeliveryTypeOK
  <2>3. DeliveryTypeOK'
    BY <2>1, <2>2 DEF DeliveryTypeOK, SenderGoes
  <2>4. NetInHand' /\ AttemptLeft'
    BY <2>1, <2>2 DEF NetInHand, AttemptLeft, SenderGoes
  <2>5. LeaseInHand'
    BY <2>1, <2>2 DEF LeaseInHand, SenderGoes
  <2>6. CallsBelong'
    BY <2>1, <2>2 DEF CallsBelong, SenderGoes
  <2>7. PostsAccounted'
    BY <2>2 DEF PostsAccounted, Recording
  <2> QED BY <2>3, <2>4, <2>5, <2>6, <2>7
<1>8. CASE /\ CheckDelivered(s) /\ ~sent[sender[s].net]
           /\ sender' = [sender EXCEPT ![s].at = "publish"]
           /\ call' = [call EXCEPT ![s] = [NoCall EXCEPT !.at = "read", !.net = sender[s].net]]
           /\ UNCHANGED faults
  <2> DEFINE n == sender[s].net
  <2>0. s \in Callers /\ n \in Networks
    BY <1>8 DEF Callers, CheckDelivered, LeaseInHand
  <2>1. SenderGoes(s, "publish", n) /\ CallGoes(s, "read", n)
    BY <1>8, <2>0, StepGoes, CallSteps
  <2>2. /\ UNCHANGED <<status, sent, lease, posts, lost, left, faults>>
        /\ sender[s].at = "check" /\ ~sent[n]
    BY <1>8 DEF CheckDelivered, article, world
  <2>3. DeliveryTypeOK'
    BY <2>1, <2>2 DEF DeliveryTypeOK, SenderGoes, CallGoes
  <2>4. NetInHand' /\ AttemptLeft'
    BY <2>0, <2>1, <2>2 DEF NetInHand, AttemptLeft, SenderGoes, CallGoes
  <2>5. LeaseInHand'
    BY <2>1, <2>2 DEF LeaseInHand, SenderGoes
  <2>6. CallsBelong'
    BY <2>1, <2>2 DEF CallsBelong, SenderGoes, CallGoes, Callers
  <2>7. PostsAccounted'
    <3>1. \A t \in Senders : call[t].at # "idle" => call[t].net # n
      BY <2>2, Alone DEF CallsBelong
    <3>2. posts[n] <= lost[n]
      BY <2>0, <2>2, <3>1 DEF PostsAccounted, Recording
    <3>3. \A m \in Networks : Recording(m) => Recording(m)'
      BY <2>0, <2>1, <2>2 DEF Recording, CallGoes, CallsBelong, Callers
    <3>4. \A t \in Senders : t # s => call'[t] = call[t]
      BY <2>1 DEF CallGoes, Callers
    <3> QED BY <2>0, <2>1, <2>2, <3>2, <3>3, <3>4 DEF PostsAccounted, CallGoes
  <2> QED BY <2>3, <2>4, <2>5, <2>6, <2>7
<1>9. CASE Release(s)
  <2> DEFINE n == sender[s].net
  <2>1. SenderGoes(s, "next", NoNet) /\ sender[s].at = "release" /\ n \in Networks
    BY <1>9, StepGoes DEF Release, LeaseInHand
  <2>2. /\ lease' = lease \/ lease' = [lease EXCEPT ![n] = NoLease]
        /\ UNCHANGED <<status, sent, call, posts, lost>>
    BY <1>9 DEF Release, article
  <2>3. faults' \in 0 .. MaxFaults /\ left' \subseteq Networks
    BY <1>9, <2>1, FaultType DEF Release, DeliveryTypeOK
  <2>4. NoLease \in LeaseRow
    BY DEF NoLease, LeaseRow
  <2>5. DeliveryTypeOK'
    BY <2>1, <2>2, <2>3, <2>4 DEF DeliveryTypeOK, SenderGoes
  <2>6. NetInHand' /\ AttemptLeft'
    BY <2>1, <2>2 DEF NetInHand, AttemptLeft, SenderGoes
  <2>7. LeaseInHand'
    <3>1. ASSUME NEW t \in Senders, sender'[t].at \in {"check", "publish", "release"}
          PROVE  t # s /\ sender'[t] = sender[t] /\ sender[t].net # n
      BY <2>1, <3>1, Alone DEF SenderGoes
    <3> QED BY <2>2, <3>1 DEF LeaseInHand, DeliveryTypeOK
  <2>8. CallsBelong'
    BY <2>1, <2>2 DEF CallsBelong, SenderGoes
  <2>9. PostsAccounted'
    BY <2>2 DEF PostsAccounted, Recording
  <2> QED BY <2>5, <2>6, <2>7, <2>8, <2>9
<1>10. CASE Finish(s)
  <2>1. status' \in {"ready", "failed", "archived"}
    BY <1>10 DEF Finish, Kept, DeliveryTypeOK
  <2>2. PICK at \in {"idle", "queued", "dead"} : SenderGoes(s, at, NoNet)
    <3>1. CASE sender[s].failed
      BY <1>10, <3>1, RetriedGoes DEF Finish
    <3>2. CASE ~sender[s].failed
      BY <1>10, <3>2, SenderSet, IdleTypes DEF Finish
    <3> QED BY <3>1, <3>2
  <2> QED BY <1>10, <2>1, <2>2, QuietStep DEF Finish, DeliveryTypeOK, world
<1>11. CheckDelivered(s) =>
         \/ UNCHANGED call /\ (sender' = [sender EXCEPT ![s].at = "release"] \/ Returned(s, TRUE))
         \/ /\ ~sent[sender[s].net]
            /\ sender' = [sender EXCEPT ![s].at = "publish"]
            /\ call' = [call EXCEPT ![s] = [NoCall EXCEPT !.at = "read", !.net = sender[s].net]]
            /\ UNCHANGED faults
  BY DEF CheckDelivered
<1> QED
  BY <1>1, <1>2, <1>3, <1>4, <1>5, <1>6, <1>7, <1>8, <1>9, <1>10, <1>11 DEF AttemptStep

(* A call goes on: from the read to the send, to the record or the failure.*)
LEMMA CallMoves ==
    ASSUME DeliveryInv, NEW p \in Callers, NEW at \in {"send", "record", "fail"},
           call[p].at \in {"read", "send", "record"}, CallGoes(p, at, call[p].net),
           faults' \in 0 .. MaxFaults,
           posts' \in [Networks -> Nat], lost' \in [Networks -> Nat],
           UNCHANGED <<status, sent, lease, sender, left>>, PostsAccounted'
    PROVE  DeliveryInv'
<1> USE DEF DeliveryInv
<1>1. DeliveryTypeOK'
  BY DEF DeliveryTypeOK, CallGoes
<1>2. NetInHand' /\ AttemptLeft'
  BY DEF NetInHand, AttemptLeft, CallGoes
<1>3. LeaseInHand'
  BY DEF LeaseInHand
<1>4. CallsBelong'
  BY DEF CallsBelong, CallGoes, Callers
<1> QED BY <1>1, <1>2, <1>3, <1>4

LEMMA CallKeeps ==
    ASSUME DeliveryInv, NEW p \in Callers, CallStep(p)
    PROVE  DeliveryInv'
<1> USE DEF DeliveryInv
<1> DEFINE n == call[p].net
<1>0. /\ \A q \in Senders : q \in Callers
      /\ call[p].at \in {"read", "send", "record", "fail"} => n \in Networks
  BY DEF Callers, NetInHand
<1>1. CASE ReadArticle(p) /\ call' = [call EXCEPT ![p].at = "send", ![p].keep = (status = "archived")]
  <2>1. CallGoes(p, "send", n) /\ call[p].at = "read"
    BY <1>1, CallSteps DEF ReadArticle
  <2>2. UNCHANGED <<status, sent, lease, posts, lost, left>>
    BY <1>1 DEF ReadArticle, article
  <2>3. UNCHANGED <<sender, faults>>
    <3>1. CallGoes(p, "idle", NoNet) => FALSE
      BY <2>1 DEF CallGoes
    <3> QED BY <1>1, <3>1, CallSteps DEF ReadArticle
  <2>4. PostsAccounted'
    <3>1. \A m \in Networks : Recording(m) => Recording(m)'
      BY <1>0, <2>1 DEF Recording, CallGoes
    <3> QED BY <1>0, <2>1, <2>2, <3>1 DEF PostsAccounted, CallGoes
  <2> QED BY <2>1, <2>2, <2>3, <2>4, CallMoves DEF DeliveryTypeOK
<1>2. CASE ReadArticle(p) /\ Fault("settings") /\ call' = [call EXCEPT ![p] = NoCall]
                          /\ Returned(p, TRUE)
  <2>1. CallGoes(p, "idle", NoNet) /\ faults' \in 0 .. MaxFaults
    BY <1>2, CallSteps, FaultType
  <2> QED BY <1>2, <2>1, CallEnds DEF ReadArticle, article, DeliveryTypeOK
<1>3. CASE Send(p)
  <2>1. PICK at \in {"record", "fail"} : call' = [call EXCEPT ![p].at = at]
    BY <1>3 DEF Send
  <2>2. CallGoes(p, at, n) /\ call[p].at = "send" /\ n \in Networks
    BY <1>0, <1>3, <2>1, CallSteps DEF Send
  <2>3. UNCHANGED <<status, sent, lease, sender, left>> /\ faults' \in 0 .. MaxFaults
    BY <1>3, FaultType DEF Send, article, DeliveryTypeOK
  <2>4. CASE p \notin Senders
    <3>1. UNCHANGED <<posts, lost>>
      BY <1>3, <2>4 DEF Send, Posted, Unrecorded
    <3>2. \A s \in Senders : call'[s] = call[s]
      BY <1>0, <2>2, <2>4 DEF CallGoes
    <3>3. PostsAccounted'
      BY <2>3, <3>1, <3>2 DEF PostsAccounted, Recording
    <3> QED BY <2>2, <2>3, <3>1, <3>3, CallMoves DEF DeliveryTypeOK
  <2>5. CASE p \in Senders
    <3>1. posts[n] \in Nat /\ lost[n] \in Nat /\ posts[n] <= lost[n]
      BY <2>2, <2>5 DEF PostsAccounted, DeliveryTypeOK
    <3>2. \/ at = "record" /\ posts' = [posts EXCEPT ![n] = @ + 1] /\ lost' = lost
          \/ at = "fail" /\ UNCHANGED <<posts, lost>>
          \/ at = "fail" /\ posts' = [posts EXCEPT ![n] = @ + 1] /\ lost' = [lost EXCEPT ![n] = @ + 1]
      <4>1. call'[p].at = at
        BY <2>2 DEF CallGoes
      <4>2. /\ call' = [call EXCEPT ![p].at = "record"] => at = "record"
            /\ call' = [call EXCEPT ![p].at = "fail"] => at = "fail"
        <5>1. \A b \in {"record", "fail"} :
                 call' = [call EXCEPT ![p].at = b] => CallGoes(p, b, n)
          BY CallSteps
        <5> QED BY <4>1, <5>1 DEF CallGoes
      <4> QED BY <1>3, <2>5, <4>2 DEF Send, Posted, Unrecorded
    <3>3. posts' \in [Networks -> Nat] /\ lost' \in [Networks -> Nat]
      BY <3>2 DEF DeliveryTypeOK
    <3>4. /\ posts'[n] <= lost'[n] + 1
          /\ at = "fail" => posts'[n] <= lost'[n]
          /\ \A m \in Networks : m # n => posts'[m] = posts[m] /\ lost'[m] = lost[m]
      BY <2>2, <3>1, <3>2 DEF DeliveryTypeOK
    <3>5. \A s \in Senders : s # p => /\ call'[s] = call[s]
                                      /\ call[s].at # "idle" => call[s].net # n
      BY <1>0, <2>2, <2>5, Alone DEF CallGoes, CallsBelong
    <3>6. call'[p].at = at /\ call'[p].net = n
      BY <2>2 DEF CallGoes
    <3>7. \A m \in Networks : m # n => (Recording(m) <=> Recording(m)')
      BY <3>5, <3>6 DEF Recording
    <3>8. at = "record" => Recording(n)'
      BY <2>5, <3>6 DEF Recording
    <3>9. PostsAccounted'
      <4> SUFFICES ASSUME NEW m \in Networks
                   PROVE  /\ posts'[m] <= lost'[m] + 1
                          /\ ~sent'[m] /\ ~Recording(m)' => posts'[m] <= lost'[m]
                          /\ \A s \in Senders : call'[s].at \in {"read", "send"} /\ call'[s].net = m
                                => posts'[m] <= lost'[m]
        BY DEF PostsAccounted
      <4>1. CASE m = n
        <5>1. \A s \in Senders : call'[s].at \in {"read", "send"} => call'[s].net # n
          BY <2>1, <3>5, <3>6
        <5>2. at # "record" => posts'[n] <= lost'[n]
          BY <2>1, <3>4
        <5>3. at = "record" => Recording(m)'
          BY <2>5, <3>6, <4>1 DEF Recording
        <5> HIDE DEF n
        <5>4. \/ at # "record" /\ posts'[m] <= lost'[m]
              \/ Recording(m)'
          BY <4>1, <5>2, <5>3
        <5>5. \A s \in Senders : ~(call'[s].at \in {"read", "send"} /\ call'[s].net = m)
          BY <4>1, <5>1
        <5>6. posts'[m] <= lost'[m] + 1
          BY <4>1, <3>4
        <5> QED BY <5>4, <5>5, <5>6
      <4>2. CASE m # n
        <5>1. posts'[m] = posts[m] /\ lost'[m] = lost[m] /\ sent'[m] = sent[m]
          BY <4>2, <2>3, <3>4
        <5>2. \A s \in Senders : call'[s].at \in {"read", "send"} /\ call'[s].net = m
                                   => call[s] = call'[s]
          BY <4>2, <3>5, <3>6
        <5> QED BY <4>2, <3>7, <5>1, <5>2 DEF PostsAccounted
      <4> QED BY <4>1, <4>2
    <3> QED BY <2>2, <2>3, <3>3, <3>9, CallMoves
  <2> QED BY <2>4, <2>5
<1>4. CASE Record(p) /\ sent' = [sent EXCEPT ![n] = TRUE] /\ status' = Kept(call[p].keep, "ready")
                     /\ call' = [call EXCEPT ![p] = NoCall] /\ Returned(p, FALSE)
                     /\ UNCHANGED <<lost, faults>>
  <2>1. CallGoes(p, "idle", NoNet) /\ call[p].at = "record" /\ n \in Networks
    BY <1>0, <1>4, CallSteps DEF Record
  <2>2. /\ sent' \in [Networks -> BOOLEAN] /\ sent'[n]
        /\ \A m \in Networks : sent[m] => sent'[m]
        /\ status' \in {"ready", "failed", "archived"}
        /\ faults' \in 0 .. MaxFaults
    BY <1>4, <2>1 DEF DeliveryTypeOK, Kept
  <2> QED BY <1>4, <2>1, <2>2, CallEnds DEF Record
<1>5. CASE Record(p) /\ Fault("database") /\ Unrecorded(p, n)
                     /\ call' = [call EXCEPT ![p].at = "fail"] /\ UNCHANGED <<article, sender>>
  <2>1. CallGoes(p, "fail", n) /\ call[p].at = "record" /\ n \in Networks
    BY <1>0, <1>5, CallSteps DEF Record
  <2>2. UNCHANGED <<status, sent, lease, sender, posts, left>> /\ faults' \in 0 .. MaxFaults
    BY <1>5, FaultType DEF Record, article
  <2>3. lost' = lost \/ (p \in Senders /\ lost' = [lost EXCEPT ![n] = @ + 1])
    BY <1>5 DEF Unrecorded
  <2>4. /\ lost' \in [Networks -> Nat] /\ \A m \in Networks : lost'[m] >= lost[m]
        /\ p \in Senders => posts[n] <= lost'[n]
        /\ \A m \in Networks : posts[m] \in Nat /\ lost[m] \in Nat /\ lost'[m] \in Nat
    <3>1. p \in Senders => lost' = [lost EXCEPT ![n] = @ + 1]
      BY <1>5 DEF Unrecorded
    <3> QED BY <2>1, <2>3, <3>1 DEF DeliveryTypeOK, PostsAccounted
  <2>5. \A s \in Senders : s # p => call'[s] = call[s]
    BY <1>0, <2>1 DEF CallGoes
  <2>6. \A m \in Networks : Recording(m) => Recording(m)' \/ (p \in Senders /\ m = n)
    BY <2>5 DEF Recording
  <2>7. PostsAccounted'
    <3> SUFFICES ASSUME NEW m \in Networks
                 PROVE  /\ posts'[m] <= lost'[m] + 1
                        /\ ~sent'[m] /\ ~Recording(m)' => posts'[m] <= lost'[m]
                        /\ \A s \in Senders : call'[s].at \in {"read", "send"} /\ call'[s].net = m
                              => posts'[m] <= lost'[m]
      BY DEF PostsAccounted
    <3>1. posts'[m] <= lost'[m] + 1
      BY <2>2, <2>4 DEF PostsAccounted
    <3>2. ~sent'[m] /\ ~Recording(m)' => posts'[m] <= lost'[m]
      BY <2>2, <2>4, <2>6 DEF PostsAccounted
    <3>3. ASSUME NEW s \in Senders, call'[s].at \in {"read", "send"} /\ call'[s].net = m
          PROVE  posts'[m] <= lost'[m]
      <4>1. s # p
        BY <3>3, <2>1 DEF CallGoes
      <4> QED BY <3>3, <4>1, <2>2, <2>4, <2>5 DEF PostsAccounted
    <3> QED BY <3>1, <3>2, <3>3
  <2> QED BY <2>1, <2>2, <2>4, <2>7, CallMoves DEF DeliveryTypeOK
<1>6. CASE RecordFailure(p)
  <2>1. CallGoes(p, "idle", NoNet)
    BY <1>6, CallSteps DEF RecordFailure
  <2>2. status' \in {"ready", "failed", "archived"}
    BY <1>6 DEF RecordFailure, Kept, DeliveryTypeOK
  <2> QED BY <1>6, <2>1, <2>2, CallEnds DEF RecordFailure, DeliveryTypeOK, world
<1>7. ReadArticle(p) => \/ call' = [call EXCEPT ![p].at = "send", ![p].keep = (status = "archived")]
                        \/ /\ Fault("settings")
                           /\ call' = [call EXCEPT ![p] = NoCall] /\ Returned(p, TRUE)
  BY DEF ReadArticle
<1>8. Record(p) => \/ /\ sent' = [sent EXCEPT ![n] = TRUE] /\ status' = Kept(call[p].keep, "ready")
                      /\ call' = [call EXCEPT ![p] = NoCall] /\ Returned(p, FALSE)
                      /\ UNCHANGED <<lost, faults>>
                   \/ /\ Fault("database") /\ Unrecorded(p, n)
                      /\ call' = [call EXCEPT ![p].at = "fail"] /\ UNCHANGED <<article, sender>>
  BY DEF Record
<1> QED BY <1>1, <1>2, <1>3, <1>4, <1>5, <1>6, <1>7, <1>8 DEF CallStep

LEMMA EditorKeeps ==
    ASSUME DeliveryInv, NEW e \in Editors, EditorStep(e)
    PROVE  DeliveryInv'
<1> USE DEF DeliveryInv
<1>0. e \in Callers /\ e \notin Senders
  BY DeliveryAssumption DEF Callers
<1>1. CASE Archive(e)
  <2>1. UNCHANGED <<sent, lease, sender, call, posts, lost, left, faults>> /\ status' = "archived"
    BY <1>1 DEF Archive, world
  <2>2. DeliveryTypeOK' /\ NetInHand' /\ AttemptLeft'
    BY <2>1 DEF DeliveryTypeOK, NetInHand, AttemptLeft
  <2>3. LeaseInHand' /\ CallsBelong' /\ PostsAccounted'
    BY <2>1 DEF LeaseInHand, CallsBelong, PostsAccounted, Recording
  <2> QED BY <2>2, <2>3
<1>2. CASE StartEdit(e) \/ SaveEdit(e) \/ \E n \in Networks : PublishByHand(e, n)
  <2>0. call[e].net \in Networks \cup {NoNet}
    BY <1>0 DEF DeliveryTypeOK, CallState
  <2>1. PICK at \in {"read", "edit", "idle"}, net \in Networks \cup {NoNet} :
            CallGoes(e, at, net) /\ (at = "read" => net \in Networks)
    BY <1>0, <1>2, <2>0, CallSteps DEF StartEdit, SaveEdit, PublishByHand
  <2>2. /\ UNCHANGED <<sent, lease, sender, posts, lost, left, faults>>
        /\ status' \in {"ready", "failed", "archived"}
    BY <1>2 DEF StartEdit, SaveEdit, PublishByHand, Kept, DeliveryTypeOK, article, world
  <2>3. \A s \in Senders : s \in Callers /\ call'[s] = call[s]
    BY <1>0, <2>1 DEF CallGoes, Callers
  <2>4. DeliveryTypeOK'
    BY <2>1, <2>2 DEF DeliveryTypeOK, CallGoes
  <2>5. NetInHand' /\ AttemptLeft'
    BY <2>1, <2>2 DEF NetInHand, AttemptLeft, CallGoes
  <2>6. LeaseInHand' /\ CallsBelong'
    BY <2>2, <2>3 DEF LeaseInHand, CallsBelong
  <2>7. PostsAccounted'
    BY <2>2, <2>3 DEF PostsAccounted, Recording
  <2> QED BY <2>4, <2>5, <2>6, <2>7
<1> QED BY <1>1, <1>2 DEF EditorStep

LEMMA CrashKeeps ==
    ASSUME DeliveryInv, NEW s \in Senders, Crash(s)
    PROVE  DeliveryInv'
<1> USE DEF DeliveryInv
<1> DEFINE n == call[s].net
<1>0. s \in Callers /\ \A t \in Senders : t \in Callers
  BY DEF Callers
<1>1. SenderGoes(s, "stopped", NoNet) /\ CallGoes(s, "idle", NoNet)
  BY <1>0, StepGoes, CallSteps DEF Crash
<1>2. UNCHANGED <<status, sent, lease, posts, left>> /\ faults' \in 0 .. MaxFaults
  BY FaultType DEF Crash, article
<1>3. /\ call[s].at = "record" => n \in Networks /\ lost' = [lost EXCEPT ![n] = @ + 1]
      /\ call[s].at # "record" => lost' = lost
  BY <1>0 DEF Crash, NetInHand
<1>4. /\ lost' \in [Networks -> Nat]
      /\ \A m \in Networks : posts[m] \in Nat /\ lost[m] \in Nat /\ lost'[m] \in Nat
                             /\ lost'[m] >= lost[m]
      /\ call[s].at = "record" => posts[n] <= lost'[n]
  BY <1>3 DEF DeliveryTypeOK, PostsAccounted
<1>5. DeliveryTypeOK'
  BY <1>1, <1>2, <1>4 DEF DeliveryTypeOK, SenderGoes, CallGoes
<1>6. NetInHand' /\ AttemptLeft'
  BY <1>1, <1>2 DEF NetInHand, AttemptLeft, SenderGoes, CallGoes
<1>7. LeaseInHand'
  BY <1>1, <1>2 DEF LeaseInHand, SenderGoes
<1>8. CallsBelong'
  BY <1>0, <1>1 DEF CallsBelong, SenderGoes, CallGoes
<1>9. PostsAccounted'
  <2>1. \A t \in Senders : call'[t].at # "idle" => call'[t] = call[t]
    BY <1>0, <1>1 DEF CallGoes
  <2>2. \A m \in Networks : Recording(m) => Recording(m)' \/ (call[s].at = "record" /\ m = n)
    BY <1>0, <1>1 DEF Recording, CallGoes
  <2> QED BY <1>2, <1>4, <2>1, <2>2 DEF PostsAccounted
<1> QED BY <1>5, <1>6, <1>7, <1>8, <1>9

LEMMA StepKeeps == DeliveryInv /\ [Next]_vars => DeliveryInv'
<1> SUFFICES ASSUME DeliveryInv, [Next]_vars PROVE DeliveryInv'
  OBVIOUS
<1> USE DEF DeliveryInv
<1>1. ASSUME NEW s \in Senders, NEW wanted \in SUBSET Networks, NewJob(s, wanted)
      PROVE  DeliveryInv'
  <2>1. SenderGoes(s, "queued", NoNet)
    BY <1>1, NewJobGoes
  <2> QED BY <1>1, <2>1, QuietStep DEF NewJob, DeliveryTypeOK, article, world
<1>2. ASSUME NEW s \in Senders, AttemptStep(s) PROVE DeliveryInv'
  BY <1>2, AttemptKeeps
<1>3. ASSUME NEW s \in Senders, Crash(s) PROVE DeliveryInv'
  BY <1>3, CrashKeeps
<1>4. ASSUME NEW s \in Senders, Recover(s) PROVE DeliveryInv'
  <2>1. PICK at \in {"idle", "queued", "dead"} : SenderGoes(s, at, NoNet)
    BY <1>4, RetriedGoes DEF Recover
  <2> QED BY <1>4, <2>1, QuietStep DEF Recover, DeliveryTypeOK, article, world
<1>5. ASSUME NEW p \in Callers, CallStep(p) PROVE DeliveryInv'
  BY <1>5, CallKeeps
<1>6. ASSUME NEW e \in Editors, EditorStep(e) PROVE DeliveryInv'
  BY <1>6, EditorKeeps
<1>7. ASSUME NEW n \in Networks, Expire(n) PROVE DeliveryInv'
  <2>1. /\ lease' = [lease EXCEPT ![n].expired = TRUE]
        /\ UNCHANGED <<status, sent, sender, call, posts, lost, left, faults>>
        /\ \A s \in Senders : ~Holds(s, n)
    BY <1>7 DEF Expire, article, world
  <2>2. lease' \in [Networks -> LeaseRow]
        /\ \A m \in Networks : m # n => lease'[m] = lease[m]
    BY <2>1 DEF DeliveryTypeOK, LeaseRow
  <2>3. DeliveryTypeOK' /\ NetInHand' /\ AttemptLeft'
    BY <2>1, <2>2 DEF DeliveryTypeOK, NetInHand, AttemptLeft
  <2>4. LeaseInHand'
    BY <2>1, <2>2 DEF LeaseInHand, Holds
  <2>5. CallsBelong' /\ PostsAccounted'
    BY <2>1 DEF CallsBelong, PostsAccounted, Recording
  <2> QED BY <2>3, <2>4, <2>5
<1>8. ASSUME NEW s \in Senders, RetryDead(s) PROVE DeliveryInv'
  <2>1. SenderGoes(s, "queued", NoNet)
    BY <1>8, RetryDeadGoes
  <2> QED BY <1>8, <2>1, QuietStep DEF RetryDead, DeliveryTypeOK, article, world
<1>9. ASSUME NEW s \in Senders, Break(s) PROVE DeliveryInv'
  <2>1. PICK at \in {"idle", "queued", "dead"} : SenderGoes(s, at, NoNet)
    BY <1>9, RetriedGoes DEF Break
  <2> QED BY <1>9, <2>1, FaultType, QuietStep DEF Break, DeliveryTypeOK, article
<1>10. CASE UNCHANGED vars
  <2>1. DeliveryTypeOK' /\ NetInHand' /\ AttemptLeft'
    BY <1>10 DEF vars, article, world, DeliveryTypeOK, NetInHand, AttemptLeft
  <2>2. LeaseInHand' /\ CallsBelong' /\ PostsAccounted'
    BY <1>10 DEF vars, LeaseInHand, CallsBelong, PostsAccounted, Recording
  <2> QED BY <2>1, <2>2
<1> QED BY <1>1, <1>2, <1>3, <1>4, <1>5, <1>6, <1>7, <1>8, <1>9, <1>10 DEF Next

LEMMA DeliveryInvariant == Spec => []DeliveryInv
BY DeliveryInvInit, StepKeeps, PTL DEF Spec

-----------------------------------------------------------------------------
(* Theorems *)

(* The article, the leases and the local variables of publishAutomatically *)
(* and publish keep their types, and no job exceeds its attempts.          *)
THEOREM DeliveryTyped == Spec => []DeliveryTypeOK
<1>1. DeliveryInv => DeliveryTypeOK
  BY DEF DeliveryInv
<1> QED BY <1>1, DeliveryInvariant, PTL

(* claimDelivery gives one worker at a time the right to send the article  *)
(* to a network, also when workers stop and deletes of leases fail.        *)
THEOREM DeliveryOneSender == Spec => []OneAutomaticSender
BY HoldsOne, DeliveryInvariant, PTL

(* Workers post the article to a network at most once more than they had   *)
(* posts whose delivery could not be recorded.                             *)
THEOREM DeliveryOnce == Spec => []OnceUnlessLost
<1>1. DeliveryInv => OnceUnlessLost
  BY DEF DeliveryInv, PostsAccounted, OnceUnlessLost
<1> QED BY <1>1, DeliveryInvariant, PTL
=============================================================================
