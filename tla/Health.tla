------------------------------- MODULE Health -------------------------------
(***************************************************************************)
(* What the dashboard says of a source of the catalog and of a connection  *)
(* of an organisation: the checks of PlatformFeedService, by the schedule, *)
(* by hand and one at a time, and IntegrationHealthService.                *)
(*                                                                         *)
(* A check writes its outcome from the time of the first failure it read   *)
(* at its start, and a failure of a connection is counted, read back and   *)
(* judged in three statements.  Of time only days are kept.                *)
(***************************************************************************)
EXTENDS Naturals

CONSTANTS
    Checkers,    \* people, the schedule, and what uses the connection
    MaxFailures  \* bound: failures in a row

ASSUME HealthAssumption == MaxFailures \in Nat

VARIABLES
    source,     \* PlatformFeed: its health, or "gone"
    running,    \* catalogHealthRun.running
    link,       \* the row of IntegrationHealth
    told,       \* the managers' last notice: of an outage or a recovery
    probe,      \* local variables of the calls
    falseSince, \* the source has passed a check since healthFailSince
    raced,      \* two checks, or two starts of a check by hand, overlapped
    crossed     \* two reports on the connection overlapped, or a notice was lost

healthVars == <<source, running, link, told, probe, falseSince, raced, crossed>>
checks == <<source, running, falseSince, raced>>
reports == <<link, told, crossed>>
-----------------------------------------------------------------------------
Since == {"none", "recent", "old"}  \* old: a day or more ago
Source == [status : {"unknown", "healthy", "degraded", "down", "gone"}, since : Since]
Link == [status : {"healthy", "degraded", "down"}, failures : 0 .. MaxFailures]
Probe == [at    : {"idle", "start", "check", "read", "judge", "tell"},
          hand  : BOOLEAN,  \* a check of all sources by hand
          since : Since,    \* healthFailSince as it read it
          stale : BOOLEAN,  \* the source has passed a check since
          count : 0 .. MaxFailures,
          of    : {"none", "outage", "recovery"}]
NoProbe == [at |-> "idle", hand |-> FALSE, since |-> "none", stale |-> FALSE, count |-> 0,
            of |-> "none"]

HealthInit ==
    /\ source = [status |-> "unknown", since |-> "none"] /\ running = FALSE
    /\ link = [status |-> "healthy", failures |-> 0] /\ told = "none"
    /\ probe = [c \in Checkers |-> NoProbe]
    /\ falseSince = FALSE /\ raced = FALSE /\ crossed = FALSE

Over(c) == probe' = [probe EXCEPT ![c] = NoProbe]
Checking(c) == probe[c].at = "check"
-----------------------------------------------------------------------------
(* Checks of the source *)

(* startCatalogHealthChecksManual looks at the flag, reads the sources,    *)
(* and then sets it.                                                       *)
AskChecks(c) ==
    /\ probe[c].at = "idle" /\ source.status # "gone" /\ ~running
    /\ raced' = (raced \/ \E d \in Checkers : probe[d].at = "start")
    /\ probe' = [probe EXCEPT ![c] = [NoProbe EXCEPT !.at = "start"]]
    /\ UNCHANGED <<source, running, falseSince, reports>>

(* The start of a check. *)
CheckBy(c, hand) ==
    /\ raced' = (raced \/ \E d \in Checkers : Checking(d))
    /\ probe' = [probe EXCEPT ![c] = [NoProbe EXCEPT
                   !.at = "check", !.hand = hand, !.since = source.since]]
    /\ UNCHANGED <<source, falseSince, reports>>

(* One that forgets the flag. *)
StartChecksUnmarked(c) == probe[c].at = "start" /\ CheckBy(c, TRUE) /\ UNCHANGED running

StartChecks(c) == probe[c].at = "start" /\ CheckBy(c, TRUE) /\ running' = TRUE

(* The scheduled checks, and the test of one source. *)
Test(c) ==
    /\ probe[c].at = "idle" /\ source.status # "gone"
    /\ CheckBy(c, FALSE)
    /\ UNCHANGED running

(* One that leaves the time of the first failure. *)
EvaluatedKeepsSince(passed, s) ==
    IF passed THEN [status |-> "healthy", since |-> s]
    ELSE [status |-> IF s = "old" THEN "down" ELSE "degraded",
          since  |-> IF s = "none" THEN "recent" ELSE s]

(* The outcome of a check that begins with failures since s. *)
Evaluated(passed, s) ==
    IF passed THEN [status |-> "healthy", since |-> "none"]
    ELSE [status |-> IF s = "old" THEN "down" ELSE "degraded",
          since  |-> IF s = "none" THEN "recent" ELSE s]

(* persistFeedHealth, which fails without the source. *)
Checked(c) ==
    /\ Checking(c)
    /\ IF source.status = "gone" THEN Over(c) /\ UNCHANGED <<source, falseSince>>
       ELSE \E passed \in BOOLEAN :
          /\ source' = Evaluated(passed, probe[c].since)
          /\ falseSince' = /\ source'.since # "none"
                           /\ passed \/ probe[c].stale \/ (probe[c].since # "none" /\ falseSince)
          /\ probe' = [d \in Checkers |->
                         IF d = c THEN NoProbe
                         ELSE IF passed /\ Checking(d) /\ probe[d].since # "none"
                         THEN [probe[d] EXCEPT !.stale = TRUE] ELSE probe[d]]
    /\ running' = (running /\ ~probe[c].hand)
    /\ UNCHANGED <<raced, reports>>

DeleteSource ==
    /\ source.status # "gone"
    /\ source' = [status |-> "gone", since |-> "none"] /\ falseSince' = FALSE
    /\ UNCHANGED <<running, raced, probe, reports>>

(* A day passes; a check reads the time at its end. *)
Aged(s) == IF s = "recent" THEN "old" ELSE s
DayPasses ==
    /\ source.since = "recent" \/ \E c \in Checkers : probe[c].since = "recent"
    /\ source' = [source EXCEPT !.since = Aged(@)]
    /\ probe' = [c \in Checkers |-> [probe[c] EXCEPT !.since = Aged(@)]]
    /\ UNCHANGED <<running, falseSince, raced, reports>>
-----------------------------------------------------------------------------
(* Reports on the connection *)

Reporting(c) == probe[c].at \in {"read", "judge", "tell"}
Report(c) ==
    /\ probe[c].at = "idle"
    /\ crossed' = (crossed \/ \E d \in Checkers : Reporting(d))
    /\ UNCHANGED <<told, checks>>

(* success reads the row, resets it, and tells of the recovery from three  *)
(* failures or more.                                                       *)
Success(c) ==
    /\ Report(c)
    /\ probe' = [probe EXCEPT ![c] = [NoProbe EXCEPT !.at = "read", !.of = "recovery",
                                                     !.count = link.failures]]
    /\ UNCHANGED link

(* One that leaves the count. *)
SuccessKeepsCount(c) ==
    /\ probe[c].at = "read" /\ probe[c].of = "recovery"
    /\ link' = [link EXCEPT !.status = "healthy"]
    /\ IF probe[c].count >= 3 THEN probe' = [probe EXCEPT ![c].at = "tell"] ELSE Over(c)
    /\ UNCHANGED <<told, crossed, checks>>

SuccessWrites(c) ==
    /\ probe[c].at = "read" /\ probe[c].of = "recovery"
    /\ link' = [status |-> "healthy", failures |-> 0]
    /\ IF probe[c].count >= 3 THEN probe' = [probe EXCEPT ![c].at = "tell"] ELSE Over(c)
    /\ UNCHANGED <<told, crossed, checks>>

(* failure adds one, ... *)
Failure(c) ==
    /\ link.failures < MaxFailures
    /\ Report(c)
    /\ link' = [status |-> "degraded", failures |-> link.failures + 1]
    /\ probe' = [probe EXCEPT ![c] = [NoProbe EXCEPT !.at = "read", !.of = "outage"]]

(* ... reads the row, which another may have called down by then, ... *)
FailureReads(c) ==
    /\ probe[c].at = "read" /\ probe[c].of = "outage"
    /\ LET count == link.failures
           down  == link.status = "down" IN
       probe' = [probe EXCEPT ![c] =
                   IF count < 3 \/ (down /\ count # 3) THEN NoProbe
                   ELSE [@ EXCEPT !.at = IF down THEN "tell" ELSE "judge", !.count = count]]
    /\ UNCHANGED <<reports, checks>>

(* One that announces at four. *)
FailureJudgesLate(c) ==
    /\ probe[c].at = "judge"
    /\ link' = [link EXCEPT !.status = "down"]
    /\ IF probe[c].count = 4 THEN probe' = [probe EXCEPT ![c].at = "tell"] ELSE Over(c)
    /\ UNCHANGED <<told, crossed, checks>>

(* ... calls the connection down from three on, and tells it at three. *)
FailureJudges(c) ==
    /\ probe[c].at = "judge"
    /\ link' = [link EXCEPT !.status = "down"]
    /\ IF probe[c].count = 3 THEN probe' = [probe EXCEPT ![c].at = "tell"] ELSE Over(c)
    /\ UNCHANGED <<told, crossed, checks>>

(* notifyManagers; when it fails, a line of the log is all. *)
Tell(c) ==
    /\ probe[c].at = "tell"
    /\ \/ told' = probe[c].of /\ UNCHANGED crossed
       \/ UNCHANGED told /\ crossed' = TRUE
    /\ Over(c)
    /\ UNCHANGED <<link, checks>>
-----------------------------------------------------------------------------
(* The process stops, and with it the flag. *)
HealthCrash ==
    /\ \E c \in Checkers : probe[c].at # "idle"
    /\ probe' = [c \in Checkers |-> NoProbe]
    /\ running' = FALSE
    /\ crossed' = (crossed \/ \E c \in Checkers : Reporting(c))
    /\ UNCHANGED <<source, link, told, falseSince, raced>>

HealthNext ==
    \/ DeleteSource \/ DayPasses \/ HealthCrash
    \/ \E c \in Checkers :
          \/ AskChecks(c) \/ StartChecks(c) \/ Test(c) \/ Checked(c)
          \/ Success(c) \/ SuccessWrites(c)
          \/ Failure(c) \/ FailureReads(c) \/ FailureJudges(c) \/ Tell(c)

HealthSpec == HealthInit /\ [][HealthNext]_healthVars
-----------------------------------------------------------------------------
(* Properties *)

(* Types; and what has failed three times is called down, once the reports *)
(* on it are over and none overlapped.                                     *)
HealthTypeOK ==
    /\ source \in Source /\ link \in Link /\ told \in {"none", "outage", "recovery"}
    /\ {running, falseSince, raced, crossed} \subseteq BOOLEAN
    /\ probe \in [Checkers -> Probe]
    /\ \/ crossed \/ \E c \in Checkers : Reporting(c)
       \/ link.status = "down" <=> link.failures >= 3

(* A source is never called failing since a time after which it has passed *)
(* a check, unless two checks of it overlapped: the later to end counts    *)
(* from the time it read at its start.                                     *)
FailingSince == falseSince => raced

(* While a check by hand goes on, the dashboard says so, unless two people *)
(* asked for it at once.                                                   *)
HandCheckShown == (\E c \in Checkers : Checking(c) /\ probe[c].hand) => running \/ raced

(* The managers' last notice is of an outage if and only if the connection *)
(* is down, unless reports overlapped or a notice was lost: two failures   *)
(* that both read four tell nobody.                                        *)
OutageTold ==
    crossed \/ (\E c \in Checkers : Reporting(c)) \/ (link.failures >= 3 <=> told = "outage")

(* Together: what the dashboard and the managers are told is so, unless    *)
(* checks or reports overlapped.                                           *)
HealthTold == FailingSince /\ HandCheckShown /\ OutageTold
=============================================================================
