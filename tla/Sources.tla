------------------------------ MODULE Sources ------------------------------
(***************************************************************************)
(* The rows of the sources: those of the platform's catalog                *)
(* (platform-feed.service.ts) or those of an organisation                  *)
(* (newsroom.service.ts), and the spreadsheet that replaces either         *)
(* (feed-bulk.service.ts).                                                 *)
(*                                                                         *)
(* A source with several addresses is a group of rows.  An edit matches    *)
(* addresses to the rows of the group as read before, reuses and deletes   *)
(* what is left over; an upload deletes whatever it has not kept.  Nothing *)
(* of this is a transaction, so each statement is a step, and it may fail. *)
(***************************************************************************)
EXTENDS Naturals, Sequences, FiniteSets

CONSTANTS
    Admins,     \* concurrent calls
    Urls,       \* addresses
    NoUrl,
    First,      \* the addresses of two rows that are there
    MaxCalls,   \* bound: calls ever made
    MaxWork,    \* bound: lines and addresses of the calls under way
    MaxFeeds    \* bound: rows ever created

ASSUME SourcesAssumption ==
    /\ NoUrl \notin Urls /\ MaxFeeds \in Nat \ {0, 1}
    /\ MaxWork \in Nat /\ MaxCalls \in Nat
    /\ First \in [1 .. 2 -> Urls] /\ First[1] # First[2]

VARIABLES
    owner,      \* whose rows these are
    feed,       \* id -> row, without an address where there is none
    next,       \* the id of the next row
    begun,      \* calls made so far
    offered,    \* rows an organisation has a TenantPlatformFeed for
    tasks       \* admin -> the call under way

sourcesVars == <<owner, feed, next, begun, offered, tasks>>
-----------------------------------------------------------------------------
Ids     == 1 .. MaxFeeds
NoId    == 0
NoFeed  == [url |-> NoUrl, group |-> NoId]    \* group: sourceGroupId
Present == {i \in Ids : feed[i].url # NoUrl}

Holders(u) == {i \in Present : feed[i].url = u}
Key(i)     == IF feed[i].group = NoId THEN i ELSE feed[i].group

Lists(S, n) == UNION {[1 .. k -> S] : k \in 1 .. n}
SheetRow    == [id : {NoId, 1}, url : Urls \cup {NoUrl}]   \* NoUrl: a line with a mistake

(* id is the anchor, new the row made last, k the line of the file; pending *)
(* and later the addresses to match and the ones without a row; quiet:     *)
(* nobody else has changed a row since.                                    *)
NoTask == [op |-> "none", at |-> "idle", file |-> <<>>, want |-> <<>>, k |-> 1, id |-> NoId,
           new |-> NoId, group |-> NoId, url |-> NoUrl, members |-> [i \in Ids |-> NoUrl],
           used |-> {}, pending |-> <<>>, later |-> <<>>, kept |-> {}, made |-> {}, todo |-> {},
           ok |-> TRUE, quiet |-> TRUE]

SourcesInit ==
    /\ owner \in {"platform", "organisation"}
    /\ \E groups \in {<<1, 0>>, <<1, 1>>} :
          feed = [i \in Ids |-> IF i \in DOMAIN groups THEN [url |-> First[i], group |-> groups[i]]
                                ELSE NoFeed]
    /\ begun = 0 /\ next = 3 /\ offered = IF owner = "platform" THEN {1} ELSE {}
    /\ tasks = [a \in Admins |-> NoTask]

(* The calls under way leave room for one with so much to do.              *)
HasRoom(a, work) ==
    /\ tasks[a].op = "none"
    /\ \A b \in Admins \ {a} :
          work + Len(tasks[b].file) + Len(tasks[b].want) <= MaxWork

(* A step of a that leaves the rows alone, or changes them.                *)
Reads(a, task) ==
    /\ tasks' = [tasks EXCEPT ![a] = task]
    /\ UNCHANGED <<owner, feed, next, offered>>

Disturbed(a, task) ==
    [b \in Admins |-> IF b = a THEN task
                      ELSE IF tasks[b].op = "none" THEN NoTask
                      ELSE [tasks[b] EXCEPT !.quiet = FALSE]]

Writes(a, i, row, task) ==
    /\ feed' = [feed EXCEPT ![i] = row]
    /\ offered' = IF row = NoFeed THEN offered \ {i} ELSE offered
    /\ tasks' = Disturbed(a, task)
    /\ UNCHANGED <<owner, next>>

Creates(a, url, group, task) ==
    /\ next \in Ids
    /\ feed' = [feed EXCEPT ![next] = [url |-> url, group |-> group]]
    /\ next' = next + 1
    /\ tasks' = Disturbed(a, task)
    /\ UNCHANGED <<owner, offered>>
-----------------------------------------------------------------------------
(* The spreadsheet: importPlatformWorkbook, importTenantWorkbook           *)

Line(task) == task.file[task.k]
NextLine(task, ok, kept) ==
    [task EXCEPT !.k = @ + 1, !.at = "line", !.id = NoId, !.new = NoId, !.group = NoId,
                 !.url = NoUrl, !.used = {}, !.members = NoTask.members, !.want = <<>>, !.later = <<>>,
                 !.ok = @ /\ ok, !.kept = @ \cup (kept \ {NoId})]

(* A statement fails: an error of the line, which is kept if it names an   *)
(* id; the end of any other call.                                          *)
InLine(task) == task.op = "sheet" /\ task.k \in 1 .. Len(task.file) /\ task.at # "idle"

(* One that keeps what was saved alone. *)
FailsUnkept(task) == IF InLine(task) THEN NextLine(task, FALSE, {}) ELSE NoTask

Fails(task) ==
    IF InLine(task) THEN NextLine(task, FALSE, {Line(task).id}) ELSE NoTask

Upload(a, file) ==
    /\ HasRoom(a, Len(file))
    /\ Reads(a, [NoTask EXCEPT !.op = "sheet", !.at = "line", !.file = file])

BadLine(a) == LET task == tasks[a] IN
    /\ task.at = "line" /\ task.k <= Len(task.file) /\ Line(task).url = NoUrl
    /\ Reads(a, Fails(task))

UpdateLine(a) == LET task == tasks[a] IN
    /\ task.at = "line" /\ task.k <= Len(task.file)
    /\ Line(task).url # NoUrl /\ Line(task).id # NoId
    /\ Reads(a, [task EXCEPT !.at = "update", !.id = Line(task).id, !.url = Line(task).url])

CreateLine(a) == LET task == tasks[a] IN
    /\ task.at = "line" /\ task.k <= Len(task.file)
    /\ Line(task).url # NoUrl /\ Line(task).id = NoId
    /\ Reads(a, [task EXCEPT !.at = "create", !.url = Line(task).url])

(* One that leaves out what the single additions left to it.               *)
OfferNoneMade(a) == LET task == tasks[a] IN
    /\ task.at = "line" /\ task.k > Len(task.file)
    /\ Reads(a, [task EXCEPT !.at = "list"])

(* The subscriptions of all organisations to what was created: one         *)
(* statement, refused when one of the rows is gone, which nobody catches.  *)
OfferMade(a) == LET task == tasks[a] IN
    /\ task.at = "line" /\ task.k > Len(task.file)
    /\ \/ /\ task.made \subseteq Present
          /\ offered' = offered \cup task.made
          /\ tasks' = [tasks EXCEPT ![a].at = "list"]
          /\ UNCHANGED <<owner, feed, next>>
       \/ /\ ~(task.made \subseteq Present)
          /\ Reads(a, NoTask)

ListRest(a) == LET task == tasks[a] IN
    /\ task.at = "list"
    /\ Reads(a, [task EXCEPT !.at = "rest", !.todo = Present \ task.kept])

DeleteRest(a, i) == LET task == tasks[a] IN
    /\ task.at = "rest" /\ i \in task.todo
    /\ \/ i \in Present /\ Writes(a, i, NoFeed, [task EXCEPT !.todo = @ \ {i}])
       \/ Reads(a, [task EXCEPT !.todo = @ \ {i}, !.ok = FALSE])

Uploaded(a) ==
    /\ tasks[a].at = "rest" /\ tasks[a].todo = {}
    /\ Reads(a, [tasks[a] EXCEPT !.at = "done"])
-----------------------------------------------------------------------------
(* update, updateFeed                                                      *)

Edit(a, i, want) ==
    /\ HasRoom(a, Len(want)) /\ i \in Present
    /\ Reads(a, [NoTask EXCEPT !.op = "edit", !.at = "update", !.id = i, !.want = want,
                               !.url = want[1]])

(* The address is refused when another source has it; when a row of the    *)
(* same source has it, this row keeps its own, as read now.                *)
Look(a) == LET task == tasks[a]  i == task.id IN
    /\ task.at = "update"
    /\ LET others == Holders(task.url) \ {i} IN
       \/ /\ i \notin Present \/ \E h \in others : Key(h) # Key(i)
          /\ Reads(a, Fails(task))
       \/ /\ i \in Present /\ \A h \in others : Key(h) = Key(i)
          /\ Reads(a, [task EXCEPT !.at = "write",
                                   !.url = IF others = {} THEN @ ELSE feed[i].url])

(* The organisation's row is given a group of its own unless its list of   *)
(* addresses follows.  (That is a statement of its own, not separated.)    *)
OwnGroup(task, i) == IF owner = "organisation" /\ task.want # <<>> THEN feed[i].group ELSE Key(i)

Update(a) == LET task == tasks[a]  i == task.id IN
    /\ task.at = "write"
    /\ \/ /\ i \notin Present \/ Holders(task.url) \ {i} # {}
          /\ Reads(a, Fails(task))
       \/ /\ i \in Present /\ Holders(task.url) \subseteq {i}
          /\ Writes(a, i, [url |-> task.url, group |-> OwnGroup(task, i)],
                    IF task.op = "sheet" THEN NextLine(task, TRUE, {i})
                    ELSE [task EXCEPT !.at = "roster"])
-----------------------------------------------------------------------------
(* create, addFeed                                                         *)

Add(a, want) ==
    /\ HasRoom(a, Len(want))
    /\ Reads(a, [NoTask EXCEPT !.op = "add", !.at = "create", !.want = want, !.url = want[1]])

(* (That the catalog has the organisation's address is a refusal too, left *)
(* to Fault.)                                                              *)
(* After its row the catalog's source is offered and given its group; the  *)
(* organisation's is synchronised with its addresses.                      *)
Create(a) == LET task == tasks[a] IN
    /\ task.at = "create"
    /\ \/ Holders(task.url) # {} /\ Reads(a, Fails(task))
       \/ /\ Holders(task.url) = {}
          /\ Creates(a, task.url, NoId,
                IF owner = "organisation"
                THEN [task EXCEPT !.at = "roster", !.id = next, !.new = next,
                                  !.want = IF task.op = "sheet" THEN <<task.url>> ELSE @]
                ELSE [task EXCEPT !.at = IF task.op = "sheet" THEN "own" ELSE "offer",
                                  !.new = next])

Offer(a) == LET task == tasks[a] IN
    /\ task.at = "offer"
    /\ \/ task.new \notin Present /\ Reads(a, Fails(task))
       \/ /\ task.new \in Present
          /\ offered' = offered \cup {task.new}
          /\ tasks' = [tasks EXCEPT ![a].at = "own"]
          /\ UNCHANGED <<owner, feed, next>>

Own(a) == LET task == tasks[a]  i == task.new IN
    /\ task.at = "own"
    /\ \/ i \notin Present /\ Reads(a, Fails(task))
       \/ /\ i \in Present
          /\ Writes(a, i, [feed[i] EXCEPT !.group = i],
                IF task.op = "sheet" THEN [NextLine(task, TRUE, {i}) EXCEPT !.made = @ \cup {i}]
                ELSE IF task.group # NoId THEN [task EXCEPT !.at = "join"]
                ELSE [task EXCEPT !.at = "fill", !.id = i, !.group = i,
                                  !.pending = Tail(task.want)])

Join(a) == LET task == tasks[a]  i == task.new IN
    /\ task.at = "join"
    /\ \/ i \notin Present /\ Reads(a, Fails(task))
       \/ /\ i \in Present
          /\ Writes(a, i, [feed[i] EXCEPT !.group = task.group],
                    [task EXCEPT !.at = "fill", !.used = @ \cup {i}])
-----------------------------------------------------------------------------
(* syncPlatformChannels, syncNewsFeedChannels                              *)

Roster(a) == LET task == tasks[a]  i == task.id IN
    /\ task.at = "roster"
    /\ \/ i \notin Present /\ Reads(a, Fails(task))
       \/ /\ i \in Present
          /\ LET group == Key(i)
                 members == {i} \cup {j \in Present : feed[j].group = group}
             IN Reads(a, [task EXCEPT !.at = "match", !.group = group,
                             !.members = [j \in Ids |-> IF j \in members THEN feed[j].url
                                                        ELSE NoUrl],
                             !.pending = task.want])

Members(task) == {i \in Ids : task.members[i] # NoUrl}
Spare(task)   == Members(task) \ task.used
Matching(task, u) == {i \in Spare(task) : task.members[i] = u}

(* The next address is that of a row of the group, as it was read.         *)
Match(a) == LET task == tasks[a]  u == Head(task.pending) IN
    /\ task.at = "match" /\ task.pending # <<>>
    /\ \E i \in Matching(task, u) :
          \/ i \notin Present /\ Reads(a, Fails(task))
          \/ /\ i \in Present
             /\ Writes(a, i, [feed[i] EXCEPT !.group = task.group],
                       [task EXCEPT !.pending = Tail(@), !.used = @ \cup {i}])

(* What a synchronisation leaves: the next line of the sheet, or the end.  *)
Synchronised(task) ==
    IF task.op = "sheet" THEN NextLine(task, TRUE, {task.new})
    ELSE [NoTask EXCEPT !.op = task.op, !.at = "done", !.want = task.want, !.group = task.group,
                        !.quiet = task.quiet]

Assign(a, i, u) == LET task == tasks[a] IN
    \/ /\ i \notin Present \/ Holders(u) \ {i} # {}
       /\ Reads(a, Fails(task))
    \/ /\ i \in Present /\ Holders(u) \subseteq {i}
       /\ Writes(a, i, [url |-> u, group |-> task.group],
                 [task EXCEPT !.pending = Tail(@), !.used = @ \cup {i}])

(* No row of the group has the address.  The catalog keeps it for later;   *)
(* the organisation's first address goes to the anchor, others are new.    *)
Unmatched(a) == LET task == tasks[a]  u == Head(task.pending) IN
    /\ task.at = "match" /\ task.pending # <<>> /\ Matching(task, u) = {}
    /\ \/ /\ owner = "platform"
          /\ Reads(a, [task EXCEPT !.pending = Tail(@), !.later = Append(@, u)])
       \/ /\ owner = "organisation" /\ task.pending = task.want /\ task.id \notin task.used
          /\ Assign(a, task.id, u)
       \/ /\ owner = "organisation" /\ (task.pending # task.want \/ task.id \in task.used)
          /\ \/ Holders(u) # {} /\ Reads(a, Fails(task))
             \/ /\ Holders(u) = {}
                /\ Creates(a, u, task.group,
                           [task EXCEPT !.pending = Tail(@), !.used = @ \cup {next}])

Matched(a) == LET task == tasks[a] IN
    /\ task.at = "match" /\ task.pending = <<>>
    /\ Reads(a, IF owner = "organisation" THEN [task EXCEPT !.at = "prune"]
                ELSE [task EXCEPT !.at = "fill", !.pending = task.later, !.later = <<>>])

(* The catalog gives the addresses kept for later the rows left over, the  *)
(* anchor first, and then new ones.                                        *)
Reuse(a, i) == LET task == tasks[a] IN
    /\ task.at = "fill" /\ task.pending # <<>>
    /\ i \in Spare(task) /\ (task.id \in Spare(task) => i = task.id)
    /\ Assign(a, i, Head(task.pending))

(* A further address of a new source that is its own is passed over.       *)
Repeated(task) == task.op = "add" /\ Head(task.pending) = task.url

PassOver(a) == LET task == tasks[a] IN
    /\ task.at = "fill" /\ task.pending # <<>> /\ Repeated(task)
    /\ Reads(a, [task EXCEPT !.pending = Tail(@)])

Extra(a) == LET task == tasks[a]  u == Head(task.pending) IN
    /\ task.at = "fill" /\ task.pending # <<>> /\ Spare(task) = {} /\ ~Repeated(task)
    /\ \/ Holders(u) # {} /\ Reads(a, Fails(task))
       \/ /\ Holders(u) = {}
          /\ Creates(a, u, NoId, [task EXCEPT !.at = "offer", !.new = next, !.pending = Tail(@)])

Filled(a) == LET task == tasks[a] IN
    /\ task.at = "fill" /\ task.pending = <<>>
    /\ Reads(a, [task EXCEPT !.at = "prune"])

Prune(a, i) == LET task == tasks[a] IN
    /\ task.at = "prune" /\ i \in Spare(task)
    /\ \/ i \notin Present /\ Reads(a, Fails(task))
       \/ i \in Present /\ Writes(a, i, NoFeed, [task EXCEPT !.used = @ \cup {i}])

(* One that leaves the rows that have no address any more.                 *)
PrunedNothing(a) == LET task == tasks[a] IN
    /\ task.at = "prune"
    /\ Reads(a, Synchronised(task))

Pruned(a) == LET task == tasks[a] IN
    /\ task.at = "prune" /\ Spare(task) = {}
    /\ Reads(a, Synchronised(task))
-----------------------------------------------------------------------------
(* delete, ensureSubscriptions, and what ends a call                       *)

Delete(a, i) ==
    /\ tasks[a].op = "none" /\ i \in Present
    /\ Writes(a, i, NoFeed, NoTask)

(* One for which an organisation with some rows has all of them.           *)
CheckSome(a) ==
    /\ tasks[a].op = "none" /\ owner = "platform"
    /\ Reads(a, [NoTask EXCEPT !.op = "check", !.at = IF offered # {} THEN "done" ELSE "all"])

(* The count comes first: an organisation that has as many rows as the     *)
(* catalog has all of them, for its rows go with the catalog's.            *)
Check(a) ==
    /\ tasks[a].op = "none" /\ owner = "platform"
    /\ Reads(a, [NoTask EXCEPT !.op = "check",
           !.at = IF Cardinality(offered) >= Cardinality(Present) THEN "done" ELSE "all"])

ListAll(a) ==
    /\ tasks[a].at = "all"
    /\ Reads(a, [tasks[a] EXCEPT !.at = "missing", !.todo = Present])

OfferMissing(a) == LET task == tasks[a] IN
    /\ task.at = "missing"
    /\ \/ ~(task.todo \subseteq Present) /\ Reads(a, NoTask)
       \/ /\ task.todo \subseteq Present
          /\ offered' = offered \cup task.todo
          /\ tasks' = [tasks EXCEPT ![a] = [task EXCEPT !.at = "done", !.todo = {}]]
          /\ UNCHANGED <<owner, feed, next>>

(* A statement fails for a reason of its own, or the process stops.        *)
Fault(a) ==
    /\ tasks[a].op # "none" /\ tasks[a].at # "done"
    /\ Reads(a, Fails(tasks[a])) \/ Reads(a, NoTask)

Leave(a) == tasks[a].at = "done" /\ Reads(a, NoTask)

Begins(a) ==
    \/ Check(a)
    \/ \E file \in Lists(SheetRow, 2) : Upload(a, file)
    \/ \E want \in Lists(Urls, 2) :
          /\ owner = "organisation" => Cardinality({want[k] : k \in DOMAIN want}) = Len(want)
          /\ Add(a, want) \/ \E i \in Ids : Edit(a, i, want)
    \/ \E i \in Ids : Delete(a, i)

Continues(a) ==
    \/ BadLine(a) \/ UpdateLine(a) \/ CreateLine(a) \/ OfferMade(a) \/ ListRest(a)
    \/ Uploaded(a) \/ Look(a) \/ Update(a) \/ Create(a) \/ Offer(a) \/ Own(a) \/ Join(a)
    \/ Roster(a) \/ Match(a) \/ Unmatched(a) \/ Matched(a) \/ PassOver(a) \/ Extra(a) \/ Filled(a)
    \/ Pruned(a) \/ ListAll(a) \/ OfferMissing(a) \/ Fault(a) \/ Leave(a)
    \/ \E i \in Ids : DeleteRest(a, i) \/ Reuse(a, i) \/ Prune(a, i)

(* Which of those without a call makes the next one is all the same.       *)
Idle == {a \in Admins : tasks[a].op = "none"}

SourcesNext ==
    \/ /\ begun < MaxCalls /\ begun' = begun + 1
       /\ Idle # {} /\ Begins(CHOOSE a \in Idle : TRUE)
    \/ UNCHANGED begun /\ \E a \in Admins : Continues(a)

SourcesSpec == SourcesInit /\ [][SourcesNext]_sourcesVars
-----------------------------------------------------------------------------
Named(task) == {task.file[k].id : k \in DOMAIN task.file} \ {NoId}

SourcesTypeOK ==
    /\ owner \in {"platform", "organisation"} /\ next \in 3 .. MaxFeeds + 1
    /\ feed \in [Ids -> [url : Urls \cup {NoUrl}, group : 0 .. MaxFeeds]]
    /\ offered \subseteq Present
    /\ \A i, j \in Present : feed[i].url = feed[j].url => i = j

(* Whatever fails, no upload deletes a source its file names.              *)
NamedStay ==
    \A a \in Admins : tasks[a].op = "sheet" /\ tasks[a].at = "rest" =>
        tasks[a].todo \cap Named(tasks[a]) = {}

(* An upload without errors, undisturbed, leaves the sources it has saved  *)
(* and no other, all that the file names among them, and the organisations *)
(* are offered every one it has added.                                     *)
SheetApplied ==
    \A a \in Admins :
        LET task == tasks[a] IN
        task.op = "sheet" /\ task.at = "done" /\ task.ok /\ task.quiet =>
            /\ Present = task.kept /\ Named(task) \subseteq Present
            /\ task.made \subseteq offered

(* After an undisturbed edit, or addition, the source has the addresses    *)
(* that were asked for, no more and no fewer.                              *)
GroupAsAsked ==
    \A a \in Admins :
        LET task == tasks[a]
            group == {i \in Present : Key(i) = task.group}
        IN  task.op \in {"edit", "add"} /\ task.at = "done" /\ task.quiet =>
                {feed[i].url : i \in group} = {task.want[k] : k \in DOMAIN task.want}

(* What ensureSubscriptions leaves, or finds: the catalog offered whole.   *)
OfferedWhenQuiet ==
    \A a \in Admins :
        tasks[a].op = "check" /\ tasks[a].at = "done" /\ tasks[a].quiet => offered = Present

SourcesHold == NamedStay /\ SheetApplied /\ GroupAsAsked /\ OfferedWhenQuiet

(* feed-bulk.service.ts:70 and :215 tell whoever fills in the sheet that   *)
(* "sources that are not in the file are deleted after the upload": one    *)
(* whose address is in the file is not.                                    *)
InFileKept ==
    \A a \in Admins :
        LET task == tasks[a] IN
        task.op = "sheet" /\ task.at = "rest" =>
            \A k \in DOMAIN task.file : task.file[k].url # NoUrl =>
                Holders(task.file[k].url) \cap task.todo = {}
=============================================================================
