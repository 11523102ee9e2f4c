--------------------------- MODULE OperationProofs ---------------------------
(****************************************************************************)
(* Theorems of all that the dashboard stands on: the sources of the catalog *)
(* (Sources), the tab of the browser (Browser), the form of the settings    *)
(* (SettingsForm), the window of the news page (NewsModal), the call        *)
(* (ApiCall) and what a member may do (Access), each for any values of its  *)
(* constants; and of the six as MCOperation composes them.                  *)
(****************************************************************************)
EXTENDS MCOperation, SequenceTheorems, FiniteSetTheorems, TLAPS
-----------------------------------------------------------------------------
(* The sources                                                              *)

(* A call under way, and the rows of a group it is to give the addresses.  *)
TaskOps     == {"none", "sheet", "edit", "add", "check"}
Syncing == {"match", "fill", "offer", "own", "join", "prune"}
Adding  == {"offer", "own", "join"}

Stages(op) ==
    CASE op = "none"  -> {"idle"}
      [] op = "sheet" -> {"line", "update", "write", "create", "own", "roster", "match", "prune",
                          "list", "rest", "done"}
      [] op = "edit"  -> {"update", "write", "roster", "done"} \cup Syncing
      [] op = "add"   -> {"create", "roster", "done"} \cup Syncing
      [] op = "check" -> {"all", "missing", "done"}

Stage == {"idle", "line", "update", "write", "create", "own", "roster", "match", "prune", "list",
          "rest", "done", "fill", "offer", "join", "all", "missing"}

Task == [op : TaskOps, at : Stage, file : Seq(SheetRow), want : Seq(Urls), k : Nat \ {0},
         id : 0 .. MaxFeeds, new : 0 .. MaxFeeds, group : 0 .. MaxFeeds,
         url : Urls \cup {NoUrl}, members : [Ids -> Urls \cup {NoUrl}], used : SUBSET Ids,
         pending : Seq(Urls), later : Seq(Urls), kept : SUBSET Ids, made : SUBSET Ids,
         todo : SUBSET Ids, ok : BOOLEAN, quiet : BOOLEAN]

Elements(s) == {s[j] : j \in DOMAIN s}

(* Rows that are there: those made so far, each address once, and a row    *)
(* without a group is not that of others.                                  *)
Ungrouped(i) == i \in Present /\ feed[i].group = NoId

RowsHold ==
    /\ owner \in {"platform", "organisation"} /\ next \in 3 .. MaxFeeds + 1
    /\ feed \in [Ids -> [url : Urls \cup {NoUrl}, group : 0 .. MaxFeeds]]
    /\ offered \subseteq Present
    /\ \A i, j \in Present : feed[i].url = feed[j].url => i = j
    /\ \A i \in Ids : feed[i].group < next /\ (i \in Present => i < next)
    /\ \A i, j \in Present : Ungrouped(i) /\ feed[j].group = i => i = j

(* Where a call is, what it has in hand.                                   *)
TaskHolds(t) ==
    /\ t.at \in Stages(t.op) /\ (t.op = "none" => t = NoTask)
    /\ t.at \in {"create", "update", "write"} => t.url \in Urls
    /\ t.id < next /\ t.new < next /\ t.group < next
    /\ t.op \in {"edit", "add"} => t.want # <<>>
    /\ t.at \in {"roster", "match"} => t.want # <<>>
    /\ t.at \in {"fill", "offer", "own", "join"} => owner = "platform"
    /\ t.op \in {"sheet", "add"} /\ t.at \in {"roster", "match"} => owner = "organisation"
    /\ t.at \in {"line", "update", "write", "create", "roster"} => t.group = NoId /\ t.used = {}
    /\ t.op = "sheet" /\ t.at = "own" => t.group = NoId
    /\ t.op = "add" /\ t.at = "create" => t.url = t.want[1]
    /\ t.at = "match" => t.id \in Members(t)
    /\ t.at \in Syncing \ {"own", "offer"} => t.group # NoId
    /\ t.at \in {"own", "offer"} /\ t.op = "edit" => t.group # NoId
    /\ t.at \in Adding => t.new \in Ids
    /\ owner = "organisation" \/ t.at # "match" => t.later = <<>>
    /\ t.at = "prune" => t.pending = <<>>

(* The row whose group others are given is in it, or is so before any.     *)
GroupStands(t) ==
    /\ t.at \in Syncing /\ t.group # NoId /\ Ungrouped(t.group) =>
          /\ owner = "organisation" /\ t.at = "match" /\ t.id = t.group
          /\ Members(t) = {t.id} /\ t.used = {} /\ t.pending = t.want
    /\ t.at = "roster" /\ owner = "platform" => ~Ungrouped(t.id)
    /\ t.at \in Adding => t.group # t.new

(* The line a call is at, and the sources it keeps of those before.        *)
LinesHold(t) ==
    /\ t.at \in {"update", "write", "create", "own", "roster", "match", "prune"} =>
          t.k <= Len(t.file)
    /\ t.at \in {"update", "write"} => t.id = Line(t).id /\ t.id # NoId
    /\ t.at \in {"create", "own", "roster", "match", "prune"} => Line(t).id = NoId
    /\ t.at \in {"list", "rest", "done"} => t.k > Len(t.file)
    /\ \A j \in DOMAIN t.file : j < t.k => t.file[j].id \in t.kept \cup {NoId}
    /\ t.made \subseteq t.kept
    /\ t.at = "rest" => t.todo \cap t.kept = {}

KeptHold(t) ==
    t.ok /\ t.quiet =>
        /\ t.kept \subseteq Present
        /\ t.at \in {"list", "rest", "done"} => t.made \subseteq offered
        /\ t.at = "rest" => Present = t.kept \cup t.todo
        /\ t.at = "done" => Present = t.kept

(* The source a line has added.                                            *)
NewHolds(t) ==
    t.quiet /\ t.at \in {"roster", "match", "prune"} =>
        /\ t.new \in Ids /\ t.id = t.new /\ t.url \in Urls
        /\ feed[t.new].url = t.url /\ t.want = <<t.url>>
        /\ IF t.at = "roster" THEN feed[t.new].group = NoId ELSE Members(t) \subseteq {t.new}

SheetHolds(t) == t.op = "sheet" => LinesHold(t) /\ KeptHold(t) /\ NewHolds(t)

(* The addresses of the rows it is through with, and those that are still  *)
(* to be given, are the ones that were asked for.                          *)
Group(t) == {i \in Present : Key(i) = t.group}
Through(t) == Group(t) \ Spare(t)
AddressesHold(t) ==
    t.quiet /\ t.at \in Syncing /\ t.group # NoId =>
        /\ Spare(t) \subseteq Group(t)
        /\ \A i \in Spare(t) : feed[i].url = t.members[i]
        /\ {feed[i].url : i \in Through(t)} \cup Elements(t.pending) \cup Elements(t.later)
              \cup (IF t.at \in Adding THEN {feed[t.new].url} ELSE {})
           = Elements(t.want)
        /\ t.at \in Adding =>
              Spare(t) = {} /\ t.new \in Present /\ feed[t.new].group \in {NoId, t.new}
        /\ t.op = "add" /\ owner = "platform" =>
              \E i \in Through(t) : feed[i].url = t.url

NewSource(t) ==
    t.quiet /\ t.op = "add" /\ t.at \in {"offer", "own"} /\ t.group = NoId =>
        /\ t.new \in Present /\ feed[t.new].url = t.url /\ t.url = t.want[1]
        /\ \A j \in Present : feed[j].group = t.new => j = t.new

AllGiven(t) ==
    t.quiet /\ t.at = "done" /\ t.op \in {"edit", "add"} =>
        {feed[i].url : i \in Group(t)} = Elements(t.want)

CatalogHolds(t) ==
    t.quiet /\ t.op = "check" =>
        /\ t.at = "missing" => t.todo = Present
        /\ t.at = "done" => offered = Present

NoMembers(t) == t.op = "add" /\ owner = "platform" => Members(t) = {}

TaskInv(t) ==
    /\ TaskHolds(t) /\ GroupStands(t) /\ SheetHolds(t) /\ AddressesHold(t)
    /\ NewSource(t) /\ AllGiven(t) /\ CatalogHolds(t) /\ NoMembers(t)

SourcesInv ==
    RowsHold /\ tasks \in [Admins -> Task] /\ \A a \in Admins : TaskInv(tasks[a])
-----------------------------------------------------------------------------
LEMMA SourcesKeys ==
    /\ NoUrl \notin Urls /\ MaxFeeds \in Nat /\ MaxFeeds >= 2 /\ NoId = 0
    /\ 1 \in Ids /\ 2 \in Ids /\ 0 \in 0 .. MaxFeeds /\ Ids \subseteq 0 .. MaxFeeds
    /\ First \in [1 .. 2 -> Urls] /\ First[1] # First[2]
    /\ \A i \in Ids : i # NoId
BY SourcesAssumption DEF SourcesAssumption, Ids, NoId

LEMMA NoTaskTyped ==
    /\ NoTask \in Task /\ NoTask.op = "none" /\ NoTask.at = "idle" /\ NoTask.id = NoId
    /\ NoTask.new = NoId /\ NoTask.group = NoId /\ NoTask.file = <<>> /\ NoTask.want = <<>>
    /\ NoTask.k = 1 /\ NoTask.url = NoUrl /\ NoTask.members = [i \in Ids |-> NoUrl]
    /\ NoTask.used = {} /\ NoTask.pending = <<>> /\ NoTask.later = <<>> /\ NoTask.kept = {}
    /\ NoTask.made = {} /\ NoTask.todo = {} /\ NoTask.ok = TRUE /\ NoTask.quiet = TRUE
BY SourcesKeys DEF NoTask, Task, TaskOps, Stage

LEMMA NoTaskInv == RowsHold => TaskInv(NoTask)
BY SourcesKeys, NoTaskTyped
   DEF RowsHold, TaskInv, TaskHolds, GroupStands, SheetHolds, AddressesHold, NewSource, AllGiven,
       CatalogHolds, NoMembers, Members, Stages, Syncing, Adding

(* What is said of a call depends on the rows and who has them only.       *)
LEMMA SameRows ==
    ASSUME UNCHANGED <<owner, feed, next, offered>>
    PROVE  (RowsHold' <=> RowsHold) /\ \A t : TaskInv(t)' <=> TaskInv(t)
BY DEF RowsHold, TaskInv, TaskHolds, GroupStands, SheetHolds, LinesHold, KeptHold, NewHolds,
       AddressesHold, NewSource, AllGiven, CatalogHolds, NoMembers, Through, Group, Key, Ungrouped,
       Present, Members, Spare, Line

LEMMA ReadsKeep ==
    ASSUME SourcesInv, NEW a \in Admins, NEW t \in Task, Reads(a, t), TaskInv(t)
    PROVE  SourcesInv'
<1>1. tasks' = [tasks EXCEPT ![a] = t] /\ UNCHANGED <<owner, feed, next, offered>>
  BY DEF Reads
<1>2. RowsHold' /\ \A s : TaskInv(s)' <=> TaskInv(s)
  BY <1>1, SameRows DEF SourcesInv
<1>3. tasks' \in [Admins -> Task]
  BY <1>1 DEF SourcesInv
<1>4. \A b \in Admins : TaskInv(tasks[b])'
  <2> TAKE b \in Admins
  <2>1. TaskInv(tasks'[b])
    BY <1>1 DEF SourcesInv
  <2>2. PICK s : s = tasks'[b]
    OBVIOUS
  <2>3. TaskInv(s)'
    BY <1>2, <2>1, <2>2
  <2> QED BY <2>2, <2>3
<1> QED BY <1>2, <1>3, <1>4 DEF SourcesInv

(* A call that others have disturbed, while rows are only written, made or *)
(* deleted: what is left to say of it does not depend on what the rows     *)
(* hold.                                                                   *)
RowsGoOn ==
    /\ owner' = owner /\ next' >= next /\ next' \in Nat
    /\ \A g \in Ids : g < next /\ Ungrouped(g)' => Ungrouped(g)

Unquiet(t) == IF t.op = "none" THEN NoTask ELSE [t EXCEPT !.quiet = FALSE]

LEMMA UnquietTyped ==
    ASSUME NEW t \in Task, t.op # "none"
    PROVE  LET d == Unquiet(t) IN
           /\ d \in Task /\ d.quiet = FALSE /\ d.op = t.op /\ d.at = t.at /\ d.file = t.file
           /\ d.want = t.want /\ d.k = t.k /\ d.id = t.id /\ d.new = t.new /\ d.group = t.group
           /\ d.url = t.url /\ d.members = t.members /\ d.used = t.used
           /\ d.pending = t.pending /\ d.later = t.later /\ d.kept = t.kept
           /\ d.made = t.made /\ d.todo = t.todo
BY DEF Unquiet, Task

LEMMA UnquietKeeps ==
    ASSUME RowsHold, RowsHold', RowsGoOn, NEW t \in Task, TaskInv(t)
    PROVE  Unquiet(t) \in Task /\ TaskInv(Unquiet(t))'
<1>1. CASE t.op = "none"
  <2>1. Unquiet(t) = NoTask
    BY <1>1 DEF Unquiet
  <2>2. TaskInv(NoTask)'
    BY SourcesKeys, NoTaskTyped
       DEF RowsHold, TaskInv, TaskHolds, GroupStands, SheetHolds, AddressesHold, NewSource,
       AllGiven,
           CatalogHolds, NoMembers, Members, Stages, Syncing, Adding
  <2> QED BY <2>1, <2>2, NoTaskTyped DEF Unquiet
<1>2. CASE t.op # "none"
  <2>1. PICK d : d = Unquiet(t)
    OBVIOUS
  <2>2. /\ d \in Task /\ d.quiet = FALSE /\ d.op = t.op /\ d.at = t.at /\ d.file = t.file
        /\ d.want = t.want /\ d.k = t.k /\ d.id = t.id /\ d.new = t.new /\ d.group = t.group
        /\ d.url = t.url /\ d.members = t.members /\ d.used = t.used
        /\ d.pending = t.pending /\ d.later = t.later /\ d.kept = t.kept
        /\ d.made = t.made /\ d.todo = t.todo
    BY <1>2, <2>1, UnquietTyped
  <2>3. TaskHolds(d)'
    BY <1>2, <2>2 DEF TaskInv, TaskHolds, RowsGoOn, Task, RowsHold, Members
  <2>4. GroupStands(d)'
    <3>1. ASSUME NEW g \in 0 .. MaxFeeds, g < next, Ungrouped(g)' PROVE Ungrouped(g)
      BY <3>1 DEF RowsGoOn, Ungrouped, Present
    <3>2. t.group < next /\ t.id < next /\ t.group \in 0 .. MaxFeeds /\ t.id \in 0 .. MaxFeeds
      BY DEF TaskInv, TaskHolds, Task
    <3> QED BY <2>2, <3>1, <3>2 DEF TaskInv, GroupStands, RowsGoOn, Members
  <2>5. SheetHolds(d)'
    BY <2>2 DEF TaskInv, SheetHolds, LinesHold, KeptHold, NewHolds, Line
  <2>6. AddressesHold(d)' /\ NewSource(d)' /\ AllGiven(d)' /\ CatalogHolds(d)' /\ NoMembers(d)'
    BY <2>2 DEF TaskInv, AddressesHold, NewSource, AllGiven, CatalogHolds, NoMembers, Members,
                RowsGoOn
  <2>7. TaskInv(d)'
    BY <2>3, <2>4, <2>5, <2>6 DEF TaskInv
  <2> QED BY <2>1, <2>2, <2>7
<1> QED BY <1>1, <1>2

(* A step of a that disturbs the others.                                   *)
LEMMA DisturbingKeeps ==
    ASSUME SourcesInv, NEW a \in Admins, NEW t \in Task, tasks' = Disturbed(a, t),
           RowsHold', RowsGoOn, TaskInv(t)'
    PROVE  SourcesInv'
<1>1. \A b \in Admins : tasks'[b] = IF b = a THEN t ELSE Unquiet(tasks[b])
  BY DEF Disturbed, Unquiet
<1>2. \A b \in Admins : tasks[b] \in Task /\ TaskInv(tasks[b])
  BY DEF SourcesInv
<1>3. ASSUME NEW b \in Admins PROVE tasks'[b] \in Task /\ TaskInv(tasks[b])'
  <2>1. CASE b = a
    BY <1>1, <2>1
  <2>2. CASE b # a
    <3>1. PICK s : s = tasks[b]
      OBVIOUS
    <3>2. PICK d : d = Unquiet(s)
      OBVIOUS
    <3>3. s \in Task /\ TaskInv(s) /\ RowsHold
      BY <1>2, <3>1 DEF SourcesInv
    <3>4. d \in Task /\ TaskInv(d)'
      BY <3>2, <3>3, UnquietKeeps
    <3>5. tasks'[b] = d
      BY <1>1, <2>2, <3>1, <3>2
    <3> QED BY <3>4, <3>5
  <2> QED BY <2>1, <2>2
<1>4. tasks' \in [Admins -> Task]
  <2>1. \A b \in Admins : tasks'[b] \in Task
    BY <1>3
  <2> QED BY <2>1 DEF Disturbed
<1> QED BY <1>3, <1>4 DEF SourcesInv

(* A row that is there is given another address or group, or deleted.      *)
LEMMA WritesKeep ==
    ASSUME SourcesInv, NEW a \in Admins, NEW t \in Task, NEW i \in Present, NEW row,
           Writes(a, i, row, t),
           \/ row = NoFeed
           \/ /\ row \in [url : Urls, group : 0 .. MaxFeeds] /\ row.group < next
              /\ Holders(row.url) \subseteq {i}
              /\ row.group = NoId => feed[i].group = NoId
              /\ row.group # NoId /\ row.group # i => ~Ungrouped(row.group),
           TaskInv(t)'
    PROVE  SourcesInv'
<1>1. /\ feed' = [feed EXCEPT ![i] = row] /\ tasks' = Disturbed(a, t)
      /\ offered' = (IF row = NoFeed THEN offered \ {i} ELSE offered) /\ UNCHANGED <<owner, next>>
  BY DEF Writes
<1>2. RowsHold /\ i \in Ids /\ Present \subseteq Ids
  BY DEF SourcesInv, Present
<1>3. NoFeed.url = NoUrl /\ NoFeed.group = 0
  BY DEF NoFeed, NoId
<1>4. row \in [url : Urls \cup {NoUrl}, group : 0 .. MaxFeeds] /\ row.group < next
  BY <1>2, <1>3, SourcesKeys DEF RowsHold, NoFeed
<1>5. feed' \in [Ids -> [url : Urls \cup {NoUrl}, group : 0 .. MaxFeeds]]
  BY <1>1, <1>2, <1>4 DEF RowsHold
<1>6. /\ feed'[i] = row /\ \A j \in Ids \ {i} : feed'[j] = feed[j]
      /\ Present' = IF row = NoFeed THEN Present \ {i} ELSE Present
  <2>1. feed'[i] = row /\ \A j \in Ids \ {i} : feed'[j] = feed[j]
    BY <1>1, <1>2 DEF RowsHold
  <2>2. row # NoFeed => row.url # NoUrl
    BY SourcesKeys
  <2> QED BY <1>2, <1>3, <2>1, <2>2 DEF Present
<1>7. \A j \in Present' : Ungrouped(j)' => Ungrouped(j)
  BY <1>2, <1>6 DEF Ungrouped
<1>8. RowsHold'
  <2>1. offered' \subseteq Present'
    BY <1>1, <1>2, <1>6 DEF RowsHold
  <2>2. ASSUME NEW j \in Present', NEW k \in Present', feed'[j].url = feed'[k].url PROVE j = k
    <3>1. CASE row = NoFeed
      BY <1>2, <1>6, <2>2, <3>1 DEF RowsHold
    <3>2. CASE row # NoFeed
      <4>1. \A h \in Present \ {i} : feed[h].url # row.url
        BY <3>2 DEF Holders
      <4> QED BY <1>2, <1>6, <2>2, <3>2, <4>1 DEF RowsHold
    <3> QED BY <3>1, <3>2
  <2>3. \A j \in Ids : feed'[j].group < next' /\ (j \in Present' => j < next')
    BY <1>1, <1>2, <1>4, <1>6 DEF RowsHold
  <2>4. ASSUME NEW j \in Present', NEW k \in Present', Ungrouped(j)', feed'[k].group = j
        PROVE  j = k
    <3>1. Ungrouped(j) /\ j \in Present /\ k \in Present /\ j # NoId
      BY <1>2, <1>6, <1>7, <2>4, SourcesKeys
    <3>2. CASE k # i
      BY <1>2, <1>6, <2>4, <3>1, <3>2 DEF RowsHold
    <3>3. CASE k = i
      BY <1>3, <1>6, <2>4, <3>1, <3>3 DEF NoId
    <3> QED BY <3>2, <3>3
  <2> QED BY <1>1, <1>2, <1>5, <2>1, <2>2, <2>3, <2>4 DEF RowsHold
<1>9. RowsGoOn
  <2>1. next \in Nat
    BY <1>2, SourcesKeys DEF RowsHold
  <2>2. \A g \in Ids : Ungrouped(g)' => Ungrouped(g)
    BY <1>7 DEF Ungrouped
  <2> QED BY <1>1, <2>1, <2>2 DEF RowsGoOn
<1> QED BY <1>1, <1>8, <1>9, DisturbingKeeps

LEMMA CreatesKeep ==
    ASSUME SourcesInv, NEW a \in Admins, NEW t \in Task, NEW url \in Urls,
           NEW group \in 0 .. MaxFeeds, Creates(a, url, group, t), Holders(url) = {}, group < next,
           group # NoId => ~Ungrouped(group), TaskInv(t)'
    PROVE  SourcesInv'
<1>1. /\ feed' = [feed EXCEPT ![next] = [url |-> url, group |-> group]] /\ next \in Ids
      /\ next' = next + 1 /\ tasks' = Disturbed(a, t) /\ UNCHANGED <<owner, offered>>
  BY DEF Creates
<1>2. RowsHold /\ Present \subseteq Ids /\ next \notin Present
  BY <1>1 DEF SourcesInv, Present, RowsHold
<1>3. /\ feed'[next].url = url /\ feed'[next].group = group
      /\ \A j \in Ids \ {next} : feed'[j] = feed[j]
      /\ feed' \in [Ids -> [url : Urls \cup {NoUrl}, group : 0 .. MaxFeeds]]
  BY <1>1, <1>2 DEF RowsHold
<1>4. Present' = Present \cup {next}
  BY <1>1, <1>2, <1>3, SourcesKeys DEF Present
<1>5. next \in Nat /\ next' \in Nat /\ next < next' /\ next' \in 3 .. MaxFeeds + 1
  BY <1>1, <1>2, SourcesKeys DEF RowsHold, Ids
<1>6. RowsHold'
  <2>1. \A h \in Present : feed[h].url # url
    BY DEF Holders
  <2>2. \A j, k \in Present' : feed'[j].url = feed'[k].url => j = k
    BY <1>2, <1>3, <1>4, <2>1 DEF RowsHold
  <2>3. \A j \in Ids : feed'[j].group < next' /\ (j \in Present' => j < next')
    BY <1>1, <1>2, <1>3, <1>4, <1>5 DEF RowsHold, Ids
  <2>4. ASSUME NEW j \in Present', NEW k \in Present', Ungrouped(j)', feed'[k].group = j
        PROVE  j = k
    <3>1. j # NoId /\ j \in Ids /\ k \in Ids
      BY <1>1, <1>2, <1>4, SourcesKeys
    <3>2. j # next => Ungrouped(j)
      BY <1>3, <1>4, <2>4, <3>1 DEF Ungrouped
    <3>3. CASE k = next
      BY <1>3, <1>5, <2>4, <3>1, <3>2, <3>3
    <3>4. CASE k # next
      BY <1>2, <1>3, <1>4, <1>5, <2>4, <3>1, <3>2, <3>4 DEF RowsHold
    <3> QED BY <3>3, <3>4
  <2>5. offered' \subseteq Present'
    BY <1>1, <1>2, <1>4 DEF RowsHold
  <2> QED BY <1>1, <1>2, <1>3, <1>5, <2>2, <2>3, <2>4, <2>5 DEF RowsHold
<1>7. RowsGoOn
  <2>1. ASSUME NEW g \in Ids, g < next, Ungrouped(g)' PROVE Ungrouped(g)
    <3>1. g # next
      BY <1>5, <2>1
    <3> QED BY <1>3, <1>4, <2>1, <3>1 DEF Ungrouped
  <2> QED BY <1>1, <1>5, <2>1 DEF RowsGoOn
<1> QED BY <1>1, <1>6, <1>7, DisturbingKeeps

(* The organisations are offered more of what is there.                    *)
LEMMA OffersKeep ==
    ASSUME SourcesInv, NEW a \in Admins, NEW t \in Task, NEW more \in SUBSET Present,
           offered' = offered \cup more, tasks' = [tasks EXCEPT ![a] = t],
           UNCHANGED <<owner, feed, next>>, TaskInv(t)'
    PROVE  SourcesInv'
<1>1. RowsHold' /\ Present' = Present
  BY DEF SourcesInv, RowsHold, Ungrouped, Present
<1>2. \A s : TaskInv(s) => TaskInv(s)'
  <2> TAKE s
  <2>1. /\ TaskHolds(s)' <=> TaskHolds(s)
        /\ GroupStands(s)' <=> GroupStands(s)
        /\ AddressesHold(s)' <=> AddressesHold(s)
        /\ NewSource(s)' <=> NewSource(s)
        /\ AllGiven(s)' <=> AllGiven(s)
        /\ NoMembers(s)' <=> NoMembers(s)
    BY DEF TaskHolds, GroupStands, AddressesHold, NewSource, AllGiven, NoMembers, Through, Group,
           Key, Ungrouped, Present, Members, Spare
  <2>2. SheetHolds(s) => SheetHolds(s)'
    BY <1>1 DEF SheetHolds, LinesHold, KeptHold, NewHolds, Line
  <2>3. CatalogHolds(s) => CatalogHolds(s)'
    BY <1>1 DEF CatalogHolds, SourcesInv, RowsHold
  <2> QED BY <2>1, <2>2, <2>3 DEF TaskInv
<1>3. tasks' \in [Admins -> Task]
  BY DEF SourcesInv
<1>4. ASSUME NEW b \in Admins PROVE TaskInv(tasks[b])'
  <2>1. CASE b = a
    BY <2>1 DEF SourcesInv
  <2>2. CASE b # a
    <3>1. PICK s : s = tasks[b]
      OBVIOUS
    <3>2. TaskInv(s)
      BY <3>1 DEF SourcesInv
    <3>3. TaskInv(s)' /\ tasks'[b] = s
      BY <1>2, <2>2, <3>1, <3>2 DEF SourcesInv
    <3> QED BY <3>3
  <2> QED BY <2>1, <2>2
<1> QED BY <1>1, <1>3, <1>4 DEF SourcesInv
-----------------------------------------------------------------------------
(* The call goes on with the next line, or ends.                           *)
AtLine(n) ==
    /\ n \in Task /\ n.op = "sheet" /\ n.at = "line" /\ n.id = NoId /\ n.new = NoId
    /\ n.group = NoId /\ n.later = <<>> /\ n.used = {}

LEMMA AtLineInv ==
    ASSUME NEW n, AtLine(n), LinesHold(n)
    PROVE  /\ next \in 3 .. MaxFeeds + 1 /\ KeptHold(n) => TaskInv(n)
           /\ next' \in 3 .. MaxFeeds + 1 /\ KeptHold(n)' => TaskInv(n)'
<1>1. ASSUME next \in 3 .. MaxFeeds + 1, KeptHold(n) PROVE TaskInv(n)
  BY <1>1, SourcesKeys
     DEF AtLine, TaskInv, TaskHolds, GroupStands, SheetHolds, NewHolds, AddressesHold,
         NewSource, AllGiven, CatalogHolds, NoMembers, Members, Stages, Syncing, Adding
<1>2. ASSUME next' \in 3 .. MaxFeeds + 1, KeptHold(n)' PROVE TaskInv(n)'
  <2>1. LinesHold(n)'
    BY DEF LinesHold, Line
  <2> QED BY <1>2, <2>1, SourcesKeys
     DEF AtLine, TaskInv, TaskHolds, GroupStands, SheetHolds, NewHolds, AddressesHold,
         NewSource, AllGiven, CatalogHolds, NoMembers, Members, Stages, Syncing, Adding
<1> QED BY <1>1, <1>2

LEMMA NextLineTyped ==
    ASSUME NEW t \in Task, t.op = "sheet", t.k <= Len(t.file), LinesHold(t),
           NEW ok \in BOOLEAN, NEW saved \in SUBSET (Ids \cup {NoId}),
           Line(t).id \in saved \cup {NoId}
    PROVE  LET n == NextLine(t, ok, saved) IN
           /\ AtLine(n) /\ LinesHold(n) /\ n.quiet = t.quiet /\ (n.ok <=> t.ok /\ ok)
           /\ n.kept = t.kept \cup (saved \ {NoId}) /\ n.made = t.made
<1> DEFINE n == NextLine(t, ok, saved)
<1>1. /\ n.op = "sheet" /\ n.at = "line" /\ n.id = NoId /\ n.new = NoId
      /\ n.group = NoId /\ n.later = <<>> /\ n.used = {} /\ n.quiet = t.quiet
      /\ (n.ok <=> t.ok /\ ok)
      /\ n.kept = t.kept \cup (saved \ {NoId}) /\ n.made = t.made /\ n.k = t.k + 1
      /\ n.file = t.file
  BY DEF NextLine, Task
<1>2. n \in Task
  <2>1. t.k + 1 \in Nat \ {0}
    BY DEF Task
  <2>2. (t.ok /\ ok) \in BOOLEAN
    OBVIOUS
  <2>3. t.kept \cup (saved \ {NoId}) \in SUBSET Ids
    BY DEF Task
  <2>4. NoTask.members \in [Ids -> Urls \cup {NoUrl}]
    BY NoTaskTyped
  <2>5. <<>> \in Seq(Urls) /\ NoId \in 0 .. MaxFeeds
    BY SourcesKeys
  <2> QED BY <2>1, <2>2, <2>3, <2>4, <2>5 DEF NextLine, Task, Stage
<1> HIDE DEF n
<1>3. LinesHold(n)
  <2>1. t.k \in Nat
    BY DEF Task
  <2>2. \A j \in DOMAIN t.file : j < t.k => t.file[j].id \in t.kept \cup {NoId}
    BY DEF LinesHold
  <2>3. ASSUME NEW j \in DOMAIN n.file, j < n.k PROVE n.file[j].id \in n.kept \cup {NoId}
    <3>1. j \in Nat /\ j \in DOMAIN t.file
      BY <1>1 DEF Task
    <3>2. CASE j = t.k
      BY <1>1, <3>2 DEF Line
    <3>3. CASE j # t.k
      BY <1>1, <2>1, <2>2, <2>3, <3>1, <3>3
    <3> QED BY <3>2, <3>3
  <2>4. n.made \subseteq n.kept
    BY <1>1 DEF LinesHold
  <2> QED BY <1>1, <2>3, <2>4 DEF LinesHold
<1> QED BY <1>1, <1>2, <1>3 DEF AtLine, n

LEMMA LineTyped ==
    ASSUME NEW t \in Task, t.k <= Len(t.file)
    PROVE  /\ Line(t) \in SheetRow /\ Line(t).id \in {NoId, 1} /\ Line(t).id \in Ids \cup {NoId}
           /\ Line(t).url \in Urls \cup {NoUrl} /\ t.k \in DOMAIN t.file
<1>1. t.file \in Seq(SheetRow) /\ t.k \in 1 .. Len(t.file)
  BY DEF Task
<1>2. Line(t) \in SheetRow /\ t.k \in DOMAIN t.file
  BY <1>1, ElementOfSeq DEF Line
<1> QED BY <1>2, SourcesKeys DEF SheetRow

LEMMA FailsKeep ==
    ASSUME RowsHold, NEW t \in Task, TaskInv(t)
    PROVE  Fails(t) \in Task /\ TaskInv(Fails(t))
<1>1. CASE ~InLine(t)
  BY <1>1, NoTaskTyped, NoTaskInv DEF Fails
<1>2. CASE InLine(t)
  <2> DEFINE n == NextLine(t, FALSE, {Line(t).id})
  <2>1. t.op = "sheet" /\ t.k <= Len(t.file) /\ LinesHold(t)
    BY <1>2 DEF InLine, TaskInv, SheetHolds
  <2>2. {Line(t).id} \in SUBSET (Ids \cup {NoId})
    BY <2>1, LineTyped
  <2>3. AtLine(n) /\ LinesHold(n) /\ ~n.ok
    BY <2>1, <2>2, NextLineTyped
  <2> HIDE DEF n
  <2>4. TaskInv(n)
    BY <2>3, AtLineInv DEF KeptHold, RowsHold
  <2>5. Fails(t) = n
    BY <1>2 DEF Fails, n
  <2> QED BY <2>3, <2>4, <2>5 DEF AtLine
<1> QED BY <1>1, <1>2

(* A statement of a fails.                                                 *)
LEMMA FailedKeeps ==
    ASSUME SourcesInv, NEW a \in Admins,
           Reads(a, Fails(tasks[a])) \/ Reads(a, NoTask)
    PROVE  SourcesInv'
<1>1. tasks[a] \in Task /\ TaskInv(tasks[a]) /\ RowsHold
  BY DEF SourcesInv
<1>2. Fails(tasks[a]) \in Task /\ TaskInv(Fails(tasks[a])) /\ NoTask \in Task /\ TaskInv(NoTask)
  BY <1>1, FailsKeep, NoTaskTyped, NoTaskInv
<1> QED BY <1>2, ReadsKeep

(* Those that only read something, in a sheet.                             *)
LEMMA BadLineKeeps ==
    ASSUME SourcesInv, NEW a \in Admins, BadLine(a) \/ Fault(a) \/ Leave(a) PROVE SourcesInv'
BY FailedKeeps DEF BadLine, Fault, Leave

LEMMA UpdateLineKeeps == ASSUME SourcesInv, NEW a \in Admins, UpdateLine(a) PROVE SourcesInv'
<1>1. PICK t : t = tasks[a]
  OBVIOUS
<1>2. PICK n : n = [t EXCEPT !.at = "update", !.id = Line(t).id, !.url = Line(t).url]
  OBVIOUS
<1>3. t \in Task /\ TaskInv(t) /\ RowsHold
  BY <1>1 DEF SourcesInv
<1>4. /\ Reads(a, n) /\ t.at = "line" /\ t.k <= Len(t.file)
      /\ Line(t).url # NoUrl /\ Line(t).id # NoId
  BY <1>1, <1>2 DEF UpdateLine
<1>5. Line(t).id \in {NoId, 1} /\ Line(t).url \in Urls /\ Line(t).id \in 0 .. MaxFeeds
  BY <1>3, <1>4, LineTyped, SourcesKeys
<1>6. /\ n \in Task /\ n.at = "update" /\ n.id = Line(t).id /\ n.url = Line(t).url /\ n.op = t.op
      /\ n.new = t.new /\ n.group = t.group /\ n.want = t.want /\ n.file = t.file /\ n.k = t.k
      /\ n.later = t.later /\ n.kept = t.kept /\ n.made = t.made /\ n.ok = t.ok /\ n.used = t.used
      /\ n.quiet = t.quiet /\ n.members = t.members
  BY <1>2, <1>3, <1>5 DEF Task, Stage
<1>7. t.op = "sheet"
  BY <1>3, <1>4 DEF TaskInv, TaskHolds, Stages, Syncing, Task, TaskOps
<1>8. TaskHolds(n)
  BY <1>3, <1>4, <1>5, <1>6, <1>7, SourcesKeys DEF TaskInv, TaskHolds, Stages, Syncing, Adding,
     RowsHold
<1>9. SheetHolds(n)
  BY <1>3, <1>4, <1>6, <1>7 DEF TaskInv, SheetHolds, LinesHold, KeptHold, NewHolds, Line
<1>10. GroupStands(n) /\ AddressesHold(n) /\ NewSource(n) /\ AllGiven(n) /\ CatalogHolds(n)
       /\ NoMembers(n)
  BY <1>6, <1>7 DEF GroupStands, AddressesHold, NewSource, AllGiven, CatalogHolds, NoMembers,
     Syncing, Adding
<1>11. TaskInv(n)
  BY <1>8, <1>9, <1>10 DEF TaskInv
<1> QED BY <1>4, <1>6, <1>11, ReadsKeep
-----------------------------------------------------------------------------
LEMMA ListsTyped ==
    ASSUME NEW S, NEW s \in Lists(S, 2)
    PROVE  s \in Seq(S) /\ s # <<>> /\ Len(s) \in Nat /\ Len(s) >= 1 /\ s[1] \in S
           /\ DOMAIN s = 1 .. Len(s)
<1>1. PICK k \in 1 .. 2 : s \in [1 .. k -> S]
  BY DEF Lists
<1>2. s \in Seq(S) /\ Len(s) = k
  BY <1>1
<1> QED BY <1>1, <1>2

LEMMA UploadKeeps ==
    ASSUME SourcesInv, NEW a \in Admins, NEW file \in Lists(SheetRow, 2), Upload(a, file)
    PROVE  SourcesInv'
<1>1. PICK n : n = [NoTask EXCEPT !.op = "sheet", !.at = "line", !.file = file]
  OBVIOUS
<1>2. Reads(a, n)
  BY <1>1 DEF Upload
<1>3. n \in Task /\ AtLine(n) /\ n.kept = {} /\ n.made = {} /\ n.k = 1
  BY <1>1, NoTaskTyped, ListsTyped DEF Task, AtLine, TaskOps, Stage
<1>4. LinesHold(n)
  <2>1. \A j \in DOMAIN n.file : ~(j < 1)
    BY <1>3 DEF Task
  <2> QED BY <1>3, <2>1 DEF LinesHold, AtLine
<1>5. KeptHold(n)
  BY <1>3 DEF KeptHold, AtLine
<1> QED BY <1>2, <1>3, <1>4, <1>5, AtLineInv, ReadsKeep DEF SourcesInv, RowsHold

LEMMA CheckKeeps == ASSUME SourcesInv, NEW a \in Admins, Check(a) PROVE SourcesInv'
<1>1. PICK at : at = IF Cardinality(offered) >= Cardinality(Present) THEN "done" ELSE "all"
  OBVIOUS
<1>2. PICK n : n = [NoTask EXCEPT !.op = "check", !.at = at]
  OBVIOUS
<1>3. Reads(a, n)
  BY <1>1, <1>2 DEF Check
<1>4. n \in Task /\ n.op = "check" /\ n.at = at /\ n.id = NoId /\ n.new = NoId /\ n.group = NoId
      /\ n.later = <<>>
  BY <1>1, <1>2, NoTaskTyped DEF Task, TaskOps, Stage
<1>5. at = "done" => offered = Present
  <2>1. RowsHold /\ offered \subseteq Present /\ Present \subseteq Ids
    BY DEF SourcesInv, RowsHold, Present
  <2>2. IsFiniteSet(Ids)
    BY SourcesKeys, FS_Interval DEF Ids
  <2>3. IsFiniteSet(Present)
    BY <2>1, <2>2, FS_Subset
  <2>4. IsFiniteSet(offered) /\ (Cardinality(offered) = Cardinality(Present) => offered = Present)
    BY <2>1, <2>3, FS_Subset
  <2>5. Cardinality(offered) <= Cardinality(Present)
    BY <2>1, <2>3, FS_Subset
  <2>6. Cardinality(offered) \in Nat /\ Cardinality(Present) \in Nat
    BY <2>3, <2>4, FS_CardinalityType
  <2> QED BY <1>1, <2>4, <2>5, <2>6
<1>6. TaskInv(n)
  BY <1>1, <1>4, <1>5, SourcesKeys
     DEF SourcesInv, RowsHold, TaskInv, TaskHolds, GroupStands, SheetHolds, AddressesHold,
         NewSource, AllGiven, CatalogHolds, NoMembers, Members, Stages, Syncing, Adding
<1> QED BY <1>3, <1>4, <1>6, ReadsKeep

LEMMA EditKeeps ==
    ASSUME SourcesInv, NEW a \in Admins, NEW i \in Ids, NEW want \in Lists(Urls, 2), Edit(a, i,
           want)
    PROVE  SourcesInv'
<1>1. PICK n : n = [NoTask EXCEPT !.op = "edit", !.at = "update", !.id = i, !.want = want,
                                  !.url = want[1]]
  OBVIOUS
<1>2. Reads(a, n) /\ i \in Present
  BY <1>1 DEF Edit
<1>3. want \in Seq(Urls) /\ want # <<>> /\ want[1] \in Urls /\ i \in 0 .. MaxFeeds
  BY ListsTyped, SourcesKeys
<1>4. /\ n \in Task /\ n.op = "edit" /\ n.at = "update" /\ n.id = i /\ n.want = want
      /\ n.url = want[1] /\ n.used = {} /\ n.new = NoId /\ n.group = NoId /\ n.later = <<>>
  BY <1>1, <1>3, NoTaskTyped DEF Task, TaskOps, Stage
<1>5. i < next
  BY <1>2 DEF SourcesInv, RowsHold
<1>6. TaskInv(n)
  BY <1>3, <1>4, <1>5, SourcesKeys
     DEF SourcesInv, RowsHold, TaskInv, TaskHolds, GroupStands, SheetHolds, AddressesHold,
         NewSource, AllGiven, CatalogHolds, NoMembers, Members, Stages, Syncing, Adding
<1> QED BY <1>2, <1>4, <1>6, ReadsKeep

LEMMA AddKeeps ==
    ASSUME SourcesInv, NEW a \in Admins, NEW want \in Lists(Urls, 2), Add(a, want)
    PROVE  SourcesInv'
<1>1. PICK n : n = [NoTask EXCEPT !.op = "add", !.at = "create", !.want = want, !.url = want[1]]
  OBVIOUS
<1>2. Reads(a, n)
  BY <1>1 DEF Add
<1>3. want \in Seq(Urls) /\ want # <<>> /\ want[1] \in Urls
  BY ListsTyped
<1>4. /\ n \in Task /\ n.op = "add" /\ n.at = "create" /\ n.id = NoId /\ n.want = want
      /\ n.url = want[1] /\ n.used = {} /\ n.new = NoId /\ n.group = NoId /\ n.later = <<>>
      /\ n.members = [j \in Ids |-> NoUrl]
  BY <1>1, <1>3, NoTaskTyped DEF Task, TaskOps, Stage
<1>5. Members(n) = {}
  BY <1>4 DEF Members
<1>6. TaskInv(n)
  BY <1>3, <1>4, <1>5, SourcesKeys
     DEF SourcesInv, RowsHold, TaskInv, TaskHolds, GroupStands, SheetHolds, AddressesHold,
         NewSource, AllGiven, CatalogHolds, NoMembers, Members, Stages, Syncing, Adding
<1> QED BY <1>2, <1>4, <1>6, ReadsKeep

LEMMA DeleteKeeps ==
    ASSUME SourcesInv, NEW a \in Admins, NEW i \in Ids, Delete(a, i) PROVE SourcesInv'
<1>1. i \in Present /\ Writes(a, i, NoFeed, NoTask)
  BY DEF Delete
<1>2. owner' = owner /\ next' = next /\ next \in 3 .. MaxFeeds + 1
  BY <1>1 DEF Writes, SourcesInv, RowsHold
<1>3. TaskInv(NoTask)'
  BY <1>2, NoTaskTyped, SourcesKeys
     DEF TaskInv, TaskHolds, GroupStands, SheetHolds, AddressesHold,
         NewSource, AllGiven, CatalogHolds, NoMembers, Members, Stages, Syncing, Adding
<1> QED BY <1>1, <1>3, NoTaskTyped, WritesKeep

LEMMA CatalogKeeps ==
    ASSUME SourcesInv, NEW a \in Admins, ListAll(a) \/ OfferMissing(a) PROVE SourcesInv'
<1>1. PICK t : t = tasks[a]
  OBVIOUS
<1>2. t \in Task /\ TaskInv(t) /\ RowsHold
  BY <1>1 DEF SourcesInv
<1>3. CASE ListAll(a)
  <2>1. PICK n : n = [t EXCEPT !.at = "missing", !.todo = Present]
    OBVIOUS
  <2>2. Reads(a, n) /\ t.at = "all"
    BY <1>1, <1>3, <2>1 DEF ListAll
  <2>3. t.op = "check"
    BY <1>2, <2>2 DEF TaskInv, TaskHolds, Stages, Syncing, Task, TaskOps
  <2>4. /\ n \in Task /\ n.op = "check" /\ n.at = "missing" /\ n.todo = Present /\ n.id = t.id
        /\ n.new = t.new /\ n.group = t.group /\ n.later = t.later
    BY <1>2, <2>1, <2>3 DEF Task, Stage, Present
  <2>5. TaskInv(n)
    BY <1>2, <2>2, <2>4
       DEF TaskInv, TaskHolds, GroupStands, SheetHolds, AddressesHold, NewSource, AllGiven,
           CatalogHolds, NoMembers, Members, Stages, Syncing, Adding
  <2> QED BY <2>2, <2>4, <2>5, ReadsKeep
<1>4. CASE OfferMissing(a)
  <2>1. PICK n : n = [t EXCEPT !.at = "done", !.todo = {}]
    OBVIOUS
  <2>2. t.at = "missing"
    BY <1>1, <1>4 DEF OfferMissing
  <2>3. CASE Reads(a, NoTask)
    BY <1>1, <2>3, FailedKeeps
  <2>4. CASE /\ t.todo \subseteq Present /\ offered' = offered \cup t.todo
             /\ tasks' = [tasks EXCEPT ![a] = n] /\ UNCHANGED <<owner, feed, next>>
    <3>1. t.op = "check"
      BY <1>2, <2>2 DEF TaskInv, TaskHolds, Stages, Syncing, Task, TaskOps
    <3>2. /\ n \in Task /\ n.op = "check" /\ n.at = "done" /\ n.id = t.id
          /\ n.new = t.new /\ n.group = t.group /\ n.later = t.later /\ n.quiet = t.quiet
      BY <1>2, <2>1, <3>1 DEF Task, Stage
    <3>3. Present' = Present
      BY <2>4 DEF Present
    <3>4. t.quiet => offered' = Present'
      BY <1>2, <2>2, <2>4, <3>1, <3>3 DEF TaskInv, CatalogHolds, RowsHold
    <3>5. TaskInv(n)'
      BY <1>2, <2>2, <2>4, <3>2, <3>4
         DEF TaskInv, TaskHolds, GroupStands, SheetHolds, AddressesHold, NewSource, AllGiven,
             CatalogHolds, NoMembers, Members, Stages, Syncing, Adding
    <3> QED BY <2>4, <3>2, <3>5, OffersKeep
  <2> QED BY <1>1, <1>4, <2>1, <2>3, <2>4 DEF OfferMissing
<1> QED BY <1>3, <1>4
-----------------------------------------------------------------------------
(* The rows after a row that is there was given another address or group,  *)
(* after it was deleted, and after one was made.                           *)
LEMMA WritesRows ==
    ASSUME SourcesInv, NEW a \in Admins, NEW t, NEW i \in Present, NEW row, Writes(a, i, row, t)
    PROVE  /\ feed'[i] = row /\ \A j \in Ids \ {i} : feed'[j] = feed[j]
           /\ row.url \in Urls => Present' = Present
           /\ row = NoFeed => Present' = Present \ {i}
           /\ owner' = owner /\ next' = next /\ i \in Ids /\ next \in 3 .. MaxFeeds + 1
           /\ row.url \in Urls => offered' = offered
           /\ row = NoFeed => offered' = offered \ {i}
<1>1. i \in Ids /\ feed \in [Ids -> [url : Urls \cup {NoUrl}, group : 0 .. MaxFeeds]]
  BY DEF SourcesInv, RowsHold, Present
<1>2. feed'[i] = row /\ \A j \in Ids \ {i} : feed'[j] = feed[j]
  BY <1>1 DEF Writes
<1>3. (row.url \in Urls => row # NoFeed) /\ NoFeed.url = NoUrl /\ NoUrl \notin Urls
  BY SourcesKeys DEF NoFeed
<1>4. /\ row.url \in Urls => Present' = Present
      /\ row = NoFeed => Present' = Present \ {i}
  BY <1>1, <1>2, <1>3 DEF Present
<1>5. /\ owner' = owner /\ next' = next /\ next \in 3 .. MaxFeeds + 1
      /\ row.url \in Urls => offered' = offered
      /\ row = NoFeed => offered' = offered \ {i}
  BY <1>3 DEF Writes, SourcesInv, RowsHold
<1> QED BY <1>1, <1>2, <1>4, <1>5

LEMMA CreatesRows ==
    ASSUME SourcesInv, NEW a \in Admins, NEW t, NEW url \in Urls, NEW group,
           Creates(a, url, group, t)
    PROVE  /\ feed'[next] = [url |-> url, group |-> group] /\ next \in Ids
           /\ \A j \in Ids \ {next} : feed'[j] = feed[j]
           /\ Present' = Present \cup {next} /\ next \notin Present /\ next' = next + 1
           /\ owner' = owner /\ offered' = offered /\ next \in 3 .. MaxFeeds
           /\ \A j \in Ids : feed[j].group < next
<1>1. /\ next \in Ids /\ feed \in [Ids -> [url : Urls \cup {NoUrl}, group : 0 .. MaxFeeds]]
      /\ next \in 3 .. MaxFeeds + 1
      /\ \A j \in Ids : feed[j].group < next /\ (j \in Present => j < next)
  BY DEF Creates, SourcesInv, RowsHold
<1>2. /\ feed'[next] = [url |-> url, group |-> group]
      /\ \A j \in Ids \ {next} : feed'[j] = feed[j]
  BY <1>1 DEF Creates
<1>3. next \notin Present /\ next \in 3 .. MaxFeeds
  BY <1>1, SourcesKeys DEF Ids
<1>4. Present' = Present \cup {next}
  <2>1. feed'[next].url # NoUrl
    BY <1>2, SourcesKeys
  <2>2. \A j \in Ids : feed'[j].url # NoUrl <=> (feed[j].url # NoUrl \/ j = next)
    BY <1>2, <2>1
  <2> QED BY <1>1, <2>2 DEF Present
<1> QED BY <1>1, <1>2, <1>3, <1>4 DEF Creates

LEMMA SourceRowTyped ==
    ASSUME SourcesInv, NEW i \in Present
    PROVE  /\ i \in Ids /\ i \in 1 .. MaxFeeds /\ i < next /\ i # NoId
           /\ feed[i].url \in Urls /\ feed[i].group \in 0 .. MaxFeeds /\ feed[i].group < next
           /\ Key(i) \in 1 .. MaxFeeds /\ Key(i) < next /\ Key(i) # NoId
           /\ Holders(feed[i].url) \subseteq {i}
<1>1. i \in Ids /\ feed \in [Ids -> [url : Urls \cup {NoUrl}, group : 0 .. MaxFeeds]]
      /\ feed[i].url # NoUrl
  BY DEF SourcesInv, RowsHold, Present
<1>2. i < next /\ feed[i].group < next
  BY <1>1 DEF SourcesInv, RowsHold
<1>3. feed[i] \in [url : Urls \cup {NoUrl}, group : 0 .. MaxFeeds]
  BY <1>1
<1>4. feed[i].url \in Urls /\ feed[i].group \in 0 .. MaxFeeds
  BY <1>1, <1>3
<1>5. i # NoId /\ i \in 1 .. MaxFeeds
  BY <1>1, SourcesKeys DEF Ids
<1>6. Key(i) \in 1 .. MaxFeeds /\ Key(i) < next /\ Key(i) # NoId
  BY <1>2, <1>4, <1>5, SourcesKeys DEF Key, NoId
<1>7. Holders(feed[i].url) \subseteq {i}
  BY DEF Holders, SourcesInv, RowsHold
<1> QED BY <1>1, <1>2, <1>4, <1>5, <1>6, <1>7

(* The elements of a sequence are its first and those of the rest, and     *)
(* what is appended to it is one more.                                     *)
LEMMA HeadTail ==
    ASSUME NEW S, NEW s \in Seq(S), s # <<>>
    PROVE  /\ Head(s) \in S /\ Tail(s) \in Seq(S) /\ Head(s) = s[1]
           /\ Elements(s) = {Head(s)} \cup Elements(Tail(s))
<1>1. /\ Len(s) \in Nat /\ Len(s) >= 1 /\ DOMAIN s = 1 .. Len(s) /\ Head(s) = s[1]
      /\ Head(s) \in S /\ Tail(s) \in Seq(S)
  BY HeadTailProperties
<1>2. Len(Tail(s)) = Len(s) - 1 /\ \A j \in 1 .. Len(Tail(s)) : Tail(s)[j] = s[j + 1]
  BY HeadTailProperties
<1>3. DOMAIN Tail(s) = 1 .. Len(s) - 1
  BY <1>1, <1>2
<1>4. \A j \in DOMAIN s : s[j] \in {Head(s)} \cup Elements(Tail(s))
  <2> TAKE j \in DOMAIN s
  <2>1. CASE j = 1
    BY <1>1, <2>1
  <2>2. CASE j # 1
    <3>1. j - 1 \in DOMAIN Tail(s) /\ Tail(s)[j - 1] = s[j]
      BY <1>1, <1>2, <1>3, <2>2
    <3> QED BY <3>1 DEF Elements
  <2> QED BY <2>1, <2>2
<1>5. \A j \in DOMAIN Tail(s) : Tail(s)[j] \in Elements(s)
  <2> TAKE j \in DOMAIN Tail(s)
  <2>1. j + 1 \in DOMAIN s /\ Tail(s)[j] = s[j + 1]
    BY <1>1, <1>2, <1>3
  <2> QED BY <2>1 DEF Elements
<1>6. Head(s) \in Elements(s)
  BY <1>1 DEF Elements
<1>7. Elements(s) \subseteq {Head(s)} \cup Elements(Tail(s))
  BY <1>4 DEF Elements
<1>8. Elements(Tail(s)) \subseteq Elements(s)
  BY <1>5 DEF Elements
<1> QED BY <1>1, <1>6, <1>7, <1>8

LEMMA Appended ==
    ASSUME NEW S, NEW s \in Seq(S), NEW e \in S
    PROVE  Append(s, e) \in Seq(S) /\ Elements(Append(s, e)) = Elements(s) \cup {e}
<1>1. /\ Append(s, e) \in Seq(S) /\ DOMAIN s = 1 .. Len(s) /\ Len(s) \in Nat
      /\ DOMAIN Append(s, e) = 1 .. Len(s) + 1 /\ Append(s, e)[Len(s) + 1] = e
      /\ \A j \in 1 .. Len(s) : Append(s, e)[j] = s[j]
  BY AppendProperties
<1>2. Elements(Append(s, e)) \subseteq Elements(s) \cup {e}
  BY <1>1 DEF Elements
<1>3. Elements(s) \subseteq Elements(Append(s, e))
  BY <1>1 DEF Elements
<1>4. e \in Elements(Append(s, e))
  BY <1>1 DEF Elements
<1> QED BY <1>1, <1>2, <1>3, <1>4
-----------------------------------------------------------------------------
LEMMA CreateLineKeeps == ASSUME SourcesInv, NEW a \in Admins, CreateLine(a) PROVE SourcesInv'
<1>1. PICK t : t = tasks[a]
  OBVIOUS
<1>2. PICK n : n = [t EXCEPT !.at = "create", !.url = Line(t).url]
  OBVIOUS
<1>3. t \in Task /\ TaskInv(t) /\ RowsHold
  BY <1>1 DEF SourcesInv
<1>4. /\ Reads(a, n) /\ t.at = "line" /\ t.k <= Len(t.file)
      /\ Line(t).url # NoUrl /\ Line(t).id = NoId
  BY <1>1, <1>2 DEF CreateLine
<1>5. Line(t).url \in Urls
  BY <1>3, <1>4, LineTyped, SourcesKeys
<1>6. /\ n \in Task /\ n.at = "create" /\ n.url = Line(t).url
      /\ n.op = t.op /\ n.file = t.file /\ n.want = t.want /\ n.k = t.k /\ n.id = t.id
      /\ n.new = t.new /\ n.group = t.group /\ n.members = t.members /\ n.used = t.used
      /\ n.pending = t.pending /\ n.later = t.later /\ n.kept = t.kept /\ n.made = t.made
      /\ n.todo = t.todo /\ n.ok = t.ok /\ n.quiet = t.quiet
  BY <1>2, <1>3, <1>5 DEF Task, Stage
<1>7. t.op = "sheet"
  BY <1>3, <1>4 DEF TaskInv, TaskHolds, Stages, Syncing, Task, TaskOps
<1>8. TaskHolds(n)
  BY <1>3, <1>4, <1>5, <1>6, <1>7, SourcesKeys
     DEF TaskInv, TaskHolds, Stages, Syncing, Adding, RowsHold
<1>9. SheetHolds(n)
  BY <1>3, <1>4, <1>6, <1>7 DEF TaskInv, SheetHolds, LinesHold, KeptHold, NewHolds, Line
<1>10. /\ GroupStands(n) /\ AddressesHold(n) /\ NewSource(n) /\ AllGiven(n) /\ CatalogHolds(n)
       /\ NoMembers(n)
  BY <1>6, <1>7
     DEF GroupStands, AddressesHold, NewSource, AllGiven, CatalogHolds, NoMembers, Syncing, Adding
<1>11. TaskInv(n)
  BY <1>8, <1>9, <1>10 DEF TaskInv
<1> QED BY <1>4, <1>6, <1>11, ReadsKeep

LEMMA OfferMadeKeeps == ASSUME SourcesInv, NEW a \in Admins, OfferMade(a) PROVE SourcesInv'
<1>1. PICK t : t = tasks[a]
  OBVIOUS
<1>2. PICK n : n = [t EXCEPT !.at = "list"]
  OBVIOUS
<1>3. t \in Task /\ TaskInv(t) /\ RowsHold
  BY <1>1 DEF SourcesInv
<1>4. t.at = "line" /\ t.k > Len(t.file)
  BY <1>1 DEF OfferMade
<1>5. CASE Reads(a, NoTask)
  BY <1>5, FailedKeeps
<1>6. CASE /\ t.made \subseteq Present /\ offered' = offered \cup t.made
           /\ tasks' = [tasks EXCEPT ![a].at = "list"] /\ UNCHANGED <<owner, feed, next>>
  <2>1. tasks' = [tasks EXCEPT ![a] = n]
    BY <1>1, <1>2, <1>6 DEF SourcesInv
  <2>2. /\ n \in Task /\ n.at = "list"
        /\ n.op = t.op /\ n.file = t.file /\ n.want = t.want /\ n.k = t.k /\ n.id = t.id
        /\ n.new = t.new /\ n.group = t.group /\ n.url = t.url /\ n.members = t.members
        /\ n.used = t.used /\ n.pending = t.pending /\ n.later = t.later /\ n.kept = t.kept
        /\ n.made = t.made /\ n.todo = t.todo /\ n.ok = t.ok /\ n.quiet = t.quiet
    BY <1>2, <1>3 DEF Task, Stage
  <2>3. t.op = "sheet"
    BY <1>3, <1>4 DEF TaskInv, TaskHolds, Stages, Syncing, Task, TaskOps
  <2>4. TaskHolds(n)'
    BY <1>3, <1>4, <1>6, <2>2, <2>3 DEF TaskInv, TaskHolds, Stages, Syncing, Adding
  <2>5. SheetHolds(n)'
    <3>1. LinesHold(n)'
      BY <1>3, <1>4, <2>2, <2>3 DEF TaskInv, SheetHolds, LinesHold, Line, Task
    <3>2. Present' = Present
      BY <1>6 DEF Present
    <3>3. KeptHold(n)'
      BY <1>3, <1>6, <2>2, <2>3, <3>2 DEF TaskInv, SheetHolds, KeptHold
    <3> QED BY <2>2, <3>1, <3>3 DEF SheetHolds, NewHolds
  <2>6. /\ GroupStands(n)' /\ AddressesHold(n)' /\ NewSource(n)' /\ AllGiven(n)'
        /\ CatalogHolds(n)' /\ NoMembers(n)'
    BY <2>2, <2>3
       DEF GroupStands, AddressesHold, NewSource, AllGiven, CatalogHolds, NoMembers, Syncing, Adding
  <2>7. TaskInv(n)'
    BY <2>4, <2>5, <2>6 DEF TaskInv
  <2> QED BY <1>6, <2>1, <2>2, <2>7, OffersKeep
<1> QED BY <1>1, <1>5, <1>6 DEF OfferMade

LEMMA ListRestKeeps == ASSUME SourcesInv, NEW a \in Admins, ListRest(a) PROVE SourcesInv'
<1>1. PICK t : t = tasks[a]
  OBVIOUS
<1>2. PICK n : n = [t EXCEPT !.at = "rest", !.todo = Present \ t.kept]
  OBVIOUS
<1>3. t \in Task /\ TaskInv(t) /\ RowsHold
  BY <1>1 DEF SourcesInv
<1>4. Reads(a, n) /\ t.at = "list"
  BY <1>1, <1>2 DEF ListRest
<1>5. Present \ t.kept \in SUBSET Ids
  BY DEF Present
<1>6. /\ n \in Task /\ n.at = "rest" /\ n.todo = Present \ t.kept
      /\ n.op = t.op /\ n.file = t.file /\ n.want = t.want /\ n.k = t.k /\ n.id = t.id
      /\ n.new = t.new /\ n.group = t.group /\ n.url = t.url /\ n.members = t.members
      /\ n.used = t.used /\ n.pending = t.pending /\ n.later = t.later /\ n.kept = t.kept
      /\ n.made = t.made /\ n.ok = t.ok /\ n.quiet = t.quiet
  BY <1>2, <1>3, <1>5 DEF Task, Stage
<1>7. t.op = "sheet"
  BY <1>3, <1>4 DEF TaskInv, TaskHolds, Stages, Syncing, Task, TaskOps
<1>8. TaskHolds(n)
  BY <1>3, <1>4, <1>6, <1>7 DEF TaskInv, TaskHolds, Stages, Syncing, Adding, RowsHold
<1>9. SheetHolds(n)
  BY <1>3, <1>4, <1>6, <1>7 DEF TaskInv, SheetHolds, LinesHold, KeptHold, NewHolds, Line
<1>10. /\ GroupStands(n) /\ AddressesHold(n) /\ NewSource(n) /\ AllGiven(n) /\ CatalogHolds(n)
       /\ NoMembers(n)
  BY <1>6, <1>7
     DEF GroupStands, AddressesHold, NewSource, AllGiven, CatalogHolds, NoMembers, Syncing, Adding
<1>11. TaskInv(n)
  BY <1>8, <1>9, <1>10 DEF TaskInv
<1> QED BY <1>4, <1>6, <1>11, ReadsKeep

LEMMA DeleteRestKeeps ==
    ASSUME SourcesInv, NEW a \in Admins, NEW i \in Ids, DeleteRest(a, i) PROVE SourcesInv'
<1>1. PICK t : t = tasks[a]
  OBVIOUS
<1>2. t \in Task /\ TaskInv(t) /\ RowsHold
  BY <1>1 DEF SourcesInv
<1>3. t.at = "rest" /\ i \in t.todo
  BY <1>1 DEF DeleteRest
<1>4. t.op = "sheet"
  BY <1>2, <1>3 DEF TaskInv, TaskHolds, Stages, Syncing, Task, TaskOps
<1>5. t.todo \ {i} \in SUBSET Ids
  BY <1>2 DEF Task
<1>6. CASE i \in Present /\ Writes(a, i, NoFeed, [t EXCEPT !.todo = @ \ {i}])
  <2>1. PICK n : n = [t EXCEPT !.todo = @ \ {i}]
    OBVIOUS
  <2>2. Writes(a, i, NoFeed, n) /\ i \in Present
    BY <1>6, <2>1
  <2>3. /\ n \in Task /\ n.todo = t.todo \ {i}
        /\ n.op = t.op /\ n.at = t.at /\ n.file = t.file /\ n.want = t.want /\ n.k = t.k
        /\ n.id = t.id /\ n.new = t.new /\ n.group = t.group /\ n.url = t.url
        /\ n.members = t.members /\ n.used = t.used /\ n.pending = t.pending /\ n.later = t.later
        /\ n.kept = t.kept /\ n.made = t.made /\ n.ok = t.ok /\ n.quiet = t.quiet
    BY <1>2, <1>5, <2>1 DEF Task
  <2>4. /\ Present' = Present \ {i} /\ owner' = owner /\ next' = next /\ offered' = offered \ {i}
    BY <2>2, WritesRows
  <2>5. TaskHolds(n)'
    BY <1>2, <1>3, <1>4, <2>3, <2>4 DEF TaskInv, TaskHolds, Stages, Syncing, Adding
  <2>6. SheetHolds(n)'
    <3>1. LinesHold(n)'
      BY <1>2, <1>3, <1>4, <2>3 DEF TaskInv, SheetHolds, LinesHold, Line
    <3>2. KeptHold(n)'
      BY <1>2, <1>3, <1>4, <2>3, <2>4 DEF TaskInv, SheetHolds, LinesHold, KeptHold
    <3> QED BY <1>3, <2>3, <3>1, <3>2 DEF SheetHolds, NewHolds
  <2>7. /\ GroupStands(n)' /\ AddressesHold(n)' /\ NewSource(n)' /\ AllGiven(n)'
        /\ CatalogHolds(n)' /\ NoMembers(n)'
    BY <1>3, <1>4, <2>3
       DEF GroupStands, AddressesHold, NewSource, AllGiven, CatalogHolds, NoMembers, Syncing, Adding
  <2>8. TaskInv(n)'
    BY <2>5, <2>6, <2>7 DEF TaskInv
  <2> QED BY <2>2, <2>3, <2>8, WritesKeep
<1>7. CASE Reads(a, [t EXCEPT !.todo = @ \ {i}, !.ok = FALSE])
  <2>1. PICK n : n = [t EXCEPT !.todo = @ \ {i}, !.ok = FALSE]
    OBVIOUS
  <2>2. Reads(a, n)
    BY <1>7, <2>1
  <2>3. /\ n \in Task /\ n.todo = t.todo \ {i} /\ n.ok = FALSE
        /\ n.op = t.op /\ n.at = t.at /\ n.file = t.file /\ n.want = t.want /\ n.k = t.k
        /\ n.id = t.id /\ n.new = t.new /\ n.group = t.group /\ n.url = t.url
        /\ n.members = t.members /\ n.used = t.used /\ n.pending = t.pending /\ n.later = t.later
        /\ n.kept = t.kept /\ n.made = t.made /\ n.quiet = t.quiet
    BY <1>2, <1>5, <2>1 DEF Task
  <2>4. TaskHolds(n)
    BY <1>2, <1>3, <1>4, <2>3 DEF TaskInv, TaskHolds, Stages, Syncing, Adding
  <2>5. SheetHolds(n)
    BY <1>2, <1>3, <1>4, <2>3 DEF TaskInv, SheetHolds, LinesHold, KeptHold, NewHolds, Line
  <2>6. /\ GroupStands(n) /\ AddressesHold(n) /\ NewSource(n) /\ AllGiven(n)
        /\ CatalogHolds(n) /\ NoMembers(n)
    BY <1>3, <1>4, <2>3
       DEF GroupStands, AddressesHold, NewSource, AllGiven, CatalogHolds, NoMembers, Syncing, Adding
  <2>7. TaskInv(n)
    BY <2>4, <2>5, <2>6 DEF TaskInv
  <2> QED BY <2>2, <2>3, <2>7, ReadsKeep
<1> QED BY <1>1, <1>6, <1>7 DEF DeleteRest

LEMMA UploadedKeeps == ASSUME SourcesInv, NEW a \in Admins, Uploaded(a) PROVE SourcesInv'
<1>1. PICK t : t = tasks[a]
  OBVIOUS
<1>2. PICK n : n = [t EXCEPT !.at = "done"]
  OBVIOUS
<1>3. t \in Task /\ TaskInv(t) /\ RowsHold
  BY <1>1 DEF SourcesInv
<1>4. Reads(a, n) /\ t.at = "rest" /\ t.todo = {}
  BY <1>1, <1>2 DEF Uploaded
<1>5. /\ n \in Task /\ n.at = "done"
      /\ n.op = t.op /\ n.file = t.file /\ n.want = t.want /\ n.k = t.k /\ n.id = t.id
      /\ n.new = t.new /\ n.group = t.group /\ n.url = t.url /\ n.members = t.members
      /\ n.used = t.used /\ n.pending = t.pending /\ n.later = t.later /\ n.kept = t.kept
      /\ n.made = t.made /\ n.todo = t.todo /\ n.ok = t.ok /\ n.quiet = t.quiet
  BY <1>2, <1>3 DEF Task, Stage
<1>6. t.op = "sheet"
  BY <1>3, <1>4 DEF TaskInv, TaskHolds, Stages, Syncing, Task, TaskOps
<1>7. TaskHolds(n)
  BY <1>3, <1>4, <1>5, <1>6 DEF TaskInv, TaskHolds, Stages, Syncing, Adding
<1>8. SheetHolds(n)
  BY <1>3, <1>4, <1>5, <1>6 DEF TaskInv, SheetHolds, LinesHold, KeptHold, NewHolds, Line
<1>9. /\ GroupStands(n) /\ AddressesHold(n) /\ NewSource(n) /\ AllGiven(n) /\ CatalogHolds(n)
      /\ NoMembers(n)
  BY <1>5, <1>6
     DEF GroupStands, AddressesHold, NewSource, AllGiven, CatalogHolds, NoMembers, Syncing, Adding
<1>10. TaskInv(n)
  BY <1>7, <1>8, <1>9 DEF TaskInv
<1> QED BY <1>4, <1>5, <1>10, ReadsKeep
-----------------------------------------------------------------------------
(* A line of the file is done with, its source saved.                      *)
LEMMA SavedLine ==
    ASSUME next' \in 3 .. MaxFeeds + 1, NEW t \in Task, TaskInv(t), t.op = "sheet",
           t.k <= Len(t.file),
           NEW i \in Ids, Line(t).id \in {i, NoId}, Present \subseteq Present', i \in Present'
    PROVE  /\ NextLine(t, TRUE, {i}) \in Task /\ TaskInv(NextLine(t, TRUE, {i}))'
<1> DEFINE n == NextLine(t, TRUE, {i})
<1>1. LinesHold(t) /\ KeptHold(t)
  BY DEF TaskInv, SheetHolds
<1>2. /\ {i} \in SUBSET (Ids \cup {NoId}) /\ Line(t).id \in {i} \cup {NoId} /\ TRUE \in BOOLEAN
      /\ {i} \ {NoId} = {i}
  BY SourcesKeys
<1>3. /\ AtLine(n) /\ LinesHold(n) /\ n.quiet = t.quiet /\ (n.ok <=> t.ok /\ TRUE)
      /\ n.kept = t.kept \cup ({i} \ {NoId}) /\ n.made = t.made
  BY <1>1, <1>2, NextLineTyped
<1> HIDE DEF n
<1>4. KeptHold(n)'
  BY <1>1, <1>2, <1>3 DEF KeptHold, AtLine
<1>5. TaskInv(n)'
  BY <1>3, <1>4, AtLineInv
<1> QED BY <1>3, <1>5 DEF AtLine, n

LEMMA LookKeeps == ASSUME SourcesInv, NEW a \in Admins, Look(a) PROVE SourcesInv'
<1>1. PICK t : t = tasks[a]
  OBVIOUS
<1>2. t \in Task /\ TaskInv(t) /\ RowsHold
  BY <1>1 DEF SourcesInv
<1>3. t.at = "update"
  BY <1>1 DEF Look
<1>4. CASE Reads(a, Fails(t))
  BY <1>1, <1>4, FailedKeeps
<1>5. ASSUME NEW u \in Urls, NEW n, n = [t EXCEPT !.at = "write", !.url = u], Reads(a, n)
      PROVE  SourcesInv'
  <2>1. /\ n \in Task /\ n.at = "write" /\ n.url = u
        /\ n.op = t.op /\ n.file = t.file /\ n.want = t.want /\ n.k = t.k /\ n.id = t.id
        /\ n.new = t.new /\ n.group = t.group /\ n.members = t.members /\ n.used = t.used
        /\ n.pending = t.pending /\ n.later = t.later /\ n.kept = t.kept /\ n.made = t.made
        /\ n.todo = t.todo /\ n.ok = t.ok /\ n.quiet = t.quiet
    BY <1>2, <1>5 DEF Task, Stage
  <2>2. t.op \in {"sheet", "edit"}
    BY <1>2, <1>3 DEF TaskInv, TaskHolds, Stages, Syncing, Task, TaskOps
  <2>3. TaskHolds(n)
    BY <1>2, <1>3, <2>1, <2>2, SourcesKeys DEF TaskInv, TaskHolds, Stages, Syncing, Adding
  <2>4. SheetHolds(n)
    BY <1>2, <1>3, <2>1, <2>2 DEF TaskInv, SheetHolds, LinesHold, KeptHold, NewHolds, Line
  <2>5. /\ GroupStands(n) /\ AddressesHold(n) /\ NewSource(n) /\ AllGiven(n)
        /\ CatalogHolds(n) /\ NoMembers(n)
    BY <2>1, <2>2
       DEF GroupStands, AddressesHold, NewSource, AllGiven, CatalogHolds, NoMembers, Syncing, Adding
  <2>6. TaskInv(n)
    BY <2>3, <2>4, <2>5 DEF TaskInv
  <2> QED BY <1>5, <2>1, <2>6, ReadsKeep
<1>6. CASE /\ t.id \in Present
           /\ Reads(a, [t EXCEPT !.at = "write",
                   !.url = IF Holders(t.url) \ {t.id} = {} THEN @ ELSE feed[t.id].url])
  <2>1. PICK u : u = IF Holders(t.url) \ {t.id} = {} THEN t.url ELSE feed[t.id].url
    OBVIOUS
  <2>2. u \in Urls
    BY <1>2, <1>3, <1>6, <2>1, SourceRowTyped DEF TaskInv, TaskHolds
  <2>3. PICK n : n = [t EXCEPT !.at = "write", !.url = u]
    OBVIOUS
  <2>4. Reads(a, n)
    BY <1>6, <2>1, <2>3
  <2> QED BY <1>5, <2>2, <2>3, <2>4
<1> QED BY <1>1, <1>4, <1>6 DEF Look

LEMMA UpdateKeeps == ASSUME SourcesInv, NEW a \in Admins, Update(a) PROVE SourcesInv'
<1>1. PICK t : t = tasks[a]
  OBVIOUS
<1>2. t \in Task /\ TaskInv(t) /\ RowsHold
  BY <1>1 DEF SourcesInv
<1>3. PICK i : i = t.id
  OBVIOUS
<1>4. PICK row : row = [url |-> t.url, group |-> OwnGroup(t, i)]
  OBVIOUS
<1>5. t.at = "write" /\ t.url \in Urls
  BY <1>1, <1>2 DEF Update, TaskInv, TaskHolds
<1>6. t.op \in {"sheet", "edit"}
  BY <1>2, <1>5 DEF TaskInv, TaskHolds, Stages, Syncing, Task, TaskOps
<1>7. CASE Reads(a, Fails(t))
  BY <1>1, <1>7, FailedKeeps
<1>8. ASSUME i \in Present, Holders(t.url) \subseteq {i}, NEW n \in Task, Writes(a, i, row, n),
             (/\ owner' = owner /\ next' = next /\ Present' = Present /\ feed'[i] = row
              /\ row.url \in Urls /\ (owner = "platform" => row.group # NoId))
                => TaskInv(n)'
      PROVE  SourcesInv'
  <2>1. /\ i \in Ids /\ i \in 1 .. MaxFeeds /\ i < next /\ i # NoId
        /\ feed[i].group \in 0 .. MaxFeeds /\ feed[i].group < next
        /\ Key(i) \in 1 .. MaxFeeds /\ Key(i) < next /\ Key(i) # NoId
    BY <1>8, SourceRowTyped
  <2>2. row.url = t.url /\ row.group = OwnGroup(t, i)
    BY <1>4
  <2>3. row.group \in {feed[i].group, Key(i)}
    BY <2>2 DEF OwnGroup
  <2>4. row \in [url : Urls, group : 0 .. MaxFeeds] /\ row.group < next
    BY <1>4, <1>5, <2>1, <2>2, <2>3
  <2>5. row.group = NoId => feed[i].group = NoId
    BY <2>1, <2>3
  <2>6. row.group # NoId /\ row.group # i => ~Ungrouped(row.group)
    BY <1>2, <1>8, <2>1, <2>3 DEF RowsHold, Key, Ungrouped
  <2>7. owner = "platform" => row.group # NoId
    BY <2>1, <2>2 DEF OwnGroup
  <2>8. /\ owner' = owner /\ next' = next /\ Present' = Present /\ feed'[i] = row
    BY <1>5, <1>8, <2>2, WritesRows
  <2>9. TaskInv(n)'
    BY <1>5, <1>8, <2>2, <2>7, <2>8
  <2> QED BY <1>8, <2>2, <2>4, <2>5, <2>6, <2>9, WritesKeep
<1>9. CASE /\ i \in Present /\ Holders(t.url) \subseteq {i}
           /\ Writes(a, i, row, IF t.op = "sheet" THEN NextLine(t, TRUE, {i})
                                ELSE [t EXCEPT !.at = "roster"])
  <2>0. i \in Ids /\ row.url \in Urls
    BY <1>4, <1>5, <1>9 DEF Present
  <2>1. CASE t.op = "sheet"
    <3>1. PICK n : n = NextLine(t, TRUE, {i})
      OBVIOUS
    <3>2. Writes(a, i, row, n)
      BY <1>9, <2>1, <3>1
    <3>3. t.k <= Len(t.file) /\ Line(t).id = i
      BY <1>2, <1>3, <1>5, <2>1 DEF TaskInv, SheetHolds, LinesHold
    <3>4. ASSUME next' = next, Present' = Present PROVE n \in Task /\ TaskInv(n)'
      BY <1>2, <1>9, <2>0, <2>1, <3>1, <3>3, <3>4, SavedLine DEF RowsHold
    <3>5. n \in Task /\ TaskInv(n)'
      BY <1>9, <2>0, <3>2, <3>4, WritesRows
    <3> QED BY <1>8, <1>9, <3>2, <3>4, <3>5
  <2>2. CASE t.op = "edit"
    <3>1. PICK n : n = [t EXCEPT !.at = "roster"]
      OBVIOUS
    <3>2. Writes(a, i, row, n)
      BY <1>9, <2>2, <3>1
    <3>3. /\ n \in Task /\ n.at = "roster"
          /\ n.op = t.op /\ n.file = t.file /\ n.want = t.want /\ n.k = t.k /\ n.id = t.id
          /\ n.new = t.new /\ n.group = t.group /\ n.url = t.url /\ n.members = t.members
          /\ n.used = t.used /\ n.pending = t.pending /\ n.later = t.later /\ n.kept = t.kept
          /\ n.made = t.made /\ n.todo = t.todo /\ n.ok = t.ok /\ n.quiet = t.quiet
      BY <1>2, <3>1 DEF Task, Stage
    <3>4. ASSUME owner' = owner, next' = next, feed'[i] = row,
           owner = "platform" => row.group # NoId
          PROVE  TaskInv(n)'
      <4>1. TaskHolds(n)'
        BY <1>2, <1>5, <2>2, <3>3, <3>4 DEF TaskInv, TaskHolds, Stages, Syncing, Adding
      <4>2. GroupStands(n)'
        BY <1>3, <3>3, <3>4 DEF GroupStands, Syncing, Adding, Ungrouped
      <4> QED BY <2>2, <3>3, <4>1, <4>2
              DEF TaskInv, SheetHolds, AddressesHold, NewSource, AllGiven, CatalogHolds, NoMembers,
                  Syncing, Adding
    <3> QED BY <1>8, <1>9, <3>2, <3>3, <3>4
  <2> QED BY <1>6, <2>1, <2>2
<1> QED BY <1>1, <1>3, <1>4, <1>7, <1>9 DEF Update
-----------------------------------------------------------------------------
LEMMA CreateKeeps == ASSUME SourcesInv, NEW a \in Admins, Create(a) PROVE SourcesInv'
<1>1. PICK t : t = tasks[a]
  OBVIOUS
<1>2. t \in Task /\ TaskInv(t) /\ RowsHold
  BY <1>1 DEF SourcesInv
<1>3. t.at = "create" /\ t.url \in Urls
  BY <1>1, <1>2 DEF Create, TaskInv, TaskHolds
<1>4. t.op \in {"sheet", "add"}
  BY <1>2, <1>3 DEF TaskInv, TaskHolds, Stages, Syncing, Task, TaskOps
<1>5. CASE Reads(a, Fails(t))
  BY <1>1, <1>5, FailedKeeps
<1>6. PICK want : want = IF t.op = "sheet" THEN <<t.url>> ELSE t.want
  OBVIOUS
<1>7. want \in Seq(Urls) /\ want # <<>>
  BY <1>2, <1>3, <1>4, <1>6 DEF Task, TaskInv, TaskHolds
<1>8. NoId \in 0 .. MaxFeeds /\ NoId < next
  BY <1>2, SourcesKeys DEF RowsHold
<1>9. CASE owner = "organisation" /\ Holders(t.url) = {}
  <2>1. PICK n : n = [t EXCEPT !.at = "roster", !.id = next, !.new = next, !.want = want]
    OBVIOUS
  <2>2. ASSUME Creates(a, t.url, NoId, n) PROVE SourcesInv'
    <3>1. /\ feed'[next].url = t.url /\ feed'[next].group = NoId /\ next \in Ids
          /\ Present' = Present \cup {next} /\ next' = next + 1
          /\ owner' = owner /\ next \in 3 .. MaxFeeds
      <4>1. /\ feed'[next] = [url |-> t.url, group |-> NoId] /\ next \in Ids
            /\ Present' = Present \cup {next} /\ next' = next + 1
            /\ owner' = owner /\ next \in 3 .. MaxFeeds
        BY <1>3, <2>2, CreatesRows
      <4> QED BY <4>1
    <3>2. next \in 0 .. MaxFeeds
      BY <3>1, SourcesKeys
    <3>3. /\ n \in Task /\ n.at = "roster" /\ n.id = next /\ n.new = next /\ n.want = want
          /\ n.op = t.op /\ n.file = t.file /\ n.k = t.k /\ n.group = t.group /\ n.url = t.url
          /\ n.members = t.members /\ n.used = t.used /\ n.pending = t.pending
          /\ n.later = t.later /\ n.kept = t.kept /\ n.made = t.made /\ n.todo = t.todo
          /\ n.ok = t.ok /\ n.quiet = t.quiet
      BY <1>2, <1>7, <2>1, <3>2 DEF Task, Stage
    <3>4. TaskHolds(n)'
      BY <1>2, <1>3, <1>4, <1>7, <1>9, <3>1, <3>3
         DEF TaskInv, TaskHolds, Stages, Syncing, Adding, Task
    <3>5. GroupStands(n)'
      BY <1>9, <3>1, <3>3 DEF GroupStands, Syncing, Adding
    <3>6. SheetHolds(n)'
      BY <1>2, <1>3, <1>6, <3>1, <3>3
         DEF TaskInv, SheetHolds, LinesHold, KeptHold, NewHolds, Line
    <3>7. /\ AddressesHold(n)' /\ NewSource(n)' /\ AllGiven(n)' /\ CatalogHolds(n)' /\ NoMembers(n)'
      BY <1>4, <1>9, <3>1, <3>3
         DEF AddressesHold, NewSource, AllGiven, CatalogHolds, NoMembers, Syncing, Adding
    <3>8. TaskInv(n)'
      BY <3>4, <3>5, <3>6, <3>7 DEF TaskInv
    <3> QED BY <1>3, <1>8, <1>9, <2>2, <3>3, <3>8, CreatesKeep
  <2>3. Reads(a, Fails(t)) \/ Creates(a, t.url, NoId, n)
    BY <1>1, <1>6, <1>9, <2>1 DEF Create
  <2> QED BY <1>5, <2>2, <2>3
<1>10. CASE owner = "platform" /\ Holders(t.url) = {}
  <2>1. PICK n : n = [t EXCEPT !.at = IF t.op = "sheet" THEN "own" ELSE "offer", !.new = next]
    OBVIOUS
  <2>2. ASSUME Creates(a, t.url, NoId, n) PROVE SourcesInv'
    <3>1. /\ feed'[next].url = t.url /\ feed'[next].group = NoId /\ next \in Ids
          /\ Present' = Present \cup {next} /\ next' = next + 1
          /\ owner' = owner /\ next \in 3 .. MaxFeeds
          /\ \A j \in Ids \ {next} : feed'[j] = feed[j]
          /\ \A j \in Ids : feed[j].group < next
      <4>1. /\ feed'[next] = [url |-> t.url, group |-> NoId] /\ next \in Ids
            /\ Present' = Present \cup {next} /\ next' = next + 1
            /\ owner' = owner /\ next \in 3 .. MaxFeeds
        BY <1>3, <2>2, CreatesRows
      <4>2. \A j \in Ids \ {next} : feed'[j] = feed[j]
        BY <1>3, <2>2, CreatesRows
      <4>3. \A j \in Ids : feed[j].group < next
        BY <1>2 DEF RowsHold
      <4> QED BY <4>1, <4>2, <4>3
    <3>2. next \in 0 .. MaxFeeds
      BY <3>1, SourcesKeys
    <3>3. /\ n \in Task /\ n.at \in {"own", "offer"} /\ (n.at = "own" <=> t.op = "sheet")
          /\ n.new = next
          /\ n.op = t.op /\ n.file = t.file /\ n.want = t.want /\ n.k = t.k /\ n.id = t.id
          /\ n.group = t.group /\ n.url = t.url /\ n.members = t.members /\ n.used = t.used
          /\ n.pending = t.pending /\ n.later = t.later /\ n.kept = t.kept /\ n.made = t.made
          /\ n.todo = t.todo /\ n.ok = t.ok /\ n.quiet = t.quiet
      BY <1>2, <2>1, <3>2 DEF Task, Stage
    <3>4. TaskHolds(n)'
      BY <1>2, <1>3, <1>4, <1>10, <3>1, <3>3
         DEF TaskInv, TaskHolds, Stages, Syncing, Adding, Task
    <3>5. GroupStands(n)'
      BY <1>2, <1>3, <3>1, <3>3, SourcesKeys DEF TaskInv, TaskHolds, GroupStands, Syncing, Adding
    <3>6. SheetHolds(n)'
      BY <1>2, <1>3, <3>1, <3>3
         DEF TaskInv, SheetHolds, LinesHold, KeptHold, NewHolds, Line
    <3>7. AddressesHold(n)' /\ AllGiven(n)' /\ CatalogHolds(n)'
      BY <1>2, <1>3, <1>4, <3>1, <3>3 DEF TaskInv, TaskHolds, AddressesHold, AllGiven, CatalogHolds
    <3>8. NewSource(n)'
      <4>1. \A j \in Present' : feed'[j].group = next => j = next
        <5> SUFFICES ASSUME NEW j \in Ids, feed'[j].group = next, j # next PROVE FALSE
          BY DEF Present
        <5>1. feed[j].group < next /\ feed[j].group = next
          BY <3>1
        <5> QED BY <3>1, <5>1
      <4> QED BY <1>2, <1>3, <3>1, <3>3, <4>1 DEF TaskInv, TaskHolds, NewSource
    <3>9. NoMembers(n)'
      BY <1>2, <3>1, <3>3 DEF TaskInv, NoMembers, Members
    <3>10. TaskInv(n)'
      BY <3>4, <3>5, <3>6, <3>7, <3>8, <3>9 DEF TaskInv
    <3> QED BY <1>3, <1>8, <1>10, <2>2, <3>3, <3>10, CreatesKeep
  <2>3. Reads(a, Fails(t)) \/ Creates(a, t.url, NoId, n)
    BY <1>1, <1>10, <2>1 DEF Create
  <2> QED BY <1>5, <2>2, <2>3
<1>11. Holders(t.url) # {} => Reads(a, Fails(t))
  BY <1>1 DEF Create
<1> QED BY <1>2, <1>5, <1>9, <1>10, <1>11 DEF RowsHold

LEMMA OfferKeeps == ASSUME SourcesInv, NEW a \in Admins, Offer(a) PROVE SourcesInv'
<1>1. PICK t : t = tasks[a]
  OBVIOUS
<1>2. PICK n : n = [t EXCEPT !.at = "own"]
  OBVIOUS
<1>3. t \in Task /\ TaskInv(t) /\ RowsHold
  BY <1>1 DEF SourcesInv
<1>4. t.at = "offer"
  BY <1>1 DEF Offer
<1>5. CASE Reads(a, Fails(t))
  BY <1>1, <1>5, FailedKeeps
<1>6. CASE /\ t.new \in Present /\ offered' = offered \cup {t.new}
           /\ tasks' = [tasks EXCEPT ![a].at = "own"] /\ UNCHANGED <<owner, feed, next>>
  <2>1. tasks' = [tasks EXCEPT ![a] = n]
    BY <1>1, <1>2, <1>6 DEF SourcesInv
  <2>2. /\ n \in Task /\ n.at = "own"
        /\ n.op = t.op /\ n.file = t.file /\ n.want = t.want /\ n.k = t.k /\ n.id = t.id
        /\ n.new = t.new /\ n.group = t.group /\ n.url = t.url /\ n.members = t.members
        /\ n.used = t.used /\ n.pending = t.pending /\ n.later = t.later /\ n.kept = t.kept
        /\ n.made = t.made /\ n.todo = t.todo /\ n.ok = t.ok /\ n.quiet = t.quiet
    BY <1>2, <1>3 DEF Task, Stage
  <2>3. t.op \in {"edit", "add"}
    BY <1>3, <1>4 DEF TaskInv, TaskHolds, Stages, Syncing, Task, TaskOps
  <2>4. TaskHolds(n)'
    BY <1>3, <1>4, <1>6, <2>2, <2>3 DEF TaskInv, TaskHolds, Stages, Syncing, Adding
  <2>5. GroupStands(n)'
    BY <1>3, <1>4, <1>6, <2>2 DEF TaskInv, GroupStands, Syncing, Adding, Ungrouped, Present
  <2>6. AddressesHold(n)'
    BY <1>3, <1>4, <1>6, <2>2
       DEF TaskInv, AddressesHold, Syncing, Adding, Through, Group, Key, Spare, Members, Present
  <2>7. NewSource(n)'
    BY <1>3, <1>4, <1>6, <2>2 DEF TaskInv, NewSource, Present
  <2>8. SheetHolds(n)' /\ AllGiven(n)' /\ CatalogHolds(n)'
    BY <2>2, <2>3 DEF SheetHolds, AllGiven, CatalogHolds
  <2>9. NoMembers(n)'
    BY <1>3, <1>6, <2>2 DEF TaskInv, NoMembers, Members
  <2>10. TaskInv(n)'
    BY <2>4, <2>5, <2>6, <2>7, <2>8, <2>9 DEF TaskInv
  <2>11. {t.new} \in SUBSET Present
    BY <1>6
  <2> QED BY <1>6, <2>1, <2>2, <2>10, <2>11, OffersKeep
<1> QED BY <1>1, <1>5, <1>6 DEF Offer

(* The rows of a group and those of them that are left over do not change  *)
(* when a row of no consequence for it is written.                         *)
LEMMA GroupStays ==
    ASSUME NEW t, NEW i \in Present, Present' = Present,
           \A j \in Ids \ {i} : feed'[j] = feed[j], Key(i)' = t.group <=> Key(i) = t.group
    PROVE  Group(t)' = Group(t)
<1>1. \A j \in Present : Key(j)' = t.group <=> Key(j) = t.group
  BY DEF Key, Present
<1> QED BY <1>1 DEF Group

LEMMA OwnKeeps == ASSUME SourcesInv, NEW a \in Admins, Own(a) PROVE SourcesInv'
<1>1. PICK t : t = tasks[a]
  OBVIOUS
<1>2. t \in Task /\ TaskInv(t) /\ RowsHold
  BY <1>1 DEF SourcesInv
<1>3. PICK i : i = t.new
  OBVIOUS
<1>4. t.at = "own"
  BY <1>1 DEF Own
<1>5. CASE Reads(a, Fails(t))
  BY <1>1, <1>5, FailedKeeps
<1>6. PICK row : row = [feed[i] EXCEPT !.group = i]
  OBVIOUS
<1>7. CASE i \in Present
  <2>1. /\ i \in Ids /\ i \in 1 .. MaxFeeds /\ i < next /\ i # NoId
        /\ feed[i].url \in Urls /\ feed[i].group \in 0 .. MaxFeeds /\ feed[i].group < next
        /\ Holders(feed[i].url) \subseteq {i}
    BY <1>7, SourceRowTyped
  <2>2. feed[i] \in [url : Urls \cup {NoUrl}, group : 0 .. MaxFeeds]
    BY <1>2, <2>1 DEF RowsHold
  <2>3. row \in [url : Urls, group : 0 .. MaxFeeds] /\ row.url = feed[i].url /\ row.group = i
    BY <1>6, <2>1, <2>2
  <2>4. ASSUME NEW n, Writes(a, i, row, n)
        PROVE  /\ feed'[i] = row /\ \A j \in Ids \ {i} : feed'[j] = feed[j]
               /\ owner' = owner /\ next' = next /\ Present' = Present /\ next \in 3 .. MaxFeeds + 1
    BY <1>7, <2>1, <2>3, <2>4, WritesRows
  <2>5. ASSUME NEW n \in Task, Writes(a, i, row, n), TaskInv(n)' PROVE SourcesInv'
    BY <1>7, <2>1, <2>3, <2>5, WritesKeep
  <2>6. CASE t.op = "sheet"
    <3>1. PICK s : s = NextLine(t, TRUE, {i})
      OBVIOUS
    <3>2. PICK n : n = [s EXCEPT !.made = @ \cup {i}]
      OBVIOUS
    <3>3. ASSUME Writes(a, i, row, n) PROVE SourcesInv'
      <4>1. t.k <= Len(t.file) /\ Line(t).id = NoId /\ LinesHold(t) /\ KeptHold(t)
        BY <1>2, <1>4, <2>6 DEF TaskInv, SheetHolds, LinesHold
      <4>2. /\ {i} \in SUBSET (Ids \cup {NoId}) /\ TRUE \in BOOLEAN /\ {i} \ {NoId} = {i}
            /\ Line(t).id \in {i} \cup {NoId}
        BY <2>1, <4>1
      <4>3. /\ AtLine(s) /\ LinesHold(s) /\ s.quiet = t.quiet /\ (s.ok <=> t.ok /\ TRUE)
            /\ s.kept = t.kept \cup ({i} \ {NoId}) /\ s.made = t.made
        <5> DEFINE m == NextLine(t, TRUE, {i})
        <5>1. /\ AtLine(m) /\ LinesHold(m) /\ m.quiet = t.quiet /\ (m.ok <=> t.ok /\ TRUE)
              /\ m.kept = t.kept \cup ({i} \ {NoId}) /\ m.made = t.made
          BY <1>2, <2>6, <4>1, <4>2, NextLineTyped
        <5> HIDE DEF m
        <5>2. s = m
          BY <3>1 DEF m
        <5> QED BY <5>1, <5>2
      <4>4. s \in Task /\ s.made \cup {i} \in SUBSET Ids
        BY <2>1, <4>3 DEF AtLine, Task
      <4>5. /\ n \in Task /\ n.made = t.made \cup {i}
            /\ n.op = s.op /\ n.at = s.at /\ n.file = s.file /\ n.want = s.want /\ n.k = s.k
            /\ n.id = s.id /\ n.new = s.new /\ n.group = s.group /\ n.url = s.url
            /\ n.members = s.members /\ n.used = s.used /\ n.pending = s.pending
            /\ n.later = s.later /\ n.kept = s.kept /\ n.todo = s.todo /\ n.ok = s.ok
            /\ n.quiet = s.quiet
        BY <3>2, <4>3, <4>4 DEF Task
      <4>6. AtLine(n)
        BY <4>3, <4>5 DEF AtLine
      <4>7. LinesHold(n)
        BY <4>1, <4>2, <4>3, <4>5 DEF LinesHold, AtLine, Line
      <4>8. KeptHold(n)'
        BY <1>7, <2>4, <3>3, <4>1, <4>2, <4>3, <4>5 DEF KeptHold, AtLine
      <4>9. TaskInv(n)'
        BY <2>4, <3>3, <4>6, <4>7, <4>8, AtLineInv
      <4> QED BY <2>5, <3>3, <4>5, <4>9
    <3>4. Reads(a, Fails(t)) \/ Writes(a, i, row, n)
      BY <1>1, <1>3, <1>6, <2>6, <3>1, <3>2 DEF Own
    <3> QED BY <1>5, <3>3, <3>4
  <2>7. CASE t.op # "sheet" /\ t.group # NoId
    <3>1. PICK n : n = [t EXCEPT !.at = "join"]
      OBVIOUS
    <3>2. ASSUME Writes(a, i, row, n) PROVE SourcesInv'
      <4>1. /\ feed'[i] = row /\ \A j \in Ids \ {i} : feed'[j] = feed[j]
            /\ owner' = owner /\ next' = next /\ Present' = Present
        BY <2>4, <3>2
      <4>2. /\ n \in Task /\ n.at = "join"
            /\ n.op = t.op /\ n.file = t.file /\ n.want = t.want /\ n.k = t.k /\ n.id = t.id
            /\ n.new = t.new /\ n.group = t.group /\ n.url = t.url /\ n.members = t.members
            /\ n.used = t.used /\ n.pending = t.pending /\ n.later = t.later /\ n.kept = t.kept
            /\ n.made = t.made /\ n.todo = t.todo /\ n.ok = t.ok /\ n.quiet = t.quiet
        BY <1>2, <3>1 DEF Task, Stage
      <4>3. TaskHolds(n)'
        BY <1>2, <1>4, <2>7, <4>1, <4>2 DEF TaskInv, TaskHolds, Stages, Syncing, Adding, Task,
           TaskOps
      <4>4. t.group # i
        BY <1>2, <1>3, <1>4 DEF TaskInv, GroupStands, Adding
      <4>5. GroupStands(n)'
        BY <1>2, <1>4, <2>7, <4>1, <4>2, <4>4
           DEF TaskInv, GroupStands, Syncing, Adding, Ungrouped, Present
      <4>6. AddressesHold(n)'
        <5> SUFFICES ASSUME t.quiet PROVE AddressesHold(n)'
          BY <4>2 DEF AddressesHold
        <5>1. /\ Spare(t) = {} /\ feed[i].group \in {NoId, i}
              /\ {feed[j].url : j \in Through(t)} \cup Elements(t.pending) \cup Elements(t.later)
                    \cup {feed[i].url} = Elements(t.want)
              /\ t.op = "add" /\ owner = "platform" => \E j \in Through(t) : feed[j].url = t.url
          BY <1>2, <1>3, <1>4, <2>7 DEF TaskInv, AddressesHold, Syncing, Adding
        <5>2. Key(i) # t.group /\ Key(i)' # t.group
          BY <2>1, <2>3, <4>1, <4>4, <5>1 DEF Key
        <5>3. Group(n)' = Group(t)
          BY <1>7, <4>1, <4>2, <5>2, GroupStays DEF Group
        <5>4. Spare(n)' = {} /\ Through(n)' = Through(t)
          BY <4>2, <5>1, <5>3 DEF Spare, Members, Through
        <5>5. \A j \in Through(t) : feed'[j].url = feed[j].url
          BY <2>3, <4>1 DEF Through, Group, Present
        <5>6. {feed'[j].url : j \in Through(t)} = {feed[j].url : j \in Through(t)}
          BY <5>5
        <5>7. feed'[i].url = feed[i].url /\ feed'[i].group = i
          BY <2>3, <4>1
        <5> QED BY <1>3, <1>7, <4>1, <4>2, <5>1, <5>4, <5>5, <5>6, <5>7 DEF AddressesHold, Adding
      <4>7. NewSource(n)' /\ AllGiven(n)' /\ CatalogHolds(n)' /\ SheetHolds(n)'
        BY <2>7, <4>2 DEF NewSource, AllGiven, CatalogHolds, SheetHolds
      <4>8. NoMembers(n)'
        BY <1>2, <4>1, <4>2 DEF TaskInv, NoMembers, Members
      <4>9. TaskInv(n)'
        BY <4>3, <4>5, <4>6, <4>7, <4>8 DEF TaskInv
      <4> QED BY <2>5, <3>2, <4>2, <4>9
    <3>3. Reads(a, Fails(t)) \/ Writes(a, i, row, n)
      BY <1>1, <1>3, <1>6, <2>7, <3>1 DEF Own
    <3> QED BY <1>5, <3>2, <3>3
  <2>8. CASE t.op # "sheet" /\ t.group = NoId
    <3>1. PICK n : n = [t EXCEPT !.at = "fill", !.id = i, !.group = i, !.pending = Tail(t.want)]
      OBVIOUS
    <3>2. t.op = "add"
      BY <1>2, <1>4, <2>8 DEF TaskInv, TaskHolds, Stages, Syncing, Task, TaskOps
    <3>3. t.want \in Seq(Urls) /\ t.want # <<>> /\ Tail(t.want) \in Seq(Urls)
      BY <1>2, <3>2, HeadTailProperties DEF TaskInv, TaskHolds, Task
    <3>4. ASSUME Writes(a, i, row, n) PROVE SourcesInv'
      <4>1. /\ feed'[i] = row /\ \A j \in Ids \ {i} : feed'[j] = feed[j]
            /\ owner' = owner /\ next' = next /\ Present' = Present
        BY <2>4, <3>4
      <4>2. i \in 0 .. MaxFeeds
        BY <2>1
      <4>3. /\ n \in Task /\ n.at = "fill" /\ n.id = i /\ n.group = i /\ n.pending = Tail(t.want)
            /\ n.op = t.op /\ n.file = t.file /\ n.want = t.want /\ n.k = t.k /\ n.new = t.new
            /\ n.url = t.url /\ n.members = t.members /\ n.used = t.used /\ n.later = t.later
            /\ n.kept = t.kept /\ n.made = t.made /\ n.todo = t.todo /\ n.ok = t.ok
            /\ n.quiet = t.quiet
        BY <1>2, <3>1, <3>3, <4>2 DEF Task, Stage
      <4>4. TaskHolds(n)'
        BY <1>2, <1>4, <2>1, <3>2, <4>1, <4>3
           DEF TaskInv, TaskHolds, Stages, Syncing, Adding
      <4>5. GroupStands(n)'
        BY <2>1, <2>3, <4>1, <4>3 DEF GroupStands, Syncing, Adding, Ungrouped
      <4>6. NoMembers(n)' /\ Members(n) = {} /\ owner = "platform"
        BY <1>2, <1>4, <3>2, <4>1, <4>3 DEF TaskInv, TaskHolds, NoMembers, Members
      <4>7. AddressesHold(n)'
        <5> SUFFICES ASSUME t.quiet PROVE AddressesHold(n)'
          BY <4>3 DEF AddressesHold
        <5>1. /\ feed[i].url = t.url /\ t.url = t.want[1]
              /\ \A j \in Present : feed[j].group = i => j = i
          BY <1>2, <1>3, <1>4, <2>8, <3>2 DEF TaskInv, NewSource
        <5>2. Group(n)' = {i}
          <6>1. Key(i)' = i
            BY <2>1, <2>3, <4>1 DEF Key
          <6>2. ASSUME NEW j \in Present, j # i PROVE Key(j)' # i
            BY <4>1, <5>1, <6>2 DEF Key, Present
          <6> QED BY <1>7, <4>1, <4>3, <6>1, <6>2 DEF Group
        <5>3. Spare(n)' = {} /\ Through(n)' = {i}
          BY <4>6, <5>2 DEF Spare, Members, Through
        <5>4. feed'[i].url = t.want[1]
          BY <2>3, <4>1, <5>1
        <5>5. Elements(t.want) = {t.want[1]} \cup Elements(Tail(t.want))
          BY <3>3, HeadTail
        <5>6. Elements(n.later) = {}
          BY <1>2, <1>4, <4>3 DEF TaskInv, TaskHolds, Elements
        <5> QED BY <4>3, <5>1, <5>2, <5>3, <5>4, <5>5, <5>6 DEF AddressesHold, Adding
      <4>8. NewSource(n)' /\ AllGiven(n)' /\ CatalogHolds(n)' /\ SheetHolds(n)'
        BY <3>2, <4>3 DEF NewSource, AllGiven, CatalogHolds, SheetHolds
      <4>9. TaskInv(n)'
        BY <4>4, <4>5, <4>6, <4>7, <4>8 DEF TaskInv
      <4> QED BY <2>5, <3>4, <4>3, <4>9
    <3>5. Reads(a, Fails(t)) \/ Writes(a, i, row, n)
      BY <1>1, <1>3, <1>6, <2>8, <3>1 DEF Own
    <3> QED BY <1>5, <3>4, <3>5
  <2> QED BY <2>6, <2>7, <2>8
<1> QED BY <1>1, <1>3, <1>5, <1>7 DEF Own
-----------------------------------------------------------------------------
LEMMA JoinKeeps == ASSUME SourcesInv, NEW a \in Admins, Join(a) PROVE SourcesInv'
<1>1. PICK t : t = tasks[a]
  OBVIOUS
<1>2. t \in Task /\ TaskInv(t) /\ RowsHold
  BY <1>1 DEF SourcesInv
<1>3. PICK i : i = t.new
  OBVIOUS
<1>4. /\ t.at = "join" /\ owner = "platform" /\ t.group # NoId /\ t.group < next
      /\ t.group \in 0 .. MaxFeeds /\ t.op \in {"edit", "add"} /\ t.group # i
  BY <1>1, <1>2, <1>3
     DEF Join, TaskInv, TaskHolds, GroupStands, Stages, Syncing, Adding, Task, TaskOps
<1>5. PICK row : row = [feed[i] EXCEPT !.group = t.group]
  OBVIOUS
<1>6. PICK n : n = [t EXCEPT !.at = "fill", !.used = @ \cup {i}]
  OBVIOUS
<1>7. CASE Reads(a, Fails(t))
  BY <1>1, <1>7, FailedKeeps
<1>8. CASE i \in Present /\ Writes(a, i, row, n)
  <2>1. /\ i \in Ids /\ feed[i].url \in Urls /\ Holders(feed[i].url) \subseteq {i}
    BY <1>8, SourceRowTyped
  <2>2. feed[i] \in [url : Urls \cup {NoUrl}, group : 0 .. MaxFeeds]
    BY <1>2, <2>1 DEF RowsHold
  <2>3. row \in [url : Urls, group : 0 .. MaxFeeds] /\ row.url = feed[i].url /\ row.group = t.group
    BY <1>4, <1>5, <2>1, <2>2
  <2>4. /\ feed'[i] = row /\ \A j \in Ids \ {i} : feed'[j] = feed[j]
        /\ owner' = owner /\ next' = next /\ Present' = Present
    BY <1>8, <2>1, <2>3, WritesRows
  <2>5. t.used \cup {i} \in SUBSET Ids
    BY <1>2, <2>1 DEF Task
  <2>6. /\ n \in Task /\ n.at = "fill" /\ n.used = t.used \cup {i}
        /\ n.op = t.op /\ n.file = t.file /\ n.want = t.want /\ n.k = t.k /\ n.id = t.id
        /\ n.new = t.new /\ n.group = t.group /\ n.url = t.url /\ n.members = t.members
        /\ n.pending = t.pending /\ n.later = t.later /\ n.kept = t.kept /\ n.made = t.made
        /\ n.todo = t.todo /\ n.ok = t.ok /\ n.quiet = t.quiet
    BY <1>2, <1>6, <2>5 DEF Task, Stage
  <2>7. TaskHolds(n)'
    BY <1>2, <1>4, <2>4, <2>6 DEF TaskInv, TaskHolds, Stages, Syncing, Adding
  <2>8. ~Ungrouped(t.group)
    BY <1>2, <1>4 DEF TaskInv, GroupStands, Syncing
  <2>9. GroupStands(n)'
    BY <1>4, <2>3, <2>4, <2>6, <2>8 DEF GroupStands, Syncing, Adding, Ungrouped, Present
  <2>10. AddressesHold(n)'
    <3> SUFFICES ASSUME t.quiet PROVE AddressesHold(n)'
      BY <2>6 DEF AddressesHold
    <3>1. /\ Spare(t) = {} /\ feed[i].group \in {NoId, i}
          /\ {feed[j].url : j \in Through(t)} \cup Elements(t.pending) \cup Elements(t.later)
                \cup {feed[i].url} = Elements(t.want)
          /\ t.op = "add" => \E j \in Through(t) : feed[j].url = t.url
      BY <1>2, <1>3, <1>4 DEF TaskInv, AddressesHold, Syncing, Adding
    <3>2. Key(i) # t.group /\ Key(i)' = t.group
      BY <1>4, <2>3, <2>4, <3>1 DEF Key
    <3>3. \A j \in Present \ {i} : Key(j)' = Key(j)
      BY <2>4 DEF Key, Present
    <3>4. Group(n)' = Group(t) \cup {i} /\ i \notin Group(t)
      BY <1>8, <2>4, <2>6, <3>2, <3>3 DEF Group
    <3>5. Spare(n) = {} /\ Through(t) = Group(t) /\ Through(n)' = Through(t) \cup {i}
      BY <2>6, <3>1, <3>4 DEF Spare, Members, Through
    <3>6. \A j \in Through(t) : feed'[j].url = feed[j].url
      BY <2>4, <3>4, <3>5 DEF Group, Present
    <3>7. {feed'[j].url : j \in Through(n)'} = {feed[j].url : j \in Through(t)} \cup {feed[i].url}
      BY <2>3, <2>4, <3>5, <3>6
    <3>8. Spare(n)' = {}
      BY <3>5 DEF Spare, Members
    <3> QED BY <1>4, <2>4, <2>6, <3>1, <3>5, <3>6, <3>7, <3>8 DEF AddressesHold, Adding
  <2>11. NewSource(n)' /\ AllGiven(n)' /\ CatalogHolds(n)' /\ SheetHolds(n)'
    BY <1>4, <2>6 DEF NewSource, AllGiven, CatalogHolds, SheetHolds
  <2>12. NoMembers(n)'
    BY <1>2, <2>4, <2>6 DEF TaskInv, NoMembers, Members
  <2>13. TaskInv(n)'
    BY <2>7, <2>9, <2>10, <2>11, <2>12 DEF TaskInv
  <2> QED BY <1>4, <1>8, <2>1, <2>3, <2>6, <2>8, <2>13, WritesKeep
<1> QED BY <1>1, <1>3, <1>5, <1>6, <1>7, <1>8 DEF Join

LEMMA RosterKeeps == ASSUME SourcesInv, NEW a \in Admins, Roster(a) PROVE SourcesInv'
<1>1. PICK t : t = tasks[a]
  OBVIOUS
<1>2. t \in Task /\ TaskInv(t) /\ RowsHold
  BY <1>1 DEF SourcesInv
<1>3. PICK i : i = t.id
  OBVIOUS
<1>4. PICK group : group = Key(i)
  OBVIOUS
<1>5. PICK rows : rows = {i} \cup {j \in Present : feed[j].group = group}
  OBVIOUS
<1>6. PICK members : members = [j \in Ids |-> IF j \in rows THEN feed[j].url ELSE NoUrl]
  OBVIOUS
<1>7. PICK n : n = [t EXCEPT !.at = "match", !.group = group, !.members = members,
                             !.pending = t.want]
  OBVIOUS
<1>8. /\ t.at = "roster" /\ t.want # <<>> /\ t.used = {} /\ t.later = <<>>
      /\ owner = "platform" => ~Ungrouped(i)
  BY <1>1, <1>2, <1>3 DEF Roster, TaskInv, TaskHolds, GroupStands
<1>9. CASE Reads(a, Fails(t))
  BY <1>1, <1>9, FailedKeeps
<1>10. CASE i \in Present /\ Reads(a, n)
  <2>1. /\ i \in Ids /\ i # NoId /\ feed[i].group \in 0 .. MaxFeeds
        /\ group \in 1 .. MaxFeeds /\ group < next /\ group # NoId
    BY <1>4, <1>10, SourceRowTyped
  <2>2. rows \subseteq Present /\ i \in rows
    BY <1>5, <1>10
  <2>3. members \in [Ids -> Urls \cup {NoUrl}]
    <3>1. \A j \in Ids : feed[j].url \in Urls \cup {NoUrl}
      BY <1>2 DEF RowsHold
    <3> QED BY <1>6, <3>1
  <2>4. t.want \in Seq(Urls) /\ group \in 0 .. MaxFeeds
    BY <1>2, <2>1, SourcesKeys DEF Task
  <2>5. /\ n \in Task /\ n.at = "match" /\ n.group = group /\ n.members = members
        /\ n.pending = t.want
        /\ n.op = t.op /\ n.file = t.file /\ n.want = t.want /\ n.k = t.k /\ n.id = t.id
        /\ n.new = t.new /\ n.url = t.url /\ n.used = t.used /\ n.later = t.later
        /\ n.kept = t.kept /\ n.made = t.made /\ n.todo = t.todo /\ n.ok = t.ok
        /\ n.quiet = t.quiet
    BY <1>2, <1>7, <2>3, <2>4 DEF Task, Stage
  <2>6. Members(n) = rows
    BY <1>6, <2>2, <2>5 DEF Members, Present
  <2>7. t.op \in {"sheet", "edit", "add"}
    BY <1>2, <1>8 DEF TaskInv, TaskHolds, Stages, Syncing, Task, TaskOps
  <2>8. TaskHolds(n)
    BY <1>2, <1>3, <1>8, <2>1, <2>2, <2>5, <2>6, <2>7 DEF TaskInv, TaskHolds, Stages, Syncing,
       Adding
  <2>9. Ungrouped(group) => group = i /\ rows = {i}
    <3> SUFFICES ASSUME Ungrouped(group) PROVE group = i /\ rows = {i}
      OBVIOUS
    <3>1. \A j \in Present : feed[j].group = group => j = group
      BY <1>2 DEF RowsHold, Ungrouped
    <3>2. group = i
      BY <1>4, <1>10, <3>1 DEF Key
    <3> QED BY <1>5, <3>1, <3>2
  <2>10. GroupStands(n)
    BY <1>2, <1>3, <1>8, <2>5, <2>6, <2>9 DEF GroupStands, Syncing, Adding, RowsHold
  <2>11. SheetHolds(n)
    <3>1. CASE t.op = "sheet"
      <4>1. LinesHold(n) /\ KeptHold(n)
        BY <1>2, <1>8, <2>5, <3>1 DEF TaskInv, SheetHolds, LinesHold, KeptHold, Line
      <4>2. NewHolds(n)
        <5> SUFFICES ASSUME t.quiet PROVE NewHolds(n)
          BY <2>5 DEF NewHolds
        <5>1. /\ t.new \in Ids /\ t.id = t.new /\ t.url \in Urls /\ feed[t.new].url = t.url
              /\ t.want = <<t.url>> /\ feed[t.new].group = NoId
          BY <1>2, <1>8, <3>1 DEF TaskInv, SheetHolds, NewHolds
        <5>2. Ungrouped(group)
          BY <1>3, <1>4, <1>10, <5>1 DEF Key, Ungrouped
        <5> QED BY <1>3, <2>5, <2>6, <2>9, <5>1, <5>2 DEF NewHolds
      <4> QED BY <4>1, <4>2 DEF SheetHolds
    <3> QED BY <2>5, <3>1 DEF SheetHolds
  <2>12. AddressesHold(n)
    <3>1. Spare(n) = rows
      BY <1>8, <2>5, <2>6 DEF Spare
    <3>2. \A j \in rows : Key(j) = group
      BY <1>4, <1>5, <2>1 DEF Key
    <3>3. rows \subseteq Group(n)
      BY <2>2, <2>5, <3>2 DEF Group
    <3>4. \A j \in Group(n) : j \in rows
      BY <1>5, <2>1, <2>2, <2>5, <2>9 DEF Group, Key, Ungrouped
    <3>5. Through(n) = {}
      BY <3>1, <3>4 DEF Through
    <3>6. \A j \in rows : feed[j].url = n.members[j]
      BY <1>6, <2>2, <2>5 DEF Present
    <3>7. Elements(n.later) = {}
      BY <1>8, <2>5 DEF Elements
    <3>8. {feed[j].url : j \in Through(n)} = {}
      BY <3>5
    <3>9. ~(t.op = "add" /\ owner = "platform")
      BY <1>2, <1>8 DEF TaskInv, TaskHolds
    <3> QED BY <2>5, <3>1, <3>3, <3>6, <3>7, <3>8, <3>9 DEF AddressesHold, Adding
  <2>13. NewSource(n) /\ AllGiven(n) /\ CatalogHolds(n)
    BY <2>5, <2>7 DEF NewSource, AllGiven, CatalogHolds
  <2>14. NoMembers(n)
    BY <1>2, <1>8, <2>5 DEF TaskInv, TaskHolds, NoMembers
  <2>15. TaskInv(n)
    BY <2>8, <2>10, <2>11, <2>12, <2>13, <2>14 DEF TaskInv
  <2> QED BY <1>10, <2>5, <2>15, ReadsKeep
<1>11. Reads(a, Fails(t)) \/ (i \in Present /\ Reads(a, n))
  BY <1>1, <1>3, <1>4, <1>5, <1>6, <1>7 DEF Roster
<1> QED BY <1>9, <1>10, <1>11

(* A row of the group that is left over is given the next address.         *)
LEMMA GivesKeep ==
    ASSUME SourcesInv, NEW a \in Admins, NEW t, t = tasks[a], t.at \in {"match", "fill"},
           t.pending # <<>>, NEW i \in Present, i \in Spare(t), NEW u \in Urls,
           Holders(u) \subseteq {i}, t.quiet => u = Head(t.pending),
           Writes(a, i, [url |-> u, group |-> t.group],
                  [t EXCEPT !.pending = Tail(@), !.used = @ \cup {i}])
    PROVE  SourcesInv'
<1>1. t \in Task /\ TaskInv(t) /\ RowsHold
  BY DEF SourcesInv
<1>2. PICK row : row = [url |-> u, group |-> t.group]
  OBVIOUS
<1>3. PICK n : n = [t EXCEPT !.pending = Tail(@), !.used = @ \cup {i}]
  OBVIOUS
<1>4. Writes(a, i, row, n) /\ row.url = u /\ row.group = t.group
  BY <1>2, <1>3
<1>5. /\ t.group # NoId /\ t.group < next /\ t.group \in 0 .. MaxFeeds
      /\ t.op \in {"sheet", "edit", "add"}
  BY <1>1 DEF TaskInv, TaskHolds, Stages, Syncing, Adding, Task, TaskOps
<1>6. row \in [url : Urls, group : 0 .. MaxFeeds]
  BY <1>2, <1>5
<1>7. /\ feed'[i] = row /\ \A j \in Ids \ {i} : feed'[j] = feed[j]
      /\ owner' = owner /\ next' = next /\ Present' = Present /\ i \in Ids
  <2>1. row.url \in Urls
    BY <1>4
  <2>2. feed'[i] = row /\ \A j \in Ids \ {i} : feed'[j] = feed[j]
    BY <1>1, <1>4 DEF Writes, RowsHold, Present
  <2>3. owner' = owner /\ next' = next /\ i \in Ids
    BY <1>4, WritesRows
  <2>4. Present' = Present
    BY <1>4, <2>1, WritesRows
  <2> QED BY <2>2, <2>3, <2>4
<1>8. t.used \cup {i} \in SUBSET Ids
  BY <1>1, <1>7 DEF Task
<1>9. /\ t.pending \in Seq(Urls) /\ Tail(t.pending) \in Seq(Urls)
      /\ Elements(t.pending) = {Head(t.pending)} \cup Elements(Tail(t.pending))
  <2>1. t.pending \in Seq(Urls)
    BY <1>1 DEF Task
  <2> QED BY <2>1, HeadTail
<1>10. /\ n \in Task /\ n.pending = Tail(t.pending) /\ n.used = t.used \cup {i}
       /\ n.op = t.op /\ n.at = t.at /\ n.file = t.file /\ n.want = t.want /\ n.k = t.k
       /\ n.id = t.id /\ n.new = t.new /\ n.group = t.group /\ n.url = t.url
       /\ n.members = t.members /\ n.later = t.later /\ n.kept = t.kept /\ n.made = t.made
       /\ n.todo = t.todo /\ n.ok = t.ok /\ n.quiet = t.quiet
  BY <1>1, <1>3, <1>8, <1>9 DEF Task
<1>11. TaskHolds(n)'
  <2>1. Members(n)' = Members(t)
    BY <1>10 DEF Members
  <2> QED BY <1>1, <1>5, <1>7, <1>10, <2>1 DEF TaskInv, TaskHolds, Syncing, Adding
<1>12. Ungrouped(t.group) => t.group = i
  BY <1>1, <1>5 DEF TaskInv, GroupStands, Syncing, Spare
<1>13. GroupStands(n)'
  <2>1. ~Ungrouped(t.group)'
    BY <1>4, <1>5, <1>7, <1>12 DEF Ungrouped, Present
  <2> QED BY <1>7, <1>10, <2>1 DEF GroupStands, Syncing, Adding, Ungrouped, Present
<1>14. i \in Members(t)
  BY DEF Spare
<1>15. AddressesHold(t) /\ t.at \in Syncing
  BY <1>1 DEF TaskInv, Syncing
<1>16. SheetHolds(n)'
  <2>1. CASE t.op = "sheet"
    <3>1. t.at = "match"
      BY <1>1, <2>1 DEF TaskInv, TaskHolds, Stages
    <3>2. LinesHold(n)' /\ KeptHold(n)'
      BY <1>1, <1>7, <1>10, <2>1, <3>1 DEF TaskInv, SheetHolds, LinesHold, KeptHold, Line
    <3>3. NewHolds(n)'
      <4> SUFFICES ASSUME t.quiet PROVE NewHolds(n)'
        BY <1>10 DEF NewHolds
      <4>1. /\ t.new \in Ids /\ t.id = t.new /\ t.url \in Urls
            /\ feed[t.new].url = t.url /\ t.want = <<t.url>> /\ Members(t) \subseteq {t.new}
        BY <1>1, <2>1, <3>1 DEF TaskInv, SheetHolds, NewHolds
      <4>2. t.new = i
        BY <1>14, <4>1
      <4>3. Head(t.pending) \in Elements(t.want)
        BY <1>5, <1>9, <1>15 DEF AddressesHold
      <4>4. Elements(t.want) = {t.url}
        BY <4>1 DEF Elements
      <4>5. feed'[i].url = t.url
        BY <1>4, <1>7, <4>3, <4>4
      <4>6. Members(n)' = Members(t)
        BY <1>10 DEF Members
      <4> QED BY <1>10, <3>1, <4>1, <4>2, <4>5, <4>6 DEF NewHolds
    <3> QED BY <3>2, <3>3 DEF SheetHolds
  <2> QED BY <1>10, <2>1 DEF SheetHolds
<1>17. AddressesHold(n)'
  <2> SUFFICES ASSUME t.quiet PROVE AddressesHold(n)'
    BY <1>10 DEF AddressesHold
  <2>1. /\ Spare(t) \subseteq Group(t) /\ \A j \in Spare(t) : feed[j].url = t.members[j]
        /\ {feed[j].url : j \in Through(t)} \cup Elements(t.pending) \cup Elements(t.later)
           = Elements(t.want)
    BY <1>5, <1>15 DEF AddressesHold, Adding
  <2>2. ~(t.op = "add" /\ owner = "platform")
    BY <1>1, <1>14 DEF TaskInv, NoMembers
  <2>3. Key(i) = t.group /\ Key(i)' = t.group
    BY <1>4, <1>5, <1>7, <2>1 DEF Key, Group
  <2>4. Group(n)' = Group(t)
    BY <1>7, <1>10, <2>3, GroupStays DEF Group
  <2>5. Spare(n)' = Spare(t) \ {i}
    BY <1>10 DEF Spare, Members
  <2>6. Through(n)' = Through(t) \cup {i} /\ i \notin Through(t)
    BY <2>1, <2>4, <2>5 DEF Through
  <2>7. \A j \in Group(t) \ {i} : feed'[j].url = feed[j].url
    BY <1>7 DEF Group, Present
  <2>8. \A j \in Through(t) : feed'[j].url = feed[j].url
    BY <2>6, <2>7 DEF Through
  <2>9. {feed'[j].url : j \in Through(n)'} = {feed[j].url : j \in Through(t)} \cup {Head(t.pending)}
    BY <1>4, <1>7, <2>6, <2>8
  <2>10. \A j \in Spare(n)' : feed'[j].url = n.members[j]
    BY <1>10, <2>1, <2>5, <2>7
  <2>11. Spare(n)' \subseteq Group(n)'
    BY <2>1, <2>4, <2>5
  <2>12. {feed'[j].url : j \in Through(n)'} \cup Elements(n.pending) \cup Elements(n.later)
         = Elements(n.want)
    BY <1>9, <1>10, <2>1, <2>9
  <2> QED BY <1>7, <1>10, <2>2, <2>10, <2>11, <2>12 DEF AddressesHold, Adding
<1>18. NewSource(n)' /\ AllGiven(n)' /\ CatalogHolds(n)'
  BY <1>5, <1>10 DEF NewSource, AllGiven, CatalogHolds
<1>19. NoMembers(n)'
  BY <1>1, <1>7, <1>10 DEF TaskInv, NoMembers, Members
<1>20. TaskInv(n)'
  BY <1>11, <1>13, <1>16, <1>17, <1>18, <1>19 DEF TaskInv
<1> QED BY <1>4, <1>5, <1>6, <1>10, <1>12, <1>20, WritesKeep

LEMMA MatchKeeps == ASSUME SourcesInv, NEW a \in Admins, Match(a) PROVE SourcesInv'
<1>1. PICK t : t = tasks[a]
  OBVIOUS
<1>2. t \in Task /\ TaskInv(t) /\ RowsHold
  BY <1>1 DEF SourcesInv
<1>3. t.at = "match" /\ t.pending # <<>>
  BY <1>1 DEF Match
<1>4. PICK i \in Matching(t, Head(t.pending)) :
         \/ i \notin Present /\ Reads(a, Fails(t))
         \/ /\ i \in Present
            /\ Writes(a, i, [feed[i] EXCEPT !.group = t.group],
                      [t EXCEPT !.pending = Tail(@), !.used = @ \cup {i}])
  BY <1>1 DEF Match
<1>5. CASE Reads(a, Fails(t))
  BY <1>1, <1>5, FailedKeeps
<1>6. CASE /\ i \in Present
           /\ Writes(a, i, [feed[i] EXCEPT !.group = t.group],
                     [t EXCEPT !.pending = Tail(@), !.used = @ \cup {i}])
  <2>1. i \in Spare(t) /\ t.members[i] = Head(t.pending)
    BY DEF Matching
  <2>2. /\ i \in Ids /\ feed[i].url \in Urls /\ Holders(feed[i].url) \subseteq {i}
    BY <1>6, SourceRowTyped
  <2>3. feed[i] \in [url : Urls \cup {NoUrl}, group : 0 .. MaxFeeds]
    BY <1>2, <2>2 DEF RowsHold
  <2>4. [feed[i] EXCEPT !.group = t.group] = [url |-> feed[i].url, group |-> t.group]
    BY <2>3
  <2>5. t.group # NoId
    BY <1>2, <1>3 DEF TaskInv, TaskHolds, Syncing
  <2>6. t.quiet => feed[i].url = Head(t.pending)
    BY <1>2, <1>3, <2>1, <2>5 DEF TaskInv, AddressesHold, Syncing
  <2>7. Writes(a, i, [url |-> feed[i].url, group |-> t.group],
               [t EXCEPT !.pending = Tail(@), !.used = @ \cup {i}])
    BY <1>6, <2>4
  <2> QED BY <1>1, <1>3, <1>6, <2>1, <2>2, <2>6, <2>7, GivesKeep
<1> QED BY <1>4, <1>5, <1>6

LEMMA AssignKeeps ==
    ASSUME SourcesInv, NEW a \in Admins, NEW t, t = tasks[a], t.at \in {"match", "fill"},
           t.pending # <<>>, NEW i \in Spare(t), Assign(a, i, Head(t.pending))
    PROVE  SourcesInv'
<1>1. CASE Reads(a, Fails(t))
  BY <1>1, FailedKeeps
<1>2. CASE /\ i \in Present /\ Holders(Head(t.pending)) \subseteq {i}
           /\ Writes(a, i, [url |-> Head(t.pending), group |-> t.group],
                     [t EXCEPT !.pending = Tail(@), !.used = @ \cup {i}])
  <2>1. t.pending \in Seq(Urls)
    BY DEF SourcesInv, Task
  <2>2. Head(t.pending) \in Urls
    BY <2>1, HeadTail
  <2> QED BY <1>2, <2>2, GivesKeep
<1> QED BY <1>1, <1>2 DEF Assign

LEMMA ReuseKeeps == ASSUME SourcesInv, NEW a \in Admins, NEW i \in Ids, Reuse(a,
       i) PROVE SourcesInv'
BY AssignKeeps DEF Reuse

(* A call that goes on to the next address without a change of the rows.   *)
LEMMA UnmatchedKeeps == ASSUME SourcesInv, NEW a \in Admins, Unmatched(a) PROVE SourcesInv'
<1>1. PICK t : t = tasks[a]
  OBVIOUS
<1>2. t \in Task /\ TaskInv(t) /\ RowsHold
  BY <1>1 DEF SourcesInv
<1>3. PICK u : u = Head(t.pending)
  OBVIOUS
<1>4. t.at = "match" /\ t.pending # <<>>
  BY <1>1 DEF Unmatched
<1>5. /\ t.pending \in Seq(Urls) /\ Tail(t.pending) \in Seq(Urls) /\ u \in Urls
      /\ Elements(t.pending) = {u} \cup Elements(Tail(t.pending))
  <2>1. t.pending \in Seq(Urls)
    BY <1>2 DEF Task
  <2> QED BY <1>3, <1>4, <2>1, HeadTail
<1>6. /\ t.op \in {"sheet", "edit", "add"} /\ t.group # NoId /\ t.group < next /\ t.at \in Syncing
      /\ t.group \in 0 .. MaxFeeds
  BY <1>2, <1>4 DEF TaskInv, TaskHolds, Stages, Syncing, Adding, Task, TaskOps
<1>7. CASE Reads(a, Fails(t))
  BY <1>1, <1>7, FailedKeeps
<1>8. CASE /\ owner = "platform"
           /\ Reads(a, [t EXCEPT !.pending = Tail(@), !.later = Append(@, u)])
  <2>1. PICK n : n = [t EXCEPT !.pending = Tail(@), !.later = Append(@, u)]
    OBVIOUS
  <2>2. t.later \in Seq(Urls)
    BY <1>2 DEF Task
  <2>3. Append(t.later, u) \in Seq(Urls)
        /\ Elements(Append(t.later, u)) = Elements(t.later) \cup {u}
    BY <1>5, <2>2, Appended
  <2>4. /\ n \in Task /\ n.pending = Tail(t.pending) /\ n.later = Append(t.later, u)
        /\ n.op = t.op /\ n.at = t.at /\ n.file = t.file /\ n.want = t.want /\ n.k = t.k
        /\ n.id = t.id /\ n.new = t.new /\ n.group = t.group /\ n.url = t.url
        /\ n.members = t.members /\ n.used = t.used /\ n.kept = t.kept /\ n.made = t.made
        /\ n.todo = t.todo /\ n.ok = t.ok /\ n.quiet = t.quiet
    BY <1>2, <1>5, <2>1, <2>3 DEF Task
  <2>5. t.op = "edit"
    BY <1>2, <1>4, <1>6, <1>8 DEF TaskInv, TaskHolds
  <2>6. Members(n) = Members(t) /\ Spare(n) = Spare(t) /\ Group(n) = Group(t)
        /\ Through(n) = Through(t)
    BY <2>4 DEF Members, Spare, Group, Through
  <2>7. TaskHolds(n)
    BY <1>2, <1>4, <1>8, <2>4, <2>5, <2>6 DEF TaskInv, TaskHolds, Syncing, Adding
  <2>8. GroupStands(n)
    BY <1>2, <1>4, <1>6, <1>8, <2>4 DEF TaskInv, GroupStands, Adding
  <2>9. AddressesHold(n)
    <3> SUFFICES ASSUME t.quiet PROVE AddressesHold(n)
      BY <2>4 DEF AddressesHold
    <3>1. {feed[j].url : j \in Through(t)} \cup Elements(n.pending) \cup Elements(n.later)
          = {feed[j].url : j \in Through(t)} \cup Elements(t.pending) \cup Elements(t.later)
      BY <1>5, <2>3, <2>4
    <3> QED BY <1>2, <1>4, <1>6, <2>4, <2>5, <2>6, <3>1 DEF TaskInv, AddressesHold, Adding
  <2>10. TaskInv(n)
    BY <1>4, <2>4, <2>5, <2>7, <2>8, <2>9
       DEF TaskInv, SheetHolds, NewSource, AllGiven, CatalogHolds, NoMembers
  <2> QED BY <1>8, <2>1, <2>4, <2>10, ReadsKeep
<1>9. CASE owner = "organisation" /\ t.id \notin t.used /\ Assign(a, t.id, u)
  <2>1. t.id \in Spare(t)
    BY <1>2, <1>4, <1>9 DEF TaskInv, TaskHolds, Spare
  <2> QED BY <1>1, <1>3, <1>4, <1>9, <2>1, AssignKeeps
<1>10. CASE /\ owner = "organisation" /\ (t.pending # t.want \/ t.id \in t.used) /\ Holders(u) = {}
            /\ Creates(a, u, t.group, [t EXCEPT !.pending = Tail(@), !.used = @ \cup {next}])
  <2>1. PICK n : n = [t EXCEPT !.pending = Tail(@), !.used = @ \cup {next}]
    OBVIOUS
  <2>2. Creates(a, u, t.group, n)
    BY <1>10, <2>1
  <2>3. /\ feed'[next] = [url |-> u, group |-> t.group] /\ next \in Ids
        /\ Present' = Present \cup {next} /\ next \notin Present /\ next' = next + 1
        /\ owner' = owner /\ next \in 3 .. MaxFeeds
    BY <1>5, <2>2, CreatesRows
  <2>4. \A j \in Ids \ {next} : feed'[j] = feed[j]
    BY <1>5, <2>2, CreatesRows
  <2>5. t.used \cup {next} \in SUBSET Ids
    BY <1>2, <2>3 DEF Task
  <2>6. /\ n \in Task /\ n.pending = Tail(t.pending) /\ n.used = t.used \cup {next}
        /\ n.op = t.op /\ n.at = t.at /\ n.file = t.file /\ n.want = t.want /\ n.k = t.k
        /\ n.id = t.id /\ n.new = t.new /\ n.group = t.group /\ n.url = t.url
        /\ n.members = t.members /\ n.later = t.later /\ n.kept = t.kept /\ n.made = t.made
        /\ n.todo = t.todo /\ n.ok = t.ok /\ n.quiet = t.quiet
    BY <1>2, <1>5, <2>1, <2>5 DEF Task
  <2>7. Members(n) = Members(t) /\ Members(n)' = Members(t)
    BY <2>6 DEF Members
  <2>8. TaskHolds(n)'
    BY <1>2, <1>4, <1>6, <2>3, <2>6, <2>7 DEF TaskInv, TaskHolds, Syncing, Adding, Task
  <2>9. ~Ungrouped(t.group)
    BY <1>2, <1>6, <1>10 DEF TaskInv, GroupStands
  <2>10. GroupStands(n)'
    <3>1. t.group # next
      BY <1>6, <2>3
    <3>2. ~Ungrouped(t.group)'
      BY <2>3, <2>4, <2>9, <3>1 DEF Ungrouped, Present
    <3> QED BY <1>4, <2>6, <3>2 DEF GroupStands, Adding
  <2>11. SheetHolds(n)'
    <3>1. CASE t.op = "sheet"
      <4>1. LinesHold(n)' /\ KeptHold(n)'
        BY <1>2, <1>4, <2>3, <2>6, <3>1 DEF TaskInv, SheetHolds, LinesHold, KeptHold, Line
      <4>2. NewHolds(n)'
        <5> SUFFICES ASSUME t.quiet PROVE NewHolds(n)'
          BY <2>6 DEF NewHolds
        <5>1. /\ t.new \in Ids /\ t.id = t.new /\ t.url \in Urls
              /\ feed[t.new].url = t.url /\ t.want = <<t.url>> /\ Members(t) \subseteq {t.new}
          BY <1>2, <1>4, <3>1 DEF TaskInv, SheetHolds, NewHolds
        <5>2. t.new # next
          BY <1>2, <2>3 DEF TaskInv, TaskHolds
        <5> QED BY <1>4, <2>4, <2>6, <2>7, <5>1, <5>2 DEF NewHolds
      <4> QED BY <4>1, <4>2 DEF SheetHolds
    <3> QED BY <2>6, <3>1 DEF SheetHolds
  <2>12. AddressesHold(n)'
    <3> SUFFICES ASSUME t.quiet PROVE AddressesHold(n)'
      BY <2>6 DEF AddressesHold
    <3>1. /\ Spare(t) \subseteq Group(t) /\ \A j \in Spare(t) : feed[j].url = t.members[j]
          /\ {feed[j].url : j \in Through(t)} \cup Elements(t.pending) \cup Elements(t.later)
             = Elements(t.want)
      BY <1>2, <1>4, <1>6 DEF TaskInv, AddressesHold, Adding
    <3>2. Group(t) \subseteq Present /\ next \notin Group(t)
      BY <2>3 DEF Group
    <3>0. PICK r : r = next
      OBVIOUS
    <3>3. Key(r)' = t.group /\ \A j \in Present : Key(j)' = Key(j)
      <4>1. feed'[next].group = t.group /\ next \notin Present
        BY <2>3
      <4>2. Key(r)' = t.group
        BY <1>6, <3>0, <4>1 DEF Key
      <4>3. ASSUME NEW j \in Present PROVE Key(j)' = Key(j)
        <5>1. feed'[j] = feed[j]
          BY <2>4, <4>1 DEF Present
        <5> QED BY <5>1 DEF Key
      <4> QED BY <4>2, <4>3
    <3>4. Group(n)' = Group(t) \cup {next}
      <4>1. \A j \in Present' :
               Key(j)' = t.group <=> (j = next \/ (Key(j) = t.group /\ j \in Present))
        BY <2>3, <3>0, <3>3
      <4> QED BY <2>3, <2>6, <4>1 DEF Group
    <3>5. Spare(n)' = Spare(t)
      BY <2>6, <2>7, <3>1, <3>2 DEF Spare
    <3>6. Through(n)' = Through(t) \cup {next} /\ Through(t) \subseteq Group(t)
      BY <3>1, <3>2, <3>4, <3>5 DEF Through
    <3>7. \A j \in Group(t) : feed'[j].url = feed[j].url
      BY <2>3, <2>4, <3>2 DEF Present
    <3>8. {feed'[j].url : j \in Through(n)'} = {feed[j].url : j \in Through(t)} \cup {u}
      BY <2>3, <3>6, <3>7
    <3>9. {feed'[j].url : j \in Through(n)'} \cup Elements(n.pending) \cup Elements(n.later)
          = Elements(n.want)
      BY <1>5, <2>6, <3>1, <3>8
    <3>10. \A j \in Spare(n)' : feed'[j].url = n.members[j]
      BY <2>6, <3>1, <3>5, <3>7
    <3>11. Spare(n)' \subseteq Group(n)'
      BY <3>1, <3>4, <3>5
    <3> QED BY <1>4, <1>10, <2>3, <2>6, <3>9, <3>10, <3>11 DEF AddressesHold, Adding
  <2>13. NewSource(n)' /\ AllGiven(n)' /\ CatalogHolds(n)'
    BY <1>4, <1>6, <2>6 DEF NewSource, AllGiven, CatalogHolds
  <2>14. NoMembers(n)'
    BY <1>2, <2>3, <2>6, <2>7 DEF TaskInv, NoMembers
  <2>15. TaskInv(n)'
    BY <2>8, <2>10, <2>11, <2>12, <2>13, <2>14 DEF TaskInv
  <2> QED BY <1>5, <1>6, <1>10, <2>2, <2>6, <2>9, <2>15, CreatesKeep
<1> QED BY <1>1, <1>3, <1>7, <1>8, <1>9, <1>10 DEF Unmatched

LEMMA MatchedKeeps == ASSUME SourcesInv, NEW a \in Admins, Matched(a) PROVE SourcesInv'
<1>1. PICK t : t = tasks[a]
  OBVIOUS
<1>2. t \in Task /\ TaskInv(t) /\ RowsHold
  BY <1>1 DEF SourcesInv
<1>3. t.at = "match" /\ t.pending = <<>>
  BY <1>1 DEF Matched
<1>4. t.op \in {"sheet", "edit", "add"} /\ t.group # NoId /\ t.want # <<>> /\ t.at \in Syncing
  BY <1>2, <1>3 DEF TaskInv, TaskHolds, Stages, Syncing, Adding, Task, TaskOps
<1>5. ~Ungrouped(t.group)
  BY <1>2, <1>3, <1>4 DEF TaskInv, GroupStands
<1>6. CASE owner = "organisation"
  <2>1. PICK n : n = [t EXCEPT !.at = "prune"]
    OBVIOUS
  <2>2. Reads(a, n)
    BY <1>1, <1>6, <2>1 DEF Matched
  <2>3. /\ n \in Task /\ n.at = "prune"
        /\ n.op = t.op /\ n.file = t.file /\ n.want = t.want /\ n.k = t.k /\ n.id = t.id
        /\ n.new = t.new /\ n.group = t.group /\ n.url = t.url /\ n.members = t.members
        /\ n.used = t.used /\ n.pending = t.pending /\ n.later = t.later /\ n.kept = t.kept
        /\ n.made = t.made /\ n.todo = t.todo /\ n.ok = t.ok /\ n.quiet = t.quiet
    BY <1>2, <2>1 DEF Task, Stage
  <2>4. Members(n) = Members(t) /\ Spare(n) = Spare(t) /\ Group(n) = Group(t)
        /\ Through(n) = Through(t)
    BY <2>3 DEF Members, Spare, Group, Through
  <2>5. TaskHolds(n)
    BY <1>2, <1>3, <1>4, <1>6, <2>3 DEF TaskInv, TaskHolds, Stages, Syncing, Adding
  <2>6. GroupStands(n)
    BY <1>5, <2>3 DEF GroupStands, Syncing, Adding
  <2>7. SheetHolds(n)
    BY <1>2, <1>3, <2>3, <2>4 DEF TaskInv, SheetHolds, LinesHold, KeptHold, NewHolds, Line
  <2>8. AddressesHold(n)
    BY <1>2, <1>3, <1>4, <1>6, <2>3, <2>4 DEF TaskInv, AddressesHold, Syncing, Adding
  <2>9. NewSource(n) /\ AllGiven(n) /\ CatalogHolds(n) /\ NoMembers(n)
    BY <1>4, <1>6, <2>3 DEF NewSource, AllGiven, CatalogHolds, NoMembers
  <2>10. TaskInv(n)
    BY <2>5, <2>6, <2>7, <2>8, <2>9 DEF TaskInv
  <2> QED BY <2>2, <2>3, <2>10, ReadsKeep
<1>7. CASE owner = "platform"
  <2>1. PICK n : n = [t EXCEPT !.at = "fill", !.pending = t.later, !.later = <<>>]
    OBVIOUS
  <2>2. Reads(a, n)
    BY <1>1, <1>7, <2>1, SourcesKeys DEF Matched
  <2>3. t.later \in Seq(Urls) /\ <<>> \in Seq(Urls)
    BY <1>2 DEF Task
  <2>4. /\ n \in Task /\ n.at = "fill" /\ n.pending = t.later /\ n.later = <<>>
        /\ n.op = t.op /\ n.file = t.file /\ n.want = t.want /\ n.k = t.k /\ n.id = t.id
        /\ n.new = t.new /\ n.group = t.group /\ n.url = t.url /\ n.members = t.members
        /\ n.used = t.used /\ n.kept = t.kept /\ n.made = t.made /\ n.todo = t.todo /\ n.ok = t.ok
        /\ n.quiet = t.quiet
    BY <1>2, <2>1, <2>3 DEF Task, Stage
  <2>5. Members(n) = Members(t) /\ Spare(n) = Spare(t) /\ Group(n) = Group(t)
        /\ Through(n) = Through(t)
    BY <2>4 DEF Members, Spare, Group, Through
  <2>6. t.op = "edit"
    BY <1>2, <1>3, <1>4, <1>7 DEF TaskInv, TaskHolds
  <2>7. TaskHolds(n)
    BY <1>2, <1>3, <1>4, <1>7, <2>4, <2>6 DEF TaskInv, TaskHolds, Stages, Syncing, Adding
  <2>8. GroupStands(n)
    BY <1>5, <2>4 DEF GroupStands, Syncing, Adding
  <2>9. AddressesHold(n)
    <3>1. Elements(<<>>) = {}
      BY DEF Elements
    <3> QED BY <1>2, <1>3, <1>4, <2>4, <2>5, <2>6, <3>1 DEF TaskInv, AddressesHold, Syncing, Adding
  <2>10. TaskInv(n)
    BY <2>4, <2>6, <2>7, <2>8, <2>9
       DEF TaskInv, SheetHolds, NewSource, AllGiven, CatalogHolds, NoMembers
  <2> QED BY <2>2, <2>4, <2>10, ReadsKeep
<1> QED BY <1>2, <1>6, <1>7 DEF RowsHold

LEMMA PassOverKeeps == ASSUME SourcesInv, NEW a \in Admins, PassOver(a) PROVE SourcesInv'
<1>1. PICK t : t = tasks[a]
  OBVIOUS
<1>2. PICK n : n = [t EXCEPT !.pending = Tail(@)]
  OBVIOUS
<1>3. t \in Task /\ TaskInv(t) /\ RowsHold
  BY <1>1 DEF SourcesInv
<1>4. /\ t.at = "fill" /\ t.pending # <<>> /\ t.op = "add" /\ Head(t.pending) = t.url /\ Reads(a, n)
  BY <1>1, <1>2 DEF PassOver, Repeated
<1>5. /\ Tail(t.pending) \in Seq(Urls)
      /\ Elements(t.pending) = {t.url} \cup Elements(Tail(t.pending))
  <2>1. t.pending \in Seq(Urls)
    BY <1>3 DEF Task
  <2> QED BY <1>4, <2>1, HeadTail
<1>6. /\ n \in Task /\ n.pending = Tail(t.pending)
      /\ n.op = t.op /\ n.at = t.at /\ n.file = t.file /\ n.want = t.want /\ n.k = t.k
      /\ n.id = t.id /\ n.new = t.new /\ n.group = t.group /\ n.url = t.url
      /\ n.members = t.members /\ n.used = t.used /\ n.later = t.later /\ n.kept = t.kept
      /\ n.made = t.made /\ n.todo = t.todo /\ n.ok = t.ok /\ n.quiet = t.quiet
  BY <1>2, <1>3, <1>5 DEF Task
<1>7. /\ Members(n) = Members(t) /\ Spare(n) = Spare(t) /\ Group(n) = Group(t)
      /\ Through(n) = Through(t)
  BY <1>6 DEF Members, Spare, Group, Through
<1>8. TaskHolds(n)
  BY <1>3, <1>4, <1>6, <1>7 DEF TaskInv, TaskHolds, Adding
<1>9. GroupStands(n)
  BY <1>3, <1>4, <1>6, <1>7 DEF TaskInv, GroupStands, Syncing
<1>10. AddressesHold(n)
  <2> SUFFICES ASSUME t.quiet PROVE AddressesHold(n)
    BY <1>6 DEF AddressesHold
  <2>1. t.group # NoId /\ owner = "platform"
    BY <1>3, <1>4 DEF TaskInv, TaskHolds, Syncing
  <2>2. /\ Spare(t) \subseteq Group(t) /\ \A j \in Spare(t) : feed[j].url = t.members[j]
        /\ {feed[j].url : j \in Through(t)} \cup Elements(t.pending) \cup Elements(t.later)
           = Elements(t.want)
        /\ \E j \in Through(t) : feed[j].url = t.url
    BY <1>3, <1>4, <2>1 DEF TaskInv, AddressesHold, Syncing, Adding
  <2>3. t.url \in {feed[j].url : j \in Through(t)}
    BY <2>2
  <2>4. {feed[j].url : j \in Through(n)} \cup Elements(n.pending) \cup Elements(n.later)
        = Elements(n.want)
    BY <1>5, <1>6, <1>7, <2>2, <2>3
  <2> QED BY <1>4, <1>6, <1>7, <2>2, <2>4 DEF AddressesHold, Adding
<1>11. TaskInv(n)
  BY <1>3, <1>4, <1>6, <1>7, <1>8, <1>9, <1>10
     DEF TaskInv, SheetHolds, NewSource, AllGiven, CatalogHolds, NoMembers
<1> QED BY <1>4, <1>6, <1>11, ReadsKeep

LEMMA ExtraKeeps == ASSUME SourcesInv, NEW a \in Admins, Extra(a) PROVE SourcesInv'
<1>1. PICK t : t = tasks[a]
  OBVIOUS
<1>2. PICK u : u = Head(t.pending)
  OBVIOUS
<1>3. PICK n : n = [t EXCEPT !.at = "offer", !.new = next, !.pending = Tail(@)]
  OBVIOUS
<1>4. t \in Task /\ TaskInv(t) /\ RowsHold
  BY <1>1 DEF SourcesInv
<1>5. t.at = "fill" /\ t.pending # <<>> /\ Spare(t) = {}
  BY <1>1 DEF Extra
<1>6. /\ Tail(t.pending) \in Seq(Urls) /\ u \in Urls
      /\ Elements(t.pending) = {u} \cup Elements(Tail(t.pending))
  <2>1. t.pending \in Seq(Urls)
    BY <1>4 DEF Task
  <2> QED BY <1>2, <1>5, <2>1, HeadTail
<1>7. /\ t.op \in {"edit", "add"} /\ t.group # NoId /\ t.group < next /\ t.at \in Syncing
      /\ t.group \in 0 .. MaxFeeds /\ owner = "platform"
  BY <1>4, <1>5 DEF TaskInv, TaskHolds, Stages, Syncing, Adding, Task, TaskOps
<1>8. CASE Reads(a, Fails(t))
  BY <1>1, <1>8, FailedKeeps
<1>9. CASE Holders(u) = {} /\ Creates(a, u, NoId, n)
  <2>1. /\ feed'[next] = [url |-> u, group |-> NoId] /\ next \in Ids
        /\ Present' = Present \cup {next} /\ next \notin Present /\ next' = next + 1
        /\ owner' = owner /\ next \in 3 .. MaxFeeds
    <3>1. feed'[next] = [url |-> u, group |-> NoId]
      BY <1>6, <1>9, CreatesRows
    <3>2. /\ Present' = Present \cup {next} /\ next \notin Present /\ next' = next + 1
          /\ owner' = owner /\ next \in 3 .. MaxFeeds /\ next \in Ids
      BY <1>6, <1>9, CreatesRows
    <3> QED BY <3>1, <3>2
  <2>2. \A j \in Ids \ {next} : feed'[j] = feed[j]
    BY <1>6, <1>9, CreatesRows
  <2>3. next \in 0 .. MaxFeeds
    BY <2>1, SourcesKeys
  <2>4. PICK r : r = next
    OBVIOUS
  <2>5. /\ n \in Task /\ n.at = "offer" /\ n.new = r /\ n.pending = Tail(t.pending)
        /\ n.op = t.op /\ n.file = t.file /\ n.want = t.want /\ n.k = t.k /\ n.id = t.id
        /\ n.group = t.group /\ n.url = t.url /\ n.members = t.members /\ n.used = t.used
        /\ n.later = t.later /\ n.kept = t.kept /\ n.made = t.made /\ n.todo = t.todo
        /\ n.ok = t.ok /\ n.quiet = t.quiet
    BY <1>3, <1>4, <1>6, <2>3, <2>4 DEF Task, Stage
  <2>6. Members(n)' = Members(t) /\ Spare(n)' = {}
    BY <1>5, <2>5 DEF Members, Spare
  <2>7. TaskHolds(n)'
    BY <1>4, <1>5, <1>7, <2>1, <2>4, <2>5 DEF TaskInv, TaskHolds, Stages, Syncing, Adding, Task
  <2>8. ~Ungrouped(t.group)
    BY <1>4, <1>5, <1>7 DEF TaskInv, GroupStands
  <2>9. t.group # r
    BY <1>7, <2>1, <2>4
  <2>10. GroupStands(n)'
    <3>1. ~Ungrouped(t.group)'
      BY <2>1, <2>2, <2>4, <2>8, <2>9 DEF Ungrouped, Present
    <3> QED BY <2>5, <2>9, <3>1 DEF GroupStands, Adding
  <2>11. AddressesHold(n)'
    <3> SUFFICES ASSUME t.quiet PROVE AddressesHold(n)'
      BY <2>5 DEF AddressesHold
    <3>1. /\ {feed[j].url : j \in Through(t)} \cup Elements(t.pending) \cup Elements(t.later)
             = Elements(t.want)
          /\ t.op = "add" => \E j \in Through(t) : feed[j].url = t.url
      BY <1>4, <1>5, <1>7 DEF TaskInv, AddressesHold, Adding
    <3>2. Through(t) = Group(t) /\ Group(t) \subseteq Present /\ r \notin Group(t)
      BY <1>5, <2>1, <2>4 DEF Through, Group
    <3>3. feed'[r].group = NoId /\ feed'[r].url = u /\ r \in Present'
      BY <2>1, <2>4
    <3>4. Key(r)' # t.group
      BY <2>9, <3>3 DEF Key
    <3>5. ASSUME NEW j \in Present PROVE Key(j)' = Key(j) /\ feed'[j] = feed[j]
      <4>1. feed'[j] = feed[j]
        BY <2>1, <2>2 DEF Present
      <4> QED BY <4>1 DEF Key
    <3>6. Group(n)' = Group(t)
      BY <2>1, <2>4, <2>5, <3>4, <3>5 DEF Group
    <3>7. Through(n)' = Through(t)
      BY <2>6, <3>2, <3>6 DEF Through
    <3>8. \A j \in Through(t) : feed'[j].url = feed[j].url
      BY <3>2, <3>5
    <3>9. {feed'[j].url : j \in Through(n)'} = {feed[j].url : j \in Through(t)}
      BY <3>7, <3>8
    <3>10. {feed'[j].url : j \in Through(n)'} \cup Elements(n.pending) \cup Elements(n.later)
              \cup {feed'[n.new].url} = Elements(n.want)
      BY <1>6, <2>5, <3>1, <3>3, <3>9
    <3>11. n.op = "add" => \E j \in Through(n)' : feed'[j].url = n.url
      BY <2>5, <3>1, <3>7, <3>8
    <3> QED BY <2>5, <2>6, <3>3, <3>10, <3>11 DEF AddressesHold, Adding
  <2>12. NewSource(n)' /\ AllGiven(n)' /\ CatalogHolds(n)' /\ SheetHolds(n)'
    BY <1>7, <2>5 DEF NewSource, AllGiven, CatalogHolds, SheetHolds
  <2>13. NoMembers(n)'
    BY <1>4, <2>1, <2>5, <2>6 DEF TaskInv, NoMembers
  <2>14. TaskInv(n)'
    BY <2>7, <2>10, <2>11, <2>12, <2>13 DEF TaskInv
  <2>15. NoId \in 0 .. MaxFeeds /\ NoId < next
    BY <2>1, SourcesKeys
  <2> QED BY <1>6, <1>9, <2>5, <2>14, <2>15, CreatesKeep
<1> QED BY <1>1, <1>2, <1>3, <1>8, <1>9 DEF Extra

LEMMA FilledKeeps == ASSUME SourcesInv, NEW a \in Admins, Filled(a) PROVE SourcesInv'
<1>1. PICK t : t = tasks[a]
  OBVIOUS
<1>2. PICK n : n = [t EXCEPT !.at = "prune"]
  OBVIOUS
<1>3. t \in Task /\ TaskInv(t) /\ RowsHold
  BY <1>1 DEF SourcesInv
<1>4. t.at = "fill" /\ t.pending = <<>> /\ Reads(a, n)
  BY <1>1, <1>2 DEF Filled
<1>5. t.op \in {"edit", "add"} /\ t.group # NoId
  BY <1>3, <1>4 DEF TaskInv, TaskHolds, Stages, Syncing, Adding, Task, TaskOps
<1>6. /\ n \in Task /\ n.at = "prune"
      /\ n.op = t.op /\ n.file = t.file /\ n.want = t.want /\ n.k = t.k /\ n.id = t.id
      /\ n.new = t.new /\ n.group = t.group /\ n.url = t.url /\ n.members = t.members
      /\ n.used = t.used /\ n.pending = t.pending /\ n.later = t.later /\ n.kept = t.kept
      /\ n.made = t.made /\ n.todo = t.todo /\ n.ok = t.ok /\ n.quiet = t.quiet
  BY <1>2, <1>3 DEF Task, Stage
<1>7. /\ Members(n) = Members(t) /\ Spare(n) = Spare(t) /\ Group(n) = Group(t)
      /\ Through(n) = Through(t)
  BY <1>6 DEF Members, Spare, Group, Through
<1>8. TaskHolds(n)
  BY <1>3, <1>4, <1>5, <1>6 DEF TaskInv, TaskHolds, Stages, Syncing, Adding
<1>9. GroupStands(n)
  BY <1>3, <1>4, <1>5, <1>6 DEF TaskInv, GroupStands, Syncing, Adding
<1>10. AddressesHold(n)
  BY <1>3, <1>4, <1>5, <1>6, <1>7 DEF TaskInv, AddressesHold, Syncing, Adding
<1>11. TaskInv(n)
  BY <1>3, <1>5, <1>6, <1>7, <1>8, <1>9, <1>10
     DEF TaskInv, SheetHolds, NewSource, AllGiven, CatalogHolds, NoMembers
<1> QED BY <1>4, <1>6, <1>11, ReadsKeep

LEMMA PruneKeeps == ASSUME SourcesInv, NEW a \in Admins, NEW i \in Ids, Prune(a,
       i) PROVE SourcesInv'
<1>1. PICK t : t = tasks[a]
  OBVIOUS
<1>2. PICK n : n = [t EXCEPT !.used = @ \cup {i}]
  OBVIOUS
<1>3. t \in Task /\ TaskInv(t) /\ RowsHold
  BY <1>1 DEF SourcesInv
<1>4. t.at = "prune" /\ i \in Spare(t)
  BY <1>1 DEF Prune
<1>5. /\ t.op \in {"sheet", "edit", "add"} /\ t.group # NoId /\ t.pending = <<>> /\ t.later = <<>>
      /\ t.at \in Syncing
  BY <1>3, <1>4 DEF TaskInv, TaskHolds, Stages, Syncing, Adding, Task, TaskOps
<1>6. CASE Reads(a, Fails(t))
  BY <1>1, <1>6, FailedKeeps
<1>7. CASE i \in Present /\ Writes(a, i, NoFeed, n)
  <2>1. /\ Present' = Present \ {i} /\ owner' = owner /\ next' = next
        /\ \A j \in Ids \ {i} : feed'[j] = feed[j]
    BY <1>7, WritesRows
  <2>2. t.used \cup {i} \in SUBSET Ids
    BY <1>3 DEF Task
  <2>3. /\ n \in Task /\ n.used = t.used \cup {i}
        /\ n.op = t.op /\ n.at = t.at /\ n.file = t.file /\ n.want = t.want /\ n.k = t.k
        /\ n.id = t.id /\ n.new = t.new /\ n.group = t.group /\ n.url = t.url
        /\ n.members = t.members /\ n.pending = t.pending /\ n.later = t.later /\ n.kept = t.kept
        /\ n.made = t.made /\ n.todo = t.todo /\ n.ok = t.ok /\ n.quiet = t.quiet
    BY <1>2, <1>3, <2>2 DEF Task
  <2>4. Members(n)' = Members(t) /\ Spare(n)' = Spare(t) \ {i}
    BY <2>3 DEF Members, Spare
  <2>5. TaskHolds(n)'
    BY <1>3, <1>4, <1>5, <2>1, <2>3 DEF TaskInv, TaskHolds, Syncing, Adding
  <2>6. GroupStands(n)'
    <3>1. ~Ungrouped(t.group)
      BY <1>3, <1>4, <1>5 DEF TaskInv, GroupStands
    <3>2. ~Ungrouped(t.group)'
      BY <2>1, <3>1 DEF Ungrouped, Present
    <3> QED BY <1>4, <2>3, <3>2 DEF GroupStands, Adding
  <2>7. ASSUME NEW j \in Present \ {i} PROVE Key(j)' = Key(j) /\ feed'[j] = feed[j]
    <3>1. feed'[j] = feed[j]
      BY <2>1 DEF Present
    <3> QED BY <3>1 DEF Key
  <2>8. t.quiet =>
          /\ Spare(t) \subseteq Group(t) /\ \A j \in Spare(t) : feed[j].url = t.members[j]
          /\ {feed[j].url : j \in Through(t)} \cup Elements(t.pending) \cup Elements(t.later)
             = Elements(t.want)
          /\ t.op = "add" /\ owner = "platform" => \E j \in Through(t) : feed[j].url = t.url
    BY <1>3, <1>4, <1>5 DEF TaskInv, AddressesHold, Adding
  <2>9. SheetHolds(n)'
    <3>1. CASE t.op = "sheet"
      <4>1. LinesHold(n)'
        BY <1>3, <1>4, <2>3, <3>1 DEF TaskInv, SheetHolds, LinesHold, Line
      <4>2. ~t.quiet
        <5> SUFFICES ASSUME t.quiet PROVE FALSE
          OBVIOUS
        <5>1. /\ t.new \in Ids /\ t.url \in Urls /\ feed[t.new].url = t.url
              /\ t.want = <<t.url>> /\ Members(t) \subseteq {t.new}
          BY <1>3, <1>4, <3>1 DEF TaskInv, SheetHolds, NewHolds
        <5>2. i = t.new
          BY <1>4, <5>1 DEF Spare
        <5>3. Elements(t.want) = {t.url} /\ Elements(t.pending) = {} /\ Elements(t.later) = {}
          BY <1>5, <5>1 DEF Elements
        <5>4. PICK j \in Through(t) : feed[j].url = t.url
          BY <2>8, <5>3
        <5>5. j \in Present /\ t.new \in Present /\ j \notin Spare(t)
          BY <5>1, SourcesKeys DEF Through, Group, Present
        <5>6. j = t.new
          BY <1>3, <5>1, <5>4, <5>5 DEF RowsHold
        <5> QED BY <1>4, <5>2, <5>5, <5>6
      <4> QED BY <2>3, <4>1, <4>2 DEF SheetHolds, KeptHold, NewHolds
    <3> QED BY <2>3, <3>1 DEF SheetHolds
  <2>10. AddressesHold(n)'
    <3> SUFFICES ASSUME t.quiet PROVE AddressesHold(n)'
      BY <2>3 DEF AddressesHold
    <3>1. Group(n)' = Group(t) \ {i} /\ Group(t) \subseteq Present
      BY <2>1, <2>3, <2>7 DEF Group
    <3>2. Through(n)' = Through(t) /\ Through(t) \subseteq Present \ {i}
      BY <1>4, <2>4, <3>1 DEF Through
    <3>3. \A j \in Through(t) : feed'[j].url = feed[j].url
      BY <2>7, <3>2
    <3>4. {feed'[j].url : j \in Through(n)'} = {feed[j].url : j \in Through(t)}
      BY <3>2, <3>3
    <3>5. Spare(n)' \subseteq Group(n)' /\ Spare(n)' \subseteq Present \ {i}
          /\ Spare(n)' \subseteq Spare(t)
      BY <2>4, <2>8, <3>1
    <3>6. \A j \in Spare(n)' : feed'[j].url = n.members[j]
      BY <2>3, <2>7, <2>8, <3>5
    <3>7. n.op = "add" /\ owner = "platform" => \E j \in Through(n)' : feed'[j].url = n.url
      BY <2>3, <2>8, <3>2, <3>3
    <3> QED BY <1>4, <2>1, <2>3, <2>8, <3>4, <3>5, <3>6, <3>7 DEF AddressesHold, Adding
  <2>11. NewSource(n)' /\ AllGiven(n)' /\ CatalogHolds(n)'
    BY <1>4, <1>5, <2>3 DEF NewSource, AllGiven, CatalogHolds
  <2>12. NoMembers(n)'
    BY <1>3, <2>1, <2>3, <2>4 DEF TaskInv, NoMembers
  <2>13. TaskInv(n)'
    BY <2>5, <2>6, <2>9, <2>10, <2>11, <2>12 DEF TaskInv
  <2> QED BY <1>7, <2>3, <2>13, WritesKeep
<1> QED BY <1>1, <1>2, <1>6, <1>7 DEF Prune

LEMMA PrunedKeeps == ASSUME SourcesInv, NEW a \in Admins, Pruned(a) PROVE SourcesInv'
<1>1. PICK t : t = tasks[a]
  OBVIOUS
<1>2. t \in Task /\ TaskInv(t) /\ RowsHold
  BY <1>1 DEF SourcesInv
<1>3. t.at = "prune" /\ Spare(t) = {} /\ Reads(a, Synchronised(t))
  BY <1>1 DEF Pruned
<1>4. /\ t.op \in {"sheet", "edit", "add"} /\ t.group # NoId /\ t.pending = <<>> /\ t.later = <<>>
      /\ t.at \in Syncing /\ t.group < next
  BY <1>2, <1>3 DEF TaskInv, TaskHolds, Stages, Syncing, Adding, Task, TaskOps
<1>5. CASE t.op = "sheet"
  <2> DEFINE m == NextLine(t, TRUE, {t.new})
  <2>1. t.k <= Len(t.file) /\ Line(t).id = NoId /\ LinesHold(t) /\ KeptHold(t) /\ NewHolds(t)
    BY <1>2, <1>3, <1>5 DEF TaskInv, SheetHolds, LinesHold
  <2>2. t.new \in Ids \cup {NoId}
    BY <1>2, SourcesKeys DEF Task, Ids
  <2>3. {t.new} \in SUBSET (Ids \cup {NoId}) /\ TRUE \in BOOLEAN
        /\ Line(t).id \in {t.new} \cup {NoId}
    BY <2>1, <2>2
  <2>4. /\ AtLine(m) /\ LinesHold(m) /\ m.quiet = t.quiet /\ (m.ok <=> t.ok /\ TRUE)
        /\ m.kept = t.kept \cup ({t.new} \ {NoId}) /\ m.made = t.made
    BY <1>2, <1>5, <2>1, <2>3, NextLineTyped
  <2> HIDE DEF m
  <2>5. t.quiet => t.new \in Present
    BY <1>3, <2>1, SourcesKeys DEF NewHolds, Present
  <2>6. KeptHold(m)
    BY <2>1, <2>4, <2>5 DEF KeptHold, AtLine
  <2>7. TaskInv(m) /\ m \in Task
    BY <1>2, <2>4, <2>6, AtLineInv DEF AtLine, RowsHold
  <2>8. Reads(a, m)
    BY <1>3, <1>5 DEF Synchronised, m
  <2> QED BY <2>7, <2>8, ReadsKeep
<1>6. CASE t.op # "sheet"
  <2>1. PICK n : n = [NoTask EXCEPT !.op = t.op, !.at = "done", !.want = t.want,
                                    !.group = t.group, !.quiet = t.quiet]
    OBVIOUS
  <2>2. Reads(a, n)
    BY <1>3, <1>6, <2>1 DEF Synchronised
  <2>3. /\ n \in Task /\ n.op = t.op /\ n.at = "done" /\ n.want = t.want /\ n.group = t.group
        /\ n.quiet = t.quiet /\ n.id = NoId /\ n.new = NoId /\ n.later = <<>>
        /\ n.members = [j \in Ids |-> NoUrl]
    BY <1>2, <2>1, NoTaskTyped DEF Task, Stage
  <2>4. t.want # <<>>
    BY <1>2, <1>4, <1>6 DEF TaskInv, TaskHolds
  <2>5. TaskHolds(n)
    BY <1>2, <1>4, <1>6, <2>3, <2>4, SourcesKeys DEF RowsHold, TaskHolds, Stages, Syncing, Adding
  <2>6. AllGiven(n)
    <3> SUFFICES ASSUME t.quiet PROVE AllGiven(n)
      BY <2>3 DEF AllGiven
    <3>1. {feed[j].url : j \in Through(t)} \cup Elements(t.pending) \cup Elements(t.later)
          = Elements(t.want)
      BY <1>2, <1>3, <1>4 DEF TaskInv, AddressesHold, Adding
    <3>2. Through(t) = Group(n)
      BY <1>3, <2>3 DEF Through, Group
    <3>3. Elements(<<>>) = {}
      BY DEF Elements
    <3> QED BY <1>4, <2>3, <3>1, <3>2, <3>3 DEF AllGiven
  <2>7. Members(n) = {}
    BY <2>3 DEF Members
  <2>8. TaskInv(n)
    BY <1>4, <1>6, <2>3, <2>5, <2>6, <2>7
       DEF TaskInv, GroupStands, SheetHolds, AddressesHold, NewSource, CatalogHolds, NoMembers,
           Syncing, Adding
  <2> QED BY <2>2, <2>3, <2>8, ReadsKeep
<1> QED BY <1>5, <1>6
-----------------------------------------------------------------------------
LEMMA SourcesInvInit == SourcesInit => SourcesInv
<1> SUFFICES ASSUME SourcesInit PROVE SourcesInv
  OBVIOUS
<1>1. PICK groups \in {<<1, 0>>, <<1, 1>>} :
         feed = [i \in Ids |-> IF i \in DOMAIN groups THEN [url |-> First[i], group |-> groups[i]]
                               ELSE NoFeed]
  BY DEF SourcesInit
<1>2. DOMAIN groups = {1, 2} /\ groups[1] = 1 /\ groups[2] \in {0, 1}
  OBVIOUS
<1>3. First[1] \in Urls /\ First[2] \in Urls /\ First[1] # First[2]
  BY SourcesKeys
<1>4. /\ feed[1] = [url |-> First[1], group |-> 1]
      /\ feed[2] = [url |-> First[2], group |-> groups[2]]
      /\ \A i \in Ids \ {1, 2} : feed[i] = NoFeed
  BY <1>1, <1>2, SourcesKeys
<1>5. NoFeed.url = NoUrl /\ NoFeed.group = 0
      /\ NoFeed \in [url : Urls \cup {NoUrl}, group : 0 .. MaxFeeds]
  BY SourcesKeys DEF NoFeed
<1>6. feed \in [Ids -> [url : Urls \cup {NoUrl}, group : 0 .. MaxFeeds]]
  <2>1. \A i \in Ids : feed[i] \in [url : Urls \cup {NoUrl}, group : 0 .. MaxFeeds]
    BY <1>2, <1>3, <1>4, <1>5, SourcesKeys
  <2> QED BY <1>1, <2>1
<1>7. Present = {1, 2}
  <2>1. feed[1].url # NoUrl /\ feed[2].url # NoUrl
    BY <1>3, <1>4, SourcesKeys
  <2>2. \A i \in Ids : feed[i].url # NoUrl <=> i \in {1, 2}
    BY <1>4, <1>5, <2>1
  <2> QED BY <2>2, SourcesKeys DEF Present
<1>8. RowsHold
  <2>1. owner \in {"platform", "organisation"} /\ next = 3 /\ next \in 3 .. MaxFeeds + 1
        /\ offered \subseteq Present
    BY <1>7, SourcesKeys DEF SourcesInit
  <2>2. \A i, j \in Present : feed[i].url = feed[j].url => i = j
    BY <1>3, <1>4, <1>7
  <2>3. \A i \in Ids : feed[i].group < next /\ (i \in Present => i < next)
    BY <1>2, <1>4, <1>5, <1>7, <2>1
  <2>4. \A i, j \in Present : Ungrouped(i) /\ feed[j].group = i => i = j
    BY <1>2, <1>4, <1>7, SourcesKeys DEF Ungrouped
  <2> QED BY <1>6, <2>1, <2>2, <2>3, <2>4 DEF RowsHold
<1> QED BY <1>8, NoTaskInv, NoTaskTyped DEF SourcesInit, SourcesInv

LEMMA SourcesInvStep == SourcesInv /\ [SourcesNext]_sourcesVars => SourcesInv'
<1> SUFFICES ASSUME SourcesInv, [SourcesNext]_sourcesVars PROVE SourcesInv'
  OBVIOUS
<1>1. ASSUME NEW a \in Admins, Begins(a) PROVE SourcesInv'
  BY <1>1, CheckKeeps, UploadKeeps, AddKeeps, EditKeeps, DeleteKeeps DEF Begins
<1>2. ASSUME NEW a \in Admins, Continues(a) PROVE SourcesInv'
  <2>1. CASE \/ BadLine(a) \/ UpdateLine(a) \/ CreateLine(a) \/ OfferMade(a) \/ ListRest(a)
             \/ Uploaded(a) \/ ListAll(a) \/ OfferMissing(a) \/ Fault(a) \/ Leave(a)
    BY <2>1, BadLineKeeps, UpdateLineKeeps, CreateLineKeeps, OfferMadeKeeps, ListRestKeeps,
       UploadedKeeps, CatalogKeeps
  <2>2. CASE \/ Look(a) \/ Update(a) \/ Create(a) \/ Offer(a) \/ Own(a) \/ Join(a) \/ Roster(a)
    BY <2>2, LookKeeps, UpdateKeeps, CreateKeeps, OfferKeeps, OwnKeeps, JoinKeeps, RosterKeeps
  <2>3. CASE \/ Match(a) \/ Unmatched(a) \/ Matched(a) \/ PassOver(a) \/ Extra(a) \/ Filled(a)
             \/ Pruned(a)
    BY <2>3, MatchKeeps, UnmatchedKeeps, MatchedKeeps, PassOverKeeps, ExtraKeeps, FilledKeeps,
       PrunedKeeps
  <2>4. CASE \E i \in Ids : DeleteRest(a, i) \/ Reuse(a, i) \/ Prune(a, i)
    BY <2>4, DeleteRestKeeps, ReuseKeeps, PruneKeeps
  <2> QED BY <1>2, <2>1, <2>2, <2>3, <2>4 DEF Continues
<1>3. CASE Idle # {} /\ Begins(CHOOSE a \in Idle : TRUE)
  <2>1. PICK a : a = CHOOSE b \in Idle : TRUE
    OBVIOUS
  <2>2. a \in Idle
    BY <1>3, <2>1
  <2>3. a \in Admins
    BY <2>2 DEF Idle
  <2> QED BY <1>1, <1>3, <2>1, <2>3
<1>4. CASE UNCHANGED sourcesVars
  <2>1. UNCHANGED <<owner, feed, next, offered, tasks>>
    BY <1>4 DEF sourcesVars
  <2>2. RowsHold' /\ tasks' \in [Admins -> Task]
    BY <2>1, SameRows DEF SourcesInv
  <2>3. ASSUME NEW a \in Admins PROVE TaskInv(tasks[a])'
    <3>1. PICK t : t = tasks[a]
      OBVIOUS
    <3>2. TaskInv(t)' /\ t = tasks'[a]
      BY <2>1, <3>1, SameRows DEF SourcesInv
    <3> QED BY <3>2
  <2> QED BY <2>2, <2>3 DEF SourcesInv
<1> QED BY <1>2, <1>3, <1>4 DEF SourcesNext

LEMMA SourcesInvariant == SourcesSpec => []SourcesInv
BY SourcesInvInit, SourcesInvStep, PTL DEF SourcesSpec

LEMMA SourcesInvTyped == SourcesInv => SourcesTypeOK
BY DEF SourcesInv, RowsHold, SourcesTypeOK

LEMMA SourcesInvHolds == SourcesInv => SourcesHold
<1> SUFFICES ASSUME SourcesInv PROVE SourcesHold
  OBVIOUS
<1>1. ASSUME NEW a \in Admins PROVE tasks[a] \in Task /\ TaskInv(tasks[a])
  BY DEF SourcesInv
<1>2. ASSUME NEW t \in Task, TaskInv(t), t.op = "sheet", t.at \in {"list", "rest", "done"}
      PROVE  Named(t) \subseteq t.kept
  <2>1. /\ t.k > Len(t.file) /\ t.k \in Nat /\ t.file \in Seq(SheetRow)
        /\ \A j \in DOMAIN t.file : j < t.k => t.file[j].id \in t.kept \cup {NoId}
    BY <1>2 DEF TaskInv, SheetHolds, LinesHold, Task
  <2>2. \A j \in DOMAIN t.file : j < t.k
    BY <2>1
  <2> QED BY <2>1, <2>2 DEF Named
<1>3. NamedStay
  <2> SUFFICES ASSUME NEW a \in Admins, tasks[a].op = "sheet", tasks[a].at = "rest"
               PROVE  tasks[a].todo \cap Named(tasks[a]) = {}
    BY DEF NamedStay
  <2>1. PICK t : t = tasks[a]
    OBVIOUS
  <2>2. t.todo \cap t.kept = {} /\ Named(t) \subseteq t.kept
    BY <1>1, <1>2, <2>1 DEF TaskInv, SheetHolds, LinesHold
  <2> QED BY <2>1, <2>2
<1>4. SheetApplied
  <2> SUFFICES ASSUME NEW a \in Admins, NEW t, t = tasks[a], t.op = "sheet", t.at = "done",
                      t.ok, t.quiet
               PROVE  Present = t.kept /\ Named(t) \subseteq Present /\ t.made \subseteq offered
    BY DEF SheetApplied
  <2>1. Present = t.kept /\ t.made \subseteq offered /\ Named(t) \subseteq t.kept
    BY <1>1, <1>2 DEF TaskInv, SheetHolds, KeptHold
  <2> QED BY <2>1
<1>5. GroupAsAsked
  BY <1>1 DEF GroupAsAsked, TaskInv, AllGiven, Group, Elements
<1>6. OfferedWhenQuiet
  BY <1>1 DEF OfferedWhenQuiet, TaskInv, CatalogHolds
<1> QED BY <1>3, <1>4, <1>5, <1>6 DEF SourcesHold

(* The rows always have their shape, an address is never that of two rows, *)
(* and the organisations are offered only rows that are there.             *)
THEOREM SourcesTyped == SourcesSpec => []SourcesTypeOK
BY SourcesInvariant, SourcesInvTyped, PTL

(* No upload deletes a source its file names; an undisturbed one without   *)
(* errors leaves what it saved and no other; an undisturbed edit or        *)
(* addition leaves the addresses that were asked for; ensureSubscriptions  *)
(* leaves, or finds, the whole catalog offered.                            *)
THEOREM SourcesSafe == SourcesSpec => []SourcesHold
BY SourcesInvariant, SourcesInvHolds, PTL
-----------------------------------------------------------------------------
(* The tab                                                                  *)

(* Calls, and what they have been given.                                   *)
Given   == [of : Maybe(Tenants), who : Maybe(Users)]
MeKinds == {"init", "me", "login", "loginMe"}
TabSet  == [ready : BOOLEAN, who : Maybe(Users), active : Maybe(Tenants)]

BrowserShapes ==
    /\ stored \in Maybe(Tenants)
    /\ cookie \in [who : Maybe(Users), state : {"fresh", "stale", "dead"}]
    /\ tab \in TabSet
    /\ shell \in [loaded : Maybe(Tenants) \cup {"new"}, data : Given]
    /\ form \in Maybe(Tenants)
    /\ elsewhere \subseteq {"header", "shell", "who"}
    /\ left \in BOOLEAN /\ returned \in BOOLEAN
    /\ calls \subseteq Call

Fits(cs, n) == IsFiniteSet(cs) /\ Cardinality(cs) + n <= MaxTabCalls

(* A call has been given nothing before it is answered, a fetch only what  *)
(* is of the organisation it asked for; and a save goes where it was       *)
(* typed.                                                                  *)
CallHolds(c) ==
    /\ c.at # "answered" => c.got = Fail
    /\ c.latest => c.kind = "data"
    /\ c.kind = "data" /\ c.got # Fail => c.got.of = c.tenant
    /\ c.kind = "save" /\ ~c.apart => c.tenant = c.typed

CallsHold == \A c \in calls : CallHolds(c)

(* The header, the form, the shell and the fetch whose answer it will take *)
(* are of the organisation that is shown, but for a switch in another tab. *)
PlacesHold ==
    /\ Open(tab) => stored = tab.active \/ "header" \in elsewhere
    /\ form # None => Open(tab) /\ form = tab.active
    /\ shell.data # Fail => shell.data.of = shell.loaded
    /\ \A c \in calls : c.latest => Open(tab) /\ (c.tenant = stored \/ "shell" \in elsewhere)
    /\ NeverWaitsForNothing

(* What was under way at the sign-out is marked.                           *)
LeftHolds == left => tab.who = None /\ \A c \in calls : c.kind \in MeKinds => c.apart

OneSignIn(cs) ==
    \A c, d \in cs : c.kind \in {"login", "loginMe"} /\ d.kind \in {"login", "loginMe"} => c = d

(* Whose answer will be taken for the user.                                *)
Names(c) == c.kind \in {"init", "me", "loginMe"} /\ ~c.apart /\ c.got.who # None

(* The user was set by an answer that is not of before.                    *)
Known == tab.who # None /\ ~returned

SignInsHold ==
    \A c \in calls : c.kind = "login" /\ c.at = "sent" =>
        /\ ~Known
        /\ \A d \in calls : d.kind \in {"init", "me", "loginMe"} => d.apart

(* The cookies, the user who is shown, the answers that name one and the   *)
(* data of the shell are of one person, until another tab signs in or out. *)
OnePerson ==
    "who" \notin elsewhere =>
        /\ Known /\ cookie.who # None => tab.who = cookie.who
        /\ Known /\ shell.data # Fail => shell.data.who = tab.who
        /\ \A c \in calls :
              /\ Names(c) /\ cookie.who # None => c.got.who = cookie.who
              /\ Names(c) /\ Known => c.got.who = tab.who
              /\ c.latest /\ Known /\ c.got # Fail => c.got.who = tab.who
        /\ \A c, d \in calls : Names(c) /\ Names(d) => c.got.who = d.got.who

BrowserInv ==
    /\ BrowserShapes /\ Fits(calls, 0) /\ CallsHold /\ PlacesHold /\ LeftHolds
    /\ OneSignIn(calls) /\ SignInsHold /\ OnePerson
-----------------------------------------------------------------------------
LEMMA BrowserKeys ==
    /\ None \notin Users /\ None \notin Tenants /\ MaxTabCalls \in Nat /\ MaxTabCalls >= 1
    /\ None \in Maybe(Users) /\ None \in Maybe(Tenants) /\ Fail \in Given
    /\ Fail.of = None /\ Fail.who = None
    /\ \A u \in Users : Member[u] \subseteq Tenants
BY BrowserAssumption DEF BrowserAssumption, Maybe, Fail, Given

LEMMA SentTyped ==
    ASSUME NEW kind \in Kinds
    PROVE  /\ Sent(kind) \in Call /\ Sent(kind).kind = kind /\ Sent(kind).got = Fail
           /\ Sent(kind).at = "sent" /\ Sent(kind).apart = FALSE /\ Sent(kind).latest = FALSE
           /\ Sent(kind).tenant = None /\ Sent(kind).typed = None
BY BrowserKeys DEF Sent, Call, Given

LEMMA FetchTyped ==
    ASSUME NEW tenant \in Maybe(Tenants)
    PROVE  /\ Fetch(tenant) \in Call /\ Fetch(tenant).kind = "data" /\ Fetch(tenant).got = Fail
           /\ Fetch(tenant).at = "sent" /\ Fetch(tenant).apart = FALSE
           /\ Fetch(tenant).latest = TRUE /\ Fetch(tenant).tenant = tenant
BY SentTyped DEF Fetch, Kinds, Call

(* What becomes of a call that goes on, but for its place and its answer.  *)
SameCall(d, c) ==
    /\ d \in Call /\ d.kind = c.kind /\ d.who = c.who /\ d.tenant = c.tenant /\ d.typed = c.typed

LEMMA MovedTyped ==
    ASSUME NEW c \in Call, NEW at \in {"sent", "renewing", "again", "answered"}, NEW got \in Given
    PROVE  LET d == [c EXCEPT !.at = at, !.got = got] IN
           /\ SameCall(d, c) /\ d.at = at /\ d.got = got /\ d.apart = c.apart
           /\ d.latest = c.latest
BY DEF SameCall, Call, Given

LEMMA AtTyped ==
    ASSUME NEW c \in Call, NEW at \in {"sent", "renewing", "again", "answered"}
    PROVE  LET d == [c EXCEPT !.at = at] IN
           /\ SameCall(d, c) /\ d.at = at /\ d.got = c.got /\ d.apart = c.apart
           /\ d.latest = c.latest
BY DEF SameCall, Call

LEMMA SupersededTyped ==
    ASSUME NEW c \in Call
    PROVE  LET d == [c EXCEPT !.latest = FALSE] IN
           /\ SameCall(d, c) /\ d.at = c.at /\ d.got = c.got /\ d.apart = c.apart
           /\ d.latest = FALSE
BY DEF SameCall, Call

LEMMA BeforeTyped ==
    ASSUME NEW c \in Call
    PROVE  LET d == [c EXCEPT !.apart = c.apart \/ c.kind \in MeKinds] IN
           /\ SameCall(d, c) /\ d.at = c.at /\ d.got = c.got /\ d.latest = c.latest
           /\ d.apart <=> (c.apart \/ c.kind \in MeKinds)
BY DEF SameCall, Call

(* The calls of a set after each of them is dropped by its hook, or marked *)
(* as one of before.                                                       *)
LEMMA SupersededCalls ==
    ASSUME NEW cs \in SUBSET Call
    PROVE  /\ \A d \in Superseded(cs) : \E c \in cs :
                  /\ SameCall(d, c) /\ d.at = c.at /\ d.got = c.got /\ d.apart = c.apart
                  /\ d.latest = FALSE
           /\ OneSignIn(cs) => OneSignIn(Superseded(cs))
<1>1. ASSUME NEW d \in Superseded(cs)
      PROVE  \E c \in cs : d = [c EXCEPT !.latest = FALSE]
  BY DEF Superseded
<1>2. ASSUME NEW d \in Superseded(cs)
      PROVE  \E c \in cs : /\ d = [c EXCEPT !.latest = FALSE]
                           /\ SameCall(d, c) /\ d.at = c.at /\ d.got = c.got /\ d.apart = c.apart
                           /\ d.latest = FALSE
  <2>1. PICK c \in cs : d = [c EXCEPT !.latest = FALSE]
    BY <1>1
  <2>2. c \in Call
    OBVIOUS
  <2> QED BY <2>1, <2>2, SupersededTyped
<1>3. ASSUME OneSignIn(cs) PROVE OneSignIn(Superseded(cs))
  <2> SUFFICES ASSUME NEW d \in Superseded(cs), NEW e \in Superseded(cs),
                      d.kind \in {"login", "loginMe"}, e.kind \in {"login", "loginMe"}
               PROVE  d = e
    BY DEF OneSignIn
  <2>1. PICK c \in cs : d = [c EXCEPT !.latest = FALSE] /\ d.kind = c.kind
    BY <1>2 DEF SameCall
  <2>2. PICK b \in cs : e = [b EXCEPT !.latest = FALSE] /\ e.kind = b.kind
    BY <1>2 DEF SameCall
  <2>3. b = c
    BY <1>3, <2>1, <2>2 DEF OneSignIn
  <2> QED BY <2>1, <2>2, <2>3
<1> QED BY <1>2, <1>3

LEMMA BeforeCalls ==
    ASSUME NEW cs \in SUBSET Call
    PROVE  /\ \A d \in Before(cs) : \E c \in cs :
                  /\ SameCall(d, c) /\ d.at = c.at /\ d.got = c.got /\ d.latest = c.latest
                  /\ d.apart <=> (c.apart \/ c.kind \in MeKinds)
           /\ \A c \in cs : \E d \in Before(cs) :
                  SameCall(d, c) /\ d.latest = c.latest
           /\ OneSignIn(cs) => OneSignIn(Before(cs))
<1>0. Before(cs) = {[c EXCEPT !.apart = c.apart \/ c.kind \in MeKinds] : c \in cs}
  BY DEF Before, MeKinds
<1>1. ASSUME NEW d \in Before(cs)
      PROVE  \E c \in cs : d = [c EXCEPT !.apart = c.apart \/ c.kind \in MeKinds]
  BY <1>0
<1>2. ASSUME NEW d \in Before(cs)
      PROVE  \E c \in cs : /\ d = [c EXCEPT !.apart = c.apart \/ c.kind \in MeKinds]
                           /\ SameCall(d, c) /\ d.at = c.at /\ d.got = c.got
                           /\ d.latest = c.latest
                           /\ d.apart <=> (c.apart \/ c.kind \in MeKinds)
  <2>1. PICK c \in cs : d = [c EXCEPT !.apart = c.apart \/ c.kind \in MeKinds]
    BY <1>1
  <2>2. c \in Call
    OBVIOUS
  <2> QED BY <2>1, <2>2, BeforeTyped
<1>3. ASSUME NEW c \in cs
      PROVE  \E d \in Before(cs) : SameCall(d, c) /\ d.latest = c.latest
  <2>1. c \in Call /\ [c EXCEPT !.apart = c.apart \/ c.kind \in MeKinds] \in Before(cs)
    BY <1>0
  <2> QED BY <2>1, BeforeTyped
<1>4. ASSUME OneSignIn(cs) PROVE OneSignIn(Before(cs))
  <2> SUFFICES ASSUME NEW d \in Before(cs), NEW e \in Before(cs),
                      d.kind \in {"login", "loginMe"}, e.kind \in {"login", "loginMe"}
               PROVE  d = e
    BY DEF OneSignIn
  <2>1. PICK c \in cs : /\ d = [c EXCEPT !.apart = c.apart \/ c.kind \in MeKinds]
                        /\ d.kind = c.kind
    BY <1>2 DEF SameCall
  <2>2. PICK b \in cs : /\ e = [b EXCEPT !.apart = b.apart \/ b.kind \in MeKinds]
                        /\ e.kind = b.kind
    BY <1>2 DEF SameCall
  <2>3. b = c
    BY <1>4, <2>1, <2>2 DEF OneSignIn
  <2> QED BY <2>1, <2>2, <2>3
<1> QED BY <1>2, <1>3, <1>4

(* The calls that wait for the one refresh go on together.                 *)
LEMMA AfterCalls ==
    ASSUME calls \in SUBSET Call, NEW state \in {"again", "answered"}
    PROVE  /\ \A d \in After(state) : \E c \in calls :
                  /\ SameCall(d, c) /\ d.got = c.got /\ d.apart = c.apart /\ d.latest = c.latest
                  /\ d = c \/ (d.at = state /\ c.at = "renewing")
           /\ \A c \in calls : \E d \in After(state) :
                  SameCall(d, c) /\ d.latest = c.latest
           /\ OneSignIn(calls) => OneSignIn(After(state))
<1> DEFINE to(c) == [c EXCEPT !.at = state]
<1>0. After(state) = (calls \ Waiting) \cup {to(c) : c \in Waiting}
  BY DEF After
<1>1. ASSUME NEW c \in calls
      PROVE  /\ SameCall(c, c) /\ SameCall(to(c), c) /\ to(c).at = state /\ to(c).got = c.got
             /\ to(c).apart = c.apart /\ to(c).latest = c.latest
             /\ to(c).kind = c.kind
  <2>1. c \in Call
    OBVIOUS
  <2>2. /\ SameCall(to(c), c) /\ to(c).at = state /\ to(c).got = c.got
        /\ to(c).apart = c.apart /\ to(c).latest = c.latest
    BY <2>1, AtTyped
  <2>3. to(c).kind = c.kind
    BY <2>2 DEF SameCall
  <2>4. SameCall(c, c)
    BY <2>1 DEF SameCall
  <2> QED BY <2>2, <2>3, <2>4
<1> HIDE DEF to
<1>2. ASSUME NEW d \in After(state)
      PROVE  \E c \in calls : \/ d = c /\ c \notin Waiting
                              \/ d = to(c) /\ c \in Waiting /\ c.at = "renewing"
  BY <1>0 DEF Waiting
<1>3. ASSUME NEW d \in After(state)
      PROVE  \E c \in calls : 
                  /\ SameCall(d, c) /\ d.got = c.got /\ d.apart = c.apart /\ d.latest = c.latest
                  /\ d = c \/ (d.at = state /\ c.at = "renewing")
  <2>1. PICK c \in calls : d = c \/ (d = to(c) /\ c.at = "renewing")
    BY <1>2
  <2> QED BY <1>1, <2>1
<1>4. ASSUME NEW c \in calls
      PROVE  \E d \in After(state) : SameCall(d, c) /\ d.latest = c.latest
  <2>1. CASE c \in Waiting
    BY <1>0, <1>1, <2>1
  <2>2. CASE c \notin Waiting
    BY <1>0, <1>1, <2>2
  <2> QED BY <2>1, <2>2
<1>5. ASSUME OneSignIn(calls) PROVE OneSignIn(After(state))
  <2> SUFFICES ASSUME NEW d \in After(state), NEW e \in After(state),
                      d.kind \in {"login", "loginMe"}, e.kind \in {"login", "loginMe"}
               PROVE  d = e
    BY DEF OneSignIn
  <2>1. PICK c \in calls : \/ d = c /\ c \notin Waiting
                           \/ d = to(c) /\ c \in Waiting
    BY <1>2
  <2>2. PICK b \in calls : \/ e = b /\ b \notin Waiting
                           \/ e = to(b) /\ b \in Waiting
    BY <1>2
  <2>3. c.kind = d.kind /\ b.kind = e.kind
    BY <1>1, <2>1, <2>2
  <2>4. b = c
    BY <1>5, <2>3 DEF OneSignIn
  <2> QED BY <2>1, <2>2, <2>4
<1> QED BY <1>3, <1>4, <1>5
-----------------------------------------------------------------------------
LEMMA FitsImage ==
    ASSUME NEW cs, NEW n \in Nat, Fits(cs, n), NEW ds, NEW f \in Surjection(cs, ds)
    PROVE  Fits(ds, n)
<1>1. IsFiniteSet(cs) /\ Cardinality(cs) + n <= MaxTabCalls /\ Cardinality(cs) \in Nat
  BY FS_CardinalityType DEF Fits
<1>2. IsFiniteSet(ds) /\ Cardinality(ds) <= Cardinality(cs)
  BY <1>1, FS_Surjection
<1>3. Cardinality(ds) \in Nat
  BY <1>2, FS_CardinalityType
<1> QED BY <1>1, <1>2, <1>3, BrowserKeys DEF Fits

LEMMA FitsAdd ==
    ASSUME NEW cs, Fits(cs, 1), NEW d PROVE Fits(cs \cup {d}, 0)
<1>1. IsFiniteSet(cs) /\ Cardinality(cs) + 1 <= MaxTabCalls /\ Cardinality(cs) \in Nat
  BY FS_CardinalityType DEF Fits
<1>2. /\ IsFiniteSet(cs \cup {d})
      /\ Cardinality(cs \cup {d}) = IF d \in cs THEN Cardinality(cs) ELSE Cardinality(cs) + 1
  BY <1>1, FS_AddElement
<1> QED BY <1>1, <1>2, BrowserKeys DEF Fits

LEMMA FitsRest ==
    ASSUME NEW cs, Fits(cs, 0), NEW c \in cs PROVE Fits(cs \ {c}, 1) /\ Fits(cs \ {c}, 0)
<1>1. IsFiniteSet(cs) /\ Cardinality(cs) + 0 <= MaxTabCalls /\ Cardinality(cs) \in Nat
  BY FS_CardinalityType DEF Fits
<1>2. IsFiniteSet(cs \ {c}) /\ Cardinality(cs \ {c}) = Cardinality(cs) - 1
  BY <1>1, FS_RemoveElement
<1>3. Cardinality(cs \ {c}) \in Nat
  BY <1>2, FS_CardinalityType
<1> QED BY <1>1, <1>2, <1>3, BrowserKeys DEF Fits

LEMMA FitsLess ==
    ASSUME NEW cs, Fits(cs, 1) PROVE Fits(cs, 0)
<1>1. IsFiniteSet(cs) /\ Cardinality(cs) + 1 <= MaxTabCalls /\ Cardinality(cs) \in Nat
  BY FS_CardinalityType DEF Fits
<1> QED BY <1>1, BrowserKeys DEF Fits

LEMMA FitsOne == ASSUME NEW d PROVE Fits({d}, 0)
<1>1. IsFiniteSet({d}) /\ Cardinality({d}) = 1
  BY FS_Singleton
<1>2. 1 + 0 <= MaxTabCalls
  BY BrowserKeys
<1> QED BY <1>1, <1>2 DEF Fits

LEMMA FitsRoom == ASSUME Fits(calls, 0), Room PROVE Fits(calls, 1)
<1>1. IsFiniteSet(calls) /\ Cardinality(calls) < MaxTabCalls /\ Cardinality(calls) \in Nat
  BY FS_CardinalityType DEF Fits, Room
<1> QED BY <1>1, BrowserKeys DEF Fits

LEMMA FitsMarked ==
    ASSUME NEW cs, NEW n \in Nat, Fits(cs, n)
    PROVE  Fits(Superseded(cs), n) /\ Fits(Before(cs), n)
<1>1. Fits(Superseded(cs), n)
  <2> DEFINE f == [c \in cs |-> [c EXCEPT !.latest = FALSE]]
  <2>1. f \in Surjection(cs, Superseded(cs))
    BY DEF Surjection, Superseded
  <2> QED BY <2>1, FitsImage
<1>2. Fits(Before(cs), n)
  <2> DEFINE f == [c \in cs |-> [c EXCEPT !.apart = c.apart \/
                                   c.kind \in {"init", "me", "login", "loginMe"}]]
  <2>1. f \in Surjection(cs, Before(cs))
    BY DEF Surjection, Before
  <2> QED BY <2>1, FitsImage
<1> QED BY <1>1, <1>2

LEMMA FitsAfter ==
    ASSUME Fits(calls, 0), NEW state PROVE Fits(After(state), 0)
<1> DEFINE f == [c \in calls |-> IF c.at = "renewing" THEN [c EXCEPT !.at = state] ELSE c]
<1>1. f \in Surjection(calls, After(state))
  BY DEF Surjection, After, Waiting
<1> QED BY <1>1, FitsImage

LEMMA FitsMoved ==
    ASSUME Fits(calls, 0), NEW c \in calls, NEW d, Moved(c, d) PROVE Fits(calls, 0)'
<1>1. Fits((calls \ {c}) \cup {d}, 0)
  BY FitsRest, FitsAdd
<1> QED BY <1>1 DEF Moved, Fits
-----------------------------------------------------------------------------
(* A call that is still the one it was, as far as who is signed in, or     *)
(* where the tab is, depends on it.                                        *)
Carried(d, c) ==
    /\ d.kind = c.kind /\ d.tenant = c.tenant /\ d.got = c.got
    /\ d.at = "sent" => c.at = "sent"
    /\ c.apart => d.apart
    /\ d.latest => c.latest

LEMMA CarriedSame == \A c : Carried(c, c)
BY DEF Carried

SigningInLater == \E c \in calls' : c.kind = "login" /\ c.at = "sent"

(* As long as calls only go on, and new ones do not name a user, what has  *)
(* named one names the same.                                               *)
LEMMA WhoGoesOn ==
    ASSUME SignInsHold, OnePerson,
           \A d \in calls' :
              \/ \E c \in calls : Carried(d, c)
              \/ /\ d.got = Fail /\ d.kind # "login"
                 /\ d.kind \in {"init", "me", "loginMe"} => d.apart \/ ~SigningInLater,
           cookie'.who \in {cookie.who, None},
           Known' => Known /\ tab'.who = tab.who,
           \/ shell'.data \in {Fail, shell.data}
           \/ \E c \in calls : c.latest /\ c.got = shell'.data,
           "who" \in elsewhere => "who" \in elsewhere'
    PROVE  SignInsHold' /\ OnePerson'
<1>1. SignInsHold'
  <2> SUFFICES ASSUME NEW c \in calls', c.kind = "login", c.at = "sent"
               PROVE  /\ ~Known'
                      /\ \A d \in calls' : d.kind \in {"init", "me", "loginMe"} => d.apart
    BY DEF SignInsHold
  <2>1. PICK b \in calls : b.kind = "login" /\ b.at = "sent"
    BY DEF Carried
  <2>2. ~Known /\ \A d \in calls : d.kind \in {"init", "me", "loginMe"} => d.apart
    BY <2>1 DEF SignInsHold
  <2>3. SigningInLater
    BY DEF SigningInLater
  <2> QED BY <2>2, <2>3 DEF Carried
<1>2. OnePerson'
  <2> SUFFICES ASSUME "who" \notin elsewhere' PROVE OnePerson'
    BY DEF OnePerson
  <2>0. "who" \notin elsewhere
    OBVIOUS
  <2>1. ASSUME NEW d \in calls', Names(d)
        PROVE  \E c \in calls : Names(c) /\ c.got.who = d.got.who
    <3>1. d.got # Fail
      BY <2>1 DEF Names, Fail
    <3>2. PICK c \in calls : Carried(d, c)
      BY <3>1
    <3>3. Names(c) /\ c.got = d.got
      BY <2>1, <3>2 DEF Carried, Names
    <3> QED BY <3>3
  <2>2. ASSUME NEW d \in calls', d.latest, d.got # Fail
        PROVE  \E c \in calls : c.latest /\ c.got = d.got
    BY <2>2 DEF Carried
  <2>3. Known' /\ cookie'.who # None => tab'.who = cookie'.who
    BY <2>0 DEF OnePerson
  <2>4. Known' /\ shell'.data # Fail => shell'.data.who = tab'.who
    BY <2>0 DEF OnePerson
  <2>5. ASSUME NEW d \in calls'
        PROVE  /\ Names(d) /\ cookie'.who # None => d.got.who = cookie'.who
               /\ Names(d) /\ Known' => d.got.who = tab'.who
               /\ d.latest /\ Known' /\ d.got # Fail => d.got.who = tab'.who
    <3>1. ASSUME Names(d)
          PROVE  /\ cookie'.who # None => d.got.who = cookie'.who
                 /\ Known' => d.got.who = tab'.who
      <4>1. PICK c \in calls : Names(c) /\ c.got.who = d.got.who
        BY <2>1, <3>1
      <4> QED BY <2>0, <4>1 DEF OnePerson
    <3>2. ASSUME d.latest, d.got # Fail, Known' PROVE d.got.who = tab'.who
      <4>1. PICK c \in calls : c.latest /\ c.got = d.got
        BY <2>2, <3>2
      <4> QED BY <2>0, <3>2, <4>1 DEF OnePerson
    <3> QED BY <3>1, <3>2
  <2>6. ASSUME NEW d \in calls', NEW e \in calls', Names(d), Names(e)
        PROVE  d.got.who = e.got.who
    <3>1. PICK c \in calls : Names(c) /\ c.got.who = d.got.who
      BY <2>1, <2>6
    <3>2. PICK b \in calls : Names(b) /\ b.got.who = e.got.who
      BY <2>1, <2>6
    <3> QED BY <2>0, <3>1, <3>2 DEF OnePerson
  <2> QED BY <2>3, <2>4, <2>5, <2>6 DEF OnePerson
<1> QED BY <1>1, <1>2

(* As long as the tab stays where it is, and the fetch whose answer it     *)
(* will take goes on, so do the places.                                    *)
LEMMA PlacesGoOn ==
    ASSUME PlacesHold, CallsHold, UNCHANGED <<stored, tab, shell>>, form' \in {form, None},
           "header" \in elsewhere => "header" \in elsewhere',
           "shell" \in elsewhere <=> "shell" \in elsewhere',
           \A d \in calls' : d.latest => \E c \in calls : c.latest /\ c.tenant = d.tenant,
           \A c \in calls : c.latest => \E d \in calls' : d.latest /\ d.kind = c.kind
    PROVE  PlacesHold'
<1>1. Open(tab)' <=> Open(tab)
  BY DEF Open
<1>2. NeverWaitsForNothing'
  <2> SUFFICES ASSUME Open(tab), shell.loaded # stored, "shell" \notin elsewhere
               PROVE  \E d \in calls' : d.kind = "data" /\ d.latest
    BY <1>1 DEF NeverWaitsForNothing
  <2>1. PICK c \in calls : c.kind = "data" /\ c.latest
    BY DEF PlacesHold, NeverWaitsForNothing
  <2> QED BY <2>1
<1> QED BY <1>1, <1>2 DEF PlacesHold

LEMMA LeftGoesOn ==
    ASSUME LeftHolds, left' => left, left' => tab'.who \in {tab.who, None},
           \A d \in calls' : (\E c \in calls : Carried(d, c)) \/ d.kind \notin MeKinds \/ d.apart
    PROVE  LeftHolds'
BY DEF LeftHolds, Carried

(* What does not touch the calls, the tab, the shell or who is signed in.  *)
LEMMA CallsStay ==
    ASSUME BrowserInv, UNCHANGED <<calls, left, returned, shell>>, tab'.who = tab.who,
           cookie'.who \in {cookie.who, None}, "who" \in elsewhere => "who" \in elsewhere'
    PROVE  /\ Fits(calls, 0)' /\ CallsHold' /\ OneSignIn(calls)'
           /\ LeftHolds' /\ SignInsHold' /\ OnePerson'
<1>1. Fits(calls, 0)' /\ CallsHold' /\ OneSignIn(calls)'
  BY DEF BrowserInv, Fits, CallsHold, CallHolds, OneSignIn
<1>2. \A d \in calls' : \E c \in calls : Carried(d, c)
  BY CarriedSame
<1>3. LeftHolds'
  BY <1>2, LeftGoesOn DEF BrowserInv
<1>4. Known' => Known /\ tab'.who = tab.who
  BY DEF Known
<1>5. SignInsHold' /\ OnePerson'
  BY <1>2, <1>4, WhoGoesOn DEF BrowserInv
<1> QED BY <1>1, <1>3, <1>5

LEMMA BrowserInvInit == BrowserInit => BrowserInv
<1> SUFFICES ASSUME BrowserInit PROVE BrowserInv
  OBVIOUS
<1> DEFINE i == Sent("init")
<1>1. /\ i \in Call /\ i.kind = "init" /\ i.got = Fail /\ i.at = "sent" /\ i.apart = FALSE
      /\ i.latest = FALSE
  BY SentTyped DEF Kinds
<1> HIDE DEF i
<1>2. calls = {i} /\ tab = NoTab /\ shell = NewShell /\ elsewhere = {} /\ form = None
      /\ stored = None /\ cookie = [who |-> None, state |-> "dead"] /\ left = FALSE
      /\ returned = FALSE
  BY DEF BrowserInit, i
<1>3. tab \in TabSet /\ tab.who = None /\ ~Open(tab)
  BY <1>2, BrowserKeys DEF NoTab, TabSet, Open
<1>4. shell \in [loaded : Maybe(Tenants) \cup {"new"}, data : Given] /\ shell.data = Fail
  BY <1>2, BrowserKeys DEF NewShell
<1>5. BrowserShapes
  BY <1>1, <1>2, <1>3, <1>4, BrowserKeys DEF BrowserShapes
<1>6. Fits(calls, 0)
  BY <1>2, FitsOne
<1>7. CallsHold /\ LeftHolds /\ OneSignIn(calls)
  BY <1>1, <1>2 DEF CallsHold, CallHolds, LeftHolds, OneSignIn
<1>8. PlacesHold
  BY <1>1, <1>2, <1>3, <1>4 DEF PlacesHold, NeverWaitsForNothing
<1>9. SignInsHold /\ OnePerson
  BY <1>1, <1>2, <1>3, <1>4, BrowserKeys DEF SignInsHold, OnePerson, Names, Known
<1> QED BY <1>5, <1>6, <1>7, <1>8, <1>9 DEF BrowserInv
-----------------------------------------------------------------------------
LEMMA ReloadKeeps == ASSUME BrowserInv, Reload PROVE BrowserInv'
<1> DEFINE i == Sent("init")
<1>1. /\ i \in Call /\ i.kind = "init" /\ i.got = Fail /\ i.at = "sent" /\ i.apart = FALSE
      /\ i.latest = FALSE
  BY SentTyped DEF Kinds
<1> HIDE DEF i
<1>2. calls' = {i} /\ tab' = NoTab /\ shell' = NewShell /\ elsewhere' = {} /\ form' = None
      /\ stored' = stored /\ cookie' = cookie /\ left' = FALSE /\ returned' = FALSE
  BY DEF Reload, i
<1>3. tab' \in TabSet /\ tab'.who = None /\ ~Open(tab)'
  BY <1>2, BrowserKeys DEF NoTab, TabSet, Open
<1>4. shell' \in [loaded : Maybe(Tenants) \cup {"new"}, data : Given] /\ shell'.data = Fail
  BY <1>2, BrowserKeys DEF NewShell
<1>5. BrowserShapes'
  BY <1>1, <1>2, <1>3, <1>4, BrowserKeys DEF BrowserInv, BrowserShapes
<1>6. Fits(calls, 0)'
  <2>1. Fits({i}, 0)
    BY FitsOne
  <2> QED BY <1>2, <2>1 DEF Fits
<1>7. CallsHold' /\ LeftHolds' /\ OneSignIn(calls)'
  BY <1>1, <1>2 DEF CallsHold, CallHolds, LeftHolds, OneSignIn
<1>8. PlacesHold'
  BY <1>1, <1>2, <1>3, <1>4 DEF PlacesHold, NeverWaitsForNothing
<1>9. SignInsHold' /\ OnePerson'
  BY <1>1, <1>2, <1>3, <1>4, BrowserKeys DEF SignInsHold, OnePerson, Names, Known
<1> QED BY <1>5, <1>6, <1>7, <1>8, <1>9 DEF BrowserInv

LEMMA CallTyped0 == ASSUME BrowserInv, NEW c \in calls PROVE c \in Call /\ CallHolds(c)
BY DEF BrowserInv, BrowserShapes, CallsHold

LEMMA LoginKeeps == ASSUME BrowserInv, NEW u \in Users, Login(u) PROVE BrowserInv'
<1> DEFINE n == [Sent("login") EXCEPT !.who = u]
<1>1. /\ n \in Call /\ n.kind = "login" /\ n.got = Fail /\ n.at = "sent" /\ n.latest = FALSE
  BY SentTyped DEF Kinds, Call, Maybe
<1> HIDE DEF n
<1>2. /\ tab.who = None /\ Room /\ \A c \in calls : c.kind \notin {"login", "loginMe"}
      /\ calls' = Before(calls) \cup {n} /\ left' = FALSE /\ returned' = FALSE
      /\ elsewhere' = elsewhere \ {"who"} /\ UNCHANGED <<stored, cookie, tab, shell, form>>
  BY DEF Login, n
<1>3. calls \in SUBSET Call
  BY DEF BrowserInv, BrowserShapes
<1>4. /\ \A d \in Before(calls) : \E c \in calls :
            /\ SameCall(d, c) /\ d.at = c.at /\ d.got = c.got /\ d.latest = c.latest
            /\ d.apart <=> (c.apart \/ c.kind \in MeKinds)
      /\ \A c \in calls : \E d \in Before(calls) : SameCall(d, c) /\ d.latest = c.latest
  BY <1>3, BeforeCalls
<1>5. BrowserShapes'
  BY <1>1, <1>2, <1>4 DEF BrowserInv, BrowserShapes, SameCall
<1>6. Fits(calls, 0)'
  <2>1. Fits(Before(calls) \cup {n}, 0)
    BY <1>2, FitsRoom, FitsMarked, FitsAdd DEF BrowserInv
  <2> QED BY <1>2, <2>1 DEF Fits
<1>7. CallsHold'
  <2>1. ASSUME NEW d \in Before(calls) PROVE CallHolds(d)
    <3>1. PICK c \in calls : 
            /\ SameCall(d, c) /\ d.at = c.at /\ d.got = c.got /\ d.latest = c.latest
            /\ d.apart <=> (c.apart \/ c.kind \in MeKinds)
      BY <1>4
    <3>2. CallHolds(c)
      BY CallTyped0
    <3> QED BY <3>1, <3>2 DEF CallHolds, SameCall, MeKinds
  <2> QED BY <1>1, <1>2, <2>1 DEF CallsHold, CallHolds
<1>8. PlacesHold'
  <2>1. \A d \in calls' : d.latest => \E c \in calls : c.latest /\ c.tenant = d.tenant
    BY <1>1, <1>2, <1>4 DEF SameCall
  <2>2. \A c \in calls : c.latest => \E d \in calls' : d.latest /\ d.kind = c.kind
    BY <1>2, <1>4 DEF SameCall
  <2> QED BY <1>2, <2>1, <2>2, PlacesGoOn DEF BrowserInv
<1>9. LeftHolds'
  BY <1>2 DEF LeftHolds
<1>10. \A d \in calls' : \/ d = n
                         \/ /\ d.kind \notin {"login", "loginMe"}
                            /\ d.kind \in MeKinds => d.apart
  BY <1>2, <1>4 DEF SameCall
<1>11. OneSignIn(calls)'
  BY <1>10 DEF OneSignIn
<1>12. SignInsHold' /\ OnePerson'
  <2>1. ~Known'
    BY <1>2 DEF Known
  <2>2. \A d \in calls' : d.kind \in {"init", "me", "loginMe"} => d.apart
    BY <1>1, <1>10 DEF MeKinds
  <2>3. \A d \in calls' : ~Names(d)
    BY <2>2 DEF Names
  <2> QED BY <2>1, <2>2, <2>3 DEF SignInsHold, OnePerson
<1> QED BY <1>5, <1>6, <1>7, <1>8, <1>9, <1>11, <1>12 DEF BrowserInv
-----------------------------------------------------------------------------
LEMMA OneSignInAdd ==
    ASSUME NEW cs, OneSignIn(cs), NEW d, d.kind \notin {"login", "loginMe"}
    PROVE  OneSignIn(cs \cup {d})
BY DEF OneSignIn

LEMMA OneSignInLess ==
    ASSUME NEW cs, OneSignIn(cs), NEW ds \in SUBSET cs
    PROVE  OneSignIn(ds)
BY DEF OneSignIn

(* The tab shows t, with cs under way: the shell fetches again, unless the *)
(* organisation is the same.                                               *)
LEMMA ShowsKeeps ==
    ASSUME BrowserInv, NEW t \in TabSet, NEW heard \in BOOLEAN, NEW cs \in SUBSET Call,
           Shows(t, heard, cs), stored' \in Maybe(Tenants),
           Fits(cs, 0), Open(t) => Fits(cs, 1),
           OneSignIn(cs), \A c \in cs : CallHolds(c),
           Open(t) => stored' = t.active,
           ~heard => stored' = stored,
           Open(t) => \A c : c.latest => (c \in cs <=> c \in calls)
    PROVE  /\ tab' = t /\ calls' \subseteq Call /\ elsewhere' \subseteq elsewhere
           /\ shell' \in [loaded : Maybe(Tenants) \cup {"new"}, data : Given]
           /\ shell'.data \in {Fail, shell.data} /\ (~Open(tab) => shell'.data = Fail)
           /\ form' \in {form, None}
           /\ "who" \in elsewhere' <=> "who" \in elsewhere
           /\ Fits(calls, 0)' /\ CallsHold' /\ OneSignIn(calls)' /\ PlacesHold'
           /\ \A d \in calls' : (\E c \in cs : Carried(d, c)) \/ (d.got = Fail /\ d.kind = "data")
<1>1. /\ \A d \in Superseded(cs) : \E c \in cs :
            /\ SameCall(d, c) /\ d.at = c.at /\ d.got = c.got /\ d.apart = c.apart
            /\ d.latest = FALSE
      /\ OneSignIn(Superseded(cs))
  BY SupersededCalls
<1>2. /\ shell \in [loaded : Maybe(Tenants) \cup {"new"}, data : Given]
      /\ NewShell \in [loaded : Maybe(Tenants) \cup {"new"}, data : Given]
      /\ NewShell.data = Fail /\ NewShell.loaded = "new"
  BY BrowserKeys DEF BrowserInv, BrowserShapes, NewShell
<1>3. \A d \in Superseded(cs) : /\ d \in Call /\ CallHolds(d) /\ d.latest = FALSE
                                /\ \E c \in cs : Carried(d, c)
  <2> TAKE d \in Superseded(cs)
  <2>1. PICK c \in cs : /\ SameCall(d, c) /\ d.at = c.at /\ d.got = c.got /\ d.apart = c.apart
                        /\ d.latest = FALSE
    BY <1>1
  <2>2. CallHolds(c)
    OBVIOUS
  <2> QED BY <2>1, <2>2 DEF SameCall, CallHolds, Carried
<1>4. tab' = t /\ (Open(tab)' <=> Open(t))
  BY DEF Shows, Open
<1>5. form' = IF Open(tab) /\ Open(t) /\ t.active = tab.active THEN form ELSE None
  BY DEF Shows
<1>6. form' # None => Open(t) /\ form' = t.active
  BY <1>5 DEF BrowserInv, PlacesHold
<1>7. CASE ~Open(t)
  <2>1. shell' = NewShell /\ calls' = Superseded(cs) /\ elsewhere' = elsewhere \ {"header", "shell"}
    BY <1>7 DEF Shows
  <2>2. Fits(calls, 0)'
    <3>1. Fits(Superseded(cs), 0)
      BY FitsMarked
    <3> QED BY <2>1, <3>1 DEF Fits
  <2>3. CallsHold' /\ OneSignIn(calls)' /\ calls' \subseteq Call
    BY <1>1, <1>3, <2>1 DEF CallsHold, OneSignIn
  <2>4. PlacesHold'
    BY <1>2, <1>3, <1>4, <1>6, <1>7, <2>1 DEF PlacesHold, NeverWaitsForNothing
  <2> QED BY <1>2, <1>3, <1>4, <1>5, <2>1, <2>2, <2>3, <2>4
<1>8. CASE Open(t) /\ (heard \/ ~Open(tab))
  <2> DEFINE n == Fetch(stored')
  <2>1. /\ calls' = Superseded(cs) \cup {n} /\ elsewhere' = elsewhere \ {"header", "shell"}
        /\ shell' = IF ~Open(tab) \/ shell.loaded # stored' THEN NewShell ELSE shell
    BY <1>8 DEF Shows
  <2>2. /\ n \in Call /\ n.kind = "data" /\ n.got = Fail /\ n.at = "sent" /\ n.apart = FALSE
        /\ n.latest = TRUE /\ n.tenant = stored'
    BY FetchTyped
  <2> HIDE DEF n
  <2>3. Fits(calls, 0)'
    <3>1. Fits(Superseded(cs), 1)
      BY <1>8, FitsMarked
    <3>2. Fits(Superseded(cs) \cup {n}, 0)
      BY <3>1, FitsAdd
    <3> QED BY <2>1, <3>2 DEF Fits
  <2>4. CallsHold' /\ calls' \subseteq Call
    BY <1>3, <2>1, <2>2 DEF CallsHold, CallHolds
  <2>5. OneSignIn(calls)'
    <3>1. OneSignIn(Superseded(cs) \cup {n})
      BY <1>1, <2>2, OneSignInAdd
    <3> QED BY <2>1, <3>1 DEF OneSignIn
  <2>6. PlacesHold'
    <3>1. shell'.data # Fail => shell'.data.of = shell'.loaded
      BY <1>2, <2>1 DEF BrowserInv, PlacesHold
    <3>2. \A c \in calls' : c.latest => c.tenant = stored'
      BY <1>3, <2>1, <2>2
    <3>3. \E c \in calls' : c.kind = "data" /\ c.latest
      BY <2>1, <2>2
    <3> QED BY <1>4, <1>6, <1>8, <3>1, <3>2, <3>3 DEF PlacesHold, NeverWaitsForNothing
  <2>7. \A d \in calls' : (\E c \in cs : Carried(d, c)) \/ (d.got = Fail /\ d.kind = "data")
    BY <1>3, <2>1, <2>2
  <2>8. shell' \in {shell, NewShell} /\ (~Open(tab) => shell' = NewShell)
    BY <2>1
  <2> QED BY <1>2, <1>4, <1>5, <2>1, <2>3, <2>4, <2>5, <2>6, <2>7, <2>8
<1>9. CASE Open(t) /\ ~heard /\ Open(tab)
  <2>1. shell' = shell /\ calls' = cs /\ elsewhere' = elsewhere \ {"header"} /\ stored' = stored
    BY <1>9 DEF Shows
  <2>2. Fits(calls, 0)' /\ OneSignIn(calls)' /\ CallsHold'
    BY <2>1 DEF Fits, OneSignIn, CallsHold
  <2>3. PlacesHold'
    <3>1. \A c \in calls' : c.latest => c.tenant = stored' \/ "shell" \in elsewhere'
      BY <1>9, <2>1 DEF BrowserInv, PlacesHold
    <3>2. NeverWaitsForNothing'
      BY <1>9, <2>1 DEF BrowserInv, PlacesHold, NeverWaitsForNothing
    <3>3. shell'.data # Fail => shell'.data.of = shell'.loaded
      BY <2>1 DEF BrowserInv, PlacesHold
    <3> QED BY <1>4, <1>6, <1>9, <3>1, <3>2, <3>3 DEF PlacesHold
  <2>4. \A d \in calls' : \E c \in cs : Carried(d, c)
    BY <2>1, CarriedSame
  <2> QED BY <1>2, <1>4, <1>5, <1>9, <2>1, <2>2, <2>3, <2>4
<1> QED BY <1>7, <1>8, <1>9

LEMMA ResolvedTyped ==
    ASSUME BrowserInv, NEW u \in Maybe(Users)
    PROVE  /\ Resolved(u) \in Maybe(Tenants)
           /\ u # None /\ stored \in Member[u] => Resolved(u) = stored
<1>1. CASE u = None
  BY <1>1, BrowserKeys DEF Resolved
<1>2. CASE u # None
  <2>1. u \in Users /\ Member[u] \subseteq Tenants
    BY <1>2, BrowserKeys DEF Maybe
  <2>2. Cardinality(Member[u]) = 1 => Member[u] # {}
    BY FS_EmptySet
  <2>3. Resolved(u) \in Member[u] \cup {None}
    BY <1>2, <2>2 DEF Resolved
  <2> QED BY <1>2, <2>1, <2>3 DEF Maybe, Resolved
<1> QED BY <1>1, <1>2

(* An answer that names u, or nobody, and that is heard: the calls but it  *)
(* go on.                                                                  *)
LEMMA BecomesKeeps ==
    ASSUME BrowserInv, NEW c \in calls, c.kind \in {"init", "me", "loginMe"},
           NEW u \in Maybe(Users), BecomesAs(u, Rest(c))
    PROVE  /\ tab' \in TabSet /\ tab'.who = u /\ stored' \in Maybe(Tenants)
           /\ calls' \subseteq Call /\ elsewhere' \subseteq elsewhere
           /\ shell' \in [loaded : Maybe(Tenants) \cup {"new"}, data : Given]
           /\ shell'.data \in {Fail, shell.data} /\ (~Open(tab) => shell'.data = Fail)
           /\ form' \in {form, None}
           /\ "who" \in elsewhere' <=> "who" \in elsewhere
           /\ Fits(calls, 0)' /\ CallsHold' /\ OneSignIn(calls)' /\ PlacesHold'
           /\ \A d \in calls' : \/ \E b \in calls : Carried(d, b) /\ b # c
                                \/ d.got = Fail /\ d.kind = "data"
<1> DEFINE t == [ready |-> TRUE, who |-> u, active |-> Resolved(u)]
           heard == u = None \/ stored \notin Member[u]
<1>1. stored' = Resolved(u) /\ Shows(t, heard, Rest(c))
  BY DEF BecomesAs
<1>2. t \in TabSet /\ t.who = u /\ t.active = Resolved(u) /\ Resolved(u) \in Maybe(Tenants)
  BY ResolvedTyped DEF TabSet
<1>3. Rest(c) \in SUBSET Call /\ \A b \in Rest(c) : CallHolds(b)
  BY DEF BrowserInv, BrowserShapes, CallsHold, Rest
<1>4. Fits(Rest(c), 1) /\ Fits(Rest(c), 0)
  BY FitsRest DEF BrowserInv, Rest
<1>5. OneSignIn(Rest(c))
  BY OneSignInLess DEF BrowserInv, Rest
<1>6. heard \in BOOLEAN /\ (~heard => stored' = stored)
  BY <1>1, ResolvedTyped
<1>7. CallHolds(c) /\ ~c.latest
  BY CallTyped0 DEF CallHolds
<1>8. \A b : b.latest => (b \in Rest(c) <=> b \in calls)
  BY <1>7 DEF Rest
<1> HIDE DEF t, heard
<1>9. /\ tab' = t /\ calls' \subseteq Call /\ elsewhere' \subseteq elsewhere
      /\ shell' \in [loaded : Maybe(Tenants) \cup {"new"}, data : Given]
      /\ shell'.data \in {Fail, shell.data} /\ (~Open(tab) => shell'.data = Fail)
      /\ form' \in {form, None}
      /\ "who" \in elsewhere' <=> "who" \in elsewhere
      /\ Fits(calls, 0)' /\ CallsHold' /\ OneSignIn(calls)' /\ PlacesHold'
      /\ \A d \in calls' : \/ \E b \in Rest(c) : Carried(d, b)
                           \/ d.got = Fail /\ d.kind = "data"
  BY <1>1, <1>2, <1>3, <1>4, <1>5, <1>6, <1>8, ShowsKeeps
<1> QED BY <1>1, <1>2, <1>9 DEF Rest
-----------------------------------------------------------------------------
(* What changes the calls but neither the tab nor its shell.               *)
LEMMA QuietKeeps ==
    ASSUME BrowserInv, UNCHANGED <<stored, tab, shell, elsewhere>>, form' \in {form, None},
           cookie' \in [who : Maybe(Users), state : {"fresh", "stale", "dead"}],
           cookie'.who \in {cookie.who, None},
           left' \in BOOLEAN, returned' \in BOOLEAN, left' => left, Known' => Known,
           calls' \subseteq Call, Fits(calls, 0)', CallsHold', OneSignIn(calls)',
           \A d \in calls' :
              \/ \E c \in calls : Carried(d, c)
              \/ /\ d.got = Fail /\ d.kind # "login"
                 /\ d.kind \in {"init", "me", "loginMe"} => d.apart \/ ~SigningInLater
                 /\ left /\ d.kind \in MeKinds => d.apart,
           \A d \in calls' : d.latest => \E c \in calls : c.latest /\ c.tenant = d.tenant,
           \A c \in calls : c.latest => \E d \in calls' : d.latest /\ d.kind = c.kind
    PROVE  BrowserInv'
<1>1. BrowserShapes'
  <2>1. form' \in Maybe(Tenants)
    BY BrowserKeys DEF BrowserInv, BrowserShapes
  <2> QED BY <2>1 DEF BrowserInv, BrowserShapes
<1>2. PlacesHold'
  BY PlacesGoOn DEF BrowserInv
<1>3. LeftHolds'
  BY DEF BrowserInv, LeftHolds, Carried
<1>4. Known' => Known /\ tab'.who = tab.who
  OBVIOUS
<1>5. SignInsHold' /\ OnePerson'
  BY <1>4, WhoGoesOn DEF BrowserInv
<1> QED BY <1>1, <1>2, <1>3, <1>5 DEF BrowserInv

(* One call goes on, or another takes its place.                           *)
LEMMA MovedKeeps ==
    ASSUME BrowserInv, UNCHANGED <<stored, cookie, tab, shell, form, elsewhere, left, returned>>,
           NEW c \in calls, NEW d, Moved(c, d), SameCall(d, c), CallHolds(d),
           d.apart <=> c.apart, d.latest <=> c.latest, d.at # "sent",
           d.got = c.got
    PROVE  BrowserInv'
<1>1. calls' = (calls \ {c}) \cup {d} /\ calls \subseteq Call /\ d \in Call
  BY DEF Moved, BrowserInv, BrowserShapes, SameCall
<1>2. Fits(calls, 0)'
  BY FitsMoved DEF BrowserInv
<1>3. CallsHold'
  BY <1>1 DEF CallsHold, BrowserInv
<1>4. OneSignIn(calls)'
  BY <1>1 DEF BrowserInv, OneSignIn, SameCall
<1>5. \A e \in calls' : \E b \in calls : Carried(e, b)
  <2>1. Carried(d, c)
    BY DEF Carried, SameCall
  <2> QED BY <1>1, <2>1, CarriedSame
<1>6. \A e \in calls' : e.latest => \E b \in calls : b.latest /\ b.tenant = e.tenant
  BY <1>5 DEF Carried
<1>7. \A b \in calls : b.latest => \E e \in calls' : e.latest /\ e.kind = b.kind
  BY <1>1 DEF SameCall
<1>8. /\ cookie' \in [who : Maybe(Users), state : {"fresh", "stale", "dead"}]
      /\ left' \in BOOLEAN /\ returned' \in BOOLEAN /\ (Known' => Known)
      /\ cookie'.who \in {cookie.who, None} /\ form' \in {form, None} /\ calls' \subseteq Call
  BY <1>1 DEF BrowserInv, BrowserShapes, Known
<1> QED BY <1>2, <1>3, <1>4, <1>5, <1>6, <1>7, <1>8, QuietKeeps

(* A call is over, or one that waits for nothing is added.                 *)
LEMMA LessKeeps ==
    ASSUME BrowserInv, UNCHANGED <<stored, tab, shell, elsewhere>>, form' \in {form, None},
           cookie' \in [who : Maybe(Users), state : {"fresh", "stale", "dead"}],
           cookie'.who \in {cookie.who, None},
           left' \in BOOLEAN, returned' \in BOOLEAN, left' => left, Known' => Known,
           NEW c \in calls, ~c.latest, calls' = calls \ {c}
    PROVE  BrowserInv'
<1>1. calls' \subseteq Call /\ CallsHold'
  BY DEF BrowserInv, BrowserShapes, CallsHold
<1>2. Fits(calls, 0)'
  <2>1. Fits(calls \ {c}, 0)
    BY FitsRest DEF BrowserInv
  <2> QED BY <2>1 DEF Fits
<1>3. OneSignIn(calls)'
  BY DEF BrowserInv, OneSignIn
<1>4. \A d \in calls' : \E b \in calls : Carried(d, b)
  BY CarriedSame
<1>5. \A d \in calls' : d.latest => \E b \in calls : b.latest /\ b.tenant = d.tenant
  OBVIOUS
<1>6. \A b \in calls : b.latest => \E d \in calls' : d.latest /\ d.kind = b.kind
  OBVIOUS
<1> QED BY <1>1, <1>2, <1>3, <1>4, <1>5, <1>6, QuietKeeps

LEMMA MoreKeeps ==
    ASSUME BrowserInv, UNCHANGED <<stored, cookie, tab, shell, elsewhere, left, returned>>,
           form' \in {form, None}, Room,
           NEW d \in Call, calls' = calls \cup {d}, CallHolds(d), d.got = Fail, ~d.latest,
           d.kind \notin {"login", "loginMe"},
           d.kind \in {"init", "me"} => (d.apart \/ ~SigningIn) /\ ~left
    PROVE  BrowserInv'
<1>1. calls' \subseteq Call /\ CallsHold'
  BY DEF BrowserInv, BrowserShapes, CallsHold
<1>2. Fits(calls, 0)'
  <2>1. Fits(calls \cup {d}, 0)
    BY FitsRoom, FitsAdd DEF BrowserInv
  <2> QED BY <2>1 DEF Fits
<1>3. OneSignIn(calls)'
  BY DEF BrowserInv, OneSignIn
<1>4. \A e \in calls' :
              \/ \E c \in calls : Carried(e, c)
              \/ /\ e.got = Fail /\ e.kind # "login"
                 /\ e.kind \in {"init", "me", "loginMe"} => e.apart \/ ~SigningInLater
                 /\ left /\ e.kind \in MeKinds => e.apart
  BY CarriedSame DEF SigningIn, SigningInLater, MeKinds
<1>5. \A e \in calls' : e.latest => \E c \in calls : c.latest /\ c.tenant = e.tenant
  OBVIOUS
<1>6. \A c \in calls : c.latest => \E e \in calls' : e.latest /\ e.kind = c.kind
  OBVIOUS
<1>7. /\ cookie' \in [who : Maybe(Users), state : {"fresh", "stale", "dead"}]
      /\ left' \in BOOLEAN /\ returned' \in BOOLEAN /\ (Known' => Known)
      /\ cookie'.who \in {cookie.who, None} /\ (left' => left)
  BY DEF BrowserInv, BrowserShapes, Known
<1> QED BY <1>1, <1>2, <1>3, <1>4, <1>5, <1>6, <1>7, QuietKeeps

LEMMA RefreshUserKeeps == ASSUME BrowserInv, RefreshUser PROVE BrowserInv'
<1> DEFINE d == [Sent("me") EXCEPT !.apart = SigningIn]
<1>1. /\ Open(tab) /\ Room /\ calls' = calls \cup {d}
      /\ UNCHANGED <<stored, cookie, tab, shell, form, elsewhere, left, returned>>
  BY DEF RefreshUser
<1>2. SigningIn \in BOOLEAN
  BY DEF SigningIn
<1>3. d \in Call /\ d.kind = "me" /\ d.got = Fail /\ (d.apart <=> SigningIn) /\ d.latest = FALSE
  BY <1>2, SentTyped DEF Kinds, Call
<1> HIDE DEF d
<1>4. CallHolds(d) /\ ~left
  BY <1>1, <1>3 DEF CallHolds, Open, BrowserInv, LeftHolds
<1> QED BY <1>1, <1>3, <1>4, MoreKeeps

LEMMA SaveKeeps == ASSUME BrowserInv, Save PROVE BrowserInv'
<1> DEFINE d == [Sent("save") EXCEPT !.tenant = stored, !.typed = form,
                                     !.apart = "header" \in elsewhere]
<1>1. /\ form # None /\ Room /\ calls' = calls \cup {d} /\ form' = None
      /\ UNCHANGED <<stored, cookie, tab, shell, elsewhere, left, returned>>
  BY DEF Save
<1>2. /\ d \in Call /\ d.kind = "save" /\ d.got = Fail /\ d.latest = FALSE
      /\ d.tenant = stored /\ d.typed = form /\ (d.apart <=> "header" \in elsewhere)
  <2>1. ("header" \in elsewhere) \in BOOLEAN /\ stored \in Maybe(Tenants) /\ form \in Maybe(Tenants)
    BY DEF BrowserInv, BrowserShapes
  <2> QED BY <2>1, SentTyped DEF Kinds, Call
<1> HIDE DEF d
<1>3. CallHolds(d)
  BY <1>1, <1>2 DEF CallHolds, BrowserInv, PlacesHold
<1> QED BY <1>1, <1>2, <1>3, MoreKeeps

LEMMA OpenFormKeeps == ASSUME BrowserInv, OpenForm PROVE BrowserInv'
<1>1. /\ Open(tab) /\ form' = tab.active
      /\ UNCHANGED <<stored, cookie, tab, shell, calls, elsewhere, left, returned>>
  BY DEF OpenForm
<1>2. BrowserShapes'
  BY <1>1 DEF BrowserInv, BrowserShapes, TabSet
<1>3. PlacesHold'
  BY <1>1 DEF BrowserInv, PlacesHold, NeverWaitsForNothing, Open
<1> QED BY <1>1, <1>2, <1>3, CallsStay DEF BrowserInv

LEMMA CookieKeeps ==
    ASSUME BrowserInv, TokenExpires \/ SessionEnds PROVE BrowserInv'
<1>1. /\ cookie' \in [who : Maybe(Users), state : {"fresh", "stale", "dead"}]
      /\ cookie'.who = cookie.who
      /\ UNCHANGED <<stored, tab, shell, form, calls, elsewhere, left, returned>>
  BY DEF TokenExpires, SessionEnds, BrowserInv, BrowserShapes
<1>2. BrowserShapes'
  BY <1>1 DEF BrowserInv, BrowserShapes
<1>3. PlacesHold'
  BY <1>1 DEF BrowserInv, PlacesHold, NeverWaitsForNothing, Open
<1> QED BY <1>1, <1>2, <1>3, CallsStay DEF BrowserInv
-----------------------------------------------------------------------------
LEMMA FailingKeeps == ASSUME BrowserInv, NEW c \in calls, Failing(c) PROVE BrowserInv'
<1> DEFINE d == [c EXCEPT !.at = "answered"]
<1>1. /\ Moved(c, d)
      /\ UNCHANGED <<stored, cookie, tab, shell, form, elsewhere, left, returned>>
  BY DEF Failing
<1>2. c \in Call /\ CallHolds(c)
  BY CallTyped0
<1>3. SameCall(d, c) /\ d.at = "answered" /\ d.got = c.got /\ d.apart = c.apart
      /\ d.latest = c.latest
  BY <1>2, AtTyped
<1> HIDE DEF d
<1>4. CallHolds(d)
  BY <1>2, <1>3 DEF CallHolds, SameCall
<1> QED BY <1>1, <1>3, <1>4, MovedKeeps

LEMMA ServeLogoutKeeps == ASSUME BrowserInv, NEW c \in calls, ServeLogout(c) PROVE BrowserInv'
<1>1. /\ c.kind = "logout" /\ cookie' = [who |-> None, state |-> "dead"] /\ calls' = calls \ {c}
      /\ UNCHANGED <<stored, tab, shell, form, elsewhere, left, returned>>
  BY DEF ServeLogout
<1>2. ~c.latest
  BY <1>1, CallTyped0 DEF CallHolds
<1>3. /\ cookie' \in [who : Maybe(Users), state : {"fresh", "stale", "dead"}]
      /\ cookie'.who = None
  BY <1>1, BrowserKeys
<1>4. left' \in BOOLEAN /\ returned' \in BOOLEAN /\ (left' => left) /\ (Known' => Known)
  BY <1>1 DEF BrowserInv, BrowserShapes, Known
<1> QED BY <1>1, <1>2, <1>3, <1>4, LessKeeps

LEMMA FinishedKeeps == ASSUME BrowserInv, NEW c \in calls, Finished(c) PROVE BrowserInv'
<1>1. /\ c.kind \in {"save", "logout"} /\ calls' = calls \ {c}
      /\ UNCHANGED <<stored, cookie, tab, shell, form, elsewhere, left, returned>>
  BY DEF Finished, Rest
<1>2. ~c.latest
  BY <1>1, CallTyped0 DEF CallHolds
<1>3. /\ cookie' \in [who : Maybe(Users), state : {"fresh", "stale", "dead"}]
      /\ left' \in BOOLEAN /\ returned' \in BOOLEAN /\ (left' => left) /\ (Known' => Known)
  BY <1>1 DEF BrowserInv, BrowserShapes, Known
<1> QED BY <1>1, <1>2, <1>3, LessKeeps

(* What the one refresh lets go on.                                        *)
LEMMA AfterKeeps ==
    ASSUME BrowserInv, NEW state \in {"again", "answered"}
    PROVE  /\ After(state) \in SUBSET Call /\ Fits(After(state), 0) /\ OneSignIn(After(state))
           /\ \A d \in After(state) : CallHolds(d) /\ \E c \in calls : Carried(d, c)
           /\ \A d \in After(state) : d.latest => \E c \in calls : c.latest /\ c.tenant = d.tenant
           /\ \A c \in calls : c.latest => \E d \in After(state) : d.latest /\ d.kind = c.kind
<1>1. calls \in SUBSET Call /\ Fits(calls, 0) /\ OneSignIn(calls)
  BY DEF BrowserInv, BrowserShapes
<1>2. /\ \A d \in After(state) : \E c \in calls :
            /\ SameCall(d, c) /\ d.got = c.got /\ d.apart = c.apart /\ d.latest = c.latest
            /\ d = c \/ (d.at = state /\ c.at = "renewing")
      /\ \A c \in calls : \E d \in After(state) : SameCall(d, c) /\ d.latest = c.latest
      /\ OneSignIn(After(state))
  BY <1>1, AfterCalls
<1>3. Fits(After(state), 0)
  BY <1>1, FitsAfter
<1>4. ASSUME NEW d \in After(state)
      PROVE  d \in Call /\ CallHolds(d) /\ \E c \in calls : Carried(d, c)
  <2>1. PICK c \in calls :
            /\ SameCall(d, c) /\ d.got = c.got /\ d.apart = c.apart /\ d.latest = c.latest
            /\ d = c \/ (d.at = state /\ c.at = "renewing")
    BY <1>2
  <2>2. CallHolds(c)
    BY CallTyped0
  <2> QED BY <2>1, <2>2 DEF CallHolds, SameCall, Carried
<1>5. \A d \in After(state) : d.latest => \E c \in calls : c.latest /\ c.tenant = d.tenant
  BY <1>4 DEF Carried
<1>6. \A c \in calls : c.latest => \E d \in After(state) : d.latest /\ d.kind = c.kind
  BY <1>2 DEF SameCall
<1> QED BY <1>2, <1>3, <1>4, <1>5, <1>6

LEMMA GoOnTogether ==
    ASSUME BrowserInv, NEW state \in {"again", "answered"}, calls' = After(state),
           UNCHANGED <<stored, tab, shell, form, elsewhere, left>>,
           cookie' \in [who : Maybe(Users), state : {"fresh", "stale", "dead"}],
           cookie'.who = cookie.who, returned' \in BOOLEAN, Known' => Known
    PROVE  BrowserInv'
<1>1. calls' \subseteq Call
  BY AfterKeeps
<1>2. Fits(calls, 0)' /\ CallsHold' /\ OneSignIn(calls)'
  <2>1. /\ Fits(After(state), 0) /\ OneSignIn(After(state))
        /\ \A d \in After(state) : CallHolds(d)
    BY AfterKeeps
  <2> QED BY <2>1 DEF Fits, CallsHold, OneSignIn
<1>3. \A d \in calls' : \E c \in calls : Carried(d, c)
  BY AfterKeeps
<1>4. /\ \A d \in calls' : d.latest => \E c \in calls : c.latest /\ c.tenant = d.tenant
      /\ \A c \in calls : c.latest => \E d \in calls' : d.latest /\ d.kind = c.kind
  BY AfterKeeps
<1>5. left' \in BOOLEAN
  BY DEF BrowserInv, BrowserShapes
<1> QED BY <1>1, <1>2, <1>3, <1>4, <1>5, QuietKeeps

LEMMA RenewKeeps == ASSUME BrowserInv, Renew \/ RenewFails PROVE BrowserInv'
<1>1. PICK state \in {"again", "answered"} : calls' = After(state)
  BY DEF Renew, RenewFails
<1>2. UNCHANGED <<stored, tab, shell, form, elsewhere, left, returned>>
  BY DEF Renew, RenewFails
<1>3. /\ cookie' \in [who : Maybe(Users), state : {"fresh", "stale", "dead"}]
      /\ cookie'.who = cookie.who
  BY DEF Renew, RenewFails, BrowserInv, BrowserShapes
<1>4. returned' \in BOOLEAN /\ (Known' => Known)
  BY <1>2 DEF BrowserInv, BrowserShapes, Known
<1> QED BY <1>1, <1>2, <1>3, <1>4, GoOnTogether

LEMMA ExpiredKeeps == ASSUME BrowserInv, Expired PROVE BrowserInv'
<1>1. returned' = FALSE /\ UNCHANGED <<cookie, left>>
  BY DEF Expired
<1>2. CASE /\ tab.who = None /\ calls' = After("answered")
           /\ UNCHANGED <<stored, tab, shell, form, elsewhere>>
  <2>1. /\ cookie' \in [who : Maybe(Users), state : {"fresh", "stale", "dead"}]
        /\ returned' \in BOOLEAN /\ (Known' => Known)
    BY <1>1, <1>2 DEF BrowserInv, BrowserShapes, Known
  <2> QED BY <1>1, <1>2, <2>1, GoOnTogether
<1>3. CASE /\ tab.who # None /\ stored' = None
           /\ Shows([tab EXCEPT !.who = None, !.active = None], TRUE, After("answered"))
  <2> DEFINE t == [tab EXCEPT !.who = None, !.active = None]
             cs == After("answered")
  <2>1. t \in TabSet /\ t.who = None /\ ~Open(t)
    BY BrowserKeys DEF BrowserInv, BrowserShapes, TabSet, Open
  <2>2. /\ cs \in SUBSET Call /\ Fits(cs, 0) /\ OneSignIn(cs)
        /\ \A d \in cs : CallHolds(d) /\ \E c \in calls : Carried(d, c)
    BY AfterKeeps
  <2>3. Shows(t, TRUE, cs) /\ stored' = None /\ stored' \in Maybe(Tenants)
    BY <1>3, BrowserKeys
  <2> HIDE DEF t, cs
  <2>4. /\ tab' = t /\ calls' \subseteq Call /\ elsewhere' \subseteq elsewhere
        /\ shell' \in [loaded : Maybe(Tenants) \cup {"new"}, data : Given]
        /\ shell'.data \in {Fail, shell.data}
        /\ form' \in {form, None}
        /\ "who" \in elsewhere' <=> "who" \in elsewhere
        /\ Fits(calls, 0)' /\ CallsHold' /\ OneSignIn(calls)' /\ PlacesHold'
        /\ \A d \in calls' : (\E c \in cs : Carried(d, c)) \/ (d.got = Fail /\ d.kind = "data")
    BY <2>1, <2>2, <2>3, ShowsKeeps
  <2>5. \A d \in calls' : (\E c \in calls : Carried(d, c)) \/ (d.got = Fail /\ d.kind = "data")
    BY <2>2, <2>4 DEF Carried
  <2>6. SignInsHold' /\ OnePerson'
    <3>1. ~Known'
      BY <2>1, <2>4 DEF Known
    <3> QED BY <1>1, <2>4, <2>5, <3>1, WhoGoesOn DEF BrowserInv
  <2>7. LeftHolds'
    BY <1>1, <2>1, <2>4, <2>5, LeftGoesOn DEF BrowserInv, MeKinds
  <2>8. BrowserShapes'
    <3>1. form' \in Maybe(Tenants)
      BY <2>4, BrowserKeys DEF BrowserInv, BrowserShapes
    <3> QED BY <1>1, <2>1, <2>3, <2>4, <3>1 DEF BrowserInv, BrowserShapes
  <2> QED BY <2>4, <2>6, <2>7, <2>8 DEF BrowserInv
<1> QED BY <1>2, <1>3 DEF Expired

LEMMA PollKeeps == ASSUME BrowserInv, Poll PROVE BrowserInv'
<1> DEFINE n == Fetch(stored)
<1>1. /\ Open(tab) /\ Room /\ calls' = Superseded(calls) \cup {n}
      /\ shell' = IF shell.loaded # stored THEN [shell EXCEPT !.data = Fail] ELSE shell
      /\ elsewhere' = elsewhere \ {"shell"}
      /\ UNCHANGED <<stored, cookie, tab, form, left, returned>>
  BY DEF Poll
<1>2. calls \in SUBSET Call /\ stored \in Maybe(Tenants) /\ OneSignIn(calls) /\ Fits(calls, 1)
  BY <1>1, FitsRoom DEF BrowserInv, BrowserShapes
<1>3. /\ n \in Call /\ n.kind = "data" /\ n.got = Fail /\ n.at = "sent" /\ n.apart = FALSE
      /\ n.latest = TRUE /\ n.tenant = stored
  BY <1>2, FetchTyped
<1> HIDE DEF n
<1>4. /\ \A d \in Superseded(calls) : \E c \in calls :
            /\ SameCall(d, c) /\ d.at = c.at /\ d.got = c.got /\ d.apart = c.apart
            /\ d.latest = FALSE
      /\ OneSignIn(Superseded(calls))
  BY <1>2, SupersededCalls
<1>5. \A d \in Superseded(calls) : /\ d \in Call /\ CallHolds(d) /\ d.latest = FALSE
                                   /\ \E c \in calls : Carried(d, c)
  <2> TAKE d \in Superseded(calls)
  <2>1. PICK c \in calls : /\ SameCall(d, c) /\ d.at = c.at /\ d.got = c.got
                           /\ d.apart = c.apart /\ d.latest = FALSE
    BY <1>4
  <2>2. CallHolds(c)
    BY CallTyped0
  <2> QED BY <2>1, <2>2 DEF SameCall, CallHolds, Carried
<1>6. Fits(calls, 0)'
  <2>1. Fits(Superseded(calls) \cup {n}, 0)
    BY <1>2, FitsMarked, FitsAdd
  <2> QED BY <1>1, <2>1 DEF Fits
<1>7. CallsHold' /\ calls' \subseteq Call
  BY <1>1, <1>3, <1>5 DEF CallsHold, CallHolds
<1>8. OneSignIn(calls)'
  <2>1. OneSignIn(Superseded(calls) \cup {n})
    BY <1>3, <1>4, OneSignInAdd
  <2> QED BY <1>1, <2>1 DEF OneSignIn
<1>9. \A d \in calls' : (\E c \in calls : Carried(d, c)) \/ (d.got = Fail /\ d.kind = "data")
  BY <1>1, <1>3, <1>5
<1>10. shell \in [loaded : Maybe(Tenants) \cup {"new"}, data : Given]
  BY DEF BrowserInv, BrowserShapes
<1>11. /\ shell' \in [loaded : Maybe(Tenants) \cup {"new"}, data : Given]
       /\ shell'.data \in {Fail, shell.data} /\ shell'.loaded = shell.loaded
       /\ shell'.data # Fail => shell' = shell
  BY <1>1, <1>10, BrowserKeys
<1>12. BrowserShapes'
  BY <1>1, <1>7, <1>11 DEF BrowserInv, BrowserShapes
<1>13. PlacesHold'
  <2>1. \A c \in calls' : c.latest => c.tenant = stored'
    BY <1>1, <1>3, <1>5
  <2>2. \E c \in calls' : c.kind = "data" /\ c.latest
    BY <1>1, <1>3
  <2>3. Open(tab)' /\ Open(tab)
    BY <1>1 DEF Open
  <2> QED BY <1>1, <1>11, <2>1, <2>2, <2>3 DEF BrowserInv, PlacesHold, NeverWaitsForNothing
<1>14. LeftHolds'
  BY <1>1, <1>9, LeftGoesOn DEF BrowserInv, MeKinds
<1>15. SignInsHold' /\ OnePerson'
  <2>1. Known' => Known
    BY <1>1 DEF Known
  <2> QED BY <1>1, <1>9, <1>11, <2>1, WhoGoesOn DEF BrowserInv
<1> QED BY <1>6, <1>7, <1>8, <1>12, <1>13, <1>14, <1>15 DEF BrowserInv
-----------------------------------------------------------------------------
LEMMA GotDataKeeps == ASSUME BrowserInv, NEW c \in calls, GotData(c) PROVE BrowserInv'
<1>1. /\ c.at = "answered" /\ c.kind = "data" /\ calls' = calls \ {c}
      /\ shell' = IF c.latest THEN [loaded |-> c.tenant, data |-> c.got] ELSE shell
      /\ UNCHANGED <<stored, cookie, tab, form, elsewhere, left, returned>>
  BY DEF GotData, Rest
<1>2. c \in Call /\ CallHolds(c) /\ calls \subseteq Call
  BY CallTyped0 DEF BrowserInv, BrowserShapes
<1>3. c.tenant \in Maybe(Tenants) /\ c.got \in Given
  BY <1>2 DEF Call, Given
<1>4. shell' \in [loaded : Maybe(Tenants) \cup {"new"}, data : Given]
  BY <1>1, <1>3 DEF BrowserInv, BrowserShapes
<1>5. BrowserShapes'
  BY <1>1, <1>2, <1>4 DEF BrowserInv, BrowserShapes
<1>6. Fits(calls, 0)'
  <2>1. Fits(calls \ {c}, 0)
    BY FitsRest DEF BrowserInv
  <2> QED BY <1>1, <2>1 DEF Fits
<1>7. CallsHold' /\ OneSignIn(calls)'
  BY <1>1 DEF BrowserInv, CallsHold, OneSignIn
<1>8. \A d \in calls' : \E b \in calls : Carried(d, b)
  BY <1>1, CarriedSame
<1>9. PlacesHold'
  <2>1. shell'.data # Fail => shell'.data.of = shell'.loaded
    BY <1>1, <1>2 DEF CallHolds, BrowserInv, PlacesHold
  <2>2. Open(tab)' <=> Open(tab)
    BY <1>1 DEF Open
  <2>3. NeverWaitsForNothing'
    <3>1. CASE c.latest
      BY <1>1, <2>2, <3>1 DEF BrowserInv, PlacesHold, NeverWaitsForNothing
    <3>2. CASE ~c.latest
      BY <1>1, <2>2, <3>2 DEF BrowserInv, PlacesHold, NeverWaitsForNothing
    <3> QED BY <3>1, <3>2
  <2> QED BY <1>1, <2>1, <2>2, <2>3 DEF BrowserInv, PlacesHold
<1>10. LeftHolds'
  BY <1>1, <1>8, LeftGoesOn DEF BrowserInv
<1>11. SignInsHold' /\ OnePerson'
  <2>1. Known' => Known
    BY <1>1 DEF Known
  <2>2. \/ shell'.data \in {Fail, shell.data}
        \/ \E b \in calls : b.latest /\ b.got = shell'.data
    BY <1>1
  <2> QED BY <1>1, <1>8, <2>1, <2>2, WhoGoesOn DEF BrowserInv
<1> QED BY <1>5, <1>6, <1>7, <1>9, <1>10, <1>11 DEF BrowserInv

LEMMA AnswerTyped ==
    ASSUME BrowserInv, NEW c \in Call, cookie.who # None
    PROVE  /\ Answer(c) \in Given /\ Answer(c).who \in {cookie.who, None}
           /\ Answer(c) # Fail => Answer(c).who = cookie.who
           /\ c.kind = "data" /\ Answer(c) # Fail => Answer(c).of = c.tenant
<1>1. cookie.who \in Users /\ c.tenant \in Maybe(Tenants)
  BY DEF BrowserInv, BrowserShapes, Maybe, Call
<1>2. Answer(c) \in {[of |-> None, who |-> cookie.who], [of |-> c.tenant, who |-> cookie.who], Fail}
  BY DEF Answer
<1>3. c.kind = "data" => Answer(c) \in {[of |-> c.tenant, who |-> cookie.who], Fail}
  BY DEF Answer
<1> QED BY <1>1, <1>2, <1>3, BrowserKeys DEF Given, Maybe

(* The API answers with what is the user's of the cookie.                  *)
LEMMA ServeKeeps == ASSUME BrowserInv, NEW c \in calls, Serve(c) PROVE BrowserInv'
<1>1. /\ c.at \in {"sent", "again"} /\ c.kind \notin {"login", "logout", "save"}
      /\ UNCHANGED <<stored, cookie, tab, shell, form, elsewhere, left, returned>>
  BY DEF Serve
<1>2. c \in Call /\ CallHolds(c) /\ calls \subseteq Call
  BY CallTyped0 DEF BrowserInv, BrowserShapes
<1>3. ASSUME NEW at \in {"renewing", "answered"}, Moved(c, [c EXCEPT !.at = at])
      PROVE  BrowserInv'
  <2> DEFINE d == [c EXCEPT !.at = at]
  <2>0. c \in Call /\ at \in {"sent", "renewing", "again", "answered"}
    BY <1>2
  <2>1. SameCall(d, c) /\ d.at = at /\ d.got = c.got /\ d.apart = c.apart /\ d.latest = c.latest
    BY <2>0, AtTyped
  <2>2. Moved(c, d)
    BY <1>3
  <2> HIDE DEF d
  <2>3. CallHolds(d)
    BY <1>1, <1>2, <2>1 DEF CallHolds, SameCall
  <2> QED BY <1>1, <2>1, <2>2, <2>3, MovedKeeps
<1>4. ASSUME cookie.who # None, Moved(c, [c EXCEPT !.at = "answered", !.got = Answer(c)])
      PROVE  BrowserInv'
  <2> DEFINE d == [c EXCEPT !.at = "answered", !.got = Answer(c)]
             a == Answer(c)
  <2>1. /\ a \in Given /\ (a # Fail => a.who = cookie.who)
        /\ c.kind = "data" /\ a # Fail => a.of = c.tenant
    BY <1>2, <1>4, AnswerTyped
  <2>2. SameCall(d, c) /\ d.at = "answered" /\ d.got = a /\ d.apart = c.apart /\ d.latest = c.latest
    BY <1>2, <2>1 DEF SameCall, Call, Given
  <2>3. Moved(c, d)
    BY <1>4
  <2> HIDE DEF d, a
  <2>4. calls' = (calls \ {c}) \cup {d} /\ d \in Call
    BY <2>2, <2>3 DEF Moved, SameCall
  <2>5. CallHolds(d)
    BY <1>1, <1>2, <2>1, <2>2 DEF CallHolds, SameCall
  <2>6. BrowserShapes'
    BY <1>1, <1>2, <2>4 DEF BrowserInv, BrowserShapes
  <2>7. Fits(calls, 0)'
    BY <2>3, FitsMoved DEF BrowserInv
  <2>8. CallsHold' /\ OneSignIn(calls)'
    BY <2>2, <2>4, <2>5 DEF CallsHold, BrowserInv, OneSignIn, SameCall
  <2>9. /\ \A e \in calls' : e.latest => \E b \in calls : b.latest /\ b.tenant = e.tenant
        /\ \A b \in calls : b.latest => \E e \in calls' : e.latest /\ e.kind = b.kind
    BY <2>2, <2>4 DEF SameCall
  <2>10. PlacesHold'
    BY <1>1, <2>9, PlacesGoOn DEF BrowserInv
  <2>11. LeftHolds'
    BY <1>1, <2>2, <2>4 DEF BrowserInv, LeftHolds, SameCall
  <2>12. SignInsHold'
    BY <1>1, <2>2, <2>4 DEF BrowserInv, SignInsHold, SameCall, Known
  <2>13. OnePerson'
    <3> SUFFICES ASSUME "who" \notin elsewhere' PROVE OnePerson'
      BY DEF OnePerson
    <3>1. "who" \notin elsewhere /\ (Known' <=> Known) /\ OnePerson
      BY <1>1 DEF Known, BrowserInv
    <3>2. Names(d) => d.got.who = cookie.who
      BY <2>1, <2>2 DEF Names, Fail
    <3>3. \A e \in calls' : Names(e) => e.got.who = cookie.who
      BY <1>4, <2>4, <3>1, <3>2 DEF OnePerson
    <3>4. Known => tab.who = cookie.who
      BY <1>4, <3>1 DEF OnePerson
    <3>5. \A e \in calls' : e.latest /\ Known /\ e.got # Fail => e.got.who = tab.who
      BY <2>1, <2>2, <2>4, <3>1, <3>4 DEF OnePerson
    <3>6. Known /\ shell.data # Fail => shell.data.who = tab.who
      BY <3>1 DEF OnePerson
    <3> QED BY <1>1, <3>1, <3>3, <3>4, <3>5, <3>6 DEF OnePerson
  <2> QED BY <2>6, <2>7, <2>8, <2>10, <2>11, <2>12, <2>13 DEF BrowserInv
<1>5. \/ cookie.who # None /\ Moved(c, [c EXCEPT !.at = "answered", !.got = Answer(c)])
      \/ \E at \in {"renewing", "answered"} : Moved(c, [c EXCEPT !.at = at])
  BY DEF Serve, SignedIn
<1> QED BY <1>3, <1>4, <1>5

LEMMA ServeLoginKeeps == ASSUME BrowserInv, NEW c \in calls, ServeLogin(c) PROVE BrowserInv'
<1> DEFINE d == [c EXCEPT !.at = "answered", !.got.who = c.who]
           cs == calls \ {c}
<1>1. /\ c.at = "sent" /\ c.kind = "login" /\ cookie' = [who |-> c.who, state |-> "fresh"]
      /\ calls' = Before(cs) \cup {d}
      /\ UNCHANGED <<stored, tab, shell, form, elsewhere, left, returned>>
  BY DEF ServeLogin
<1>2. c \in Call /\ CallHolds(c) /\ calls \subseteq Call /\ cs \in SUBSET Call
  BY CallTyped0 DEF BrowserInv, BrowserShapes
<1>3. SameCall(d, c) /\ d.apart = c.apart /\ d.latest = c.latest /\ d.at = "answered"
  BY <1>2 DEF SameCall, Call
<1>4. c.latest = FALSE /\ c.who \in Maybe(Users)
  BY <1>1, <1>2 DEF CallHolds, Call
<1> HIDE DEF d
<1>5. /\ \A e \in Before(cs) : \E b \in cs :
            /\ SameCall(e, b) /\ e.at = b.at /\ e.got = b.got /\ e.latest = b.latest
            /\ e.apart <=> (b.apart \/ b.kind \in MeKinds)
      /\ \A b \in cs : \E e \in Before(cs) : SameCall(e, b) /\ e.latest = b.latest
  BY <1>2, BeforeCalls
<1>6. BrowserShapes'
  <2>1. calls' \subseteq Call
    BY <1>1, <1>3, <1>5 DEF SameCall
  <2> QED BY <1>1, <1>4, <2>1 DEF BrowserInv, BrowserShapes
<1>7. Fits(calls, 0)'
  <2>1. Fits(Before(cs) \cup {d}, 0)
    BY FitsRest, FitsMarked, FitsAdd DEF BrowserInv
  <2> QED BY <1>1, <2>1 DEF Fits
<1>8. CallsHold'
  <2>1. ASSUME NEW e \in Before(cs) PROVE CallHolds(e)
    <3>1. PICK b \in cs :
            /\ SameCall(e, b) /\ e.at = b.at /\ e.got = b.got /\ e.latest = b.latest
            /\ e.apart <=> (b.apart \/ b.kind \in MeKinds)
      BY <1>5
    <3>2. CallHolds(b)
      BY CallTyped0
    <3> QED BY <3>1, <3>2 DEF CallHolds, SameCall, MeKinds
  <2>2. CallHolds(d)
    BY <1>1, <1>2, <1>3 DEF CallHolds, SameCall
  <2> QED BY <1>1, <2>1, <2>2 DEF CallsHold
<1>9. PlacesHold'
  <2>1. \A e \in calls' : e.latest => \E b \in calls : b.latest /\ b.tenant = e.tenant
    BY <1>1, <1>3, <1>4, <1>5 DEF SameCall
  <2>2. \A b \in calls : b.latest => \E e \in calls' : e.latest /\ e.kind = b.kind
    BY <1>1, <1>4, <1>5 DEF SameCall
  <2> QED BY <1>1, <2>1, <2>2, PlacesGoOn DEF BrowserInv
<1>10. \A e \in calls' : \/ e = d
                         \/ /\ e.kind \notin {"login", "loginMe"}
                            /\ e.kind \in MeKinds => e.apart
  <2>1. ASSUME NEW e \in Before(cs)
        PROVE  e.kind \notin {"login", "loginMe"} /\ (e.kind \in MeKinds => e.apart)
    <3>1. PICK b \in cs : SameCall(e, b) /\ (e.apart <=> (b.apart \/ b.kind \in MeKinds))
      BY <1>5
    <3>2. b.kind \notin {"login", "loginMe"}
      BY <1>1 DEF BrowserInv, OneSignIn
    <3> QED BY <3>1, <3>2 DEF SameCall
  <2> QED BY <1>1, <2>1
<1>11. OneSignIn(calls)'
  BY <1>10 DEF OneSignIn
<1>12. LeftHolds'
  <2>1. left => c.apart /\ tab.who = None
    BY <1>1 DEF BrowserInv, LeftHolds, MeKinds
  <2> QED BY <1>1, <1>3, <1>10, <2>1 DEF LeftHolds
<1>13. SignInsHold' /\ OnePerson'
  <2>1. ~Known'
    BY <1>1 DEF BrowserInv, SignInsHold, Known
  <2>2. \A e \in calls' : e.kind \in {"init", "me", "loginMe"} => e.apart
    BY <1>1, <1>3, <1>10 DEF MeKinds, SameCall
  <2>3. \A e \in calls' : ~Names(e)
    BY <2>2 DEF Names
  <2> QED BY <2>1, <2>2, <2>3 DEF SignInsHold, OnePerson
<1> QED BY <1>6, <1>7, <1>8, <1>9, <1>11, <1>12, <1>13 DEF BrowserInv

LEMMA GotLoginKeeps == ASSUME BrowserInv, NEW c \in calls, GotLogin(c) PROVE BrowserInv'
<1>1. /\ c.at = "answered" /\ c.kind = "login"
      /\ UNCHANGED <<stored, cookie, tab, shell, form, elsewhere, left, returned>>
  BY DEF GotLogin
<1>2. c \in Call /\ CallHolds(c) /\ calls \subseteq Call
  BY CallTyped0 DEF BrowserInv, BrowserShapes
<1>3. ~c.latest
  BY <1>1, <1>2 DEF CallHolds
<1>4. /\ cookie' \in [who : Maybe(Users), state : {"fresh", "stale", "dead"}]
      /\ left' \in BOOLEAN /\ returned' \in BOOLEAN /\ (left' => left) /\ (Known' => Known)
  BY <1>1 DEF BrowserInv, BrowserShapes, Known
<1>5. CASE calls' = calls \ {c}
  BY <1>1, <1>3, <1>4, <1>5, LessKeeps
<1>6. CASE calls' = (calls \ {c}) \cup {[Sent("loginMe") EXCEPT !.apart = c.apart]}
  <2> DEFINE d == [Sent("loginMe") EXCEPT !.apart = c.apart]
  <2>1. /\ d \in Call /\ d.kind = "loginMe" /\ d.got = Fail /\ d.at = "sent" /\ d.latest = FALSE
        /\ d.apart = c.apart
    BY <1>2, SentTyped DEF Kinds, Call
  <2>2. calls' = (calls \ {c}) \cup {d}
    BY <1>6
  <2> HIDE DEF d
  <2>3. Fits(calls, 0)'
    <3>1. Moved(c, d)
      BY <2>2 DEF Moved
    <3> QED BY <3>1, FitsMoved DEF BrowserInv
  <2>4. calls' \subseteq Call /\ CallsHold'
    BY <1>2, <2>1, <2>2 DEF BrowserInv, CallsHold, CallHolds
  <2>5. \A e \in calls \ {c} : e.kind \notin {"login", "loginMe"}
    BY <1>1 DEF BrowserInv, OneSignIn
  <2>6. OneSignIn(calls)'
    BY <2>2, <2>5 DEF OneSignIn
  <2>7. ~SigningInLater
    BY <2>1, <2>2, <2>5 DEF SigningInLater
  <2>8. left => d.apart
    BY <1>1, <2>1 DEF BrowserInv, LeftHolds, MeKinds
  <2>9. \A e \in calls' :
              \/ \E b \in calls : Carried(e, b)
              \/ /\ e.got = Fail /\ e.kind # "login"
                 /\ e.kind \in {"init", "me", "loginMe"} => e.apart \/ ~SigningInLater
                 /\ left /\ e.kind \in MeKinds => e.apart
    BY <2>1, <2>2, <2>7, <2>8, CarriedSame
  <2>10. \A e \in calls' : e.latest => \E b \in calls : b.latest /\ b.tenant = e.tenant
    BY <2>1, <2>2
  <2>11. \A b \in calls : b.latest => \E e \in calls' : e.latest /\ e.kind = b.kind
    BY <1>3, <2>2
  <2> QED BY <1>1, <1>4, <2>3, <2>4, <2>6, <2>9, <2>10, <2>11, QuietKeeps
<1>7. calls' \in {calls \ {c}, (calls \ {c}) \cup {[Sent("loginMe") EXCEPT !.apart = c.apart]}}
  BY DEF GotLogin, Rest
<1> QED BY <1>5, <1>6, <1>7
-----------------------------------------------------------------------------
(* /auth/me has answered: the user is set by an answer that is of the      *)
(* person of the cookies, or the tab knows no longer whose it is.          *)
LEMMA UserIsSet ==
    ASSUME BrowserInv, NEW c \in calls, c.kind \in {"init", "me", "loginMe"},
           c.kind = "loginMe" => c.got.who # None,
           BecomesAs(c.got.who, Rest(c)),
           returned' \in BOOLEAN, returned' <=> (c.got.who # None /\ (returned \/ c.apart)),
           left' \in BOOLEAN, left' <=> (left /\ ~returned'), UNCHANGED cookie
    PROVE  BrowserInv'
<1> DEFINE u == c.got.who
<1>1. c \in Call /\ CallHolds(c) /\ u \in Maybe(Users)
  BY CallTyped0 DEF Call
<1> HIDE DEF u
<1>2. BecomesAs(u, Rest(c))
  BY DEF u
<1>3. /\ tab' \in TabSet /\ tab'.who = u /\ stored' \in Maybe(Tenants)
      /\ calls' \subseteq Call /\ elsewhere' \subseteq elsewhere
      /\ shell' \in [loaded : Maybe(Tenants) \cup {"new"}, data : Given]
      /\ shell'.data \in {Fail, shell.data} /\ (~Open(tab) => shell'.data = Fail)
      /\ form' \in {form, None}
      /\ "who" \in elsewhere' <=> "who" \in elsewhere
      /\ Fits(calls, 0)' /\ CallsHold' /\ OneSignIn(calls)' /\ PlacesHold'
      /\ \A d \in calls' : \/ \E b \in calls : Carried(d, b) /\ b # c
                           \/ d.got = Fail /\ d.kind = "data"
  BY <1>1, <1>2, BecomesKeeps
<1>4. BrowserShapes'
  <2>1. form' \in Maybe(Tenants)
    BY <1>3, BrowserKeys DEF BrowserInv, BrowserShapes
  <2> QED BY <1>3, <2>1 DEF BrowserInv, BrowserShapes
<1>5. Known' => u # None /\ ~c.apart /\ ~returned /\ Names(c)
  BY <1>3 DEF Known, Names, u
<1>6. LeftHolds'
  <2> SUFFICES ASSUME left' PROVE tab'.who = None /\ \A d \in calls' : d.kind \in MeKinds => d.apart
    BY DEF LeftHolds
  <2>1. left /\ c.apart /\ u = None
    BY DEF BrowserInv, LeftHolds, MeKinds, u
  <2> QED BY <1>3, <2>1 DEF BrowserInv, LeftHolds, Carried, MeKinds
<1>7. SignInsHold'
  <2> SUFFICES ASSUME NEW d \in calls', d.kind = "login", d.at = "sent"
               PROVE  /\ ~Known'
                      /\ \A e \in calls' : e.kind \in {"init", "me", "loginMe"} => e.apart
    BY DEF SignInsHold
  <2>1. PICK b \in calls : Carried(d, b)
    BY <1>3
  <2>2. b.kind = "login" /\ b.at = "sent"
    BY <2>1 DEF Carried
  <2>3. \A e \in calls : e.kind \in {"init", "me", "loginMe"} => e.apart
    BY <2>2 DEF BrowserInv, SignInsHold
  <2>4. ~Known'
    BY <1>5, <2>3
  <2> QED BY <1>3, <2>3, <2>4 DEF Carried
<1>8. OnePerson'
  <2> SUFFICES ASSUME "who" \notin elsewhere' PROVE OnePerson'
    BY DEF OnePerson
  <2>1. OnePerson /\ "who" \notin elsewhere
    BY <1>3 DEF BrowserInv
  <2>2. ASSUME NEW d \in calls', Names(d)
        PROVE  \E b \in calls : Names(b) /\ b.got.who = d.got.who
    <3>1. d.got # Fail
      BY <2>2 DEF Names, Fail
    <3>2. PICK b \in calls : Carried(d, b)
      BY <1>3, <3>1
    <3>3. Names(b) /\ b.got = d.got
      BY <2>2, <3>2 DEF Carried, Names
    <3> QED BY <3>3
  <2>3. ASSUME Known'
        PROVE  /\ \A b \in calls : Names(b) => b.got.who = u
               /\ cookie.who # None => u = cookie.who
               /\ Known => tab.who = u
    BY <1>5, <2>1, <2>3 DEF OnePerson, u
  <2>4. Known' /\ cookie'.who # None => tab'.who = cookie'.who
    BY <1>3, <2>3
  <2>5. Open(tab) /\ Known' => Known
    BY <1>5 DEF Open, Known
  <2>6. Known' /\ shell'.data # Fail => shell'.data.who = tab'.who
    <3> SUFFICES ASSUME Known', shell'.data # Fail PROVE shell'.data.who = tab'.who
      OBVIOUS
    <3>1. Known /\ shell'.data = shell.data
      BY <1>3, <2>5
    <3>2. shell.data.who = tab.who
      BY <2>1, <3>1 DEF OnePerson
    <3> QED BY <1>3, <2>3, <3>1, <3>2
  <2>7. ASSUME NEW d \in calls'
        PROVE  /\ Names(d) /\ cookie'.who # None => d.got.who = cookie'.who
               /\ Names(d) /\ Known' => d.got.who = tab'.who
               /\ d.latest /\ Known' /\ d.got # Fail => d.got.who = tab'.who
    <3>1. ASSUME Names(d)
          PROVE  /\ cookie'.who # None => d.got.who = cookie'.who
                 /\ Known' => d.got.who = tab'.who
      <4>1. PICK b \in calls : Names(b) /\ b.got.who = d.got.who
        BY <2>2, <3>1
      <4>2. cookie.who # None => b.got.who = cookie.who
        BY <2>1, <4>1 DEF OnePerson
      <4> QED BY <1>3, <2>3, <4>1, <4>2
    <3>2. ASSUME d.latest, d.got # Fail, Known' PROVE d.got.who = tab'.who
      <4>1. PICK b \in calls : b.latest /\ b.got = d.got
        BY <1>3, <3>2 DEF Carried
      <4>2. Known
        BY <2>5, <3>2, <4>1 DEF BrowserInv, PlacesHold
      <4>3. b.got.who = tab.who
        BY <2>1, <3>2, <4>1, <4>2 DEF OnePerson
      <4> QED BY <1>3, <2>3, <3>2, <4>1, <4>2, <4>3
    <3> QED BY <3>1, <3>2
  <2>8. ASSUME NEW d \in calls', NEW e \in calls', Names(d), Names(e)
        PROVE  d.got.who = e.got.who
    <3>1. PICK b \in calls : Names(b) /\ b.got.who = d.got.who
      BY <2>2, <2>8
    <3>2. PICK h \in calls : Names(h) /\ h.got.who = e.got.who
      BY <2>2, <2>8
    <3> QED BY <2>1, <3>1, <3>2 DEF OnePerson
  <2> QED BY <2>4, <2>6, <2>7, <2>8 DEF OnePerson
<1> QED BY <1>3, <1>4, <1>6, <1>7, <1>8 DEF BrowserInv

LEMMA NotNamed ==
    ASSUME BrowserInv, NEW c \in calls, c.kind \in {"init", "me", "loginMe"},
           calls' = calls \ {c}, UNCHANGED <<stored, cookie, tab, shell, form, elsewhere>>,
           returned' \in BOOLEAN, left' \in BOOLEAN, left' => left, Known' => Known
    PROVE  BrowserInv'
<1>1. ~c.latest
  BY CallTyped0 DEF CallHolds
<1>2. cookie' \in [who : Maybe(Users), state : {"fresh", "stale", "dead"}]
  BY DEF BrowserInv, BrowserShapes
<1> QED BY <1>1, <1>2, LessKeeps

LEMMA GotUserKeeps ==
    ASSUME BrowserInv, NEW c \in calls, GotUser(c) \/ GotLoginUser(c)
    PROVE  BrowserInv'
<1>1. left \in BOOLEAN /\ returned \in BOOLEAN /\ c.apart \in BOOLEAN
  BY CallTyped0 DEF BrowserInv, BrowserShapes, Call
<1>2. CASE GotUser(c)
  <2>1. /\ c.kind \in {"init", "me"} /\ UNCHANGED cookie
        /\ returned' = (c.got.who # None /\ (returned \/ c.apart))
        /\ left' = (left /\ ~returned')
    BY <1>2 DEF GotUser
  <2>2. returned' \in BOOLEAN /\ left' \in BOOLEAN /\ (left' <=> (left /\ ~returned'))
    BY <1>1, <2>1
  <2>3. returned' <=> (c.got.who # None /\ (returned \/ c.apart))
    BY <2>1
  <2>4. CASE BecomesAs(c.got.who, Rest(c))
    BY <2>1, <2>2, <2>3, <2>4, UserIsSet
  <2>5. CASE /\ tab.who = None /\ calls' = Rest(c)
             /\ UNCHANGED <<stored, tab, shell, form, elsewhere>>
    <3>1. Known' => Known
      BY <2>5 DEF Known
    <3> QED BY <2>1, <2>2, <2>5, <3>1, NotNamed DEF Rest
  <2> QED BY <1>2, <2>4, <2>5 DEF GotUser
<1>3. CASE GotLoginUser(c)
  <2>1. c.kind = "loginMe" /\ UNCHANGED cookie /\ left' = (left /\ ~returned')
    BY <1>3 DEF GotLoginUser
  <2>2. CASE /\ c.got.who # None /\ BecomesAs(c.got.who, Rest(c))
             /\ returned' = (returned \/ c.apart)
    <3>1. returned' \in BOOLEAN /\ left' \in BOOLEAN /\ (left' <=> (left /\ ~returned'))
      BY <1>1, <2>1, <2>2
    <3>2. returned' <=> (c.got.who # None /\ (returned \/ c.apart))
      BY <2>2
    <3> QED BY <2>1, <2>2, <3>1, <3>2, UserIsSet
  <2>3. CASE calls' = Rest(c) /\ UNCHANGED <<stored, tab, shell, form, elsewhere, returned>>
    <3>1. returned' \in BOOLEAN /\ left' \in BOOLEAN /\ (left' => left) /\ (Known' => Known)
      BY <1>1, <2>1, <2>3 DEF Known
    <3> QED BY <2>1, <2>3, <3>1, NotNamed DEF Rest
  <2> QED BY <1>3, <2>2, <2>3 DEF GotLoginUser
<1> QED BY <1>2, <1>3

(* Signed out here: the tab is empty, what was asked before is marked.     *)
LEMMA LogoutKeeps == ASSUME BrowserInv, Logout PROVE BrowserInv'
<1> DEFINE t  == [tab EXCEPT !.who = None, !.active = None]
           n  == Sent("logout")
           cs == Before(calls) \cup {n}
<1>1. /\ Room /\ stored' = None /\ Shows(t, TRUE, cs)
      /\ left' = TRUE /\ returned' = FALSE /\ UNCHANGED cookie
  BY DEF Logout
<1>2. calls \in SUBSET Call /\ OneSignIn(calls) /\ Fits(calls, 1)
  BY <1>1, FitsRoom DEF BrowserInv, BrowserShapes
<1>3. t \in TabSet /\ t.who = None /\ ~Open(t) /\ stored' \in Maybe(Tenants)
  BY <1>1, BrowserKeys DEF BrowserInv, BrowserShapes, TabSet, Open
<1>4. n \in Call /\ n.kind = "logout" /\ n.got = Fail /\ n.at = "sent" /\ n.latest = FALSE
  BY SentTyped DEF Kinds
<1>5. /\ \A d \in Before(calls) : \E c \in calls :
            /\ SameCall(d, c) /\ d.at = c.at /\ d.got = c.got /\ d.latest = c.latest
            /\ d.apart <=> (c.apart \/ c.kind \in MeKinds)
      /\ OneSignIn(Before(calls))
  BY <1>2, BeforeCalls
<1>6. \A d \in Before(calls) : /\ d \in Call /\ CallHolds(d) /\ (d.kind \in MeKinds => d.apart)
                               /\ \E c \in calls : Carried(d, c)
  <2> TAKE d \in Before(calls)
  <2>1. PICK c \in calls : 
            /\ SameCall(d, c) /\ d.at = c.at /\ d.got = c.got /\ d.latest = c.latest
            /\ d.apart <=> (c.apart \/ c.kind \in MeKinds)
    BY <1>5
  <2>2. CallHolds(c)
    BY CallTyped0
  <2> QED BY <2>1, <2>2 DEF SameCall, CallHolds, Carried, MeKinds
<1> HIDE DEF t, n
<1>7. cs \in SUBSET Call /\ \A d \in cs : CallHolds(d)
  BY <1>4, <1>6 DEF CallHolds
<1>8. Fits(cs, 0)
  BY <1>2, FitsMarked, FitsAdd
<1>9. OneSignIn(cs)
  BY <1>4, <1>5, OneSignInAdd
<1>10. \A d \in cs : \/ d.kind \in MeKinds => d.apart
  BY <1>4, <1>6 DEF MeKinds
<1>11. \A d \in cs : (\E c \in calls : Carried(d, c)) \/ (d.got = Fail /\ d.kind = "logout")
  BY <1>4, <1>6
<1> HIDE DEF cs
<1>12. /\ tab' = t /\ calls' \subseteq Call /\ elsewhere' \subseteq elsewhere
       /\ shell' \in [loaded : Maybe(Tenants) \cup {"new"}, data : Given]
       /\ shell'.data \in {Fail, shell.data}
       /\ form' \in {form, None}
       /\ "who" \in elsewhere' <=> "who" \in elsewhere
       /\ Fits(calls, 0)' /\ CallsHold' /\ OneSignIn(calls)' /\ PlacesHold'
       /\ \A d \in calls' : (\E c \in cs : Carried(d, c)) \/ (d.got = Fail /\ d.kind = "data")
  BY <1>1, <1>3, <1>7, <1>8, <1>9, ShowsKeeps
<1>13. \A d \in calls' : \/ \E c \in calls : Carried(d, c)
                         \/ d.got = Fail /\ d.kind \in {"data", "logout"}
  BY <1>11, <1>12 DEF Carried
<1>14. BrowserShapes'
  <2>1. form' \in Maybe(Tenants)
    BY <1>12, BrowserKeys DEF BrowserInv, BrowserShapes
  <2> QED BY <1>1, <1>3, <1>12, <2>1 DEF BrowserInv, BrowserShapes
<1>15. LeftHolds'
  BY <1>3, <1>10, <1>12 DEF LeftHolds, Carried, MeKinds
<1>16. SignInsHold' /\ OnePerson'
  <2>1. ~Known'
    BY <1>3, <1>12 DEF Known
  <2> QED BY <1>1, <1>12, <1>13, <2>1, WhoGoesOn DEF BrowserInv
<1> QED BY <1>12, <1>14, <1>15, <1>16 DEF BrowserInv

(* Another organisation: every fetch under way is dropped by its hook.     *)
LEMMA SwitchKeeps == ASSUME BrowserInv, NEW o \in Tenants, Switch(o) PROVE BrowserInv'
<1> DEFINE t == [tab EXCEPT !.active = o]
<1>1. /\ Open(tab) /\ Room /\ stored' = o /\ Shows(t, TRUE, calls)
      /\ UNCHANGED <<cookie, left, returned>>
  BY DEF Switch
<1>2. t \in TabSet /\ t.who = tab.who /\ t.active = o /\ Open(t) /\ stored' \in Maybe(Tenants)
  BY <1>1, BrowserKeys DEF BrowserInv, BrowserShapes, TabSet, Open, Maybe
<1> HIDE DEF t
<1>3. /\ calls \in SUBSET Call /\ OneSignIn(calls) /\ Fits(calls, 1) /\ Fits(calls, 0)
      /\ \A c \in calls : CallHolds(c)
  BY <1>1, FitsRoom DEF BrowserInv, BrowserShapes, CallsHold
<1>4. /\ tab' = t /\ calls' \subseteq Call /\ elsewhere' \subseteq elsewhere
      /\ shell' \in [loaded : Maybe(Tenants) \cup {"new"}, data : Given]
      /\ shell'.data \in {Fail, shell.data}
      /\ form' \in {form, None}
      /\ "who" \in elsewhere' <=> "who" \in elsewhere
      /\ Fits(calls, 0)' /\ CallsHold' /\ OneSignIn(calls)' /\ PlacesHold'
      /\ \A d \in calls' : (\E c \in calls : Carried(d, c)) \/ (d.got = Fail /\ d.kind = "data")
  BY <1>1, <1>2, <1>3, ShowsKeeps
<1>5. BrowserShapes'
  <2>1. form' \in Maybe(Tenants)
    BY <1>4, BrowserKeys DEF BrowserInv, BrowserShapes
  <2> QED BY <1>1, <1>2, <1>4, <2>1 DEF BrowserInv, BrowserShapes
<1>6. LeftHolds'
  BY <1>1, <1>2, <1>4, LeftGoesOn DEF BrowserInv, MeKinds
<1>7. SignInsHold' /\ OnePerson'
  <2>1. Known' => Known /\ tab'.who = tab.who
    BY <1>1, <1>2, <1>4 DEF Known
  <2> QED BY <1>1, <1>4, <2>1, WhoGoesOn DEF BrowserInv
<1> QED BY <1>4, <1>5, <1>6, <1>7 DEF BrowserInv

(* Another tab has switched, signed in or out.                             *)
LEMMA ElsewhereKeeps ==
    ASSUME BrowserInv, NEW s \in Maybe(Tenants), NEW w \in Maybe(Users),
           NEW k \in [who : Maybe(Users), state : {"fresh", "stale", "dead"}],
           Elsewhere(s, k), k.who \notin {cookie.who, None} => k # cookie
    PROVE  BrowserInv'
<1>1. /\ elsewhere = {} /\ stored' = s /\ cookie' = k
      /\ elsewhere' = (IF Open(tab) THEN {"header", "shell"} ELSE {})
                      \cup (IF k = cookie THEN {} ELSE {"who"})
      /\ UNCHANGED <<tab, shell, form, calls, left, returned>>
  BY DEF Elsewhere
<1>2. BrowserShapes'
  BY <1>1 DEF BrowserInv, BrowserShapes
<1>3. Fits(calls, 0)' /\ CallsHold' /\ OneSignIn(calls)'
  BY <1>1 DEF BrowserInv, Fits, CallsHold, CallHolds, OneSignIn
<1>4. PlacesHold'
  BY <1>1 DEF BrowserInv, PlacesHold, NeverWaitsForNothing, Open
<1>5. LeftHolds' /\ SignInsHold'
  BY <1>1 DEF BrowserInv, LeftHolds, SignInsHold, Known
<1>6. OnePerson'
  <2> SUFFICES ASSUME "who" \notin elsewhere' PROVE OnePerson'
    BY DEF OnePerson
  <2>1. cookie' = cookie /\ (Known' <=> Known)
    BY <1>1 DEF Known
  <2> QED BY <1>1, <2>1 DEF BrowserInv, OnePerson, Known, Names
<1> QED BY <1>2, <1>3, <1>4, <1>5, <1>6 DEF BrowserInv

LEMMA OtherTabKeeps ==
    ASSUME BrowserInv,
           \/ LogoutElsewhere
           \/ \E u \in Users : LoginElsewhere(u)
           \/ \E o \in Tenants : SwitchElsewhere(o)
    PROVE  BrowserInv'
<1>1. cookie \in [who : Maybe(Users), state : {"fresh", "stale", "dead"}]
  BY DEF BrowserInv, BrowserShapes
<1>2. ASSUME LogoutElsewhere PROVE BrowserInv'
  <2>1. Elsewhere(None, [who |-> None, state |-> "dead"])
    BY <1>2 DEF LogoutElsewhere
  <2>2. [who |-> None, state |-> "dead"]
        \in [who : Maybe(Users), state : {"fresh", "stale", "dead"}]
    BY BrowserKeys
  <2> QED BY <2>1, <2>2, BrowserKeys, ElsewhereKeeps
<1>3. ASSUME NEW u \in Users, LoginElsewhere(u) PROVE BrowserInv'
  <2>1. Elsewhere(Resolved(u), [who |-> u, state |-> "fresh"]) /\ cookie.who # u
    BY <1>3 DEF LoginElsewhere
  <2>2. /\ [who |-> u, state |-> "fresh"]
           \in [who : Maybe(Users), state : {"fresh", "stale", "dead"}]
        /\ [who |-> u, state |-> "fresh"] # cookie
    BY <2>1 DEF Maybe
  <2>3. Resolved(u) \in Maybe(Tenants)
    BY ResolvedTyped DEF Maybe
  <2> QED BY <2>1, <2>2, <2>3, ElsewhereKeeps DEF Maybe
<1>4. ASSUME NEW o \in Tenants, SwitchElsewhere(o) PROVE BrowserInv'
  <2>1. Elsewhere(o, cookie) /\ o \in Maybe(Tenants)
    BY <1>4 DEF SwitchElsewhere, Maybe
  <2> QED BY <1>1, <2>1, BrowserKeys, ElsewhereKeeps
<1> QED BY <1>2, <1>3, <1>4

LEMMA BrowserInvStep == BrowserInv /\ [BrowserNext]_browserVars => BrowserInv'
<1> SUFFICES ASSUME BrowserInv, [BrowserNext]_browserVars PROVE BrowserInv'
  OBVIOUS
<1>1. CASE UNCHANGED browserVars
  <2>1. UNCHANGED <<stored, cookie, tab, shell, form, calls, elsewhere, left, returned>>
    BY <1>1 DEF browserVars
  <2>2. BrowserShapes' /\ PlacesHold'
    BY <2>1 DEF BrowserInv, BrowserShapes, PlacesHold, NeverWaitsForNothing, Open
  <2> QED BY <2>1, <2>2, CallsStay DEF BrowserInv
<1>2. CASE Reload \/ Logout \/ RefreshUser \/ Poll \/ OpenForm \/ Save
  BY <1>2, ReloadKeeps, LogoutKeeps, RefreshUserKeeps, PollKeeps, OpenFormKeeps, SaveKeeps
<1>3. CASE Renew \/ RenewFails \/ Expired \/ TokenExpires \/ SessionEnds
  BY <1>3, RenewKeeps, ExpiredKeeps, CookieKeeps
<1>4. CASE LogoutElsewhere \/ (\E u \in Users : LoginElsewhere(u))
           \/ (\E o \in Tenants : SwitchElsewhere(o))
  BY <1>4, OtherTabKeeps
<1>5. CASE (\E u \in Users : Login(u)) \/ (\E o \in Tenants : Switch(o))
  BY <1>5, LoginKeeps, SwitchKeeps
<1>6. ASSUME NEW c \in calls,
             \/ Serve(c) \/ ServeLogin(c) \/ ServeLogout(c) \/ Failing(c) \/ GotUser(c)
             \/ GotLogin(c) \/ GotLoginUser(c) \/ GotData(c) \/ Finished(c)
      PROVE  BrowserInv'
  BY <1>6, ServeKeeps, ServeLoginKeeps, ServeLogoutKeeps, FailingKeeps, GotUserKeeps,
     GotLoginKeeps, GotDataKeeps, FinishedKeeps
<1> QED BY <1>1, <1>2, <1>3, <1>4, <1>5, <1>6 DEF BrowserNext

LEMMA BrowserInvariant == BrowserSpec => []BrowserInv
<1>1. BrowserInit => BrowserInv
  BY BrowserInvInit
<1> QED BY <1>1, BrowserInvStep, PTL DEF BrowserSpec

LEMMA BrowserInvTyped == BrowserInv => BrowserTypeOK
<1> SUFFICES ASSUME BrowserInv PROVE BrowserTypeOK
  OBVIOUS
<1>1. Cardinality(calls) <= MaxTabCalls
  <2>1. IsFiniteSet(calls) /\ Cardinality(calls) + 0 <= MaxTabCalls
    BY DEF BrowserInv, Fits
  <2> QED BY <2>1, FS_CardinalityType, BrowserKeys
<1> QED BY <1>1 DEF BrowserInv, BrowserShapes, BrowserTypeOK, TabSet

LEMMA BrowserInvSafe == BrowserInv => BrowserHolds
<1> SUFFICES ASSUME BrowserInv PROVE BrowserHolds
  OBVIOUS
<1>1. NeverWaitsForNothing /\ SavedWhereTyped /\ SignedOutHere
  BY DEF BrowserInv, PlacesHold, CallsHold, CallHolds, SavedWhereTyped, LeftHolds, SignedOutHere
<1>2. ShownBelongs
  <2> SUFFICES ASSUME Open(tab), Visible # Fail
               PROVE  /\ Visible.of = tab.active \/ "header" \in elsewhere
                      /\ Visible.who = tab.who \/ "who" \in elsewhere \/ returned
    BY DEF ShownBelongs
  <2>1. shell.loaded = stored /\ Visible = shell.data
    BY DEF Visible
  <2>2. Visible.of = tab.active \/ "header" \in elsewhere
    BY <2>1 DEF BrowserInv, PlacesHold
  <2>3. Visible.who = tab.who \/ "who" \in elsewhere \/ returned
    BY <2>1 DEF BrowserInv, OnePerson, Known, Open
  <2> QED BY <2>2, <2>3
<1> QED BY <1>1, <1>2 DEF BrowserHolds

(* The state of a tab always has its shape: what is stored, the cookies,   *)
(* the user, the shell, the form and the calls under way.                  *)
THEOREM BrowserTyped == BrowserSpec => []BrowserTypeOK
BY BrowserInvariant, BrowserInvTyped, PTL

(* What a tab shows is of the organisation and the person it names, no     *)
(* shell waits for an answer that nothing will bring, what is typed is     *)
(* saved where it was typed, and a sign-out is not undone (auth-context,   *)
(* tenant-context, use-api, ProtectedLayout).                              *)
THEOREM BrowserSafe == BrowserSpec => []BrowserHolds
BY BrowserInvariant, BrowserInvSafe, PTL
-----------------------------------------------------------------------------
(* The form of the settings                                                 *)

FormShapes ==
    /\ settings \in [Desks -> Form] /\ version \in [Desks -> Nat]
    /\ active \in Desks /\ values \in Form /\ asOf \in Nat
    /\ load \in [of : Desks, got : Answers] \cup {NotHere}
    /\ load # NotHere => load \in [of : {active}, got : Answers]
    /\ drafts \in [Desks -> Form] /\ typed \in Nat /\ covered \subseteq Fields
    /\ asked \subseteq Asked
    /\ busyWith \in {"save", "disconnect", "test", NotHere}
    /\ sent \in 0..MaxAsked /\ visits \in 0..MaxVisits
    /\ hasLocalEdits \in BOOLEAN /\ hasSavedInSession \in BOOLEAN /\ filled \in BOOLEAN
    /\ early \in BOOLEAN /\ crossed \in BOOLEAN /\ overlap \in BOOLEAN

(* Whatever the page has sent, been given, shows or keeps, and whatever is *)
(* stored, is of one organisation.                                         *)
OfDesk(o, body) == \A k \in Fields : Of(o, body[k])
OwnInv ==
    ~crossed =>
        /\ OfDesk(active, values)
        /\ \A o \in Desks : OfDesk(o, settings[o])
        /\ load # NotHere /\ load.got # NotHere => OfDesk(active, load.got.values)
        /\ \A c \in asked : OfDesk(c.of, c.body)
                            /\ (c.got # NotHere => OfDesk(c.of, c.got.values))

(* As long as nothing was saved from an empty form, nothing that is shown, *)
(* sent or stored has an empty field.                                      *)
Full(body) == \A k \in Fields : body[k] # Unset
FullInv ==
    ~early =>
        /\ filled => Full(values)
        /\ \A o \in Desks : Full(settings[o])
        /\ load # NotHere /\ load.got # NotHere => Full(load.got.values)
        /\ \A c \in asked : /\ c.kind = "save" => \A k \in c.section : c.body[k] # Unset
                            /\ c.got # NotHere => Full(c.got.values)

(* No answer is newer than the server, and one that will be heard after a  *)
(* save is no older than what the form shows.                              *)
AgeInv ==
    /\ ~crossed => asOf <= version[active]
    /\ load # NotHere /\ load.got # NotHere => load.got.at <= version[load.of]
    /\ \A c \in asked : c.got # NotHere => c.got.at <= version[c.of]
    /\ ~overlap =>
          /\ \A c, d \in asked : c.here /\ d.here => c = d
          /\ hasSavedInSession /\ ~crossed =>
                \A c \in asked : c.here /\ c.got # NotHere /\ c.of = active => asOf <= c.got.at

(* A draft is a numbered edit of its organisation; and that of a field a   *)
(* save is about is the one it holds, unless the edit is a later one, or   *)
(* the form may not have shown it.                                         *)
Holds(c, d) == \A k \in c.section \ c.unseen :
    d[k] # Unset /\ d[k].edit <= c.last => c.body[k] = d[k]
EditInv ==
    /\ \A o \in Desks, k \in Fields :
          drafts[o][k] # Unset => drafts[o][k].of = o /\ drafts[o][k].edit <= typed
    /\ \A c \in asked : c.last <= typed /\ (c.kind = "save" => Holds(c, drafts[c.of]))

FormInv == FormShapes /\ EditsShown /\ EditInv /\ OwnInv /\ FullInv /\ AgeInv
-----------------------------------------------------------------------------
LEMMA BlankTyped == Blank \in Form /\ \A k \in Fields : Blank[k] = Unset
BY DEF Blank, Form

LEMMA PutTyped ==
    ASSUME NEW section \in SUBSET Fields, NEW body \in Form, NEW fields \in Form
    PROVE  /\ Put(section, body, fields) \in Form
           /\ \A k \in Fields :
                 Put(section, body, fields)[k] = IF k \in section THEN body[k] ELSE fields[k]
BY DEF Put, Form

LEMMA FormInit1 == FormInit => FormInv
<1> SUFFICES ASSUME FormInit PROVE FormInv
  OBVIOUS
<1>1. settings \in [Desks -> Form] /\ \A o \in Desks, k \in Fields : settings[o][k] = [of |-> o, edit |-> 0]
  BY DEF FormInit, Form, Value
<1>2. 0 \in 0..MaxAsked /\ 0 \in 0..MaxVisits /\ version \in [Desks -> Nat]
  BY SettingsFormAssumption DEF SettingsFormAssumption, FormInit
<1>3. load = [of |-> active, got |-> NotHere] /\ active \in Desks
  BY DEF FormInit, Get
<1>3a. load \in [of : {active}, got : Answers] /\ load.got = NotHere
  BY <1>3 DEF Answers
<1>4. values \in Form /\ \A k \in Fields : values[k] = Unset
  BY BlankTyped DEF FormInit
<1>4a. drafts \in [Desks -> Form] /\ \A o \in Desks, k \in Fields : drafts[o][k] = Unset
  BY BlankTyped DEF FormInit
<1>5. FormShapes
  BY <1>1, <1>2, <1>3, <1>3a, <1>4, <1>4a DEF FormShapes, FormInit
<1>6. EditsShown /\ EditInv
  BY <1>4a DEF FormInit, EditsShown, EditInv
<1>7. OwnInv
  BY <1>1, <1>3a, <1>4 DEF FormInit, OwnInv, OfDesk, Of
<1>8a. ASSUME NEW o \in Desks, NEW k \in Fields PROVE settings[o][k] # Unset
  <2>1. settings[o][k] = [of |-> o, edit |-> 0]
    BY <1>1
  <2>2. settings[o][k] \in [of : Desks, edit : Nat]
    BY <2>1
  <2> QED BY <2>2, SettingsFormAssumption DEF SettingsFormAssumption
<1>8. FullInv
  BY <1>8a, <1>3a, SettingsFormAssumption DEF SettingsFormAssumption, FormInit, FullInv, Full
<1>9. AgeInv
  BY <1>3a, <1>2 DEF FormInit, AgeInv
<1> QED BY <1>5, <1>6, <1>7, <1>8, <1>9 DEF FormInv

(* The value an edit for organisation o is about to get. *)
NextEdit(o) == [of |-> o, edit |-> typed + 1]

SetDone(o, k) ==
    /\ values' \in Form /\ drafts' \in [Desks -> Form] /\ covered' \subseteq Fields
    /\ typed' = typed + 1 /\ typed \in Nat /\ hasLocalEdits' = TRUE
    /\ NextEdit(o).of = o /\ NextEdit(o).edit = typed + 1 /\ NextEdit(o) # Unset
    /\ \A f \in Fields : values'[f] = IF f = k THEN NextEdit(o) ELSE values[f]
    /\ \A d \in Desks, f \in Fields :
          drafts'[d][f] = IF d = o /\ f = k THEN NextEdit(o) ELSE drafts[d][f]
    /\ covered' = IF o = active THEN covered \ {k} ELSE covered \cup {k}

LEMMA SetEffect ==
    ASSUME FormShapes, NEW o \in Desks, NEW k \in Fields, Set(o, k)
    PROVE  SetDone(o, k)
<1>0. /\ typed \in Nat /\ values \in Form /\ drafts \in [Desks -> Form] /\ covered \subseteq Fields
  BY DEF FormShapes
<1>1. NextEdit(o) \in Value /\ NextEdit(o).of = o /\ NextEdit(o).edit = typed + 1
  BY <1>0 DEF NextEdit, Value
<1>2. NextEdit(o) # Unset
  BY <1>1, SettingsFormAssumption DEF SettingsFormAssumption, Value
<1>3. /\ typed' = typed + 1 /\ hasLocalEdits' = TRUE
      /\ values' = [values EXCEPT ![k] = NextEdit(o)]
      /\ drafts' = [drafts EXCEPT ![o] = [drafts[o] EXCEPT ![k] = NextEdit(o)]]
      /\ covered' = IF o = active THEN covered \ {k} ELSE covered \cup {k}
  BY DEF Set, NextEdit
<1> HIDE DEF NextEdit
<1>4. [drafts[o] EXCEPT ![k] = NextEdit(o)] \in Form
  BY <1>0, <1>1 DEF Form
<1>5. values' \in Form /\ drafts' \in [Desks -> Form] /\ covered' \subseteq Fields
  BY <1>0, <1>1, <1>3, <1>4 DEF Form
<1>6. ASSUME NEW f \in Fields PROVE values'[f] = IF f = k THEN NextEdit(o) ELSE values[f]
  BY <1>0, <1>3 DEF Form
<1>7. ASSUME NEW d \in Desks, NEW f \in Fields
      PROVE  drafts'[d][f] = IF d = o /\ f = k THEN NextEdit(o) ELSE drafts[d][f]
  BY <1>0, <1>3 DEF Form
<1> QED BY <1>0, <1>1, <1>2, <1>3, <1>5, <1>6, <1>7 DEF SetDone

(* An edit leaves the form showing its draft, and is later than any save.  *)
LEMMA SetKeeps ==
    ASSUME FormInv, NEW o \in Desks, NEW k \in Fields, Set(o, k), asked' \subseteq asked,
           filled' = filled, active' = active
    PROVE  EditsShown' /\ EditInv'
<1>0. FormShapes
  BY DEF FormInv
<1>1. /\ typed' = typed + 1 /\ typed \in Nat
      /\ NextEdit(o).edit = typed + 1 /\ NextEdit(o).of = o /\ NextEdit(o) # Unset
      /\ \A f \in Fields : values'[f] = IF f = k THEN NextEdit(o) ELSE values[f]
      /\ \A d \in Desks, f \in Fields :
            drafts'[d][f] = IF d = o /\ f = k THEN NextEdit(o) ELSE drafts[d][f]
      /\ covered' = IF o = active THEN covered \ {k} ELSE covered \cup {k}
  <2>1. SetDone(o, k)
    BY <1>0, SetEffect
  <2> QED BY <2>1 DEF SetDone
<1>2. active \in Desks
  BY <1>0 DEF FormShapes
<1>3. EditsShown'
  <2> SUFFICES ASSUME filled, NEW f \in Fields, f \notin covered'
               PROVE  drafts'[active][f] \in {Unset, values'[f]}
    BY DEF EditsShown
  <2>1. f # k /\ f \notin covered => drafts[active][f] \in {Unset, values[f]}
    BY DEF FormInv, EditsShown
  <2> QED BY <1>1, <1>2, <2>1
<1>4. ASSUME NEW d \in Desks, NEW f \in Fields, drafts'[d][f] # Unset
      PROVE  drafts'[d][f].of = d /\ drafts'[d][f].edit <= typed'
  <2>1. drafts[d][f] # Unset => /\ drafts[d][f].edit <= typed /\ drafts[d][f].edit \in Nat
                                /\ drafts[d][f].of = d
    BY <1>0 DEF FormInv, EditInv, FormShapes, Form, Value
  <2> QED BY <1>1, <1>4, <2>1
<1>5. ASSUME NEW c \in asked
      PROVE  c.last <= typed' /\ (c.kind = "save" => Holds(c, drafts'[c.of]))
  <2>1. /\ c.last \in Nat /\ c.last <= typed /\ c.of \in Desks /\ c.section \subseteq Fields
        /\ c.kind = "save" => Holds(c, drafts[c.of])
    BY DEF FormInv, FormShapes, EditInv, Asked
  <2>2. ASSUME c.kind = "save", NEW f \in c.section \ c.unseen,
               drafts'[c.of][f] # Unset, drafts'[c.of][f].edit <= c.last
        PROVE  c.body[f] = drafts'[c.of][f]
    <3>1. ~(c.of = o /\ f = k)
      BY <1>1, <2>1, <2>2
    <3>2. drafts'[c.of][f] = drafts[c.of][f]
      BY <1>1, <2>1, <3>1
    <3> QED BY <2>1, <2>2, <3>2 DEF Holds
  <2>3. c.kind = "save" => Holds(c, drafts'[c.of])
    BY <2>2 DEF Holds
  <2> QED BY <1>1, <2>1, <2>3
<1> QED BY <1>3, <1>4, <1>5 DEF EditInv

(* Where no draft, no edit and no call changes, and no field more is shown.*)
LEMMA EditsSame ==
    ASSUME FormInv, UNCHANGED <<active, values, filled, drafts, typed, covered>>,
           asked' \subseteq asked
    PROVE  EditsShown' /\ EditInv'
BY DEF FormInv, EditsShown, EditInv, Holds

LEMMA TypeKeeps == ASSUME FormInv, NEW k \in Fields, Type(k) PROVE FormInv'
<1>0. /\ FormShapes /\ Set(active, k) /\ active \in Desks
      /\ UNCHANGED <<settings, version, active, visits, filled, asOf, load, hasSavedInSession,
                     asked, busyWith, sent, early, crossed, overlap>>
  BY DEF FormInv, FormShapes, Type, server, asking, crossings
<1>1. /\ values' \in Form /\ drafts' \in [Desks -> Form] /\ covered' \subseteq Fields
      /\ typed' \in Nat /\ hasLocalEdits' = TRUE
      /\ \A f \in Fields : values'[f] = values[f] \/ (Of(active, values'[f]) /\ values'[f] # Unset)
  <2>1. SetDone(active, k)
    BY <1>0, SetEffect
  <2>2. active \in Desks
    BY <1>0
  <2> QED BY <2>1, <2>2 DEF SetDone, Of
<1>2. FormShapes'
  BY <1>0, <1>1 DEF FormShapes
<1>3. EditsShown' /\ EditInv'
  BY <1>0, SetKeeps
<1>4. OwnInv'
  BY <1>0, <1>1 DEF FormInv, OwnInv, OfDesk
<1>5. FullInv'
  BY <1>0, <1>1 DEF FormInv, FullInv, Full
<1>6. AgeInv'
  BY <1>0 DEF FormInv, AgeInv
<1> QED BY <1>2, <1>3, <1>4, <1>5, <1>6 DEF FormInv

LEMMA PressKeeps ==
    ASSUME FormInv, NEW kind \in {"save", "disconnect", "test"}, NEW section \in SUBSET Fields,
           Press(kind, section)
    PROVE  FormInv'
<1> DEFINE n == [kind |-> kind, of |-> active, section |-> section,
                 body |-> Put(section, values, Blank), got |-> NotHere, here |-> TRUE,
                 last |-> typed, unseen |-> Unseen(section)]
<1>0. /\ busyWith' = kind /\ sent < MaxAsked /\ sent' = sent + 1 /\ asked' = asked \cup {n}
      /\ overlap' = (overlap \/ \E c \in asked : c.here)
      /\ early' = (early \/ (kind = "save" /\ ~filled))
      /\ UNCHANGED <<settings, version, active, visits, values, filled, asOf, load, drafts, typed, covered,
                     hasLocalEdits, hasSavedInSession, crossed>>
  BY DEF Press, server, screen, marks, edits
<1>1. /\ Put(section, values, Blank) \in Form
      /\ \A k \in Fields :
            Put(section, values, Blank)[k] = IF k \in section THEN values[k] ELSE Unset
  <2>1. values \in Form
    BY DEF FormInv, FormShapes
  <2> QED BY <2>1, BlankTyped, PutTyped
<1>2. /\ n \in Asked /\ n.kind = kind /\ n.of = active /\ n.section = section
      /\ n.body = Put(section, values, Blank) /\ n.got = NotHere /\ n.here = TRUE
      /\ n.last = typed /\ n.unseen = Unseen(section)
  <2>1. Unseen(section) \subseteq Fields /\ typed \in Nat /\ active \in Desks
    BY DEF Unseen, FormInv, FormShapes
  <2> QED BY <1>1, <2>1 DEF Asked, Answers
<1> HIDE DEF n
<1>3. FormShapes'
  <2>1. sent' \in 0..MaxAsked
    BY <1>0, SettingsFormAssumption DEF SettingsFormAssumption, FormInv, FormShapes
  <2>2. early' \in BOOLEAN /\ overlap' \in BOOLEAN
    BY <1>0
  <2> QED BY <1>0, <1>2, <2>1, <2>2 DEF FormInv, FormShapes
<1>4. EditsShown' /\ EditInv'
  <2>1. ASSUME NEW k \in section, k \notin Unseen(section), drafts[active][k] # Unset
        PROVE  Put(section, values, Blank)[k] = drafts[active][k]
    BY <1>1, <2>1 DEF Unseen, FormInv, EditsShown
  <2>2. Holds(n, drafts[active])
    BY <1>2, <2>1 DEF Holds
  <2>3. typed \in Nat
    BY DEF FormInv, FormShapes
  <2>4. ASSUME NEW c \in asked'
        PROVE  c.last <= typed /\ (c.kind = "save" => Holds(c, drafts[c.of]))
    BY <1>0, <1>2, <2>2, <2>3, <2>4 DEF FormInv, EditInv
  <2>5. EditsShown'
    BY <1>0 DEF FormInv, EditsShown
  <2>6. \A o \in Desks, k \in Fields :
           drafts'[o][k] # Unset => drafts'[o][k].of = o /\ drafts'[o][k].edit <= typed'
    BY <1>0 DEF FormInv, EditInv
  <2>7. \A c \in asked' : c.last <= typed' /\ (c.kind = "save" => Holds(c, drafts'[c.of]))
    BY <1>0, <2>4
  <2> QED BY <2>5, <2>6, <2>7 DEF EditInv
<1>5. OwnInv'
  BY <1>0, <1>1, <1>2 DEF FormInv, OwnInv, OfDesk, Of
<1>6. FullInv'
  <2> SUFFICES ASSUME ~early, kind = "save" => filled PROVE FullInv'
    BY <1>0 DEF FullInv
  <2>1. \A c \in asked' : /\ c.kind = "save" => \A k \in c.section : c.body[k] # Unset
                          /\ c.got # NotHere => Full(c.got.values)
    BY <1>0, <1>1, <1>2 DEF FormInv, FullInv, Full
  <2> QED BY <1>0, <2>1 DEF FormInv, FullInv
<1>7. AgeInv'
  BY <1>0, <1>2 DEF FormInv, AgeInv
<1> QED BY <1>3, <1>4, <1>5, <1>6, <1>7 DEF FormInv

(* The form is emptied, for an organisation whose GET is under way, and    *)
(* the calls of before are heard no more than they were.                   *)
LEMMA EmptiedKeeps ==
    ASSUME FormInv, Emptied, NEW o \in Desks, active' = o, load' = Get(o),
           UNCHANGED <<settings, version, drafts, typed, sent, early, crossed>>,
           busyWith' \in {busyWith, NotHere}, overlap' \in BOOLEAN,
           \/ asked' = asked /\ overlap' = overlap
           \/ \A c \in asked' : \E d \in asked : c = [d EXCEPT !.here = FALSE]
    PROVE  FormInv'
<1>1. /\ values' = Blank /\ filled' = FALSE /\ asOf' = 0
      /\ hasLocalEdits' = FALSE /\ hasSavedInSession' = FALSE
      /\ visits < MaxVisits /\ visits' = visits + 1 /\ covered' = {}
  BY DEF Emptied
<1>2. load' = [of |-> o, got |-> NotHere]
  BY DEF Get
<1>3. load' \in [of : {o}, got : Answers] /\ load'.got = NotHere
  BY <1>2 DEF Answers
<1>4. ASSUME NEW c \in asked'
      PROVE  \E d \in asked : /\ c \in Asked /\ d \in Asked /\ c.of = d.of /\ c.kind = d.kind
                              /\ c.section = d.section /\ c.body = d.body /\ c.got = d.got
                              /\ c.last = d.last /\ c.unseen = d.unseen
                              /\ (asked' = asked /\ overlap' = overlap) \/ c.here = FALSE
  <2>1. asked \subseteq Asked
    BY DEF FormInv, FormShapes
  <2>2. CASE asked' = asked /\ overlap' = overlap
    BY <2>1, <2>2
  <2>3. ASSUME NEW d \in asked, c = [d EXCEPT !.here = FALSE]
        PROVE  /\ c \in Asked /\ d \in Asked /\ c.of = d.of /\ c.kind = d.kind
               /\ c.section = d.section /\ c.body = d.body /\ c.got = d.got /\ c.here = FALSE
               /\ c.last = d.last /\ c.unseen = d.unseen
    BY <2>1, <2>3 DEF Asked
  <2> QED BY <2>2, <2>3
<1>5. FormShapes'
  <2>1. visits' \in 0..MaxVisits
    BY <1>1, SettingsFormAssumption DEF SettingsFormAssumption, FormInv, FormShapes
  <2>2. asked' \subseteq Asked
    BY <1>4
  <2>3. values' \in Form
    BY <1>1, BlankTyped
  <2>4. load' \in [of : {active'}, got : Answers] /\ load' \in [of : Desks, got : Answers]
    BY <1>3
  <2> QED BY <1>1, <2>1, <2>2, <2>3, <2>4 DEF FormInv, FormShapes
<1>6. EditsShown' /\ EditInv'
  <2>1. EditsShown'
    BY <1>1 DEF EditsShown
  <2>2. ASSUME NEW c \in asked'
        PROVE  c.last <= typed /\ (c.kind = "save" => Holds(c, drafts[c.of]))
    <3>1. PICK d \in asked : /\ c.of = d.of /\ c.kind = d.kind /\ c.section = d.section
                            /\ c.body = d.body /\ c.last = d.last /\ c.unseen = d.unseen
      BY <1>4
    <3> QED BY <3>1 DEF FormInv, EditInv, Holds
  <2> QED BY <2>1, <2>2 DEF FormInv, EditInv
<1>7. OwnInv'
  <2> SUFFICES ASSUME ~crossed PROVE OwnInv'
    BY DEF OwnInv
  <2>1. \A k \in Fields : Of(o, values'[k])
    BY <1>1, BlankTyped DEF Of
  <2>2. \A d \in Desks : OfDesk(d, settings[d])
    BY DEF FormInv, OwnInv
  <2>3. ASSUME NEW c \in asked'
        PROVE  OfDesk(c.of, c.body) /\ (c.got # NotHere => OfDesk(c.of, c.got.values))
    <3>1. PICK d \in asked : c.of = d.of /\ c.body = d.body /\ c.got = d.got
      BY <1>4
    <3> QED BY <3>1 DEF FormInv, OwnInv
  <2>4. OfDesk(active', values')
    BY <2>1 DEF OfDesk
  <2> QED BY <1>3, <2>2, <2>3, <2>4 DEF OwnInv
<1>8. FullInv'
  <2> SUFFICES ASSUME ~early PROVE FullInv'
    BY DEF FullInv
  <2>1. ASSUME NEW c \in asked'
        PROVE  /\ c.kind = "save" => \A k \in c.section : c.body[k] # Unset
               /\ c.got # NotHere => Full(c.got.values)
    <3>1. PICK d \in asked : /\ c.kind = d.kind /\ c.section = d.section /\ c.body = d.body
                            /\ c.got = d.got
      BY <1>4
    <3> QED BY <3>1 DEF FormInv, FullInv
  <2> QED BY <1>1, <1>3, <2>1 DEF FormInv, FullInv
<1>9. AgeInv'
  <2>1. version' \in [Desks -> Nat] /\ asOf' <= version'[active']
    BY <1>1 DEF FormInv, FormShapes
  <2>2. \A c \in asked' : c.got # NotHere => c.got.at <= version'[c.of]
    BY <1>4 DEF FormInv, AgeInv
  <2>3. ~overlap' => \A c, d \in asked' : c.here /\ d.here => c = d
    <3>1. CASE asked' = asked /\ overlap' = overlap
      BY <3>1 DEF FormInv, AgeInv
    <3>2. CASE ~(asked' = asked /\ overlap' = overlap)
      BY <1>4, <3>2
    <3> QED BY <3>1, <3>2
  <2> QED BY <1>1, <1>3, <2>1, <2>2, <2>3 DEF AgeInv
<1> QED BY <1>5, <1>6, <1>7, <1>8, <1>9 DEF FormInv

LEMMA ShowDeskKeeps == ASSUME FormInv, NEW o \in Desks, ShowDesk(o) PROVE FormInv'
<1>1. /\ active' = o /\ load' = Get(o) /\ Emptied
      /\ UNCHANGED <<settings, version, drafts, typed, asked, busyWith, sent, early, crossed,
                     overlap>>
  BY DEF ShowDesk, server, asking, crossings
<1>2. overlap' \in BOOLEAN
  BY <1>1 DEF FormInv, FormShapes
<1> QED BY <1>1, <1>2, EmptiedKeeps

LEMMA ReopenKeeps == ASSUME FormInv, Reopen PROVE FormInv'
<1>1. /\ active' = active /\ load' = Get(active) /\ Emptied /\ busyWith' = NotHere
      /\ UNCHANGED <<settings, version, drafts, typed, sent, early, crossed>>
      /\ overlap' = FALSE
  BY DEF Reopen, server
<1>2. \A c \in asked' : \E d \in asked : c = [d EXCEPT !.here = FALSE]
  BY DEF Reopen
<1>3. active \in Desks
  BY DEF FormInv, FormShapes
<1> QED BY <1>1, <1>2, <1>3, EmptiedKeeps

LEMMA SavedElsewhereKeeps == ASSUME FormInv, NEW o \in Desks, SavedElsewhere(o) PROVE FormInv'
<1>0. /\ sent < MaxAsked /\ sent' = sent + 1 /\ version' = [version EXCEPT ![o] = @ + 1]
      /\ UNCHANGED <<settings, active, visits, values, filled, asOf, load, drafts, typed, covered,
                     hasLocalEdits, hasSavedInSession, asked, busyWith, early, crossed, overlap>>
  BY DEF SavedElsewhere, screen, marks, crossings, edits
<1>1. /\ version' \in [Desks -> Nat] /\ \A d \in Desks : version[d] <= version'[d]
      /\ version \in [Desks -> Nat]
  BY <1>0 DEF FormInv, FormShapes
<1>2. FormShapes'
  <2>1. sent' \in 0..MaxAsked
    BY <1>0, SettingsFormAssumption DEF SettingsFormAssumption, FormInv, FormShapes
  <2> QED BY <1>0, <1>1, <2>1 DEF FormInv, FormShapes
<1>3. OwnInv' /\ FullInv'
  BY <1>0 DEF FormInv, OwnInv, OfDesk, FullInv, Full
<1>3a. EditsShown' /\ EditInv'
  BY <1>0, EditsSame
<1>4. AgeInv'
  <2>1. ~crossed' => asOf' <= version'[active']
    BY <1>0, <1>1 DEF FormInv, AgeInv, FormShapes
  <2>2. load' # NotHere /\ load'.got # NotHere => load'.got.at <= version'[load'.of]
    <3> SUFFICES ASSUME load # NotHere, load.got # NotHere
                 PROVE  load.got.at <= version'[load.of]
      BY <1>0
    <3>1. load.of \in Desks /\ load.got.at \in Nat
      BY DEF FormInv, FormShapes, Answers
    <3> QED BY <1>1, <3>1 DEF FormInv, AgeInv
  <2>3. ASSUME NEW c \in asked, c.got # NotHere PROVE c.got.at <= version'[c.of]
    <3>1. c.of \in Desks /\ c.got.at \in Nat
      BY <2>3 DEF FormInv, FormShapes, Asked, Answers
    <3> QED BY <1>1, <2>3, <3>1 DEF FormInv, AgeInv
  <2> QED BY <1>0, <2>1, <2>2, <2>3 DEF FormInv, AgeInv
<1> QED BY <1>2, <1>3, <1>3a, <1>4 DEF FormInv

LEMMA LoadTyped ==
    ASSUME FormInv, load # NotHere
    PROVE  /\ load \in [of : {active}, got : Answers] /\ load.of = active /\ active \in Desks
           /\ load.got # NotHere => load.got.values \in Form /\ load.got.at \in Nat
BY DEF FormInv, FormShapes, Answers

LEMMA LoadServedKeeps == ASSUME FormInv, LoadServed PROVE FormInv'
<1> DEFINE g == [values |-> settings[load.of], at |-> version[load.of]]
<1>0. /\ load # NotHere /\ load' = [load EXCEPT !.got = g]
      /\ UNCHANGED <<settings, version, active, visits, values, filled, asOf, drafts, typed, covered,
                     hasLocalEdits, hasSavedInSession, asked, busyWith, sent, early, crossed,
                     overlap>>
  BY DEF LoadServed, server, screen, marks, asking, crossings, edits
<1>1. load.of = active /\ active \in Desks /\ load \in [of : {active}, got : Answers]
  BY <1>0, LoadTyped
<1>2. settings[active] \in Form /\ version[active] \in Nat
  BY <1>1 DEF FormInv, FormShapes
<1>3. g \in Answers /\ g.values = settings[active] /\ g.at = version[active]
  BY <1>1, <1>2 DEF Answers
<1> HIDE DEF g
<1>4. load' \in [of : {active}, got : Answers] /\ load'.of = active /\ load'.got = g
  BY <1>0, <1>1, <1>3
<1>5. FormShapes'
  <2>1. load' \in [of : Desks, got : Answers] /\ load' \in [of : {active'}, got : Answers]
    BY <1>0, <1>1, <1>4
  <2> QED BY <1>0, <2>1 DEF FormInv, FormShapes
<1>6. EditsShown' /\ EditInv'
  BY <1>0, EditsSame
<1>7. OwnInv' /\ FullInv'
  BY <1>0, <1>1, <1>3, <1>4 DEF FormInv, OwnInv, OfDesk, FullInv, Full
<1>8. AgeInv'
  BY <1>0, <1>1, <1>2, <1>3, <1>4 DEF FormInv, AgeInv
<1> QED BY <1>5, <1>6, <1>7, <1>8 DEF FormInv

LEMMA LoadGoneKeeps ==
    ASSUME FormInv, load' = NotHere,
           UNCHANGED <<server, active, visits, screen, edits, marks, asking, crossings>>
    PROVE  FormInv'
<1>0. UNCHANGED <<settings, version, active, visits, values, filled, asOf, drafts, typed, covered,
                  hasLocalEdits, hasSavedInSession, asked, busyWith, sent, early, crossed, overlap>>
  BY DEF server, screen, marks, asking, crossings, edits
<1>1. FormShapes'
  BY <1>0 DEF FormInv, FormShapes
<1>2. EditsShown' /\ EditInv'
  BY <1>0, EditsSame
<1> QED BY <1>0, <1>1, <1>2 DEF FormInv, OwnInv, OfDesk, FullInv, Full, AgeInv

LEMMA LoadHeardKeeps == ASSUME FormInv, LoadHeard PROVE FormInv'
<1>0. /\ load # NotHere /\ load.got # NotHere /\ load' = NotHere
      /\ UNCHANGED <<settings, version, active, visits, drafts, typed, hasLocalEdits,
                     hasSavedInSession, asked, busyWith, sent, early, crossed, overlap>>
      /\ IF hasLocalEdits \/ hasSavedInSession THEN UNCHANGED <<screen, covered>>
         ELSE Draw(load.got)
  BY DEF LoadHeard, server, marks, asking, crossings
<1>1. CASE hasLocalEdits \/ hasSavedInSession
  BY <1>1, LoadGoneKeeps DEF LoadHeard, edits
<1>2. CASE ~(hasLocalEdits \/ hasSavedInSession)
  <2>1. /\ values' = [k \in Fields |-> IF drafts[active][k] # Unset THEN drafts[active][k]
                                       ELSE load.got.values[k]]
        /\ filled' = TRUE /\ asOf' = load.got.at /\ covered' = {}
    BY <1>0, <1>2 DEF Draw
  <2>2. load.of = active /\ active \in Desks /\ load.got.values \in Form /\ load.got.at \in Nat
    BY <1>0, LoadTyped
  <2>2a. drafts[active] \in Form
    BY <2>2 DEF FormInv, FormShapes
  <2>3. /\ values' \in Form
        /\ \A k \in Fields : \/ values'[k] = load.got.values[k]
                             \/ values'[k] = drafts[active][k] /\ values'[k] # Unset
        /\ \A k \in Fields : drafts[active][k] \in {Unset, values'[k]}
    BY <2>1, <2>2, <2>2a DEF Form
  <2>4. FormShapes'
    BY <1>0, <2>1, <2>2, <2>3 DEF FormInv, FormShapes
  <2>5. EditsShown' /\ EditInv'
    <3>1. EditsShown'
      BY <1>0, <2>3 DEF EditsShown
    <3>2. EditInv'
      BY <1>0 DEF FormInv, EditInv, Holds
    <3> QED BY <3>1, <3>2
  <2>6. OwnInv'
    BY <1>0, <2>2, <2>3 DEF FormInv, OwnInv, OfDesk, Of, EditInv
  <2>7. FullInv'
    BY <1>0, <2>2, <2>3, SettingsFormAssumption DEF SettingsFormAssumption, FormInv, FullInv, Full
  <2>8. AgeInv'
    BY <1>0, <1>2, <2>1, <2>2 DEF FormInv, AgeInv
  <2> QED BY <2>4, <2>5, <2>6, <2>7, <2>8 DEF FormInv
<1> QED BY <1>1, <1>2

LEMMA CallTypes ==
    ASSUME FormInv, NEW c \in asked
    PROVE  /\ c \in Asked /\ c.of \in Desks /\ c.section \in SUBSET Fields /\ c.body \in Form
           /\ c.got # NotHere => c.got.values \in Form /\ c.got.at \in Nat
BY DEF FormInv, FormShapes, Asked, Answers

LEMMA ServedKeeps == ASSUME FormInv, NEW c \in asked, Served(c) PROVE FormInv'
<1> DEFINE g == [values |-> settings'[c.of], at |-> version'[c.of]]
           n == [c EXCEPT !.got = g]
<1>0. /\ c.got = NotHere
      /\ UNCHANGED <<active, visits, values, filled, asOf, load, drafts, typed, covered, hasLocalEdits,
                     hasSavedInSession, busyWith, sent, early, crossed, overlap>>
  BY DEF Served, screen, marks, crossings, edits
<1>1. c \in Asked /\ c.of \in Desks /\ c.section \in SUBSET Fields /\ c.body \in Form
  BY CallTypes
<1>2. /\ settings \in [Desks -> Form] /\ version \in [Desks -> Nat]
      /\ settings[c.of] \in Form
  BY <1>1 DEF FormInv, FormShapes
<1>3. /\ settings' \in [Desks -> Form] /\ version' \in [Desks -> Nat]
      /\ \A o \in Desks : version[o] <= version'[o]
      /\ \A o \in Desks, k \in Fields :
            \/ settings'[o][k] = settings[o][k]
            \/ c.kind = "save" /\ o = c.of /\ k \in c.section /\ settings'[o][k] = c.body[k]
  <2>1. CASE c.kind = "save"
    <3>1. /\ settings' = [settings EXCEPT ![c.of] = Put(c.section, c.body, settings[c.of])]
          /\ version' = [version EXCEPT ![c.of] = @ + 1]
      BY <2>1 DEF Served
    <3>2. /\ Put(c.section, c.body, settings[c.of]) \in Form
          /\ \A k \in Fields : Put(c.section, c.body, settings[c.of])[k]
                               = IF k \in c.section THEN c.body[k] ELSE settings[c.of][k]
      BY <1>1, <1>2, PutTyped
    <3> QED BY <1>1, <1>2, <2>1, <3>1, <3>2
  <2>2. CASE c.kind # "save"
    BY <1>2, <2>2 DEF Served
  <2> QED BY <2>1, <2>2
<1>4. g \in Answers /\ g.values = settings'[c.of] /\ g.at = version'[c.of] /\ g.at \in Nat
  BY <1>1, <1>3 DEF Answers
<1>4a. asked' = (asked \ {c}) \cup {[d EXCEPT !.got = g] : d \in {e \in {c} : e.here}}
  BY DEF Served
<1> HIDE DEF g
<1>5. /\ n \in Asked /\ n.of = c.of /\ n.kind = c.kind /\ n.section = c.section /\ n.body = c.body
      /\ n.last = c.last /\ n.unseen = c.unseen
      /\ n.got = g /\ n.here = c.here
  BY <1>1, <1>4 DEF Asked
<1>6. \A d \in asked' : (d \in asked /\ d # c) \/ (d = n /\ c.here)
  BY <1>4a
<1> HIDE DEF n
<1>7. FormShapes'
  <2>1. asked' \subseteq Asked
    BY <1>5, <1>6 DEF FormInv, FormShapes
  <2> QED BY <1>0, <1>3, <2>1 DEF FormInv, FormShapes
<1>8. EditsShown' /\ EditInv'
  <2>1. EditsShown'
    BY <1>0 DEF FormInv, EditsShown
  <2>2. ASSUME NEW d \in asked'
        PROVE  d.last <= typed /\ (d.kind = "save" => Holds(d, drafts[d.of]))
    <3>1. CASE d \in asked
      BY <3>1 DEF FormInv, EditInv
    <3>2. CASE d = n
      BY <1>5, <3>2 DEF FormInv, EditInv, Holds
    <3> QED BY <1>6, <3>1, <3>2
  <2>3. EditInv'
    BY <1>0, <2>2 DEF FormInv, EditInv
  <2> QED BY <2>1, <2>3
<1>9. OwnInv'
  <2> SUFFICES ASSUME ~crossed PROVE OwnInv'
    BY <1>0 DEF OwnInv
  <2>1. \A o \in Desks : OfDesk(o, settings'[o])
    BY <1>1, <1>3 DEF FormInv, OwnInv, OfDesk
  <2>2. \A d \in asked' : OfDesk(d.of, d.body) /\ (d.got # NotHere => OfDesk(d.of, d.got.values))
    BY <1>1, <1>4, <1>5, <1>6, <2>1 DEF FormInv, OwnInv
  <2> QED BY <1>0, <2>1, <2>2 DEF FormInv, OwnInv
<1>10. FullInv'
  <2> SUFFICES ASSUME ~early PROVE FullInv'
    BY <1>0 DEF FullInv
  <2>1. \A o \in Desks : Full(settings'[o])
    BY <1>1, <1>3 DEF FormInv, FullInv, Full
  <2>2. \A d \in asked' : /\ d.kind = "save" => \A k \in d.section : d.body[k] # Unset
                          /\ d.got # NotHere => Full(d.got.values)
    BY <1>1, <1>4, <1>5, <1>6, <2>1 DEF FormInv, FullInv
  <2> QED BY <1>0, <2>1, <2>2 DEF FormInv, FullInv
<1>11. AgeInv'
  <2>1. ~crossed' => asOf' <= version'[active']
    BY <1>0, <1>2, <1>3 DEF FormInv, AgeInv, FormShapes
  <2>2. load' # NotHere /\ load'.got # NotHere => load'.got.at <= version'[load'.of]
    BY <1>0, <1>2, <1>3, LoadTyped DEF FormInv, AgeInv
  <2>3. ASSUME NEW d \in asked', d.got # NotHere PROVE d.got.at <= version'[d.of]
    <3>1. CASE d \in asked
      BY <1>2, <1>3, <2>3, <3>1, CallTypes DEF FormInv, AgeInv
    <3>2. CASE d = n
      BY <1>1, <1>3, <1>4, <1>5, <3>2
    <3> QED BY <1>6, <3>1, <3>2
  <2>4. ~overlap' => \A d, e \in asked' : d.here /\ e.here => d = e
    BY <1>0, <1>5, <1>6 DEF FormInv, AgeInv
  <2>5. ASSUME ~overlap, hasSavedInSession, ~crossed, NEW d \in asked', d.here, d.got # NotHere,
               d.of = active
        PROVE  asOf <= d.got.at
    <3>1. CASE d \in asked
      BY <2>5, <3>1 DEF FormInv, AgeInv
    <3>2. CASE d = n
      BY <1>0, <1>4, <1>5, <2>1, <2>5, <3>2
    <3> QED BY <1>6, <3>1, <3>2
  <2> QED BY <1>0, <2>1, <2>2, <2>3, <2>4, <2>5 DEF AgeInv
<1> QED BY <1>7, <1>8, <1>9, <1>10, <1>11 DEF FormInv

(* What follows an answer that fills the form, when drafts are only left   *)
(* or dropped.                                                             *)
LEMMA FormFilledKeeps ==
    ASSUME FormInv, NEW c \in asked, NEW ds \in [Desks -> Form], AnswerComes(c),
           FillsForm(c, ds), \A o \in Desks, k \in Fields : ds[o][k] \in {drafts[o][k], Unset},
           hasLocalEdits' \in BOOLEAN, hasSavedInSession' \in BOOLEAN
    PROVE  FormInv'
<1>0. /\ c.here /\ c.got # NotHere /\ asked' = asked \ {c} /\ busyWith' = NotHere
      /\ crossed' = (crossed \/ c.of # active)
      /\ values' = c.got.values /\ filled' = TRUE /\ asOf' = c.got.at
      /\ drafts' = ds /\ typed' = typed
      /\ covered' = {k \in Fields : ds[active][k] \notin {Unset, c.got.values[k]}}
      /\ UNCHANGED <<settings, version, active, visits, load, sent, early, overlap>>
  BY DEF AnswerComes, FillsForm, server
<1>1. c.got.values \in Form /\ c.got.at \in Nat
  BY <1>0, CallTypes
<1>2. FormShapes'
  BY <1>0, <1>1 DEF FormInv, FormShapes
<1>3. OwnInv'
  BY <1>0 DEF FormInv, OwnInv
<1>4. FullInv'
  BY <1>0 DEF FormInv, FullInv
<1>5. AgeInv'
  <2>1. ~crossed' => asOf' <= version'[active']
    BY <1>0 DEF FormInv, AgeInv
  <2>2. ~overlap' => \A d \in asked' : ~d.here
    BY <1>0 DEF FormInv, AgeInv
  <2> QED BY <1>0, <2>1, <2>2 DEF FormInv, AgeInv
<1>6. EditsShown'
  BY <1>0 DEF EditsShown
<1>7. EditInv'
  <2>1. ASSUME NEW d \in asked PROVE d.last <= typed /\ (d.kind = "save" => Holds(d, ds[d.of]))
    <3>1. /\ d.of \in Desks /\ d.section \subseteq Fields /\ d.last <= typed
          /\ d.kind = "save" => Holds(d, drafts[d.of])
      BY CallTypes DEF FormInv, EditInv
    <3> QED BY <3>1 DEF Holds
  <2>2. ASSUME NEW o \in Desks, NEW k \in Fields, ds[o][k] # Unset
        PROVE  ds[o][k].of = o /\ ds[o][k].edit <= typed
    BY <2>2 DEF FormInv, EditInv
  <2> QED BY <1>0, <2>1, <2>2 DEF EditInv
<1> QED BY <1>2, <1>3, <1>4, <1>5, <1>6, <1>7 DEF FormInv

(* A save drops the drafts of its fields. *)
Dropped(c) == [drafts EXCEPT ![c.of] = Put(c.section, Blank, drafts[c.of])]
LEMMA DroppedTyped ==
    ASSUME FormInv, NEW c \in asked
    PROVE  /\ Dropped(c) \in [Desks -> Form]
           /\ \A o \in Desks, k \in Fields :
                 Dropped(c)[o][k] = IF o = c.of /\ k \in c.section THEN Unset ELSE drafts[o][k]
<1>1. drafts \in [Desks -> Form] /\ c.of \in Desks /\ c.section \in SUBSET Fields
  BY CallTypes DEF FormInv, FormShapes
<1> DEFINE p == Put(c.section, Blank, drafts[c.of])
<1>2. drafts[c.of] \in Form
  BY <1>1
<1>3. p \in Form /\ \A k \in Fields : p[k] = IF k \in c.section THEN Unset ELSE drafts[c.of][k]
  BY <1>1, <1>2, BlankTyped, PutTyped
<1> HIDE DEF p
<1>4. Dropped(c) = [drafts EXCEPT ![c.of] = p]
  BY DEF Dropped, p
<1> QED BY <1>1, <1>3, <1>4

LEMMA SaveHeardKeeps == ASSUME FormInv, NEW c \in asked, SaveHeard(c) PROVE FormInv'
<1>1. /\ AnswerComes(c) /\ hasLocalEdits' = FALSE /\ hasSavedInSession' = TRUE
      /\ FillsForm(c, Dropped(c))
  BY DEF SaveHeard, Dropped
<1>2. /\ Dropped(c) \in [Desks -> Form]
      /\ \A o \in Desks, k \in Fields : Dropped(c)[o][k] \in {drafts[o][k], Unset}
  BY DroppedTyped
<1> HIDE DEF Dropped
<1> QED BY <1>1, <1>2, FormFilledKeeps

LEMMA DisconnectHeardKeeps == ASSUME FormInv, NEW c \in asked, DisconnectHeard(c) PROVE FormInv'
<1>1. AnswerComes(c) /\ FillsForm(c, drafts) /\ UNCHANGED <<hasLocalEdits, hasSavedInSession>>
  BY DEF DisconnectHeard, marks
<1>2. /\ drafts \in [Desks -> Form]
      /\ hasLocalEdits' \in BOOLEAN /\ hasSavedInSession' \in BOOLEAN
  BY <1>1 DEF FormInv, FormShapes
<1> QED BY <1>1, <1>2, FormFilledKeeps

LEMMA TestHeardKeeps == ASSUME FormInv, NEW c \in asked, TestHeard(c) PROVE FormInv'
<1>0. /\ c.here /\ c.got # NotHere /\ asked' = asked \ {c} /\ busyWith' = NotHere
      /\ crossed' = (crossed \/ c.of # active) /\ Set(c.of, Fetched)
      /\ UNCHANGED <<settings, version, active, visits, load, sent, early, overlap,
                     hasSavedInSession, filled, asOf>>
  BY DEF AnswerComes, TestHeard, server
<1>1. FormShapes /\ c.of \in Desks /\ Fetched \in Fields
  BY CallTypes, SettingsFormAssumption DEF SettingsFormAssumption, FormInv
<1>2. /\ values' \in Form /\ drafts' \in [Desks -> Form] /\ covered' \subseteq Fields
      /\ typed' \in Nat /\ hasLocalEdits' = TRUE
      /\ \A f \in Fields : values'[f] = values[f] \/ (Of(c.of, values'[f]) /\ values'[f] # Unset)
  <2>1. SetDone(c.of, Fetched)
    BY <1>0, <1>1, SetEffect
  <2> QED BY <1>1, <2>1 DEF SetDone, Of
<1>3. FormShapes'
  BY <1>0, <1>2 DEF FormInv, FormShapes
<1>4. EditsShown' /\ EditInv'
  BY <1>0, <1>1, SetKeeps
<1>5. OwnInv'
  BY <1>0, <1>2 DEF FormInv, OwnInv, OfDesk
<1>6. FullInv'
  BY <1>0, <1>1, <1>2 DEF FormInv, FullInv, Full
<1>7. AgeInv'
  BY <1>0 DEF FormInv, AgeInv
<1> QED BY <1>3, <1>4, <1>5, <1>6, <1>7 DEF FormInv

LEMMA AskFailsKeeps == ASSUME FormInv, NEW c \in asked, AskFails(c) PROVE FormInv'
<1>0. /\ asked' = asked \ {c} /\ busyWith' = NotHere
      /\ UNCHANGED <<settings, version, active, visits, values, filled, asOf, load, drafts, typed, covered,
                     hasLocalEdits, hasSavedInSession, sent, early, crossed, overlap>>
  BY DEF AskFails, server, screen, marks, crossings, edits
<1>1. FormShapes'
  BY <1>0 DEF FormInv, FormShapes
<1>2. EditsShown' /\ EditInv'
  BY <1>0, EditsSame
<1> QED BY <1>0, <1>1, <1>2 DEF FormInv, OwnInv, OfDesk, FullInv, Full, AgeInv

LEMMA FormInvStep == FormInv /\ [FormNext]_settingsFormVars => FormInv'
<1> SUFFICES ASSUME FormInv, [FormNext]_settingsFormVars PROVE FormInv'
  OBVIOUS
<1>1. ASSUME NEW section \in Tabs, SaveTab(section) PROVE FormInv'
  <2>1. section \in SUBSET Fields
    BY SettingsFormAssumption DEF SettingsFormAssumption
  <2> QED BY <1>1, <2>1, PressKeeps DEF SaveTab
<1>2. CASE DisconnectInstagram \/ TestDestination
  BY <1>2, PressKeeps DEF DisconnectInstagram, TestDestination
<1>3. CASE LoadFails
  BY <1>3, LoadGoneKeeps DEF LoadFails
<1>4. CASE UNCHANGED settingsFormVars
  <2>1. UNCHANGED <<settings, version, active, visits, values, filled, asOf, load, drafts, typed, covered,
                    hasLocalEdits, hasSavedInSession, asked, busyWith, sent, early, crossed,
                    overlap>>
    BY <1>4 DEF settingsFormVars, server, screen, marks, asking, crossings, edits
  <2>2. FormShapes'
    BY <2>1 DEF FormInv, FormShapes
  <2>3. EditsShown' /\ EditInv'
    BY <2>1, EditsSame
  <2> QED BY <2>1, <2>2, <2>3 DEF FormInv, OwnInv, OfDesk, FullInv, Full, AgeInv
<1>5. ASSUME NEW k \in Fields, Type(k) PROVE FormInv'
  BY <1>5, TypeKeeps
<1>6. ASSUME NEW o \in Desks, ShowDesk(o) \/ SavedElsewhere(o) PROVE FormInv'
  BY <1>6, ShowDeskKeeps, SavedElsewhereKeeps
<1>7. CASE Reopen \/ LoadServed \/ LoadHeard
  BY <1>7, ReopenKeeps, LoadServedKeeps, LoadHeardKeeps
<1>8. ASSUME NEW c \in asked,
             Served(c) \/ SaveHeard(c) \/ DisconnectHeard(c) \/ TestHeard(c) \/ AskFails(c)
      PROVE  FormInv'
  BY <1>8, ServedKeeps, SaveHeardKeeps, DisconnectHeardKeeps, TestHeardKeeps, AskFailsKeeps
<1> QED BY <1>1, <1>2, <1>3, <1>4, <1>5, <1>6, <1>7, <1>8 DEF FormNext

LEMMA FormInvariant == FormSpec => []FormInv
BY FormInit1, FormInvStep, PTL DEF FormSpec

(* The form, its drafts and the calls of the page keep their types.        *)
THEOREM FormTyped == FormSpec => []FormTypeOK
<1>1. FormInv => FormTypeOK
  BY DEF FormInv, FormShapes, FormTypeOK
<1> QED BY <1>1, FormInvariant, PTL

(* The form and the settings hold what was stored or typed for their       *)
(* organisation and nothing that was emptied, and the form shows every     *)
(* draft that no answer has replaced.                                      *)
THEOREM FormSafe == FormSpec => []FormHolds
<1>1. FormInv => FormHolds
  BY DEF FormInv, FormHolds, OwnInv, OwnValues, OfDesk, FullInv, Full, NotEmptied
<1> QED BY <1>1, FormInvariant, PTL

LEMMA EditsStep == FormInv /\ [FormNext]_settingsFormVars => EditsKept
<1> DEFINE Kept(o, k) == /\ drafts'[o][k] # Unset
                         /\ drafts'[o][k].edit > drafts[o][k].edit
           SavedBy(o, k, c) ==
              /\ c.kind = "save" /\ c.of = o /\ k \in c.section /\ c.got # NotHere
              /\ c.body[k] = drafts[o][k] \/ drafts[o][k].edit > c.last \/ k \in c.unseen
<1> SUFFICES ASSUME FormInv, [FormNext]_settingsFormVars, NEW o \in Desks, NEW k \in Fields,
                    drafts[o][k] # Unset, drafts'[o][k] # drafts[o][k]
             PROVE  Kept(o, k) \/ \E c \in asked \ asked' : SavedBy(o, k, c)
  BY DEF EditsKept
<1>0. /\ FormShapes /\ drafts[o][k].edit \in Nat /\ drafts[o][k].edit <= typed /\ typed \in Nat
  BY DEF FormInv, FormShapes, EditInv, Form, Value
<1>1. ASSUME drafts' = drafts PROVE FALSE
  BY <1>1
<1>2. ASSUME NEW d \in Desks, NEW f \in Fields, Set(d, f) PROVE Kept(o, k)
  <2>1. /\ drafts'[o][k] = IF o = d /\ k = f THEN NextEdit(d) ELSE drafts[o][k]
        /\ NextEdit(d).edit = typed + 1 /\ NextEdit(d) # Unset
    <3>1. SetDone(d, f)
      BY <1>0, <1>2, SetEffect
    <3>2. drafts'[o][k] = IF o = d /\ k = f THEN NextEdit(d) ELSE drafts[o][k]
      BY <3>1 DEF SetDone
    <3> QED BY <3>1, <3>2 DEF SetDone
  <2> QED BY <1>0, <2>1
<1>3. ASSUME NEW f \in Fields, Type(f) PROVE Kept(o, k)
  BY <1>2, <1>3, <1>0 DEF Type, FormShapes
<1>4. ASSUME NEW c \in asked, TestHeard(c) PROVE Kept(o, k)
  BY <1>2, <1>4, CallTypes, SettingsFormAssumption DEF SettingsFormAssumption, TestHeard
<1>5. ASSUME NEW c \in asked, SaveHeard(c) PROVE c \in asked \ asked' /\ SavedBy(o, k, c)
  <2>1. /\ c.kind = "save" /\ c.got # NotHere /\ asked' = asked \ {c} /\ drafts' = Dropped(c)
    BY <1>5 DEF SaveHeard, AnswerComes, FillsForm, Dropped
  <2>2. c.of = o /\ k \in c.section
    BY <2>1, DroppedTyped
  <2>3. c.last \in Nat /\ Holds(c, drafts[o])
    BY <2>1, <2>2, CallTypes DEF FormInv, EditInv, Asked
  <2>4. c.body[k] = drafts[o][k] \/ drafts[o][k].edit > c.last \/ k \in c.unseen
    BY <1>0, <2>2, <2>3 DEF Holds
  <2> QED BY <2>1, <2>2, <2>4
<1>6. ASSUME NEW c \in asked, Served(c) \/ DisconnectHeard(c) \/ AskFails(c) PROVE FALSE
  BY <1>1, <1>6 DEF Served, DisconnectHeard, FillsForm, AskFails, edits
<1>7. ASSUME NEW section, NEW kind, Press(kind, section) PROVE FALSE
  BY <1>1, <1>7 DEF Press, edits
<1>8. CASE \/ \E section \in Tabs : SaveTab(section)
           \/ DisconnectInstagram \/ TestDestination
  BY <1>7, <1>8 DEF SaveTab, DisconnectInstagram, TestDestination
<1>9. CASE \/ \E d \in Desks : ShowDesk(d) \/ SavedElsewhere(d)
           \/ Reopen \/ LoadServed \/ LoadHeard \/ LoadFails
           \/ UNCHANGED settingsFormVars
  BY <1>1, <1>9
  DEF ShowDesk, SavedElsewhere, Reopen, LoadServed, LoadHeard, LoadFails, settingsFormVars, edits
<1> HIDE DEF Kept, SavedBy
<1> QED BY <1>3, <1>4, <1>5, <1>6, <1>8, <1>9 DEF FormNext

LEMMA NeverOlderStep == FormInv /\ [FormNext]_settingsFormVars => NeverOlder
<1> SUFFICES ASSUME FormInv, [FormNext]_settingsFormVars, hasSavedInSession, hasSavedInSession',
                    ~crossed', ~overlap
             PROVE  asOf' >= asOf
  BY DEF NeverOlder
<1>0. asOf \in Nat
  BY DEF FormInv, FormShapes
<1>1. ASSUME asOf' = asOf PROVE asOf' >= asOf
  BY <1>0, <1>1
<1>2. ASSUME NEW c \in asked, NEW ds, AnswerComes(c), FillsForm(c, ds) PROVE asOf' >= asOf
  <2>1. /\ c.here /\ c.got # NotHere /\ asOf' = c.got.at /\ ~crossed /\ c.of = active
    BY <1>2 DEF AnswerComes, FillsForm
  <2>2. asOf <= c.got.at /\ c.got.at \in Nat
    BY <2>1, CallTypes DEF FormInv, AgeInv
  <2> QED BY <1>0, <2>1, <2>2
<1>3. ASSUME NEW c \in asked, SaveHeard(c) \/ DisconnectHeard(c) PROVE asOf' >= asOf
  BY <1>2, <1>3 DEF SaveHeard, DisconnectHeard
<1>4. ASSUME NEW c \in asked, Served(c) \/ TestHeard(c) \/ AskFails(c) PROVE asOf' = asOf
  BY <1>4 DEF Served, TestHeard, AskFails, screen
<1>5. ASSUME NEW section, NEW kind, Press(kind, section) PROVE asOf' = asOf
  BY <1>5 DEF Press, screen
<1>6. CASE \/ \E section \in Tabs : SaveTab(section)
           \/ DisconnectInstagram \/ TestDestination
  BY <1>1, <1>5, <1>6 DEF SaveTab, DisconnectInstagram, TestDestination
<1>7. CASE \/ \E k \in Fields : Type(k)
           \/ \E o \in Desks : SavedElsewhere(o)
           \/ LoadServed \/ LoadFails \/ UNCHANGED settingsFormVars
  <2>1. asOf' = asOf
    BY <1>7 DEF Type, SavedElsewhere, LoadServed, LoadFails, screen, settingsFormVars
  <2> QED BY <1>1, <2>1
<1>8. CASE LoadHeard
  <2>1. asOf' = asOf
    BY <1>8 DEF LoadHeard, screen
  <2> QED BY <1>1, <2>1
<1>9. ASSUME Emptied PROVE FALSE
  BY <1>9 DEF Emptied
<1>10. CASE Reopen \/ \E o \in Desks : ShowDesk(o)
  BY <1>9, <1>10 DEF Reopen, ShowDesk
<1> QED BY <1>1, <1>3, <1>4, <1>6, <1>7, <1>8, <1>10 DEF FormNext

(* An edit leaves the drafts by a later one, or by the answer of a save    *)
(* that held it, was sent before it, or was sent while the form may not    *)
(* have shown it; and the form never goes back to an older state of the    *)
(* server while one call at a time is under way.                           *)
THEOREM FormStepsSafe == FormSpec => FormKept
<1>1. FormInv /\ [FormNext]_settingsFormVars => [FormStep]_settingsFormVars
  BY EditsStep, NeverOlderStep DEF FormStep
<1> QED BY <1>1, FormInvariant, PTL DEF FormSpec, FormKept
-----------------------------------------------------------------------------
(* The window of the news page                                              *)

(* What ModalTypeOK leaves out: the operations begun, by their fields.     *)
OpKinds == {"act", "translate", "publish", "refresh"}
WindowOps     == [id : 0..MaxBegun, kind : OpKinds, of : News]

(* Of the requests to publish that nobody's end has hidden, the page knows *)
(* by its key, and their window is open: so there is one at most.          *)
PublishesKnown ==
    ~wiped =>
        \A o \in ops : o.kind = "publish" =>
            /\ busyKey = OpKey("publish", o.of) /\ InWindow(o.of)
            /\ \A p \in ops : p.kind = "publish" => p = o

(* The window of an upload is open, or was left during it.                 *)
UploadsAttended == upload # NoNews => InWindow(upload) \/ slipped

ModalInv == ModalTypeOK /\ PublishesKnown /\ UploadsAttended /\ OwnImage

LEMMA OpMade ==
    ASSUME ModalTypeOK, NEW kind \in {"act", "translate", "publish"}, NEW a \in News,
           opened < MaxBegun
    PROVE  /\ [id |-> opened, kind |-> kind, of |-> a] \in WindowOps
           /\ OpKey(kind, a) \in Keys /\ opened + 1 \in 0..MaxBegun
BY NewsModalAssumption DEF NewsModalAssumption, ModalTypeOK, WindowOps, OpKinds, OpKey, Keys

LEMMA OpDone ==
    ASSUME NEW o \in WindowOps PROVE [o EXCEPT !.kind = "refresh"] \in WindowOps
BY DEF WindowOps, OpKinds

LEMMA ModalInvInit == ModalInit => ModalInv
<1> SUFFICES ASSUME ModalInit PROVE ModalInv
  OBVIOUS
<1>1. ModalTypeOK
  <2>1. 0 \in 0..MaxBegun
    BY NewsModalAssumption DEF NewsModalAssumption
  <2> QED BY <2>1 DEF ModalInit, ModalTypeOK
<1>2. PublishesKnown /\ UploadsAttended /\ OwnImage
  BY DEF ModalInit, PublishesKnown, UploadsAttended, OwnImage
<1> QED BY <1>1, <1>2 DEF ModalInv

(* An operation that begins is a request to publish of the open window, or *)
(* there is none under way that is known. *)
LEMMA BeginKeeps ==
    ASSUME ModalInv, NEW kind \in {"act", "translate", "publish"}, NEW a \in News,
           Begin(kind, a), window' \in {window, NoNews},
           window' = window \/ kind = "translate",
           kind = "publish" => InWindow(a) /\ window' = window,
           upload = NoNews \/ window' = window,
           wiped \/ \A o \in ops : o.kind # "publish"
    PROVE  ModalInv'
<1> DEFINE n == [id |-> opened, kind |-> kind, of |-> a]
<1>1. /\ ops' = ops \cup {n} /\ busyKey' = OpKey(kind, a) /\ opened' = opened + 1
      /\ opened < MaxBegun /\ UNCHANGED <<upload, wiped, slipped>>
  BY DEF Begin
<1>2. n \in WindowOps /\ OpKey(kind, a) \in Keys /\ opened + 1 \in 0..MaxBegun
  BY <1>1, OpMade DEF ModalInv
<1>3. n.kind = kind /\ n.of = a
  OBVIOUS
<1> HIDE DEF n
<1>4. ModalTypeOK'
  BY <1>1, <1>2 DEF ModalInv, ModalTypeOK, WindowOps, OpKinds
<1>5. PublishesKnown'
  BY <1>1, <1>3 DEF ModalInv, PublishesKnown, InWindow, OpKey
<1>6. UploadsAttended'
  BY <1>1 DEF ModalInv, UploadsAttended, InWindow
<1>7. OwnImage'
  BY <1>1 DEF ModalInv, OwnImage
<1> QED BY <1>4, <1>5, <1>6, <1>7 DEF ModalInv

LEMMA NonePublishing ==
    ASSUME ModalInv, window = NoNews \/ \E a \in News : InWindow(a) /\ busyKey # OpKey("publish", a)
    PROVE  wiped \/ \A o \in ops : o.kind # "publish"
BY DEF ModalInv, PublishesKnown, InWindow

LEMMA NoneLeaving ==
    ASSUME ModalInv, MayLeave
    PROVE  wiped \/ \A o \in ops : o.kind # "publish"
<1>1. \A o \in ops : o.of \in News
  BY DEF ModalInv, ModalTypeOK
<1> QED BY <1>1 DEF ModalInv, PublishesKnown, MayLeave

LEMMA EndKeeps ==
    ASSUME ModalInv, NEW o \in ops, EndOp(o), UNCHANGED <<window, slipped>>
    PROVE  ModalInv'
<1>1. ops' = ops \ {o} /\ busyKey' = NoNews /\ wiped' = (ops' # {}) /\ UNCHANGED <<upload, opened>>
  BY DEF EndOp
<1>2. ModalTypeOK'
  BY <1>1 DEF ModalInv, ModalTypeOK
<1>3. PublishesKnown'
  BY <1>1 DEF PublishesKnown
<1> QED BY <1>1, <1>2, <1>3 DEF ModalInv, UploadsAttended, OwnImage, InWindow

LEMMA DoneKeeps ==
    ASSUME ModalInv, NEW o \in ops, Done(o)
    PROVE  ModalInv'
<1> DEFINE d == [o EXCEPT !.kind = "refresh"]
<1>1. o \in WindowOps
  BY DEF ModalInv, ModalTypeOK, WindowOps, OpKinds
<1>2. d \in WindowOps /\ d.kind = "refresh"
  BY <1>1, OpDone DEF WindowOps
<1> HIDE DEF d
<1>3. /\ ops' = (ops \ {o}) \cup {d} /\ window' = IF o.kind = "publish" THEN NoNews ELSE window
      /\ slipped' = (slipped \/ (o.kind = "publish" /\ upload # NoNews))
      /\ UNCHANGED <<busyKey, upload, opened, wiped>>
  BY DEF Done, d
<1>4. ModalTypeOK'
  BY <1>2, <1>3 DEF ModalInv, ModalTypeOK, WindowOps, OpKinds
<1>5. PublishesKnown'
  <2> SUFFICES ASSUME ~wiped, NEW p \in ops', p.kind = "publish"
               PROVE  /\ busyKey = OpKey("publish", p.of) /\ InWindow(p.of)'
                      /\ \A q \in ops' : q.kind = "publish" => q = p
    BY <1>3 DEF PublishesKnown
  <2>1. p \in ops /\ p # o
    BY <1>2, <1>3
  <2>2. o.kind # "publish"
    BY <2>1 DEF ModalInv, PublishesKnown
  <2>3. window' = window
    BY <1>3, <2>2
  <2>4. /\ busyKey = OpKey("publish", p.of) /\ InWindow(p.of)
        /\ \A q \in ops : q.kind = "publish" => q = p
    BY <2>1 DEF ModalInv, PublishesKnown
  <2>5. \A q \in ops' : q.kind = "publish" => q \in ops
    BY <1>2, <1>3
  <2> QED BY <2>3, <2>4, <2>5 DEF InWindow
<1>6. UploadsAttended'
  BY <1>3 DEF ModalInv, UploadsAttended, InWindow
<1>7. OwnImage'
  BY <1>3 DEF ModalInv, OwnImage
<1> QED BY <1>4, <1>5, <1>6, <1>7 DEF ModalInv

(* The window is closed, without anything being lost that is still known.  *)
LEMMA LeavingKeeps ==
    ASSUME ModalInv, MayLeave, window' = NoNews, UNCHANGED <<busyKey, ops, upload, opened, wiped>>,
           slipped' \in BOOLEAN, slipped => slipped', upload # NoNews => slipped'
    PROVE  ModalInv'
<1>1. wiped \/ \A o \in ops : o.kind # "publish"
  BY NoneLeaving
<1> QED BY <1>1 DEF ModalInv, ModalTypeOK, PublishesKnown, UploadsAttended, OwnImage, InWindow

LEMMA ReviewKeeps == ASSUME ModalInv, NEW a \in News, Review(a) PROVE ModalInv'
<1>1. PICK image \in {"own", "none"} : window' = [of |-> a, image |-> image]
  BY DEF Review
<1>2. window = NoNews /\ UNCHANGED <<busyKey, ops, upload, opened, wiped, slipped>>
  BY DEF Review
<1>3. window' \in Windows /\ window'.image = image
  BY <1>1 DEF Windows
<1>4. wiped \/ \A o \in ops : o.kind # "publish"
  BY <1>2, NonePublishing
<1>5. ModalTypeOK'
  BY <1>2, <1>3 DEF ModalInv, ModalTypeOK
<1>6. PublishesKnown'
  BY <1>2, <1>4 DEF PublishesKnown
<1>7. UploadsAttended'
  BY <1>2 DEF ModalInv, UploadsAttended, InWindow
<1>8. OwnImage'
  BY <1>3 DEF OwnImage
<1> QED BY <1>5, <1>6, <1>7, <1>8 DEF ModalInv

LEMMA ChangeImageKeeps == ASSUME ModalInv, NEW a \in News, ChangeImage(a) PROVE ModalInv'
BY DEF ModalInv, ModalTypeOK, PublishesKnown, UploadsAttended, OwnImage, InWindow, ChangeImage

LEMMA ImageUnchangedKeeps == ASSUME ModalInv, ImageUnchanged PROVE ModalInv'
BY DEF ModalInv, ModalTypeOK, PublishesKnown, UploadsAttended, OwnImage, InWindow, ImageUnchanged

LEMMA ImageChangedKeeps ==
    ASSUME ModalInv, NEW image \in {"own", "none"}, ImageChanged(image) PROVE ModalInv'
<1>1. /\ upload # NoNews /\ upload' = NoNews
      /\ UNCHANGED <<busyKey, ops, opened, wiped, slipped>>
  BY DEF ImageChanged
<1>2. CASE window = NoNews
  <2>1. window' = NoNews
    BY <1>2 DEF ImageChanged
  <2> QED BY <1>1, <1>2, <2>1
      DEF ModalInv, ModalTypeOK, PublishesKnown, UploadsAttended, OwnImage, InWindow
<1>3. CASE window # NoNews
  <2> DEFINE new == IF InWindow(upload) THEN image ELSE "other"
  <2>1. window' = [window EXCEPT !.image = new]
    BY <1>3 DEF ImageChanged
  <2>2. window \in Windows
    BY <1>3 DEF ModalInv, ModalTypeOK
  <2>3. window' \in Windows /\ window'.of = window.of /\ window'.image = new
    BY <2>1, <2>2 DEF Windows
  <2>4. window' # NoNews
    BY <2>3, NewsModalAssumption DEF NewsModalAssumption, Windows
  <2>5. new = "other" => slipped
    BY <1>1 DEF ModalInv, UploadsAttended
  <2>6. ModalTypeOK'
    BY <1>1, <2>3 DEF ModalInv, ModalTypeOK
  <2>7. PublishesKnown'
    BY <1>1, <1>3, <2>3, <2>4 DEF ModalInv, PublishesKnown, InWindow
  <2>8. UploadsAttended' /\ OwnImage'
    BY <1>1, <2>3, <2>5 DEF UploadsAttended, OwnImage
  <2> QED BY <2>6, <2>7, <2>8 DEF ModalInv
<1> QED BY <1>2, <1>3

LEMMA ModalInvStep == ModalInv /\ [ModalNext]_newsModalVars => ModalInv'
<1> SUFFICES ASSUME ModalInv, [ModalNext]_newsModalVars PROVE ModalInv'
  OBVIOUS
<1>1. ASSUME NEW a \in News, NEW kind \in {"act", "translate"}, Act(kind, a) PROVE ModalInv'
  <2>1. window = NoNews /\ Begin(kind, a) /\ UNCHANGED window
    BY <1>1 DEF Act
  <2> QED BY <2>1, NonePublishing, BeginKeeps
<1>2. ASSUME NEW a \in News, Review(a) PROVE ModalInv'
  BY <1>2, ReviewKeeps
<1>3. ASSUME NEW a \in News, Publish(a) PROVE ModalInv'
  <2>1. /\ InWindow(a) /\ busyKey # OpKey("publish", a) /\ Begin("publish", a)
        /\ UNCHANGED window
    BY <1>3 DEF Publish
  <2> QED BY <2>1, NonePublishing, BeginKeeps
<1>4. ASSUME NEW a \in News, Retranslate(a) PROVE ModalInv'
  <2>1. /\ InWindow(a) /\ upload = NoNews /\ busyKey # OpKey("publish", a)
        /\ Begin("translate", a) /\ window' = NoNews
    BY <1>4 DEF Retranslate
  <2> QED BY <2>1, NonePublishing, BeginKeeps
<1>5. ASSUME NEW a \in News, ChangeImage(a) PROVE ModalInv'
  BY <1>5, ChangeImageKeeps
<1>6. CASE Shut
  <2>1. /\ MayLeave /\ upload = NoNews /\ window' = NoNews
        /\ UNCHANGED <<busyKey, ops, upload, opened, wiped, slipped>>
    BY <1>6 DEF Shut
  <2>2. slipped' \in BOOLEAN
    BY <2>1 DEF ModalInv, ModalTypeOK
  <2> QED BY <2>1, <2>2, LeavingKeeps
<1>7. CASE Escape
  <2>1. /\ MayLeave /\ window' = NoNews /\ UNCHANGED <<busyKey, ops, upload, opened, wiped>>
        /\ slipped' = (slipped \/ upload # NoNews)
    BY <1>7 DEF Escape
  <2> QED BY <2>1, LeavingKeeps
<1>8. ASSUME NEW image \in {"own", "none"}, ImageChanged(image) PROVE ModalInv'
  BY <1>8, ImageChangedKeeps
<1>9. CASE ImageUnchanged
  BY <1>9, ImageUnchangedKeeps
<1>10. ASSUME NEW o \in ops, Done(o) PROVE ModalInv'
  BY <1>10, DoneKeeps
<1>11. ASSUME NEW o \in ops, Refreshed(o) \/ OpFails(o) PROVE ModalInv'
  BY <1>11, EndKeeps DEF Refreshed, OpFails
<1>12. CASE UNCHANGED newsModalVars
  BY <1>12 DEF newsModalVars, ModalInv, ModalTypeOK, PublishesKnown, UploadsAttended, OwnImage,
               InWindow
<1> QED BY <1>1, <1>2, <1>3, <1>4, <1>5, <1>6, <1>7, <1>8, <1>9, <1>10, <1>11, <1>12 DEF ModalNext

LEMMA ModalInvariant == ModalSpec => []ModalInv
BY ModalInvInit, ModalInvStep, PTL DEF ModalSpec

(* The window, the key and the operations keep their types. *)
THEOREM ModalTyped == ModalSpec => []ModalTypeOK
<1>1. ModalInv => ModalTypeOK
  BY DEF ModalInv
<1> QED BY <1>1, ModalInvariant, PTL

(* The window holds no other article's image, and nothing is published     *)
(* twice, but for the ways that ModalHolds lists.                          *)
THEOREM ModalSafe == ModalSpec => []ModalHolds
<1>1. ModalInv => ModalHolds
  BY DEF ModalInv, PublishesKnown, ModalHolds, SentOnce
<1> QED BY <1>1, ModalInvariant, PTL

LEMMA WindowStep == ModalInv /\ [ModalNext]_newsModalVars => OwnWindow
<1> SUFFICES ASSUME ModalInv, [ModalNext]_newsModalVars, NEW o \in ops \ ops', ~wiped,
                    window' = NoNews, window # NoNews
             PROVE  o.kind = "publish" /\ InWindow(o.of)
  BY DEF OwnWindow
<1>1. ~(ops \subseteq ops')
  OBVIOUS
<1>2. ASSUME NEW p \in ops, Done(p) PROVE o.kind = "publish" /\ InWindow(o.of)
  <2>1. o = p /\ p.kind = "publish"
    BY <1>2 DEF Done
  <2> QED BY <2>1 DEF ModalInv, PublishesKnown
<1>3. ASSUME NEW p \in ops, Refreshed(p) \/ OpFails(p) PROVE FALSE
  BY <1>3 DEF Refreshed, OpFails
<1>4. ASSUME NEW a \in News,
             \/ \E kind \in {"act", "translate"} : Act(kind, a)
             \/ Review(a) \/ Publish(a) \/ Retranslate(a) \/ ChangeImage(a)
      PROVE  FALSE
  BY <1>1, <1>4 DEF Act, Review, Publish, Retranslate, ChangeImage, Begin
<1>5. CASE Shut \/ Escape \/ ImageUnchanged \/ \E image \in {"own", "none"} : ImageChanged(image)
  BY <1>1, <1>5 DEF Shut, Escape, ImageUnchanged, ImageChanged
<1>6. CASE UNCHANGED newsModalVars
  BY <1>6 DEF newsModalVars
<1> QED BY <1>2, <1>3, <1>4, <1>5, <1>6 DEF ModalNext

(* No answer closes a window but that of the article it published. *)
THEOREM ModalOwnWindow == ModalSpec => ModalKept
BY ModalInvariant, WindowStep, PTL DEF ModalSpec, ModalKept
-----------------------------------------------------------------------------
(* The call                                                                 *)

(* A step of the proxy or of the API. *)
AwayStep == \/ \E r \in Plain : Answered(r)
        \/ \E n \in 0 .. 1 : Failed(n) \/ Late(n)

(* A step of the browser. *)
HereStep == \/ Ask \/ Lost \/ Unreachable \/ Renewing \/ Renewed \/ NotRenewed \/ Tell \/ Forget
        \/ \E n \in 0 .. 1 : Abort(n)

LEMMA CallSteps == CallNext => AwayStep \/ HereStep
BY DEF CallNext, AwayStep, HereStep

LEMMA CallBounds == 1 \in 1 .. Attempts /\ Attempts \in Nat /\ MaxRuns \in Nat
BY ApiCallAssumption DEF ApiCallAssumption

LEMMA FirstTyped ==
    /\ FirstTry \in [browser : 1 .. Attempts, proxy : 1 .. Attempts]
    /\ 0 \in 0 .. MaxRuns
BY CallBounds DEF FirstTry

LEMMA CallTypeInit == CallInit => CallTypeOK
<1> SUFFICES ASSUME CallInit PROVE CallTypeOK
  OBVIOUS
<1>1. tries = FirstTry
  BY DEF CallInit, FirstTry
<1> QED BY <1>1, FirstTyped DEF CallInit, CallTypeOK, Replies, Plain, Told

LEMMA CallTypeAway == CallTypeOK /\ AwayStep => CallTypeOK'
<1> SUFFICES ASSUME CallTypeOK, AwayStep PROVE CallTypeOK'
  OBVIOUS
<1> USE CallBounds DEF CallTypeOK, Replies, Plain, Told
<1>1. ASSUME NEW r \in Plain, Answered(r) PROVE CallTypeOK'
  BY <1>1 DEF Answered, Runs
<1>2. ASSUME NEW n \in 0 .. 1, Failed(n) PROVE CallTypeOK'
  <2>1. UNCHANGED <<renewed, told>> /\ faults' = faults + 1 /\ ran' = ran + n /\ ran' <= MaxRuns
    BY <1>2 DEF Failed, Runs
  <2>2. CASE tries.proxy < Attempts /\ tries' = [tries EXCEPT !.proxy = @ + 1]
             /\ UNCHANGED <<stage, reply>>
    BY <2>1, <2>2
  <2>3. CASE reply' = "gateway" /\ stage' = "back" /\ UNCHANGED tries
    BY <2>1, <2>3
  <2> QED BY <1>2, <2>2, <2>3 DEF Failed
<1>3. ASSUME NEW n \in 0 .. 1, Late(n) PROVE CallTypeOK'
  BY <1>3 DEF Late, Runs
<1> QED BY <1>1, <1>2, <1>3 DEF AwayStep

LEMMA CallTypeAgain ==
    ASSUME CallTypeOK, NEW outcome \in {"unreachable", "late"}, AgainOr(outcome)
    PROVE  /\ tries' \in [browser : 1 .. Attempts, proxy : 1 .. Attempts]
           /\ stage' \in {"proxy", "told"} /\ told' \in Told
BY CallBounds DEF CallTypeOK, AgainOr, Told, Replies, Plain

LEMMA CallTypeHere == CallTypeOK /\ HereStep => CallTypeOK'
<1> SUFFICES ASSUME CallTypeOK, HereStep PROVE CallTypeOK'
  OBVIOUS
<1> USE CallBounds DEF CallTypeOK, Replies, Plain, Told
<1>1. CASE Ask
  BY <1>1, FirstTyped DEF Ask
<1>2. CASE Lost
  <2>1. AgainOr("unreachable") /\ faults' = faults + 1 /\ UNCHANGED <<reply, renewed, ran>>
    BY <1>2 DEF Lost
  <2> QED BY <2>1, CallTypeAgain
<1>3. CASE Unreachable
  <2>1. PICK outcome \in {"unreachable", "late"} : AgainOr(outcome)
    BY <1>3 DEF Unreachable
  <2>2. UNCHANGED <<reply, renewed, ran, faults>>
    BY <1>3 DEF Unreachable
  <2> QED BY <2>1, <2>2, CallTypeAgain
<1>4. CASE Renewing
  BY <1>4 DEF Renewing
<1>5. CASE Renewed
  BY <1>5, FirstTyped DEF Renewed
<1>6. CASE NotRenewed
  BY <1>6 DEF NotRenewed
<1>7. CASE Tell
  BY <1>7 DEF Tell
<1>8. CASE Forget
  BY <1>8 DEF Forget
<1>9. ASSUME NEW n \in 0 .. 1, Abort(n) PROVE CallTypeOK'
  BY <1>9 DEF Abort, Runs
<1> QED BY <1>1, <1>2, <1>3, <1>4, <1>5, <1>6, <1>7, <1>8, <1>9 DEF HereStep

LEMMA CallTypeStep == CallTypeOK /\ [CallNext]_callVars => CallTypeOK'
<1>1. CallTypeOK /\ UNCHANGED callVars => CallTypeOK'
  BY DEF CallTypeOK, callVars
<1> QED BY <1>1, CallSteps, CallTypeAway, CallTypeHere

(* The stages of a call keep to theirs, and neither the browser nor the    *)
(* proxy makes more attempts than API_BACKEND_RETRY_ATTEMPTS.              *)
THEOREM CallTyped == CallSpec => []CallTypeOK
BY CallTypeInit, CallTypeStep, PTL DEF CallSpec
-----------------------------------------------------------------------------
(* While the API may still do what the call asks for, every time it has    *)
(* done so is paid for by a fault; the one that is not is that of the      *)
(* answer on its way back.                                                 *)
Paid ==
    /\ ran <= 1 + faults
    /\ stage \in {"proxy", "renewing"} => ran <= faults
    /\ stage = "back" => IF reply = "done" THEN ran > 0 ELSE ran <= faults
    /\ stage \in {"proxy", "renewing", "back"} => told = "none"
    /\ told = "done" => ran > 0
    /\ told \in {"refused", "unauthorized"} => ran <= faults

LEMMA PaidInit == CallInit => Paid
BY DEF CallInit, Paid

LEMMA PaidAway == CallTypeOK /\ Paid /\ AwayStep => Paid'
<1> SUFFICES ASSUME CallTypeOK, Paid, AwayStep PROVE Paid'
  OBVIOUS
<1> USE DEF CallTypeOK, Paid
<1>1. ASSUME NEW r \in Plain, Answered(r) PROVE Paid'
  BY <1>1 DEF Answered, Runs, Plain
<1>2. ASSUME NEW n \in 0 .. 1, Failed(n) PROVE Paid'
  <2>1. /\ ran' = ran + n /\ faults' = faults + 1 /\ stage = "proxy" /\ told' = told
        /\ stage' = "proxy" \/ (stage' = "back" /\ reply' = "gateway")
    BY <1>2 DEF Failed, Runs
  <2> QED BY <2>1
<1>3. ASSUME NEW n \in 0 .. 1, Late(n) PROVE Paid'
  BY <1>3 DEF Late, Runs
<1> QED BY <1>1, <1>2, <1>3 DEF AwayStep

LEMMA PaidHere == CallTypeOK /\ Paid /\ HereStep => Paid'
<1> SUFFICES ASSUME CallTypeOK, Paid, HereStep PROVE Paid'
  OBVIOUS
<1> USE DEF CallTypeOK, Paid
<1>1. CASE Ask
  BY <1>1 DEF Ask
<1>2. CASE Lost
  BY <1>2 DEF Lost, AgainOr
<1>3. CASE Unreachable
  BY <1>3 DEF Unreachable, AgainOr
<1>4. CASE Renewing
  BY <1>4 DEF Renewing
<1>5. CASE Renewed
  BY <1>5 DEF Renewed
<1>6. CASE NotRenewed
  BY <1>6 DEF NotRenewed
<1>7. CASE Tell
  BY <1>7 DEF Tell, Plain
<1>8. CASE Forget
  BY <1>8 DEF Forget
<1>9. ASSUME NEW n \in 0 .. 1, Abort(n) PROVE Paid'
  BY <1>9 DEF Abort, Runs
<1> QED BY <1>1, <1>2, <1>3, <1>4, <1>5, <1>6, <1>7, <1>8, <1>9 DEF HereStep

LEMMA PaidStep == CallTypeOK /\ Paid /\ [CallNext]_callVars => Paid'
<1>1. Paid /\ UNCHANGED callVars => Paid'
  BY DEF Paid, callVars
<1> QED BY <1>1, CallSteps, PaidAway, PaidHere

LEMMA PaidIsEnough == CallTypeOK /\ Paid => RepeatsArePaid
BY DEF CallTypeOK, Paid, RepeatsArePaid

(* However many attempts browser and proxy make, each time the API does    *)
(* again what a call asks for is paid for by a fault, and without a fault  *)
(* the person is told what was done (utils.ts, api-proxy-handler.ts).      *)
THEOREM RepeatsPaid == CallSpec => []RepeatsArePaid
<1>1. CallSpec => []Paid
  BY PaidInit, PaidStep, CallTyped, PTL DEF CallSpec
<1> QED BY <1>1, CallTyped, PaidIsEnough, PTL
-----------------------------------------------------------------------------
(* What a member may do                                                     *)

LEMMA AccessKeys ==
    /\ Publishing \subseteq Menu /\ {"dashboard", "organization", "news", "settings"} \subseteq Menu
    /\ Ticks \subseteq Menu /\ OldRows \subseteq SUBSET (Menu \cup Legacy)
BY AccessAssumption DEF AccessAssumption, Menu, Publishing

LEMMA OlderKeys == Menu \cap Legacy = {}
BY DEF Menu, Publishing, Legacy

LEMMA MemberRowTyped ==
    ASSUME NEW role \in Roles, NEW P \in SUBSET (Menu \cup Legacy),
           NEW S \in SUBSET (Services \cup {All})
    PROVE  [role |-> role, permissions |-> P, services |-> S] \in Row
BY DEF Row

LEMMA DialogTyped ==
    ASSUME NEW mode \in {"closed", "add", "edit"}, NEW P \in SUBSET Menu,
           NEW S \in SUBSET (Services \cup {All})
    PROVE  [mode |-> mode, permissions |-> P, services |-> S] \in Dialog
BY DEF Dialog

LEMMA NoRowTyped == NoRow \in Row /\ Closed \in Dialog
<1>1. NoRow = [role |-> "none", permissions |-> {}, services |-> {}] /\ "none" \in Roles
  BY DEF NoRow, Roles
<1>2. Closed = [mode |-> "closed", permissions |-> {}, services |-> {}]
  BY DEF Closed
<1> QED BY <1>1, <1>2, MemberRowTyped, DialogTyped

(* What is stored of the ticks are services, or all of them, and only what *)
(* was ticked.                                                             *)
LEMMA StoredTicked ==
    ASSUME NEW P, NEW S \in SUBSET (Services \cup {All})
    PROVE  /\ Stored(P, S) \subseteq Services \cup {All}
           /\ All \in S \/ S = {} \/ Stored(P, S) \subseteq S
BY AccessAssumption DEF AccessAssumption, Stored, Normalized, Existing
-----------------------------------------------------------------------------
LEMMA AccessTypeInit == AccessInit => AccessTypeOK
<1> SUFFICES ASSUME AccessInit PROVE AccessTypeOK
  OBVIOUS
<1>1. member \in Row
  <2>1. CASE member = NoRow
    BY <2>1, NoRowTyped
  <2>2. ASSUME NEW P \in OldRows, member = [role |-> "member", permissions |-> P, services |-> {}]
        PROVE  member \in Row
    <3>1. P \in SUBSET (Menu \cup Legacy) /\ "member" \in Roles
      BY AccessKeys DEF Roles
    <3> QED BY <2>2, <3>1, MemberRowTyped
  <2> QED BY <2>1, <2>2 DEF AccessInit
<1>2. dialog \in Dialog
  BY NoRowTyped DEF AccessInit
<1>3. ticked.permissions = {} /\ ticked.services = {}
  BY DEF AccessInit, NoTicks
<1> QED BY <1>1, <1>2, <1>3 DEF AccessInit, AccessTypeOK

LEMMA AccessTypeStep == AccessTypeOK /\ [AccessNext]_accessVars => AccessTypeOK'
<1> SUFFICES ASSUME AccessTypeOK, [AccessNext]_accessVars PROVE AccessTypeOK'
  OBVIOUS
<1>0. /\ member \in Row /\ dialog \in Dialog
      /\ category \in [Services -> {"pending", "approved", "rejected", "gone"}]
      /\ ticked.permissions \subseteq Menu /\ ticked.services \subseteq Services \cup {All}
  BY DEF AccessTypeOK
<1>1. CASE OpenAdd
  <2>1. dialog' \in Dialog
    BY <1>1, AccessKeys, DialogTyped DEF OpenAdd
  <2> QED BY <1>0, <1>1, <2>1 DEF OpenAdd, AccessTypeOK
<1>2. CASE OpenEdit
  <2>1. Picker(member.permissions) \in SUBSET Menu
        /\ member.services \in SUBSET (Services \cup {All})
    BY <1>0 DEF Picker, Row
  <2>2. dialog' \in Dialog
    BY <1>2, <2>1, DialogTyped DEF OpenEdit
  <2> QED BY <1>0, <1>2, <2>2 DEF OpenEdit, AccessTypeOK
<1>3. CASE Close
  BY <1>0, <1>3, NoRowTyped DEF Close, AccessTypeOK
<1>4. CASE ToggleAll
  <2>1. dialog' \in Dialog
    BY <1>0, <1>4 DEF ToggleAll, Dialog
  <2> QED BY <1>0, <1>4, <2>1 DEF ToggleAll, AccessTypeOK
<1>5. ASSUME NEW key \in Ticks, Toggle(key) PROVE AccessTypeOK'
  <2>1. key \in Menu
    BY AccessKeys
  <2>2. dialog' \in Dialog
    BY <1>0, <1>5, <2>1 DEF Toggle, Dialog
  <2> QED BY <1>0, <1>5, <2>2 DEF Toggle, AccessTypeOK
<1>6. ASSUME NEW s \in Services, ToggleService(s) PROVE AccessTypeOK'
  <2>1. dialog' \in Dialog
    BY <1>0, <1>6 DEF ToggleService, Dialog
  <2> QED BY <1>0, <1>6, <2>1 DEF ToggleService, AccessTypeOK
<1>7. CASE Submit
  <2> DEFINE role == IF dialog.mode = "add" THEN "member" ELSE member.role
  <2>1. role \in Roles
    BY <1>0 DEF Row, Roles
  <2>2. /\ Picker(dialog.permissions) \in SUBSET (Menu \cup Legacy)
        /\ dialog.permissions \subseteq Menu /\ dialog.services \in SUBSET (Services \cup {All})
    BY <1>0 DEF Picker, Dialog
  <2>3. Stored(dialog.permissions, dialog.services) \in SUBSET (Services \cup {All})
    BY <2>2, StoredTicked
  <2>4. member' = [role |-> role, permissions |-> Picker(dialog.permissions),
                   services |-> Stored(dialog.permissions, dialog.services)]
    BY <1>7 DEF Submit
  <2>5. member' \in Row
    BY <2>1, <2>2, <2>3, <2>4, MemberRowTyped
  <2>6. dialog' \in Dialog
    BY <1>7, NoRowTyped DEF Submit
  <2>7. ticked'.permissions = dialog.permissions /\ ticked'.services = dialog.services
    BY <1>7 DEF Submit
  <2> QED BY <1>0, <1>7, <2>2, <2>5, <2>6, <2>7 DEF Submit, AccessTypeOK
<1>8. CASE Remove
  <2>1. ticked'.permissions = {} /\ ticked'.services = {}
    BY <1>8 DEF Remove, NoTicks
  <2> QED BY <1>0, <1>8, <2>1, NoRowTyped DEF Remove, AccessTypeOK
<1>9. ASSUME NEW role \in Roles, Accept(role) PROVE AccessTypeOK'
  <2>1. member' = [role |-> role, permissions |-> {}, services |-> {}]
    BY <1>9 DEF Accept, NoRow
  <2>2. member' \in Row
    BY <2>1, MemberRowTyped
  <2>3. ticked'.permissions = {} /\ ticked'.services = {}
    BY <1>9 DEF Accept, NoTicks
  <2> QED BY <1>0, <1>9, <2>2, <2>3 DEF Accept, AccessTypeOK
<1>10. ASSUME NEW role \in Roles, Transfer(role) PROVE AccessTypeOK'
  <2>1. member' \in Row
    BY <1>0, <1>10 DEF Transfer, Row
  <2> QED BY <1>0, <1>10, <2>1 DEF Transfer, AccessTypeOK
<1>11. ASSUME NEW s \in Services, NEW status \in {"pending", "approved", "rejected", "gone"},
              SetCategory(s, status)
       PROVE  AccessTypeOK'
  BY <1>0, <1>11 DEF SetCategory, AccessTypeOK
<1>12. CASE UNCHANGED accessVars
  BY <1>0, <1>12 DEF accessVars, AccessTypeOK
<1> QED BY <1>1, <1>2, <1>3, <1>4, <1>5, <1>6, <1>7, <1>8, <1>9, <1>10, <1>11, <1>12 DEF AccessNext

(* The row, the dialog and the services keep their types, whatever rows    *)
(* were there before.                                                      *)
THEOREM AccessTyped == AccessSpec => []AccessTypeOK
BY AccessTypeInit, AccessTypeStep, PTL DEF AccessSpec
-----------------------------------------------------------------------------
(* Between two saves of the owner the row holds what was ticked: nothing   *)
(* else writes permissions or services, and the keys that are written are  *)
(* those of the menu, which no translation adds to.                        *)
Written ==
    ticked # NoTicks =>
        /\ member.permissions = ticked.permissions
        /\ ticked.permissions # {} /\ ticked.permissions \subseteq Menu
        /\ "news" \in ticked.permissions =>
              /\ member.services # {}
              /\ All \in ticked.services \/ member.services \subseteq ticked.services

LEMMA MenuExpands == ASSUME NEW P \in SUBSET Menu PROVE Expand(P) = P
<1>1. "view" \notin P /\ "manage" \notin P /\ "publish" \notin P /\ "members" \notin P
  BY OlderKeys DEF Legacy
<1> QED BY <1>1 DEF Expand

LEMMA SubmitWrites == ASSUME AccessTypeOK, Submit PROVE Written'
<1> DEFINE P == dialog.permissions
           S == dialog.services
<1>1. P \in SUBSET Menu /\ S \in SUBSET (Services \cup {All})
  BY DEF AccessTypeOK, Dialog
<1>2. /\ member'.permissions = Picker(P) /\ member'.services = Stored(P, S)
      /\ ticked'.permissions = P /\ ticked'.services = S
      /\ P # {} /\ ("news" \in P => S # {}) /\ Acceptable(P, S)
  BY DEF Submit
<1>3. Picker(P) = P
  BY <1>1, MenuExpands DEF Picker
<1>4. ASSUME "news" \in P PROVE Stored(P, S) # {}
  <2>1. Expand(P) = P
    BY <1>1, MenuExpands
  <2>2. Normalized(P, S) # {}
    BY <1>2, <1>4, <2>1 DEF Normalized
  <2> QED BY <1>2, <2>2 DEF Acceptable
<1>5. All \in S \/ S = {} \/ Stored(P, S) \subseteq S
  BY <1>1, StoredTicked
<1> QED BY <1>1, <1>2, <1>3, <1>4, <1>5 DEF Written

LEMMA WrittenStep == AccessTypeOK /\ Written /\ [AccessNext]_accessVars => Written'
<1> SUFFICES ASSUME AccessTypeOK, Written, [AccessNext]_accessVars PROVE Written'
  OBVIOUS
<1>1. ASSUME UNCHANGED <<member, ticked>> PROVE Written'
  BY <1>1 DEF Written
<1>2. CASE Submit
  BY <1>2, SubmitWrites
<1>3. ASSUME ticked' = NoTicks PROVE Written'
  BY <1>3 DEF Written
<1>4. ASSUME NEW role \in Roles, Transfer(role) PROVE Written'
  <2>1. UNCHANGED ticked /\ member'.permissions = member.permissions
                         /\ member'.services = member.services
    BY <1>4 DEF Transfer, AccessTypeOK, Row
  <2> QED BY <2>1 DEF Written
<1>5. CASE OpenAdd \/ OpenEdit \/ Close \/ ToggleAll \/ (\E key \in Ticks : Toggle(key))
           \/ (\E s \in Services : ToggleService(s))
           \/ (\E s \in Services, status \in {"pending", "approved", "rejected", "gone"} :
                  SetCategory(s, status))
  BY <1>1, <1>5 DEF OpenAdd, OpenEdit, Close, ToggleAll, Toggle, ToggleService, SetCategory
<1>6. CASE Remove
  BY <1>3, <1>6 DEF Remove
<1>7. ASSUME NEW role \in Roles, Accept(role) PROVE Written'
  BY <1>3, <1>7 DEF Accept
<1>8. CASE UNCHANGED accessVars
  BY <1>1, <1>8 DEF accessVars
<1> QED BY <1>2, <1>4, <1>5, <1>6, <1>7, <1>8 DEF AccessNext

LEMMA WrittenAlways == AccessSpec => []Written
<1>1. AccessInit => Written
  BY DEF AccessInit, Written
<1> QED BY <1>1, WrittenStep, AccessTyped, PTL DEF AccessSpec
-----------------------------------------------------------------------------
LEMMA TickedGiven == Written /\ member.role # "none" => TickedIsGiven
<1> SUFFICES ASSUME Written, member.role # "none", ticked # NoTicks, ~Owner, NEW key \in Menu
             PROVE  (Allows(key) <=> key \in ticked.permissions) /\ (Shown(key) <=> Allows(key))
  BY DEF TickedIsGiven
<1> DEFINE P == ticked.permissions
<1>1. member.permissions = P /\ P # {} /\ P \in SUBSET Menu
  BY DEF Written
<1>2. Expand(P) = P
  BY <1>1, MenuExpands
<1>3. Permissions = P
  BY <1>1, <1>2 DEF Permissions
<1>4. key # "view"
  BY OlderKeys DEF Legacy
<1>5. Has(P, key) <=> key \in P
  BY <1>2, <1>4 DEF Has
<1>6. Allows(key) <=> key \in P
  BY <1>3, <1>5 DEF Allows
<1>7. Shown(key) <=> key \in P
  BY <1>1, <1>5 DEF Shown
<1> QED BY <1>6, <1>7

LEMMA NeverWider == Written => NeverWiderThanTicked
<1> SUFFICES ASSUME Written PROVE NeverWiderThanTicked
  OBVIOUS
<1>1. ASSUME ticked # NoTicks, ~Owner, All \notin ticked.services
      PROVE  Seen \subseteq ticked.services
  <2> DEFINE P == ticked.permissions
  <2>1. Permissions = P /\ Expand(P) = P
    BY <1>1, MenuExpands DEF Written, Permissions
  <2>2. CASE "news" \notin P
    BY <1>1, <2>1, <2>2 DEF Seen
  <2>3. CASE "news" \in P
    <3>1. member.services # {} /\ member.services \subseteq ticked.services
      BY <1>1, <2>3 DEF Written
    <3>2. Seen = member.services
      BY <1>1, <2>1, <2>3, <3>1 DEF Seen, Normalized
    <3> QED BY <3>1, <3>2
  <2> QED BY <2>2, <2>3
<1>2. ASSUME NEW s \in Services \cup {"general", "none"} PROVE Listed(s) = MayActOn(s)
  BY DEF Listed, MayActOn
<1> QED BY <1>1, <1>2 DEF NeverWiderThanTicked

LEMMA SettingsNamed == member.role # "none" => SettingsExplicit
<1> SUFFICES ASSUME member.role # "none", Allows("settings"), ~Owner
             PROVE  \/ "settings" \in member.permissions
                    \/ member.permissions = {} /\ "settings" \in Defaults(member.role)
  BY DEF SettingsExplicit
<1>1. "settings" \in Permissions
  BY DEF Allows
<1>2. ASSUME NEW P, "settings" \in Expand(P) PROVE "settings" \in P
  BY <1>2 DEF Expand
<1> QED BY <1>1, <1>2 DEF Permissions

(* After the owner has saved, the guards of the API and the menu give a    *)
(* member the sections that were ticked and no other, the newsroom never   *)
(* more than the services that were ticked, and the settings only to whom  *)
(* they were given by name: whatever rows older releases have left, and    *)
(* whatever becomes of services, invitations and the ownership.            *)
THEOREM AccessKept == AccessSpec => []AccessHolds
<1>1. Written => AccessHolds
  BY TickedGiven, NeverWider, SettingsNamed DEF AccessHolds
<1> QED BY <1>1, WrittenAlways, PTL
-----------------------------------------------------------------------------
(* All of them together                                                    *)

(* In the run of all parts, the one that is explored takes the steps of    *)
(* its specification, and the others none.                                 *)
LEMMA OperationStep ==
    [OperationNext]_<<part, browser, call, access, sources, setting, modal>>
    => /\ [BrowserNext]_browserVars /\ [CallNext]_callVars /\ [AccessNext]_accessVars
       /\ [SourcesNext]_sourcesVars /\ [FormNext]_settingsFormVars /\ [ModalNext]_newsModalVars
       /\ UNCHANGED part
BY DEF OperationNext, browser, call, access, sources, setting, modal

LEMMA OperationStarts ==
    OperationInit => /\ BrowserInit /\ CallInit /\ AccessInit /\ SourcesInit /\ FormInit
                     /\ ModalInit /\ part \in Parts
BY DEF OperationInit

(* The run of all parts shows what each specification says.                *)
THEOREM OperationImplements ==
    OperationSpec => /\ BrowserSpec /\ CallSpec /\ AccessSpec /\ SourcesSpec /\ FormSpec
                     /\ ModalSpec
BY OperationStep, OperationStarts, PTL
   DEF OperationSpec, BrowserSpec, CallSpec, AccessSpec, SourcesSpec, FormSpec, ModalSpec

(* The types of the part that runs.                                        *)
THEOREM OperationTyped == OperationSpec => []OperationTypeOK
<1>1. (part \in Parts) /\ [OperationNext]_<<part, browser, call, access, sources, setting, modal>>
      => (part \in Parts)'
  BY OperationStep
<1>2. OperationSpec => [](part \in Parts)
  BY <1>1, OperationStarts, PTL DEF OperationSpec
<1>3. /\ part \in Parts
      /\ BrowserTypeOK /\ CallTypeOK /\ AccessTypeOK /\ SourcesTypeOK /\ FormTypeOK /\ ModalTypeOK
      => OperationTypeOK
  BY DEF Parts, OperationTypeOK
<1> QED
  BY <1>2, <1>3, OperationImplements, BrowserTyped, CallTyped, AccessTyped, SourcesTyped,
     FormTyped, ModalTyped, PTL

(* What a page shows, holds and sends is its organisation's and its        *)
(* person's own, whatever arrives late, and nothing is asked for twice.    *)
THEOREM OperationPages == OperationSpec => []PagesHold
<1>1. BrowserHolds /\ FormHolds /\ ModalHolds => PagesHold
  BY DEF PagesHold
<1> QED BY <1>1, OperationImplements, BrowserSafe, FormSafe, ModalSafe, PTL

(* No answer takes back what was typed, or what a later one has shown, and *)
(* none changes another article's window.                                  *)
THEOREM OperationKept == OperationSpec => PagesKept
<1>1. /\ [OperationNext]_<<part, browser, call, access, sources, setting, modal>>
      /\ [FormStep]_settingsFormVars /\ [OwnWindow]_newsModalVars
      => [/\ part = "setting" => FormStep
          /\ part = "modal" => OwnWindow]_<<part, setting, modal>>
  BY DEF OperationNext, browser, call, access, sources, setting, modal, settingsFormVars,
         newsModalVars, server, screen, marks, asking, crossings
<1> QED
  BY <1>1, OperationImplements, FormStepsSafe, ModalOwnWindow, PTL
     DEF PagesKept, OperationSpec, FormKept, ModalKept

(* What the run checks of the other parts: the types and what a member may *)
(* do, what a call that is sent again costs, and where the sources end.    *)
THEOREM OperationSafe ==
    OperationSpec => []RepeatsArePaid /\ []OperationInv /\ []SourcesHold
<1>1. OperationTypeOK /\ AccessHolds => OperationInv
  BY DEF OperationInv
<1> QED BY <1>1, OperationImplements, OperationTyped, RepeatsPaid, AccessKept, SourcesSafe, PTL

=============================================================================
