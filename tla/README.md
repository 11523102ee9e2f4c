# Deska News in TLA+

Deska News prepares, translates and publishes news for organisations (tenants).
A NestJS API (`src/apps/api`), optionally several replicas and dedicated
workers, shares one Postgres database, an optional Redis and an optional object
store; a Next.js front end (`src/apps/web`) calls it. Nearly all coordination
between replicas goes through single rows of the database and conditional
updates on them, and nearly all coordination of the front end through answers
that arrive late. That is what this project models: which steps of which callers
may interleave, what a caller still knows of something it has read, and what a
process that stops, or a statement that fails, leaves behind.

Contents: 1 the system, 2 the modules, 3 the plan, 4 what is checked, 5 what is
proved, 6 what is not modelled.

## 1. The system

### Components

Services are under `src/apps/api/src/modules` (the publishing ones in
`smart-publishing`) and `src/apps/api/src/common/services`.

| component | state | operations | hard behaviour |
|---|---|---|---|
| `AutomationJobService`, driven by `PublishingAutomationProcessor` | table `AutomationJob` | `enqueue`, `retry`, `retryAllDead`, `cancel`, `claim`, `claimById`, `complete`, `fail`, `recoverStale`, `prune` | claims of several replicas, late workers, crashes between any two statements, a unique key that is cleared |
| `BillingService` | `TenantWallet`, `WalletLedger`, `PaymentIntent`, prices | `credit`, monthly grant, `confirmPayment`, `reserve`, `commit`, `release` | concurrent reservations, prices and months that change, webhooks that come twice, failing transactions |
| queue and wallet together | both | `attachReservation`, `commit` after `complete`, `release` after `fail`, cancel and recovery | row and ledger change in different transactions |
| `SocialNetworkPublisherService` | `SocialArticle.*SentAt`, delivery leases | `publish` (by hand), `publishAutomatically` | two senders, answers lost after delivery, crash after delivery |
| `SchedulerLeaseService`, `SchedulerRuntimeService` | the row `global-interval`, flags in each process | `tryAcquire`, interval tasks | expiry while a task runs |
| `NewsroomService` | `NewsArticle` | `summarize`, `translateFull`, `publish`, `reject`, `restoreRejected`, `updateArticle`, maintenance | minutes between read and write, a timeout that races a late answer |
| `SocialStudioService`, cover renderer | `SocialArticle` | send, `prepare`, edits, `archive`, covers, maintenance | unconditional writes of what was read long ago |
| `PlatformFeedService` | catalog, subscriptions, stories, health of sources | fetch, distribute, `prepareSharedArticle`, checks, edits with several addresses | one story for many organisations that come and go |
| `FeedBulkService` | the rows of a catalog or an organisation | upload of a spreadsheet | hundreds of statements without a transaction |
| `SourceReaderService` | a browser queue and a counter in the process | previews, articles, lists | a mode of one call that changes what all others do |
| `DestinationCategoryService` | `DestinationCategory`, the service of an article | synchronise, approve, reject, prune, assign, categorise | decisions of people against synchronisations that had read before |
| `IntegrationHealthService` | `IntegrationHealth`, notifications | `success`, `failure` | a counter, a threshold, a notice in three statements |
| `PublishingSettingsService`, `PlatformConfigService` | settings with secrets, a cache of a minute, locks of the process | read, save a section | a cache that is filled late; secrets bound to a host |
| `TenantService`, `PlatformAdminService` | organisations, members, invitations | invite, answer, revoke, change, transfer, suspend | checks that are old when the write comes |
| `AuthService` and the proxy's cookies | users, refresh tokens, reset links | login with lockout, refresh, logout, password, address | two tabs, lost answers that are asked for again |
| permissions (`packages/shared`, guards, dialog, menu) | the row of a member | edit, ask, show | four readings of one row |
| front end: session, organisation, calls | cookies, localStorage, React state | `apiFetch`, auth and tenant context, `useApi` | answers out of order; another tab |
| front end: news page, publishing settings | drafts, windows, lists | save, publish, upload, poll | an answer that belongs to what was shown before |
| `server-deploy.sh` | files and containers of the server | install, roll back | a stage that fails, a script that is cut off |

### How they interact

* Requests (HTTP handlers), automation scans and finished stages call `enqueue`.
  The queue calls the wallet (`attachReservation`) after the row is in the table,
  and pushes fast-lane types to Redis.
* Every replica polls the queue every two seconds (`processDueJobs`), handles up
  to four claimed jobs two at a time, and calls `complete` or `fail`; those call
  the wallet after the row has changed. A finished stage enqueues the next.
* Once a minute the replica that has the lease runs the maintenance: recovery of
  claims older than 20 minutes, articles older than 15 in a transient status,
  fetching of sources, distribution of shared stories.
* Handlers change articles by a conditional update of the status, call an
  external service for a while, and write the outcome.
* The front end's server passes calls on and may send them again; the browser may
  send them again too. Cookies and localStorage are shared by the tabs of a
  browser, the state of a page is not.

### Properties that make them correct

* Queue: one owner per running row; an exact retry budget; a worker that lost its
  claim changes nothing; every job ends.
* Wallet: the tokens promised to jobs never exceed the balance; the ledger of a job
  alternates; the wallet is the sum of its ledger; credits count once; all of it is
  an account that promises, spends and gives back.
* Both: no charge without a completion, but for one that was made and not heard of;
  every reservation is settled.
* Delivery: one automatic sender per article and network, and one delivery.
* Maintenance: on one replica at a time, and again and again.
* Articles: one stage works on an article at a time; one post per article;
  published stays published; archived stays archived; nothing stays in a
  transient status; a cover shows the text of the article.
* Shared stories: only subscribers get them, and all of them do; what an
  organisation decided about its article stays.
* Members, services, settings: what a person decided is undone by later decisions
  only, or by a call that had read before; a save of one part loses nothing of
  another; a secret stays with its host where the code says that it does.
* Sessions: a token or link serves once; what was ended does not come back.
* Pages: a tab shows and sends what is of its own person and organisation and asks for
  nothing twice; which edits of a form an answer can lose is known exactly.
* Deployment: no service runs before its migrations, and what a rollback starts is
  there.

## 2. Modules

| module | models | run |
|---|---|---|
| `JobQueue` | the durable queue, one action per statement | `queue` |
| `JobLife` | what the queue promises: the abstract specification | `queue` |
| `Wallet` | the wallet, one action per transaction | `accounts` |
| `Account` | what a wallet promises: the abstract specification | `accounts` |
| `JobBilling` | queue and wallet, joined at the five calls | `billing`, `background` |
| `SchedulerLease` | who runs interval maintenance | `background` |
| `SocialDelivery` | delivery of one social article | `delivery`, `delivery_live` |
| `NewsArticle` | one news article under requests, jobs, people, timeouts | `news` |
| `SocialArticle` | one article of the studio and its cover | `social` |
| `PlatformFeed` | one shared source, one story, its subscribers | `platform`, `decision_undone` |
| `Sessions` | tokens, links, lockout and the cookies of one browser | `accounts` |
| `Membership` | members, ownership, invitations | `parts` |
| `Health` | checks of sources and of connections | `parts` |
| `SourceReader` | routes to a page, previews, the browser queue | `parts` |
| `Categories` | services of the destination site, filing of an article | `parts` |
| `TenantSettings` | settings of an organisation, lock, cache, password | `parts` |
| `PlatformConfig` | settings of the platform, keys and languages | `parts` |
| `Release` | installation of a release on the server | `parts` |
| `ApiCall` | one call through the retries of browser and proxy | `operation` |
| `Browser` | one tab beside another: session, organisation, data | `operation` |
| `Access` | one member from the owner's dialog to guards and menu | `operation` |
| `Sources` | rows of sources with several addresses, uploads | `operation` |
| `SettingsForm` | the form of the settings with its drafts | `operation` |
| `NewsModal` | operations and the publishing window of the news page | `operation` |
| `NewsList` | the list of the news page | `background` |
| `MC*` | values for TLC, and the compositions | |
| `*Proofs` | theorems (section 5) | |

A definition whose name or comment says what is wrong with it
(`ClaimableAnytime`, "One that keeps the key for the new host") stands before the
one it distorts and is used by nothing: put in the place of the other, it shows
that a property can fail.

**Compositions.** `JobBilling` composes two components that call each other.
`MCAccounts`, `MCBackground`, `MCParts` and `MCOperation` put components side by
side that share no state: a variable `part`, chosen at the start, says which of
them moves while the others stay as they were. Their states are the sum and not
the product, and, since nothing is shared, every behaviour of a component
appears. `AccountsInv`, `PartsInv`, `PagesHold` and the like say of each part what
it owes, under `part`.

### Conventions

One statement of the database or one external call is one action; what a caller
has read lies in its local variables (`call`, `task`, `request`, `probe`, `access`,
`writing`, ...), where `at` names the statement that comes next. A transaction is
one action where its lock is taken before anything is read. Several variables are
history and read by properties only: `completions`, `taken`, `blind`, `overtaken`
in every component with long calls, `unheard`, `raced`, `crossed`, `falseSince`, `left`,
`wiped`, `slipped`, and in `SettingsForm` `covered` and the fields `last` and `unseen` of a
call. They say that something happened that the code cannot notice,
and a property that mentions them says what holds unless it did. `overtaken` is
exact: it is set only when another call changes what this one has read and still
relies on. A property that excuses an overlap by such a name does not say that the
overlap is harmless: in most of them the code lets the later write win, the
comment at the property says so, and what it claims is that nothing else does
(section "Disagreements" lists what a person would notice).

### Components

**`JobQueue`.** `job[j]` is the row, with the columns that any statement tests:
status, whether the dedupe key is set, attempts, `due` (`availableAt` has been
reached), `lease` (a fresh number per claim instead of `workerId:uuid`), `stale`
(`lockedAt` is old), `done` (`completedAt` is set). `worker`, `request` and `sweeper`
are local variables of calls in progress. A call of `enqueue` that finds a dead row
and was asked to revive it is `EnqueueRevive`, `ResetDead`, `AttachAccepted` or
`AttachRefused` and `CancelRefused`: statements between which everybody else may
step. `Holds` is the `where` clause of `complete` and `fail`, `Verdict` the decision of
`fail`, on the attempts its caller read. Time is nondeterministic (`BackoffEnds`,
`GrowStale`, `Prune`), except that a claim does not grow stale between its update
and the read that follows it. `JobLife` knows no leases, workers or statements: a job
is tried at most `MaxTries` times, and given up when it has had all its tries and no
sooner. `LivesOn` says that each statement of the queue is a step of it or a stutter.

**`Wallet`, `Account`.** Every transaction of `BillingService` locks the wallet row
first, so it is one action; `confirmPayment` reads the intent before it takes the
lock and is two. Ledger rows of a job are a sequence, credits a set of rows with
their idempotency key. `ReserveRefused` changes nothing: the exception rolls the
monthly grant back. `Account` knows neither ledger nor prices nor payments: tokens
left, promises per job, keys that were credited. `Wallet` instantiates it with a
refinement mapping (`KeepsAccount`).

**`JobBilling`.** The steps of `JobQueue` that await the wallet are conjoined with
its transaction; all others leave the other side alone. With `Outages` a
transaction may fail. `settle` tries three times with a pause (`tries[c]`, `TryAgain`,
`SettleOrGiveUp`): everybody else steps between two tries, and a try that failed may
have been committed, its answer being what was lost. `unheard[j]` counts such
charges.

**`SchedulerLease`.** `Tick`, `Acquire`, `Confirm`, `Start`, `Finish` are the statements
of `runIntervalMaintenance`, `tryAcquire` and a task; `Skip` is the early return of a
task that still runs. Ninety seconds contain a tick of every task of a live
replica, so a lease expires only when its holder has stopped or the last tick of
each of its tasks was skipped or failed (`missed`).

**`SocialDelivery`.** `sender[s]` holds the local variables of `publishAutomatically`,
`call[p]` those of `publish`, which a sender calls for every network and an editor
directly. `keep` is `preserveArchive`, read long before it is used. The `createMany` of
the lease, its conditional update, the second look at the article and the delete in
the `finally` block are actions of their own. `Fault(kind)` makes any of it fail, the
delete too, whose error the code swallows: `left` are the networks whose lease has
stayed so.
Assumptions on time: a lease of ten minutes outlasts the calls of one network
(three of thirty seconds), and recovery after twenty finds it expired.

**`NewsArticle`.** `ClaimFrom`, `Busy` and `FailedAs` are the conditional updates of the
four stages. A request reads (`Request`), claims (`Claim`), works (`Prepared`,
`Translated`, `Sent`, or `WriteText`, `LookUp`, `Post`, `Record`) and writes the history
(`Report`: a failure of that is swallowed, but `summarize` reads the article again inside
its `try` block, and may still fail); on a replica of the role `api` (`Inline`) it queues a job instead
(`Enqueue`), after `WriteText` for `publish` and before `Mark` for `translateFull`.
`Abort` is the catch block, `Reset` the maintenance. People read (`Consider`) and write
(`Decide`) without a condition, and so does the success of a stage: hence an article
can be taken from a call that works on it. `taken` records that a person, or the
catch block of a stage that had been done, did so; `blind` that WordPress did not
answer whether the post exists. Assumption on time: a call that goes on ends within
the fifteen minutes of the timeout.

**`SocialArticle`.** Every operation reads the row, waits, writes; only the
preparation writes under a condition. Of the text it matters whether what a call
or a cover shows is still the text of the row. One network stands for all.

**`PlatformFeed`.** `story` is `prepStatus`, `art[t]` the article organisation `t` has of it.
Maintenance of one replica and people fetch, distribute and prepare; each reads,
waits, and writes without another look: `summarize` reads the article (`Prepare`), then
the story (`LookShared`), and copies a ready one into the article (`CopyShared`) or has
it prepared (`LookAgain`, `Prepared`, `Share`). `departing` records who left with a call on
its way to them. The `prepStatus` `failed` is not a state of the system:
`queueSharedPreparation`, the only code that writes it (`platform-feed.service.ts:1435`),
is called from nowhere in the repository.

**`Sessions`.** Tokens and links are numbered as they are issued; a call reads the
account, computes a hash for a while and writes in a transaction; its answer sets
or clears the cookies when it arrives, in any order, or is lost and asked for again
by the proxy.

**`Membership`, `Categories`, `Health`, `SourceReader`, `TenantSettings`, `PlatformConfig`.**
One organisation, service, source, connection, row of settings; two or three
callers, each a read, a check and later a write. In `Health` only days are kept of
time; in `SourceReader` `depth` is `previewFetchDepth` and `tail` the chain of promises, in
which one reading may have several places: the stories of a listing (`Listed`, `Page`)
are read together, each by a request of its own and then, if it fails, in the
browser. In `TenantSettings` `line` is `saveLocks` and a cache remembers whether it was
filled too late; in both modules of settings a password or key is known by the host
it was given for, and the code has two kinds of addresses: one whose secret is
cleared when it changes (WordPress, the networks, the model), and one whose secret is
kept (IranSamaneh, Nastooh, the worker of the sources). `binds` and `clears` say which
kind is looked at; both are.

**`Release`.** `Backup` to `Done` are the stages of `server-deploy.sh`. A stage may fail,
which rolls back once the files have been switched, or the script may be cut off,
which runs nothing more; the next release starts from what was left. `sealed` are
the keys that stored secrets are encrypted under.

**`ApiCall`.** Browser and proxy each repeat a try that failed in transit, whatever the
method; `ran` counts how often the API did what was asked for.

**`Browser`.** The event of a change of organisation is heard in the tab that made it
only. Another tab acts again only when this one has noticed its last act
(`elsewhere`); a tab has one sign-in under way at a time, and a user that is asked for while it is
on its way may be the one before (`apart`, `SigningIn`).

**`Access`.** `Row` is the row of a member with the keys of this release and of those
before; `Stored` is what the API makes of the ticks, `Granted` what the guards make
of the row, `Shown` the menu.

**`Sources`.** A source with several addresses is a group of rows. `Edit`, its matching
of addresses to rows, and `Upload` with its lines are one step per statement, each of
which may fail. Administrators are interchangeable, so a call is begun by a fixed
idle one (`CHOOSE`).

**`SettingsForm`, `NewsModal`, `NewsList`.** State of the page (`useState`, `useRef`,
sessionStorage) with the calls under way as sets; an answer is a step that finds the
page as it is by then. In `SettingsForm` a value is known by its organisation and by
the edit it was typed with, so that an edit that is overwritten, or dropped from the
drafts, is seen to be: `FillsForm` replaces the whole form by the answer, `covered` are
the fields whose draft it has hidden, and `SaveHeard` drops the drafts of the tab that
was saved, whether the save held them or not.

## 3. The plan

Done: every component of the table above, in the order queue, wallet, both together,
delivery, lease, articles, catalog, accounts, members, settings, permissions, pages,
deployment; abstract specifications of the wallet and of a job; theorems on every
safety property of a passing run.

Next:

1. An abstract specification of an article (wanted, in work, published), implemented
   by `NewsArticle` as the wallet implements `Account`.
2. Theorems on what the composition of `JobQueue` and `NewsArticle` promises: a job
   that is queued for an article and the article it changes are tied by the payload
   only, and each module models the other one by a few of its steps.
3. The merge of duplicates in the default catalog; Instagram's OAuth; the mirrors of
   media in the object store.

## 4. What is checked

| run | instance | shows |
|---|---|---|
| `queue` | 2 rows of one piece of work, 2 workers, 2 callers of everything, 1 sweeper, 2 attempts, 2 claims, crashes at every statement | `QueueInv`: claims are exclusive, the retry budget is exact, what a worker decides on is still so; `OnlyHolderCompletes`: late workers change nothing; `LivesOn`: the queue implements `JobLife` |
| `billing` | 1 job, 1 attempt, 3 claims, retry, cancel and recovery, crashes, transactions that fail or whose answer is lost | `ChargedForCompletion`: a commit for each completion at most, and one more for each charge that was not heard of |
| `background` | 1 job with 3 attempts and its wallet; 3 replicas of which 1 may stop, 2 tasks of which 1 is punctual; the list of the news page, 2 rows long, 3 presses of buttons | `OneReplicaRuns`; `JobsEnd`: a job ends and its reservation is settled; `BackgroundGoesOn`: maintenance runs again and again, the list catches up |
| `delivery` | 2 networks, 2 senders, 1 editor, 1 fault anywhere | `OneAutomaticSender`; `OnceUnlessLost`: twice only after a delivery that nobody could record |
| `delivery_live` | 2 networks, 2 senders, 3 attempts, 2 faults of any kind | `EventuallySent`, but for a network whose lease could not be deleted |
| `news` | 1 person who asks replicas of both roles for everything, 1 worker, automatic stages, 1 attempt, 1 fault anywhere | `NewsInv`: one stage at a time; `OnePost`: one post, and what counts as published is there; `EndsStay`: published stays, and rejected comes back by a person or a stage that was at work; `NeverStuck` |
| `social` | 1 person, 1 worker, 1 fault anywhere | `SocialInv`: one preparation at a time; `ArchiveKept`; `CoverOutdatedByRender`; `PreparationEnds` |
| `platform` | 2 organisations, 1 person, the maintenance, 1 fault | `OnlySubscribers`; `StoriesArrive`; types, and ready with a text only |
| `decision_undone` | the same without faults | violated: what was decided about an article is undone by the preparation of another organisation |
| `accounts` | wallet: 2 jobs, 2 gateway calls of 1 payment, prices 0 and 2, 2 plans, 2 months; sessions: 2 tabs, 3 tokens, 1 link, 1 fault, locked at 2 | `AccountsInv`, `Balanced`, `Solvent`, `CreditedOnce`, `EndedHolds`; `KeepsAccount`: the wallet implements `Account` |
| `parts` | 7 parts, 2 or 3 callers each; 4 failures, 2 in the browser's queue, 3 versions, 3 releases | `PartsInv`; `MembersKept`, `DecisionsKept`, `SettingsKept`: what was decided or saved is undone by later decisions only, and by calls that had read before; a secret changes its host only where the code keeps it; `HealthTold`: whoever must be told is told once; `EffortAsAsked`: previews do without the browser, and others unless refused or beside a preview; a page has one place in the queue; `CacheCurrent`; `ReleaseHolds` |
| `operation` | 2 users, 2 organisations, 2 calls under way in a tab; 3 tries of a call; 4 rows of sources; 2 edits of the form, 2 calls and saves of others; 2 operations of the news page | `RepeatsArePaid`; `OperationInv`: guards and menu go by what was ticked; `SourcesHold`; `PagesHold` and `PagesKept`: pages show, save and send what is their own |

**Bounds.** Two workers and two callers give every race of two actors, and the
statements of a third are those of one of the two; rows have no relation to each
other but the unique key and the list of `retryAllDead`, which two rows show. Two
attempts have a first that is retried and a last that is not. Two claims are an old
one and its successor, three let a run get to `dead`. One fault can strike at every
statement; two in a row at one place are a fault and a fault of what repairs it,
which `delivery_live` and `accounts` have. In `news` and `social` a job has one
attempt: the next request is the retry, with a person's choice of the moment. Where
two of something might hide what three show, the theorems decide: in `Browser` two
calls under way hid a case that the proof found and three calls reach (section
5). Every bound is named in the CONSTANTS of its module (`MaxLeases`, `MaxEntries`,
`MaxFaults`, `MaxRuns`, ...) and appears in guards only.

`CHECK_DEADLOCK FALSE` is set in every configuration, since every system may stop:
all jobs have ended, everything is delivered, the claims, faults, versions or calls
of the bound are used up, or nobody asks for anything.

**Symmetry** is used where a run has no liveness property (`queue`, `billing`,
`delivery`, `accounts`, `parts`); no definition names a member of a symmetric set.

**Fairness.** Nothing makes a request begin, a process stop or a statement fail. A call
that has begun goes on (weak fairness of its steps), since one that does not belongs
to a process that has stopped, for which there are the crash actions. Workers poll
every two seconds and maintenance ticks every minute (`@Interval`), hence weak
fairness of claims, `SweepRead`, `Tick`, `Reset`, `PruneCatalog`; time passes
(`BackoffEnds`, `GrowStale`, `Expire`). Strong fairness is used three times: for `Acquire` in
`SchedulerLease` and `Answered` in `NewsList`, because the database or the network may
fail at some ticks and not for ever, and for `Maintain` in `PlatformFeed`, because the
schedule finds a source due again and again and not all the time. `NeverStuck` and `PreparationEnds` need no worker: calls
that go on, and the maintenance.

### Disagreements with comments, tests and documents

`decision_undone`: `prepareSharedArticle` (`platform-feed.service.ts:1378`) makes the
articles of all organisations ready, published and rejected ones too, which
`newsroom.service.ts:959` and `:1063` say cannot be prepared.

More follow from the same models and have no run of their own. Paths are those of
section 1; NR is `newsroom.service.ts`, CT `smart-publishing.controller.ts`.

Queue and billing:

* `retry` matches on the id after a check in another statement: two at once take a
  running job back from its worker, and a worker that reads its claim afterwards
  goes on under the lease of the next one (`automation-job.service.ts:123`, `:152`);
* rows are queued first and reserved afterwards (`:100`, `:111`): a job can run before
  its tokens are reserved, which `billing-shadow.test.cjs:69` says it does not, and one
  that completes in between is reserved after its commit, and its tokens stay held;
* `cancel` clears the dedupe key and a later `retry` does not set it again, so the
  same work can be queued a second time;
* the loop of `retryAllDead` ends at the first refusal, and the rows it has requeued
  already wait without a reservation, and run;
* a charge whose answer is lost is tried again, and when the job was retried in
  between, the second try charges what the retry has reserved: one completion, two
  charges (`billing.service.ts:227`);
* when every tick of the holder within ninety seconds is skipped or fails
  (`Punctual = {}`), two replicas run maintenance: the lease is renewed by ticks and
  not by a task that runs on.

Articles:

* a job to publish translates over the text that an editor sent with the request
  (processor `:160`, NR `:1199`, `:1126`; `dto/news-article.dto.ts:30`);
* a job to translate is refused until it is dead, since the request that queued it
  has marked the article (NR `:1092`, `:1088`; `phase-1-worker-and-wallet.md:15`);
* a stage that ends after its article was rejected makes it `ready` or `published`;
* a look-up on WordPress that is not ok counts as "no post";
* a network that refused, and whose lease could not be deleted
  (`social-network-publisher.service.ts:319`), is passed over by a retry within ten
  minutes as if another worker had it (`if (!lease) continue`): the job completes, and
  the article stays `failed` without it until a person acts (`EventuallySent` names
  this case);
* a person who publishes to a network takes no lease and sends beside a worker; the
  caption written by hand is not the one that is sent (CT `:328`,
  `social-network-publisher.service.ts:178`, comment `:177`);
* `shouldRetryNewsFetchDirectly` is never reached (`source-reader.service.ts:350`);
* "News RSS and websites use it only when that option is enabled"
  (`source-reader.service.ts:2026`): the bridge is also taken when the name of the host
  is filtered (`:2068`) and by an article that the server could not reach (`:1175`);
* `previewFetchDepth` is meant for the probe and the health test (`:391`), but it is one
  for the process: while one of these runs, readings of other sources do without the
  browser too;
* a cache of WordPress styles outlives what `wordpress.client.ts:392` says.

Sources (`Sources`, `InFileKept` states the second one):

* an update whose new address belongs to another row of the same group keeps the old
  address and counts as updated;
* a line without id whose address exists ends in a conflict, and the source is
  deleted as one that is not in the file (`feed-bulk.service.ts:70`, `:215`);
* a source added while an upload runs is deleted by it; an error of a foreign key
  ends an upload before its deletions;
* `readStoredCatalogVersion` answers 0 when the database fails, and deleted default
  sources come back.

Permissions (`Access`, `SectionsOpen` states the first one):

* the page of sources asks first for what needs `publishing.news` (CT `:181`,
  `feeds/page.tsx:166`), and `settings.manage` opens nothing to members
  (`settings/page.tsx:22`, `permission-picker.tsx:69`, `:92`);
* an invited member without ticks has the defaults of the role for the guard
  (`tenant.guard.ts:62`) and nothing in the menu (`auth.service.ts:278`) and the dialog;
* writes of the studio ask for keys that cannot be ticked; a restricted member may
  not move an article to General (`assertNewsroomCategoryAccess`); the feeds of the
  news page are refused to a default member.

Calls and sessions:

* the proxy does not repeat what has timed out, but answers 503, which the browser
  repeats (`api-proxy-handler.ts:103`, `:114`; `utils.ts:151`);
* a failing `/auth/me` in an outage signs the person out in the page and forgets the
  organisation (`auth-context.tsx:80`); a logout with the API down leaves the cookies,
  and a reload signs in again; another tab's change of organisation is not heard.

Pages:

* news list: a filter chosen between "more" and its answer mixes the rows of two
  filters (`news/page.tsx:98`, `:505`); the refresh after an operation begun under
  another filter shows that filter's rows until the next poll (`:164`);
* news window: there is one `busy` key, so that the end of one operation enables
  publishing again and lets the window of another be closed (`:186`, `:275`); Escape or
  the answer of a publication during an upload lets the late answer put the picture
  of one article in the window of another (`:537`); what is typed while it publishes
  vanishes;
* settings: the answer of a save after a change of organisation merges values of the
  old one in the form of the new one and keeps it from reading its own
  (`settings/page.tsx:598`); an edit made in the tab while it is saved is overwritten by
  the answer and its draft dropped (`:600`, `:610`); the answer also overwrites the
  unsaved edits of the other tabs in the form, whose drafts stay, and the next save of
  such a tab sends what is shown and drops the draft unsaved; an edit or save before the
  first answer saves empty texts; two answers out of order show the older state;
  `loadDestinationCategories` does not look at the order either (`:240`).

Secrets (`publishing-settings.service.ts`):

* a test of the connection does not send the stored password of IranSamaneh or Nastooh
  to a new site (`:1418`), but a save of the new site keeps it (`:1276` clears that of
  WordPress only), and the next test or publication sends it there;
* a new address of the worker keeps the secret of the old one (`:908`), while a new
  address of the model clears its key.

Deployment (`server-deploy.sh`): five backups are kept where `:312` says two (`:305`); a failure
between the two moves of the files is not rolled back, and the next backup keeps the
mixture (`:332`); a rollback after a rotation drops the new key, and with it the
secrets stored under it (`:238`).

## 5. What is proved

All theorems hold for every value of the constants that the named assumptions admit
(`QueueAssumption`, `BillingAssumption`, `WalletAssumption`, `SessionsAssumption`,
`LeaseAssumption`, `DeliveryAssumption`, `NewsAssumption`, `SocialAssumption`,
`PlatformAssumption`, `MembershipAssumption`, `HealthAssumption`, `SourceAssumption`,
`ConfigAssumption`, `ReleaseAssumption`, `ApiCallAssumption`, `BrowserAssumption`,
`AccessAssumption`, `SourcesAssumption`, `SettingsFormAssumption`, `NewsModalAssumption`,
`NewsListAssumption`): any number of jobs, workers, callers, networks, organisations,
tabs, attempts and faults. The assumptions say that numbers are natural numbers and
that the names of nobody and nothing are nobody's. Each safety property of a passing
run is stated by a theorem, and a composition behaves as each of its
parts (`AccountsImplement`, `BackgroundImplements`, `PartsImplement`,
`OperationImplements`), so that what is proved of a part holds in the run.

None of the properties is inductive. What every argument adds is what a call under
way still knows: what it has read is still so, unless someone overtook it.

* **Queue** (`BackgroundProofs`). `QueueInv` is `JobTypeOK`, `AttemptsBudget`,
  `OwnedWhileRunning`, `SettledLeaseIsSpent` and `ReadsStayTrue`; none is inductive
  without the last. `fail` decides on an attempt count read long ago, and what makes
  the decision right is that the count has not changed while the row carries the
  lease that was read. Lease numbers grow, so one that was given up never comes
  back. `OnlyHolderCompletes` follows, and so does the refinement `QueueLivesOn`:
  status and attempts of a row are the stage and the tries of a job. `fail` gives up or
  postpones by the attempts its caller read, where `JobLife` asks for those of the row
  (`FailureMoves`); the update of `retryAllDead` starts several jobs at once, and a
  refusal withdraws what may be at work by then (`Starts`, `Withdrawn`).
* **Queue and wallet** (`BackgroundProofs`). `BillImplementsQueue` and
  `BillImplementsWallet`: each step of `JobBilling` is one of the queue or leaves it
  alone, and so for the wallet; all the theorems of the two carry over.
  `BillCharged`: the workers that have completed `j` and not been with the wallet yet
  (`Settling(j)`) are finitely many, and with the commits of `j` never more than its
  completions and its unheard charges together (`Due(j)`). A completion adds a worker, a
  commit that is heard takes one off, one that is not adds to both sides, a crash
  loses a worker.
* **Lease** (`BackgroundProofs`). With one punctual task a lease does not expire under
  a live holder, so whoever runs a task holds it (`HoldsLease`), and a holder is one.
* **Wallet** (`AccountsProofs`). `Solvent` from the types and the lock that makes a
  transaction one step; `LedgerAlternates` from what a reserve and a settlement
  append; `CreditedOnce` with the fact that a payment is paid exactly when its key is
  credited. `KeepsAccount` is the refinement: the last row of each ledger is the
  promise, the credited keys are the reasons, and every transaction is a step of
  `Account` or a stutter. `WalletBalanced`, for finitely many jobs: what is reserved is
  the sum of the open reservations, and what is left and consumed is the sum of the
  credits. It needs that a sum does not depend on the order, and changes by what one
  summand changes (`SumApart`); that is an induction over the size of a set, and since
  no induction theorem with an operator can be used, the proofs look at the smallest of
  the sets for which it would fail (`SmallestSet`). From it and `Solvent` follows
  `WalletFunded`: with the wallet enforced, what is reserved covers each open
  reservation and the balance covers what is reserved.
* **Sessions** (`AccountsProofs`). A token on its way to the browser is live and known
  to no other call (`OnTheWay`), one that is asked for was issued (`TokensKnown`), and
  one that is being exchanged is spent, by one call, and has no descendant yet
  (`Descent`). From these follow `UsedOnce`, and `CookieRenewed`: an arriving token is
  not spent. (It need not be the one made last: two logins may be answered in
  either order.) `EndedHolds` needs the types only, once it is known which action answers.
* **Delivery** (`SocialDeliveryProofs`). Who is past the claim holds the lease,
  unexpired and in its own name (`LeaseInHand`); a call belongs to the sender that
  waits for it (`CallsBelong`); every post is recorded, about to be recorded, or
  counted as lost (`PostsAccounted`). `OnceUnlessLost` alone does not survive `Send`.
* **News article** (`NewsArticleProofs`). Who works on the article has claimed it,
  unless it was taken (`Holding`); who is about to create a post has looked for one
  and nobody has created one since (`Unposted`). Who is about to record a publication
  has a post, and so has who is about to update one (`Posted`); so an article that
  counts as published is there, whatever failed and whoever took it.
* **Social article** (`SocialArticleProofs`). Who prepares has claimed; and while the
  article is shelved each call that may write a status has read that it was archived,
  or, for a job, that its first look found it so. A cover becomes stale in one action
  only.
* **Shared stories** (`PlatformFeedProofs`). Whoever a call aims at subscribes or left
  with the call on its way, as long as the source exists; when it is gone the story
  is, and an article is not created without its story.
* **Parts** (`PartsProofs`). Seven inductive invariants. Members: what a check has found
  still holds unless the call was overtaken (`ChecksStand`), and one owner is left
  (`RowsHold`). Health: what a check is about to write continues what it has read
  (`ChecksHold`), and unless two reports crossed there is one at a time and between two
  of them the row and the last notice say the same (`ReportsHold`). Reader: `depth` is
  the number of previews under way, the tail of the queue has each page of each
  reading once, and `queued` is its length (`PreviewsCounted`, `QueueHolds`).
  Categories: where an article is goes with who filed it, and what a call has read still stands unless it was
  overtaken (`FilingHolds`, `TasksStand`). Settings: who saves stands in line once and
  only the head is past the line, what a call has read is the row unless it was
  overtaken, and a cache that is not late has the row (`SaversInLine`, `ReadsHold`,
  `SettingsCurrent`). Releases: each stage leaves its files; unless a release was left
  half done, the version that runs or the one a rollback brings back is whole, with its
  images; the schema has been migrated for whatever may be started; and unless a
  rotation was undone the keys open what is stored (`FilesOfStage`, `Whole`, `Migrated`,
  `KeysKept`).
* **Calls and permissions** (`OperationProofs`). Each run of the API but the first is
  paid for by a fault (`Paid`); between two saves of the owner the row of a member
  holds what was ticked (`Written`), and guards and menu are functions of the row.
* **Sources** (`OperationProofs`). The rows an upload or an edit has read, made and kept
  are of its group; a call that nobody disturbed (`quiet`) has accounted for every
  line up to the one it is at.
* **Pages** (`OperationProofs`). Tab: the data of the shell, the form and every call
  under way are of one person and organisation, or of one that was left and will
  not be shown; there is one sign-in under way. The proof of the first version of
  the model failed: an answer about the user that is asked for while a sign-in is on
  its way may bring the user before it, which `apart` did not say. It takes three
  calls under way, and TLC had looked at two.
  Settings form: what is shown was loaded for, or typed in, this organisation unless
  an answer crossed; and the draft of a field a save is about is the one the save
  holds, unless it is a later edit or may not have been on the form (`Holds`), which
  is what `EditsKept` needs when the answer drops it. News window: an operation under
  way is of the article in the window unless it slipped.

**Only model-checked:** liveness (`EventuallySent`, `JobsEnd`, `BackgroundGoesOn`,
`NeverStuck`, `PreparationEnds`, `StoriesArrive`) and `ENABLED`, which the prover does
not reach; the violation.

## 6. What is not modelled

PROJECT.json lists the components with what each leaves out. Most of the lines no
definition stands for are of four kinds that have no state shared between actors:
markup and styles of the pages and the landing page; data (the catalog of default
sources, topics, prompts, the shapes of DTOs, migrations); drawing (templates, fonts,
layers of covers); and heuristics on HTML (what of a page is its text). A property of
those would be one about their output, which a model without text and pixels cannot
state.

Within the modelled parts: payloads and results of jobs; priorities and the order
of claims (a claim may take any due row); several organisations at once where rows
of two have nothing in common (queue, wallet, settings, members); the purge of
rejected articles; register, profile and other single inserts and updates; downloads;
Instagram's OAuth; object storage and mirrored media; the throttler.

Choices to know of: a stopped process forgets its calls and its replicas go on; a
statement of the database is atomic and sees what was committed; clocks of the
replicas agree as well as the leases need (seconds against minutes). In `Browser`
another tab acts again only when this one has noticed its last act; in `Sources` the
bound on calls counts what one administrator asks for; in `SettingsForm` `MaxAsked`
bounds the calls of the page and the saves of others together, passwords (which are
not kept in the drafts) are not fields of the form, and sessionStorage takes every
write.
