# playtesthub in TLA+

playtesthub is a Go service on AccelByte Gaming Services (AGS) that runs
playtests: players sign up, admins approve them, an approved player gets a
redemption code (or a download URL) by Discord DM, answers a survey, and so on.
Every replica is one process: a gRPC server, two elected background workers and
an in-memory DM queue, all on one Postgres database. There is no other
coordination between replicas than that database, and none at all between the
database and the services around it (AGS, the ADT build service, Discord). What
makes the program correct is the SQL predicate of each UPDATE, the extent of
each transaction, the order of the steps between them, and what a handler
concludes from a remote call that may have taken effect without an answer. That
is what these modules model.

    tlc -workers 2 -config MCCodeGrant.cfg MCCodeGrant      # any run of PROJECT.json
    tlapm CodeGrantProofs.tla                                # any *Proofs module

`PROJECT.json` maps every definition to the source lines it models, lists the
runs, the mutants that show each property can fail, the hazards and the theorems.

## 1. The system

| component | source | state | operations | hard part | module |
|---|---|---|---|---|---|
| Signup, approve, reject | `pkg/service/{applicant,approve}.go`, `pkg/repo/{applicant,code,txrunner}.go` | `applicant`, `code` tables | Signup (+ auto-approve), ApproveApplicant, RejectApplicant | reads before the transaction, one transaction over two tables, cap race, crash after the commit | `CodeGrant` |
| Reclaim worker | `internal/reclaim` | `code` rows, lease `reclaim` | sweep of expired reservations | runs against open grants | `CodeGrant`, `LeaderLease` |
| Code pool | `pkg/service/{code,topup_codes}.go`, `pkg/repo/code.go` | `code` rows, the campaign's codes in AGS | UploadCodes, TopUpCodes, SyncFromAGS | AGS calls that are not idempotent, pages that shift, dedup under a lock | `CodePool` |
| AGS provisioning | `pkg/service/ags_campaign.go`, `pkg/ags` | remote item, campaign, codes, namespace set-up | create with compensation, bootstrap, batches | partial failure, lost answers, one mutex for all creates | `PlaytestCreate` |
| Playtest CRUD | `pkg/service/playtest.go`, `pkg/repo/playtest.go` | `playtest` row | Create, Edit, SoftDelete | slug race, soft limit, full-row Update from a stale read | `PlaytestCreate`, `Survey`, `WindowWorker`, `CodeGrant` |
| ADT linkage and builds | `pkg/service/adt.go`, `pkg/repo/adt.go`, `pkg/adt` | `adt_linkage`, link states, ADT's own flag, build and health of a playtest | Start, Complete, Unlink, Recover, ChangeADTBuild, CheckADTBuild | a row and a remote flag without a common transaction, one-shot states in a browser | `AdtLinkage` |
| DM queue | `pkg/dmqueue`, `pkg/service/retry_dm.go` | FIFO, breaker window (memory), `applicant.last_dm_*` | Enqueue, Run, Sweep, RetryDM, RetryFailedDms | overflow, breaker, lost on restart, timeouts after delivery | `DmQueue` |
| Leader lease | `pkg/repo/leader.go` | `leader_lease` row | TryAcquire, Refresh, Release | expiry under a slow sweep, two leaders | `LeaderLease` |
| Window worker | `internal/window`, `pkg/repo/playtest.go` | `playtest.status` | sweep, TransitionPlaytestStatus, window edits | CAS races of worker, stale leader and admin | `WindowWorker` |
| Surveys | `pkg/service/survey.go`, `pkg/repo/survey.go` | `survey` versions, `playtest.survey_id`, `last_survey_dm_id` | Create, Edit, Submit, fan-out, restart sweep | pointer update outside the version transaction, stamp after enqueue | `Survey` |
| NDA | `pkg/repo/nda.go`, AcceptNDA | acceptances, `nda_version_hash` | AcceptNDA, NDA edits | stale hash, audit on first accept | `Survey` |
| Announcements | `pkg/service/announcement.go`, `pkg/repo/announcement.go` | announcement, recipients, counters | synchronous fan-out | a failure or a crash half-way, dropped errors | `Announcement` |
| Audit log, worker health, paging, auth, Discord exchange, UIs, CLI | - | - | appends, reads, proxies, clients | - | the rows that a property speaks of |

How they interact. Signup and approve commit a grant, append the audit row
outside the transaction and hand a job to the DM queue of their own process. The
queue's worker writes `last_dm_status`, which RetryDM and the boot sweep read.
The window worker and admins write `playtest.status`, which every handler reads
before its transaction. The reclaim worker writes `code` rows that the grant
reserves, and uploads, top-ups and syncs add rows to the same pool. Creating a
playtest writes AGS before the database; linking writes ADT before the database,
and an approval in an ADT playtest asks ADT for a URL and records what that says of
the build. `main.go` starts the gRPC server first, then the two workers, then
the boot sweeps and the DM worker: requests overlap with the boot.

What makes each correct:

- *grant*: a code has at most one owner, an approved pool applicant exactly one
  code; decisions are final; the cap bounds auto-approvals; the audit log and
  the DMs follow the commit and never run ahead of it; every request ends.
- *DM queue*: a DM is sent at most once per request for it; `sent` is the truth;
  no approved player is left with a NULL status after a restart; the breaker
  opens and closes with its window.
- *window worker*: status moves forward one step at a time with one author per
  step; a due playtest is eventually moved although leaders come and go.
- *surveys*: `survey_id` names a version that exists; the publish DM is queued
  once per player and boot, and the stamp never runs ahead of it; one response
  per player, which never changes.
- *NDA*: whoever answered a survey had accepted the text in force when they
  asked; one audit row per first acceptance; accepting again unblocks a player.
- *create*: a live AGS playtest can be redeemed; what a failed create leaves in
  AGS is what it never learned of or failed to delete, and the audit row claims no
  more than that; a failing bootstrap blocks nobody.
- *code pool*: what a request learned is stored, once; files are taken whole or
  not at all; the audit log claims no more codes than there are.
- *ADT*: a link state makes one linkage; row and remote flag come apart only in
  the ways an overlap or a failed call explains; a build is called unavailable
  only when it is gone.
- *announcements*: counts and verdicts say no more than what Discord delivered.

The hazards behind these are in `PROJECT.json`, each at its line, with the
properties that would catch it.

## 2. Modules

| module | what it is | built on |
|---|---|---|
| `GrantLedger` | abstract: a ledger of decisions and of the one holder of every code | |
| `CodeGrant` | the handlers, transactions and locks; refines `GrantLedger` | |
| `PlaytestCreate` | CreatePlaytest, AGS provisioning with its compensation, the bootstrap mutex | |
| `CodePool` | top-ups, syncs and uploads into the pool of one playtest | |
| `AdtLinkage` | the linkage as a row and as ADT's flag, the build of a playtest and its health | |
| `DmQueue` | requests that ask for DMs, the queue, the boot sequence, crashes | |
| `Announcement` | the fan-out of a bulk DM | |
| `LeaderLease` | one lease row and the leader loop shared by both workers | |
| `PlaytestLifecycle` | abstract: a status that moves forward and a log of the moves | |
| `WindowWorker` | the sweep, admins' transitions and edits, time; refines `PlaytestLifecycle` | `LeaderLease` |
| `Survey` | survey versions, the publish DM, the NDA text, acceptances and answers | |
| `CodeGrantProofs`, `SurveyProofs`, `PlaytestCreateProofs`, `AdtLinkageProofs`, `AnnouncementProofs`, `WindowWorkerProofs`, `DmQueueProofs`, `CodePoolProofs` | inductive invariants and theorems | the module of that name |
| `MC...` | TLC instances | the module of that name |

One convention runs through the modules that talk to something outside the
database. A remote call or a statement has an *outcome*: `answered`, `failed`
without effect, or `lost`: it took effect and the caller sees an error (a
timeout, a reset, an answer without the field the caller needs). Expired tokens
are renewed inside a call (`callWithRelogin`) and are no outcome of their own;
the 300 s of `agsCtx` are a `failed` or `lost` like any other. History variables
(`lost`, `mark`, `visited`, `used`, `known`, `busiest`) exist for the properties only; no guard reads
them.

### CodeGrant

A request is a program counter `rpc[h].pc`; each SQL statement is one action.
READ COMMITTED is modelled by a write set: `codeW` and `appW` are what the open
transaction wrote to the code row `pick` and to the applicant row `user`. Nobody
else sees them before `Commit`; while they are set the row is locked, so SKIP
LOCKED passes the code over and a CAS on the applicant waits. The advisory lock
is held exactly between `LockAndCount` and the end of the transaction
(`InAutoTx`). `Abort` ends a request at any point: a failed statement, a
cancelled context, the death of the process. An open transaction then leaves
nothing; what follows the commit (audit, DM) is simply never run.

Abstractions. One playtest (requests of two playtests share no row). The two
reads of approve are one step: an applicant exists only after its playtest was
OPEN and status never goes back. `ORDER BY created_at` is a free choice: the
rows of an upload share their `created_at`, and no property depends on the
order. `Reclaim(S)` takes any set of committed reservations as expired. The
audit store, the DM queue and the code store are wired, as in `main.go`. A
commit whose answer is lost is `Commit` followed by `Abort`. The part of
EditPlaytest that this module reads is `autoApprove` and its limit. `WaitsFor` is
Postgres's wait-for graph: a request waits for the advisory lock or for the
applicant row, never for a code.

### DmQueue

Every DM that is asked for has a number, its *ask*; asks are what an approval,
RetryDM or RetryFailedDms hands to Enqueue. `phase` is the boot sequence of
`main.go`; requests are served from `booting` on. `Crash` empties the queue, the
worker and the breaker and kills the requests of that replica; the table stays.
`unwritten` and `skipped` remember, for the properties only, that a status write
failed or that a request ended before Enqueue. A Discord error may follow a
delivery (a timeout), so `SendError` chooses. The throttle between jobs, the
message text and the audit rows are left out. The queue drops no asks for other
playtests, so `Users` are the applicants of one.

What keeps the boot sweep from marking a player who has just got the DM is only
the order of `main.go`: the worker starts after the sweep (`SweepSparesTheSent`).
That argument is about one process, and so is the property.

### LeaderLease and WindowWorker

Time is counted in heartbeat intervals. The row stores the time its lease has
left, because every comparison uses the database's NOW(); `Elapse` ages it,
fills the one-slot ticker channel of every replica and advances the time since
its last sweep, as far as it matters (`LongEnough`: to the sweep interval, which
wakes the loop, and to the TTL, after which a sweep has no lease). A loop can be
slow at any point: time passes between any two of its steps, and a lease can
expire under a sweep. `Stop` may or may not release:
the worker's context is the one of `main`, cancelled only as the process exits.
A replica keeps its holder id over a restart (POD_NAME); one that comes back
under another name is a replica of its own. `NotAcquired` and `SkipRow` include
the error whose statement took effect.

Windows are the time left to `startsAt` and `endsAt`, 0 when passed. The sweep
lists the due rows, then advances and audits them one by one. EditPlaytest's
read does not matter here: it writes the window from the request and never the
status. `PlaytestLifecycle` is what is left when replicas, leases, sweeps, admins
and time are forgotten; the map from `WindowWorker` drops the window and reads the
audit rows as the log.

### Survey

None of these handlers holds a transaction over more than one table, so a
request is again a program counter, `rpc[p].pc`, with what it has read, and
every statement is an action. `playtest`, `applicant`, `accepted` and `response`
are the tables; a survey version is its own id, versions are `1..latest` and
`survey = 0` is NULL; an NDA text stands for its hash. `accepts` counts the
`nda.accept` rows and `told` is what was handed to the DM queue, in order; the
queue itself is `DmQueue`'s. `response[u].nda` remembers the text the submit was
gated on, which the stored row does not have.

The hazards are between two statements: CreateSurvey and EditSurvey commit the
version first and set the pointer in a statement of its own; EditPlaytest reads
the row and writes all of it back, the pointer too; AcceptNDA compares the stamp
with a row it read before; SubmitSurveyResponse checks the NDA of the playtest
row it read first; the sweep puts the DM in the queue and stamps afterwards, and
either may fail; the restart sweep runs while requests are served.
`RequestFails` ends a request at any statement, `Restart` all of them.

Abstractions. One playtest, one replica (`Restart` kills every request). It
starts with or without a survey, OPEN: players exist only from then on. The two
reads that open EditSurvey are one step, because a version once there stays.
Audit rows nobody reads are left out but for `nda.accept`. Questions and answers
are data.

### PlaytestCreate

A request is `job[c]`: where createAGSCampaignPlaytest is, the codes still to
generate, and the remote objects it *knows* of, which is what its cleanup will
take down. `campaign`, `item` and `linked` are what AGS holds for it; the two
differ exactly when an answer is lost. `ensureAGSBootstrap` is a mutex and a
`done` flag of the process (`boot`, `ready`): three prerequisites are found or
created one after the other, a failure unlocks and leaves `done` unset.
`CommitRow` is the transaction that inserts the row and its codes; `InTx` returns
COMMIT's error, so a committed transaction may be followed by the cleanup. STEAM_KEYS and ADT
playtests are `InsertPlain` (for ADT, `verifyADTBuild` runs first, as `AdtLinkage`'s
`FindLinkage` and `ListBuilds`, and its failure is a failed insert here). `Crash` ends all
requests of the process and forgets `boot` and `ready`; AGS stays.

The limit is counted in `CreatePlaytest` (`AtLimit`), long before the insert; what a
request then holds is no lock and no place. `busiest` remembers how many requests
were ever under way at once.

Abstractions. A request fixes its slug. The audit rows of a *success*
(`campaign.create`, `campaign.generate_codes`) are left out, nobody reads them;
the row of a failure is there, because its two flags are a claim about AGS. The
codes a create received are a number (`left`), since what is in the pool is
`CodePool`'s. Soft-deleted playtests count for the limit and keep their slug, as
in the code, so deletion changes nothing here.

### CodePool

One playtest, of either model. AGS's list of codes is a sequence, because
`QueryCodes` pages by offset: a top-up that mints at place `i` while a sync pages
shifts what the sync has not read yet. `CreateCodes` generates under a batch name
of its own and queries it back, which may bring fewer codes than there are; the
retry uses another name, so `CreateCodesFails` may have generated
codes that the caller never hears of; `RetryPolicy.Run` restarts the whole call.
Every insert takes the advisory lock (`lock`), asks which values are there
(`Dedup`: `fresh` is the set of places of `hand` whose value is not), and copies
those all or nothing (`CopyAndCommit`; the unique
constraint makes `CopyConflicts`). A COMMIT may go unanswered. Codes are numbers,
lines of a file too; the line checks of `parseUploadCSV` are `Malformed` and
`IsInjective`.

### AdtLinkage

`rows` are the rows of `adt_linkage`, one of them live at most (the partial
unique index); `flag` is what ADT believes. `StartADTLink` mints a state,
the admin's browser visits ADT with it (`VisitADT`, external), and the callback
consumes the state in one statement and inserts the row in the next. Nothing ties
the callback to the visit: CompleteADTLink takes any pending state and the
namespace the caller names, `pth adt linkage complete` lets an admin do that before
any visit, and so does the action. `visited` only remembers the visits. UnlinkADT
reads the row, deletes ADT's flag (tried again after errors, and passed over in
the end), then sets `deleted_at`; RecoverADTLinkage probes ADT and inserts a row
for a flag that has none. ChangeADTBuild and the health of a build follow the
same linkage. `mark`, `seen` and `told` remember which unlink cleared the flag
and what it had read.

A call makes each of its steps once; `Loads` says which calls are made in one
behaviour. One studio namespace and one playtest: linkages of two namespaces
share nothing. The ADT listings for the pickers only read.

### Announcement

A request is `job[k]`; the row, the recipients and the counter are written by
statements of their own (`MarkRecipientSent` is the transaction that moves both).
Applicants are decided and the playtest is closed meanwhile; a replica may run
without a bot client (`hasSender`), and then leaves rows QUEUED. `Aggregate` is
the CASE of FinaliseStatus with SQL's NULL: over no rows it answers PARTIAL.
Nothing resumes a fan-out that died.

## 3. Runs

| run | instance | distinct states | shows |
|---|---|---|---|
| `grant_pool` | 2 players, 2 codes, 2 requests, limit 1 | 294,592 | all-or-nothing grants, refinement of `GrantLedger`, the cap, every request ends |
| `grant_adt` | ADT: no codes, a URL that may fail | 19,260 (symmetric) | audit rows and DMs follow the commit they are about |
| `grant_adt_auto` | ADT, the URL always fails | - | violated: a failed URL leaves the applicant PENDING |
| `dm_queue` | 2 players (1 unreachable), 1 replica, 1 request at a time, queue of 1, breaker of 2, 4 asks, 1 crash | 238,467 | what the queue promises of every ask, over a restart too |
| `window_worker` | 2 replicas, TTL 2, 1 playtest, 1 admin | 1,237,586 | sweeps overlap only late, refinement of `PlaytestLifecycle` |
| `window_live` | the same, no admin transitions | 144,162 | due playtests are moved |
| `survey` | 1 player, 2 requests, 2 NDA texts or none, up to 3 versions, 2 playtest edits, 1 restart | 486,204 | survey and NDA safety, accepting unblocks |
| `survey_again` | a survey is created, edited, and the replica restarts | - | violated: edits never re-broadcast |
| `playtest_create` | 2 AGS creates for one slug, a plain one for another, limit of 1 row, 3 codes in batches of 2, 1 crash | 496,514 | compensation, redeemable playtests, how far the limit is passed, every create ends |
| `code_pool` | 2 callers, 3 calls, 3 codes in AGS, batches and pages of 1, 2 attempts, 5 files | 659,057 | dedup, what was learned is stored, the audit log |
| `adt_linkage` | 2 callbacks, 2 unlinks, 1 recovery, 1 build change, 1 probe, 2 states, 2 builds | 2,856,266 (symmetric) | how row and flag may come apart, build health |
| `announcement` | 1 announcement, 4 applicants, 1 of them unreachable, with or without a bot, 1 crash | 2,260,792 (symmetric) | counts and verdicts |

Why the bounds suffice. The hazards of the grant are conflicts of two requests
over one row or one place under the cap: two requests, two players and a limit
of 1 reach each of them, and two codes allow a wrong choice among codes as well
as a crossing of two grants. In the queue, a capacity of 1 makes overflow a
normal event, a threshold of 2 within one tick lets the breaker trip, expire and
reopen, four asks allow an approval, two retries of it and another player, and
one crash puts a restart anywhere. Two replicas make two leaders; a TTL of two
heartbeats lets a lease live through one missed heartbeat and expire at the
second, and a sweep interval of one makes sweeps follow each other closely enough
to overlap. In `Survey` rows of two players never meet, so one player is enough for
TLC; the races are between two requests of one player, or one of the player and
one of an admin. `Loads` bounds what one behaviour may mix, there and in
`AdtLinkage`: the instance is the union of the loads, not their product.

For a create, two AGS requests can wait for each other's bootstrap and lose the
slug to each other; the plain one takes another slug, so that with a limit of one
row both the refusal and the race past the limit happen; two batches put a failure between two of them. In the pool,
pages of 1 and three minted codes let a mint shift a page that has not been
read; two attempts let `CreateCodes` generate without an answer; the files
overlap, repeat a line and hold a malformed one. For the linkage, two states and
two unlinks are what "the flag of another linkage" needs. Four applicants let a
fan-out end after success, after failure, and with both before and after a
crash. The theorems of section 4 drop the bounds. Every mutant of `PROJECT.json`
is found within them.

Fairness. `CodeGrant`: a goroutine runs on until its request ends, and Postgres
queues lock waiters: a statement that can run again and again is run (SF on the
next statement of each request). Nothing is assumed of clients, admins or time.
`DmQueue`: goroutines run on and the platform restarts a dead replica (WF);
deaths are bounded by `MaxCrashes`; no Discord call is assumed to succeed.
`WindowWorker`: time passes, loops run on and replicas do not die for ever; of
the database calls repeated at every heartbeat not every one fails or comes too
late for the lease (SF over all replicas together, not for each of them).
`Survey`: each request runs on to its end (WF on its next statement); clients
owe nothing: `AcceptingUnblocks` is about a player whose acceptances keep coming
through, and says that they help. `PlaytestCreate`: every call that is made ends,
because agsCtx bounds it (WF on the step of each request); nobody must send a
request, no call must succeed, and a waiter gets the mutex because its
holders are finitely many.
`CodePool`, `AdtLinkage` and `Announcement` are checked for safety only.

Deadlock is checked in the runs of `CodeGrant`, `DmQueue` and `WindowWorker`. In
the others the bounds use up every request there can be, so the end of the
last one is a state without a successor.

### Where the code and its documents differ

Two disagreements are runs that must find their property violated.

- `UnresolvedStaysPending` (`grant_adt_auto`): docs/PRD.md says an ADT
  auto-approve whose URL cannot be resolved falls back to PENDING; the code
  approves first, resolves later and only skips the DM.
- `EditsNeverRebroadcast` (`survey_again`): docs/PRD.md says only CreateSurvey
  fans out, so edits never re-broadcast; the first restart after an edit finds
  every stamp different from `survey_id` and tells the whole cohort again.

Behaviour the models reach, and that a reader of the documents might not expect;
no run states the contrary:

- A signup may insert its applicant after the playtest was soft-deleted:
  Signup reads the playtest once (`CodeGrant`, SoftDelete between `SignupRead` and
  `InsertWins`), where docs/PRD.md lets an in-flight signup fail.
- The boot sweep marks rows of DMs that were queued during this boot
  (`DmQueue`): requests are served before it runs.
- With two replicas the boot sweep of one marks what the other has queued or just
  sent, though docs/PRD.md calls deploys with several replicas safe: the leader
  lease it names is the workers', and the DM queue does not use it. `dm_queue`
  therefore has one replica, and `SweepSparesTheSent` says so.
- A DM that was skipped because no URL was found cannot be retried with RetryDM:
  the row stays NULL until a restart marks it.
- Two edits of a survey may set `survey_id` in the other order, so that it does
  not name the newest version (`Survey`).
- A rolled-back insert makes `campaign.create_failed` say that the cleanup was
  not successful, whatever the deletes answered (`PlaytestCreate`).
- Codes that AGS generated for a create that was rolled back belong to a
  campaign no playtest has: SyncFromAGS never sees them.
- `CreatePlaytest` counts first and inserts minutes later: the limit of 100 is
  passed by creates that overlap, though by fewer rows than there were creates
  under way at once (`OvershootNeedsOverlap`). docs/PRD.md speaks of 100
  *non-deleted* playtests and of making room by soft-deleting; the count includes
  deleted rows, here as in the code.
- A page that shifts under SyncFromAGS repeats a code. If the repeated one is new
  to the pool, the batch holds it twice and its COPY fails (`CodePool`).
- Two unlinks of one linkage that overlap are both audited; `deleted_at` is set
  once (`AdtLinkage`).
- CompleteADTLink does not ask ADT whether the namespace was linked: a callback
  without a visit leaves a live row that every ADT call fails on, until somebody
  links at ADT (`AdtLinkage`, the first case of `LostFlagNeedsOverlap`).
- ChangeADTBuild keeps the health that the old build had, until the next probe.
- An announcement nobody matches ends PARTIAL, because FinaliseStatus
  aggregates over no rows; one whose process died stays SENDING for good; one that
  a client sends again is delivered again (`Announcement`).

## 4. Proofs

Each proof module states an inductive invariant `IInv`, shows it of `Init` and of
every action, and reads the theorems off it. They hold for every value of the
constants that the named assumptions admit; TLC evaluates those on every run.

| module | theorem | property |
|---|---|---|
| `CodeGrantProofs` | `TypeCorrect` | `TypeOK` |
| | `NoCommittedReservation` | `ReservationNeverCommitted` (no session sees a RESERVED code) |
| | `NoOrphanedGrant` | `FenceNeverMisses` |
| | `GrantsAgree` | `GrantsMatch` |
| | `CapRace`, `AutoApproveCap` | `CountStaysUnderCap`, `AutoApproveCapHolds` |
| | `FinalDecisions` | `DecisionsAreFinal` |
| | `Refinement` | `ImplementsLedger` |
| | `TruthfulLog` | `AuditMatchesDecision` |
| | `OneWelcome` | `WelcomeFollowsGrant` |
| | `NoDeadlock` | `NoCircularWait` (no run checks it) |
| `SurveyProofs` | `TypeCorrect` | `TypeOK` |
| | `CoveredResponses` | `ResponsesAreCovered` |
| | `FinalResponses` | `ResponsesAreFinal` |
| | `FirstAcceptOnce` | `FirstAcceptAuditedOnce` |
| | `StampFollowsDM` | `StampedWasTold` |
| | `PublishedOnce` | `PublishedOncePerBoot` |
| `WindowWorkerProofs` | `TypeCorrect` | `TypeOK` |
| | `CoveredSweep` | `SweepIsCovered` (no run checks it) |
| | `OneSweepAtATime` | `SweepsOverlapOnlyLate` |
| | `AuditedOnce` | `AuditedAtMostOnce` (no run checks it: part of the refinement) |
| | `Refinement` | `ImplementsLifecycle` |
| `PlaytestCreateProofs` | `TypeCorrect` | `TypeOK` |
| | `LiveRedeemable` | `LiveIsRedeemable` |
| | `LeftoversAccounted` | `LeftoversAreAccountedFor` |
| | `BoundedOvershoot` | `OvershootNeedsOverlap` |
| | `ReadySetUp` | `ReadyMeansSetUp` (no run checks it) |
| `AdtLinkageProofs` | `TypeCorrect` | `TypeOK` |
| | `LinksOnce` | `StateLinksOnce` |
| | `LostNeedsOverlap` | `LostFlagNeedsOverlap` |
| | `OrphanNeedsFailure` | `OrphanNeedsFailedDelete` |
| | `UnavailableGone` | `UnavailableMeansGone` |
| `AnnouncementProofs` | `TypeCorrect` | `TypeOK` |
| | `SentHonest` | `RecipientsSentIsHonest` |
| | `VerdictTrue` | `VerdictIsTrue` |
| `DmQueueProofs` | `TypeCorrect` | `TypeOK` |
| | `BreakerCorrect` | `BreakerMatchesWindow` |
| | `SendsHonest` | `SendsAreHonest` |
| | `NobodyIsForgotten` | `NobodyForgotten` |
| `CodePoolProofs` | `TypeCorrect` | `TypeOK` |
| | `ExactDedup` | `DedupIsExact` |
| | `StoredAll` | `LearnedIsStored` |
| | `WholeFiles` | `PoolIsWholeFiles` |
| | `HonestLog` | `AuditNeverOverstates` |

Why an invariant of its own is needed each time: none of the properties says
what a request in the middle of its work knows, and that is what the next
statement relies on.

`CodeGrantProofs` (players finite, limits natural numbers). A transaction that
has picked a code has it locked, and the code is UNUSED underneath
(`CodeLocksHold`); one past its CAS has the applicant locked and PENDING
underneath (`ApplicantLocksHold`); two transactions never hold the same row; an
auto-approved applicant is APPROVED (`AutoIsApproved`); and at most one
auto-approval is between its count and its commit (`AutoTxAlone`), which keeps
its count true until the commit. Most steps only move one request (`QuietStep`);
the work is in `InsertWins`, `LockAndCount`, `Reserve`, `StatusCAS` and `Commit`.
The action property and the refinement follow from `IInv` and from the two
lemmas that say which statements write the applicant and code tables. What
follows the commit needs a second invariant on top, `LogInv`: no two requests past
their commit have decided the same applicant (`OneDecider`), such a request knows
the decision and that no DM, and before its own row no audit row, was written
((`DeciderKnows`), and nothing was written of an applicant nobody decided.

That requests do not deadlock is a safety property, and is proved as one: the
advisory lock is taken first and the applicant row last, whoever holds that row is
about to commit (`HoldersCommit`), and code rows are never waited for. A chain of
waits therefore has at most two links, and a circle would have them without end.

`SurveyProofs` (the forms pass `validateNDA`, `Boot` and `None` are values of
their own). `RequestOK` says what each program counter knows: an acceptance about
to be stamped is stored, a submit about to insert has its acceptance, a stamp
about to be written has its DM. Two arguments need more. An audit row is owed by
the one request that was first to store the acceptance, and its count is still 0
(`AuditIsOwed`). And the DMs a player has got, plus one for each process that may
still tell them, stay within one publication and one per boot (`WithinBudget`),
because at most one request came out of the insert of version 1 (`OnePublisher`).

`WindowWorkerProofs` (any number of replicas, admins and playtests, any TTL and
sweep interval). The lease: a sweep begins right after the refresh that filled its
lease, nobody else can take the row before it has run out, and time takes from the
lease what it adds to the sweep; so until a sweep is as old as the TTL, the
row names its replica and what is left plus the age of the sweep is the TTL
(`SweepIsCovered`, inductive with the types). Two replicas cannot both be named,
which is `SweepsOverlapOnlyLate`; the case that remains, a sweep older than its
lease, does happen, and there the status column has to hold. Every
transition that is made and not audited yet is in the hands of one replica
(`flipped`) or one admin at its audit, and no two hold the same one
(`OneAuthor`). That a second leader adds nothing is the CAS: `StatusSet` shows
that a status which changes was the one the mover had read, and that its audit
count was 0. The refinement is read off that: a CAS that matches its row is a
`Move`, an audit row owed by its one author is a `Log`, and every other step is one
that the lifecycle cannot see.

`PlaytestCreateProofs` (any requests, slugs, limits, batch sizes and restarts).
`JobOK` says for each place of a request what it knows of AGS and what is
there; `LeavesOK` what a failed one leaves behind, before and after its audit
row; `RowOK` that a playtest whose creator was answered stays with what it was
built on, which no other request's cleanup can touch; `BootOK` that the holder
of the mutex is at the bootstrap and has done the steps before its own. The limit is
a counting argument on top (`CreateInv`): a request that passed the check and may
still insert is as good as a row, and rows and such requests together stay below
the limit plus `busiest` (`OverlapOK`). A request that passes the check finds
fewer rows than the limit and is itself under way; one that moves on
turns at most itself into a row.

`AdtLinkageProofs` (any calls, states and builds). One live row, one row per
inserting call, a consumed state for every row (`RowsOK`); a call about to
insert holds a state of its own or has seen the flag (`InserterOK`); an unlink
knows which row it read and how many there were, and that every other row of
that time was dead (`UnlinkOK`). A row can be live without a flag in three ways; the one
that needs no unlink is a callback without a visit, and the proof confines it to
rows that came while the flag was down: any other row has seen the flag (`Flagged`:
set now, or cleared by a known unlink). That the rows never outnumber the calls which
insert is a counting lemma (`RoomToInsert`), and lets `MaxRows` be a type and
not a guard.

`AnnouncementProofs` (any announcements, any finite set of applicants). The
recipients still to do, the one at hand and those done are apart (`JobOK`,
`RecipientOK`); the counter equals the number of SENT rows (`RowOK`), for which a
lost answer of `MarkRecipientSent` is harmless because both writes share a
transaction; a verdict is the last thing a request does (`VerdictOK`).

`DmQueueProofs` (any finite set of applicants, any replicas, requests, capacity
and breaker settings). An ask is with one request, in one slot of one queue, or
with one worker (`OnePlace`), and nothing was delivered for it before its worker
sent it (`Unsent`); so a second delivery would need an ask in two places. Whatever
says `sent` was delivered (`SentIsTrue`). A worker talks to Discord only with its
circuit closed (`ClosedWhileSending`): a failure is then the one that trips it, or
leaves the window under the threshold, which is what `BreakerMatchesWindow` needs.
`NobodyForgotten` is inductive by itself once the moves of an ask are known. The
restart scan needs the phases of the boot (`PhaseOK`: a scan's list exists only
while its replica is sweeping, a worker only has a job once it is draining): with
one replica nothing is written `sent` between the scan's read and its writes.

`CodePoolProofs` (any requests, files, batch and page sizes, retries). `CallOK`
says what each place of a request knows. For a sync that is `FetchOK`: of the
codes AGS held when it began, those among the first k places have been fetched
once k codes have been, because generation only moves a code to a later place; a
short page then means that nothing is left. The holder of the lock is between its
query and its copy (`HolderOK`), so nothing is inserted between another request's
query and copy and `DedupIsExact` is inductive with it. For the audit log the
proof names sets: the rows already logged and the rows each request still has to
log are disjoint subsets of the table (`ClaimsOK`), and a commit claims only rows
that were not there.

Only model-checked: liveness (`RequestsTerminate`, `EveryApprovalIsReported`,
`DueIsAdvanced`, `AcceptingUnblocks`, `EveryCreateEnds`), because the prover does
not reason about fairness here. What those rest on is proved where it is a safety
property: the lock order behind `RequestsTerminate`, and the lease behind
`DueIsAdvanced`. Every other property of a passing run is a theorem.

The theorems that no run checks were model-checked on the same instances before
they were proved; they are left out of the runs because another property there
says more.

## 5. What could follow

1. An abstract specification of the DM queue (asks that are sent at most once, and
   a status per player) and of the code pool (files taken whole, codes learned
   from AGS), with refinements like those of `CodeGrant` and `WindowWorker`.
2. Keyset paging as a walk over a list that changes: every row that was there
   all the time is returned exactly once.
3. The ids an EditSurvey keeps (`normaliseQuestionsForEdit`) and the validation
   of answers, as operators against a reference definition.

## 6. Not modelled

- Authentication, tenancy and the Discord login exchange: stateless checks and
  proxies in front of the handlers; any caller may send any request here.
- The gateway and the generated code of the API (`pkg/pb`): translation only.
- The admin and player UIs and the `pth` command line: clients, whose calls are
  the requests that the modules accept in any order.
- Read-only queries, cursors and worker health.
- Configuration and migrations, beyond the constraints the statements rely on.
- Message texts, metrics and logs, the columns of a CSV line, questions and
  answers, the audit rows that no property speaks of.
- The in-memory AGS, ADT and Discord clients of development.

How much of the code that is: the definitions map about 4,500 lines, nearly all
of the handlers and statements that change state. Of the whole Go code they are an
eighth; two fifths of it are generated API code and a fifth is the command line.
In the packages that hold the service itself, what is left over are
reads, conversions, wiring and the clients of development.
