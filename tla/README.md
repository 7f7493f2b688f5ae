# Verification of AP SiteCare

AP SiteCare is a dashboard for the care of WordPress sites, with a plugin on
each site. The dashboard keeps its state in PostgreSQL and works in several
processes that share the database: the Nuxt server, which serves requests,
check-ins of plugins and webhooks, and any number of automation, email and
backup workers (`apps/dashboard/worker`). Almost nothing is coordinated in
memory. What keeps two workers from running one job, a late answer from
overwriting a newer one, or a dead process from blocking a site, is the order
and the WHERE clauses of the SQL statements; many services read a row, await
something, and write the whole row back.

This directory holds TLA+ models of those parts, the TLC configurations that
check them on small instances, and TLAPS proofs that most of the checked safety
properties hold for every value of the constants. Paths below are relative to `src/`; `server/`
stands for `apps/dashboard/server/` and `plugin/` for `plugins/ap-sitecare/src/`.

In every model module a definition whose comment starts with *Mutant* is a
faulty variant of the definition that follows it. No action uses it. Each checked
property has at least one: with the variant in place of the definition TLC must
find the property violated, which shows that the property depends on the code.

## 1. Modules

| Module | What it models | Main sources |
| --- | --- | --- |
| `Automation` | job engine: jobs, attempts, operation locks, workers, heartbeats | `server/repositories/automation-repository.ts`, `server/services/automation-service.ts` |
| `AutomationProps`, `JobLedger` | its properties; what it promises without leases, workers and time | |
| `EmailOutbox`, `EmailProps` | outbox, email workers, provider webhooks, suppressions | `server/repositories/email-outbox-repository.ts`, `server/services/email-outbox-service.ts` |
| `BackupJobs`, `BackupProps` | backups of a site: planning, queue, worker, retention | `server/services/backup-service.ts`, `server/services/backup-worker-service.ts` |
| `Scheduler` | schedules and the tick that enqueues their jobs | `server/services/automation-service.ts` |
| `Credentials` | credentials of a site, their rotation by check-ins | `server/services/credential-service.ts`, `plugin/SettingsRepository.php` |
| `AnnualCheckups` | annual SiteHealth checkups: planner, jobs, policy | `server/services/sitehealth-service.ts` |
| `SiteHealthReviews` | drafts, published versions, client answers, cleanup proposals | `server/services/sitehealth-service.ts` |
| `Entitlements` | plans, scheduled changes, suspension, exceptions, evaluation | `server/services/entitlement-service.ts` |
| `ArchivePackage` | a package from its archives to Dropbox, in chunks | `server/backups/dropbox-storage-provider.ts`, `server/services/backup-worker-service.ts` |
| `Notifications` | recipients, the queueing of an event, provider settings | `server/services/notification-service.ts` |
| `Registry` | clients, sites, the storage folder of a client | `server/services/client-registry-service.ts`, `server/services/site-service.ts`, `server/repositories/backup-repository.ts` |
| `HostingerPortfolio` | synchronization of the hosting accounts | `server/services/hostinger-portfolio-service.ts` |
| `UpdateInventory` | which version a site is shown to have; the refresh job | `server/services/wordpress-connector-service.ts`, `plugin/DataCollectorService.php` |
| `UptimeMonitor`, `UptimeProps` | health events, incidents, TLS alerts, maintenance | `server/services/cloudflare-service.ts` |
| `UpdateReports` | the plugin's queue of update activities and its check-ins | `plugin/UpdateMonitorService.php` |
| `HostingSource` | the hosting connection that backups are made from | `server/services/backup-service.ts` |
| `DashboardRequests` | signed requests to the plugin, their claims, plugin updates | `plugin/SettingsRepository.php`, `plugin/PluginUpdateService.php` |
| `PluginRollout`, `PluginRolloutProps` | one central plugin rollout under the job engine | `server/services/plugin-rollout-service.ts` |
| `BackupDestinations` | destinations of backups, Dropbox authorization, choice of a site | `server/services/backup-destination-service.ts` |
| `CloudflareZone` | the health check at Cloudflare and its interval | `server/services/cloudflare-service.ts` |
| `SecurityControls` | security evidence and the two queries that show it | `server/repositories/cloudflare-repository.ts` |
| `PluginPackages` | uploads, package files and rows, download tokens | `server/services/plugin-package-service.ts` |
| `Accounts` | invitations, passwords, sessions, trusted devices of one account | `server/services/authentication-service.ts`, `server/services/identity-admin-service.ts`, `server/repositories/identity-repository.ts` |
| `Challenges` | one-time codes and recovery codes of one account | `server/services/mfa-service.ts` |
| `Recoveries` | restore plans and the evidence a rollout needs | `server/services/backup-service.ts`, `server/services/plugin-rollout-service.ts` |
| `MCAutomation`, `MCEmail`, `MCBackup` | instances of one model each | |
| `MCSite`, `MCServices`, `MCOperations` | instances of several models side by side (section 3) | |
| `AutomationProofs`, `EmailProofs`, `BackupProofs`, `EntitlementsProofs` | theorems about one model each, with their proofs (section 8) | |
| `SiteProofs`, `SiteHealthProofs`, `ServicesProofs`, `OperationsProofs` | theorems about the parts of the composite modules | |

## 2. The system

*Automation engine.* `automation_jobs` (status, attempts, lease, cancellation
request), `automation_job_attempts`, `automation_operation_locks`. The
dashboard, the scheduler and other services enqueue under an idempotency key;
workers recover stale jobs, claim one, run its handler with heartbeats and
record the result. Handlers run checkups, rollouts, refreshes, Cloudflare
reconciliation and backup planning: each model that contains jobs takes from
the engine what section 4 shows of it, a job that may be run again after a crash
or beside a run that lost its lease. *Hard*: a worker that is delayed past its
lease goes on; `SKIP LOCKED` hides rows of open transactions; the catch block
runs for failures that follow a committed success.

*Scheduler.* `automation_schedules`. Every worker registers the system schedules
and ticks before it looks for a job. *Hard*: several workers do it at once with
a time each fixed before; a schedule is saved as a whole row.

*Email outbox.* `email_outbox`, `email_suppressions`, `email_delivery_events`.
Services queue messages in their own transactions; email workers claim and
send; webhooks report. *Hard*: the provider accepts and the answer is lost;
webhooks come late, twice and out of order, also before the message is marked
sent.

*Notification recipients and settings.* Recipients with categories per site, one
provider configuration with its key and webhook token. *Hard*: recipients change
between the statements that queue the messages of one event; blank form fields
keep what was read.

*Long-term backups.* `backup_artifacts`, `backup_jobs`, their destinations and
objects, `backup_policies`, `hosting_connections`, `backup_destinations`, restore
plans. The planner or an administrator queues a backup; a backup worker reads
the source, builds archives, uploads and records them; retention only marks.
*Hard*: a stalled worker is taken for dead and goes on; rows written whole after
a read; uploads whose last chunk decides; three queries for one decision.

*SiteHealth.* Policies, checkups, reviews with versions, approvals and cleanup
proposals. *Hard*: `runCheckup` is several statements and may run twice; edits
and publications overlap.

*Plans and entitlements.* Subscription, scheduled transition, exceptions and
activation intents of a site; suspension of its client. *Hard*: changes are
previewed before the transaction that makes them; an evaluation is three reads.

*Cloudflare.* One health check per site at the provider, a connection row, a
monitor row, incidents, observations, TLS alerts and maintenance windows, and
evidence about security controls. *Hard*: notifications are repeated and
reordered; calls read the monitor before their transaction; provisioning is a
series of provider requests and statements.

*Sites and their plugin.* Clients, sites and credentials; check-ins, update
reports and inventories; signed requests from the dashboard to the plugin.
*Hard*: lost answers during a rotation; PHP requests that overlap without locks;
reports that overtake each other.

*Central plugin updates.* Packages, rollouts with targets and batches, download
tokens, recovery evidence. *Hard*: none of it is one transaction; the site may
have been updated although its answer was lost.

*Accounts.* Users, invitations, passwords, sessions, challenges and trusted devices.
*Hard*: most requests read a row, await, and write the whole row back; a sign-in
is a series of statements that an administrator, a reset or an enrolment may cross.

*Hostinger portfolio.* One row per site, rewritten by synchronizations that read
the listing page by page. *Hard*: the listing moves under the reader; a failure
in the middle marks every row.

## 3. How the runs are built

`MCAutomation`, `MCEmail` and `MCBackup` each extend one properties module and
give its constants values. The other models are instantiated by three composite
modules. A behaviour of a composite runs one of its parts, chosen in the
initial state (`part`); the rows of every other part are absent. States of the
parts therefore add up rather than multiply, and nothing is claimed about the
interaction of two parts beyond what each model contains of the others. Where
components do interact, the interaction is in the model of the one that depends:
jobs in `AnnualCheckups`, `UpdateInventory` and `PluginRollout`, revocation
and check-ins in `Credentials`, backups in `Recoveries` and `Registry`. Two
actors (workers, requests, webhooks, PHP processes) take part in every part, and
runs use symmetry among actors and among things where only safety is asked.

| Run | Module | Parts | Properties |
| --- | --- | --- | --- |
| `automation_claims` | `MCAutomation` | | `AttemptsSound`, `ClaimsSound`, `ImplementsLedger` |
| `automation_live` | `MCAutomation` | | `JobEnds`, `LockReleased` |
| `email` | `MCEmail` | | `OneSender`, `AttemptsWithBody`, `EvidenceForStatus`, `DecisionsHold`, `EveryMessageSettles` |
| `backup_runs` | `MCBackup` | | `OneRunnerPerJob`, `CompletedIsWhole`, `CompletedIsFinal`, `JobEnds` |
| `site_parts` | `MCSite` | schedules, credentials, checkups, reviews, plans, archives, recipients, settings, hosting, registry, inventory | `OncePerPeriod`, `DueUntilEnqueued`, `AccessFollowsCredential`, `YearlyWithReview`, `RestsOnPublished`, `PublishedUnlessOverlapped`, `PlansSound`, `PackageSound`, `NotificationsSound`, `SitesSound`, `InventorySound` |
| `services_parts` | `MCServices` | uptime, reports, sources, requests, planning, accounts, codes | `RowsAndAlertsAgree`, `RecoveredIsFinal`, `ChangesReported`, `SourceIsVouched`, `RequestsSound`, `OncePerMonth`, `SignInSound` |
| `operations_parts` | `MCOperations` | rollouts, destinations, zone, security, packages, restores, evidence | `ShownAsUpdated`, `JobsWaitTheirTurn`, `EndedJobKept`, `DestinationsSound`, `ZoneSound`, `ControlsSound`, `PackagesSound`, `RecoveriesSound` |

Five more runs each refute one sentence of the documentation or of a comment
(section 7). A composed property is the conjunction of the named promises of its
module, the type invariant among them: `PackagesSound`, for instance, is
`PackagesTypeOK`, `RowsHaveFiles`, `SitesReceiveAnnounced` and
`NothingLeftBehind`, each stated on its own.

Several promises hold only while certain calls do not overlap. Such a module
has a history variable that records the overlap (`overlapped`, `crossed`,
`torn`, `mixed`, `cut`, `late`, `interrupted`, `overwritten` and the like) and the
property excepts exactly those behaviours. The comment of the variable says
when it is set. The sections below say what TLC finds without the exception.

## 4. The core engines

### Automation (`Automation`, `AutomationProps`, `JobLedger`)

`job`, `attempt` and `lock` are the three tables, keyed by idempotency key and
by (scope, operation). A lease token, in the code a random UUID, is the number
of the attempt its claim opened: both are unique among the claims of one job,
and the statements compare tokens of one job only. A worker record is the
program counter of `runNext`, the captured `now`, the claimed snapshot and the
caught error. `beat` is a heartbeat transaction that is open: between its update
of the job row and its commit the row is locked, `SKIP LOCKED` passes over it
and other statements on it wait. Timestamps are relative to the current time:
`Tick` makes each of them one older, down to `-MaxStall`.

| Action | Code |
| --- | --- |
| `Enqueue`, `RequestCancellation`, `Retry` | statements of AutomationRepository of those names |
| `RunNext`, `RecoverStale`, `ClaimNext`, `NothingToClaim` | `runNext` up to the claim; recovery and claim are one transaction each |
| `Start`, `HandlerMissing`, `Handle`, `Check` | handler lookup, `throwIfCancellationRequested`, the handler's three functions |
| `Transition`, `Stamp` | the two statements of `transitionActive` |
| `Succeed`, `Audited` | `finishSucceeded`, the audit entry after it |
| `StatementFails`, `Fail`, `FinishLost` | an await that throws, the catch block, its swallowed failure |
| `Heartbeat`, `HeartbeatCommit` | the two halves of the heartbeat transaction |
| `Crash` | the process ends and is restarted; its open transaction is rolled back |

A worker whose lease has run out takes all these steps as well. Only the token
in the WHERE clauses stops it.

- `AttemptsSound`: leases, statuses and attempt rows agree; only the newest
  attempt of an active job is open; a queued job has an attempt left or has used
  up the cap.
- `ClaimsSound`: a lock row names an active job and its current claim; one
  worker holds a job, and it knows its phase.
- `ImplementsLedger`: the engine refines `JobLedger`. The three phases are one
  state, attempts become verdicts, every step opens or closes at most one attempt
  and sends the job where the verdict allows, or is a stutter. `ResultIsFinal` and
  `ClosedAttemptKept` say the same of one job and one attempt and, like
  `SuccessIsVerified`, have no run of their own.
- `JobEnds`, `LockReleased` under `FairSpec`: a queued job ends, through crashes
  and lost leases, unless a cancellation request is left over; an operation lock
  is always given up.

The model also shows a stale worker stamping its phase on an open attempt of a
later claim (`automation-repository.ts:302`): the statement names neither the
claim nor the phase.

*Fairness.* Processes go on (`restart: unless-stopped` in the compose file), an
open heartbeat commits, time passes. `Work(w)` has strong fairness: a statement
on a row that a heartbeat has locked is enabled only between heartbeats, and
PostgreSQL queues it. `Tick` has strong fairness for the same reason: a worker
about to claim disables it for a moment. Nothing is assumed of requests,
heartbeats, handlers that throw, or crashes.

### Scheduler (part *schedules*)

`ensure*` is `FindSchedule` and `SaveSchedule`, `tick` one transaction per worker
that enqueues every due schedule up to the limit under `schedule:<id>:<due-at>`
and moves it on; `Crash` ends a worker anywhere. Each worker's time is fixed
before its first statement and may be late. `OncePerPeriod`: jobs of one schedule
are an interval apart and the next is due an interval after the last.
`DueUntilEnqueued`: what is due stays due until its job exists. Both are stated
for schedules registered once: TLC finds that a schedule that two workers
register at once may run twice within its interval (`automation-service.ts:167`).
Disabling a site's schedules and changing an interval are not modelled.

### Email outbox (`EmailOutbox`, `EmailProps`)

A message is a row keyed by its idempotency key; lease tokens and provider
message ids are attempt numbers. Time is what the statements read of it:
`leaseExpired` and `due` may become true at any moment. `accepted` is the
provider's record: an attempt enters it when the provider takes the request,
whether or not the answer arrives. `Sweep` and `Claim` are the two parts of the
claim transaction: the first suppresses and locks waiting rows of suppressed
recipients, which other claims skip. `Send` has three outcomes: accepted,
accepted with the answer lost, refused. `RecordBrevo` is a webhook: every event
may arrive after the provider has accepted a request, again and in any order.

Run `email`: two workers, one message with two attempts, one crash, the events
`delivered`, `soft_bounce` and `complaint` (a hard bounce has the status of the
one and the suppression of the other).

- `OneSender`: a message being sent has one sender that can settle it.
- `AttemptsWithBody`: a message that can still be sent has its body, and the
  provider accepts at most `max_attempts` requests for it.
- `EvidenceForStatus`: what is shown as sent or delivered was, of that request.
- `DecisionsHold`: a recorded acceptance is final; a lifted suppression returns
  only with a new event.
- `EveryMessageSettles`, with fair workers, leases and delays (weak fairness of
  `RunOnce`, `LeaseRunsOut` and `BackoffEnds`; the workers poll for ever and time
  passes, while nothing is assumed of webhooks).

One message is enough: the statements touch the row whose id they name, and the
only one that couples messages is the suppression sweep of their recipient, which
one message meets as well. Also visible: the provider may accept a second request
after an answer was lost (`email-outbox-service.ts:108`), and a `delivered` event
that precedes `markSent` leaves the message in `sent` until it is repeated.

### Backups (`BackupJobs`, `BackupProps`)

The backups of one site, numbered in the order of creation. A job is claimed
once at most, so the worker stands for the claim token. Time is counted in
calendar months, the unit of the schedule; a heartbeat is `fresh` until
`HeartbeatRunsOut` makes it `stale`, which may happen to a worker that is alive.
`Queue` is the transaction `createExecution`, with the unique index on site and
period. `RetryFailed`, `CreateArtifact`, `CreateJob` and `SaveDestinations` are
the separate statements of `retryFailedBackup`. `PlanScheduled`, `Find`, `Queue`
and `Advance` are `planScheduledBackup`, with the policy row read at its start
and written back at its end; `Advance` adds one or two months, because
`setUTCMonth` carries the 29th to the 31st over a short month.

`backup_runs` (two workers, a request, two backups of two files, one fault, one
month and one setting, hence `Proceed` without `NextMonth` and `Configure`; weak
fairness of the workers and of heartbeats running out for a job nobody runs):
`OneRunnerPerJob`; `CompletedIsWhole`, every file of a completed backup lies
verified at one destination; `CompletedIsFinal`; `JobEnds`. Part *planning* of
`services_parts` (two requests, two destinations, three backups, two months):
`OncePerMonth`, although planning, policy edits and repairs of a lost cursor
overlap. It has no workers: planning looks at the existence of a backup, never
at its status.

Also reached: a worker whose job was failed in the meantime writes its artifact
back to running, and nothing ends it (`backup-worker-service.ts:172`); a policy
disabled while a backup is planned is enabled again (`backup-service.ts:380`); a
short month gets no scheduled backup (`backup-service.ts:379`).

### Packages of a backup (`ArchivePackage`, part *archives*)

One backup to two destinations: its archives are described, checked against
the checksum file and uploaded in chunks, with files from empty to one byte more
than two chunks. A destination has a refresh token, and its access token may end
between any two requests, or a configured access token (`granted`), which has an
end that nobody knows. `PackageSound`: a recorded object is whole and in order; a
completed package is all that was asked for at every destination; a destination with
a refresh token sends no request with an access token that has ended. A configured
one is sent after its end too (`dropbox-storage-provider.ts:237`): the request is
refused and the package fails, it does not complete in part. Excepted are a file
that changes after its checksum was verified (`late`), which nothing would notice
since only sizes are compared, and tokens that live for less than the five minutes
always believed.

### Hosting connection (`HostingSource`, part *sources*)

The row `hosting_connections` is read and written as a whole by `saveSitePolicy`,
by a check-in and by a connection test, its key by a query of its own; jobs are
planned from it and read it again. `SourceIsVouched`: a source is ready only
because a test or a check-in said so, and a test vouches only for the place and
key it was made with. `torn` excepts rows that any of these calls pairs with a key
of another time than the row: a test that began before a new key was saved writes the old one
back. Not modelled: database password, path checks, transfers. `ReportedPathUnread`
(the comment at `backup-service.ts:309`) is violated as well: a worker does
read a path that a check-in reported (`backup-worker-service.ts:103`).

### Destinations (`BackupDestinations`, part *destinations*)

Saving, testing, connecting to Dropbox, and choosing a destination for a site.
`DestinationsSound`: a credential fits the mode of its destination, an
authorization is used once and in time, and what a backup resolves was enabled
and chosen at some moment since it began to look. `mixed` excepts a row written
over one it was not read from and a form that keeps a credential of another kind
or of another row;
TLC violates the first part as soon as it is dropped. One edit in between may
leave a backup without a destination, never with a wrong one.

## 5. Sites, plans and SiteHealth

*`Credentials`.* Requests of the plugin overlap (two at once), answers are lost,
secrets fall due for rotation, the overlap of the previous secret ends, an
administrator issues and revokes. `AccessFollowsCredential`: rotation never locks
a plugin out and both sides can sign for each other; after a revocation nothing
is accepted. `crossed` excepts issues and revocations that a request crosses:
`beginAutomaticRotation` reads the active credential before its transaction. It
also excepts an offer that is held back until the rotation after it, which takes
three requests under way at once.

*`AnnualCheckups`.* The planner keeps the policy of one site and requests the
checkup of a due cycle; a run is `ReadCheckup`, `Begin`, `Collect`, `Complete`,
`ReadPolicy`, `SavePolicy`, with crashes and lost leases between them.
`YearlyWithReview`: a draft-ready checkup has its review, and no two cycles are
completed within a year of each other. The clock counts a year as two ticks.
`redone` excepts a checkup that was completed, was then marked failed by another
run of its job, and is given another attempt by an administrator: its second
completion moves the policy to a date that the year of the first no longer
protects. It takes five faults, more than the run has; TLC finds it with them.

*`SiteHealthReviews`.* `createOrRefreshDraft`, `updateDraft`, publication, mail,
answers and proposals, each with what it read earlier. `RestsOnPublished`:
cleanup rests on an answer that approved all of a version, cleanup and mail on
nothing that version did not say when published. `PublishedUnlessOverlapped`:
what was published stays. When an edit overlaps a publication it does not:
`PublishedIsImmutable` ("Published versions remain immutable",
`docs/SITEHEALTH_CHECKUPS_AND_REVIEWS.md:79`) is then violated
(`sitehealth-service.ts:468`).

*`Entitlements`.* Upgrades, downgrades, cancellations and reactivations, previewed
and committed in separate steps, suspension and assignment of the client,
exceptions with half-open periods, and evaluation in three reads. `PlansSound`:
intents and scheduled changes fit the plan in effect; two exceptions of one
capability never apply at once; what an evaluation grants was in effect at some
moment since it began, unless two changes fall in between. That a cancelled
change is the one the administrator saw is neither checked by the code nor
claimed. Overrides of numeric settings differ only in their value.

*`Notifications`* (parts *recipients* and *settings*). Saves and deletions of
recipients overlap with the transaction that queues the messages of an event.
`NotificationsSound`: recipients are as one save left them; who is due a message
throughout is told, once; nobody is told who was subscribed at no moment of the
call (`ever`) or whose address was suppressed at every one (`free`); keys and
tokens are those entered last. No single moment at which both hold is promised:
with four operations TLC shows a recipient who is changed after the
suppressions were read, lifted, and told. Excepted: an address that passed from one recipient to another (`readdressed`), two
administrators who save settings at once (`doubled`).

*`Registry`.* Registration, assignment, edits and disabling of sites, renaming
and suspension of clients, first backups that create the folder of a client.
`SitesSound`, its half `RegistrySound`: a rename keeps the status that was decided, a disabled site stays
disabled unless a request held its row meanwhile (`contended`), and a folder
belongs to one client.

*`HostingerPortfolio`.* Two synchronizations read a listing that moves page by
page, save sites one by one, and mark all when anything fails. The other half of
`SitesSound` is `PortfolioSound`:
a site is not found only if the listing did not show it; a failure hides nothing
that was known. `tangled` excepts overlapping synchronizations, which may put an
older listing back, and a listing longer than what is read
(`shifted`).

*`UpdateInventory`.* What the plugin collects from WordPress's cached offers,
reports that arrive late and in another order, the statements of a check-in, the
refresh job. `InventorySound`: the newest report is shown, a verified refresh
shows a version the site had after it was asked for, health and inventory agree.
Excepted: reports that overtake each other and check-ins that end in the middle;
the health is then that of the older report. The age of a snapshot is not
modelled.

*`UpdateReports`.* The options of `UpdateMonitorService` for one component, with
PHP requests that overlap, cache options or share an object cache, and end
anywhere. The queue is the set of its activities, which are numbered in the order
they were noted. `ChangesReported`: the baseline never moves past a change that was not
noted, and an activity leaves the queue only when the dashboard has it or newer
ones crowd it out. Overlapping writes of the queue (`overwritten`) lose
activities; "removes only acknowledged local events"
(`docs/WORDPRESS_UPDATE_INTELLIGENCE.md:72`, `OnlyAcknowledgedRemoved`) is violated by
them and by the limit.

*`DashboardRequests`.* Requests are delivered twice, late and with a clock that is
off; each is claimed by an option of its own, and a list of claims decides what
to delete. `RequestsSound`: a request is carried out once, unless the limit
removed its claim; no request takes the plugin back to an older version, unless
an installation crosses another.

*`Accounts`* (part *accounts*). One e-mail address: invitations, the row of its user,
its password and reset links, sign-in with and without a code, sessions, trusted
devices, administration, and the four statements that enrol the e-mail factor.
Requests keep what they read (`call`) and write whole rows back; the writes of one
transaction are one step. `SignInSound`, its half `AccountsSound`: the address gets
its account from one invitation; the row is what was decided of it last and, while
no enrolment is under way or was cut off, says that it is enrolled exactly if a
factor is; what was opened or trusted rests on the present password and an active
account; a session that was idle too long stays idle; a link sets one password.
Each excepts requests that were overtaken (`late`), rows written over a change
(`torn`) and enrolments that ended between two statements (`cut`).

*`Challenges`* (part *codes*). One-time codes and recovery codes of one account;
`SELECT ... FOR UPDATE` holds the row of a challenge, while the factor with its
recovery codes is read without a lock. `ChallengesSound`: a challenge is answered
once at most and never after it was replaced or failed too often, without
exception; one challenge of a purpose is open and the limit per quarter of an hour
is kept unless issues overlap (`crowded`, `rushed`); a recovery code is good once
unless two requests took different codes of one list (`revived`).

## 6. Cloudflare and central updates

*`UptimeMonitor`.* Webhooks and reconciliation as calls of several statements;
events are repeated and reordered, windows open and close, provisioning and loss
of the entitlement write the monitor. `RowsAndAlertsAgree`: under every
interleaving one incident and one TLS alert are open at most, alerts match rows
and only downtime counts; while calls do not overlap (`overlapped`) and nothing takes
the monitor away (`interrupted`), an incident rests on as many distinct events as the
threshold, the monitor knows what is open, and what is excluded is not counted
unless retention has deleted what told that it was counted (`purged`).
`RecoveredIsFinal`: a recovered incident is not opened again. Once calls overlap
TLC finds one event counted twice and a recovered incident reopened
(`cloudflare-service.ts:511`); beside another open incident that write meets the
unique index and its call is undone, like a second confirmation (`SaveRejected`).
The model
uses the default threshold of two; with a higher one the second failure is
remembered nowhere.

*`CloudflareZone`.* Provisioning, reconciliation, observations and disabling, cut
at every provider request and statement. `ZoneSound`: one health check however
often a call is cut off and begun again, named by its row, with an interval the
monitor knows. Two provisions that overlap make two checks. A change of the interval
whose answer is lost is taken to have failed (`cloudflare-service.ts:723`): the check
has the new interval and the monitor remembers the old one (`unheard`) until a later
change or provisioning is answered. When the lost change was to the fast interval
and the outage ends, no success asks for the interval of the plan again.

*`SecurityControls`.* Synchronizations and statements of technicians. `ControlsSound`:
the detail of a site and the portfolio, two different queries, show the same;
a statement holds against synchronizations and replaces earlier ones.

*`PluginPackages`.* Uploads with every file operation, failures and crashes between
them, damage to stored files, tokens of downloads. `PackagesSound`: a row names the
file of an inspected archive; a site receives what was announced or nothing, a
token works once and in time; files are left behind only by uploads that broke
off or raced for one archive.

*`PluginRollout`* (part *rollouts*). One rollout from draft to its end; two
sites, one per batch; a job of one attempt ends done, cancelled or parked, and a
lost lease lets another job of the site run beside it. Administrators overlap: two
may confirm at once, both past the check that the request is pending
(`action-request-service.ts:54`), while one saves a selection it was let in for
when the rollout was a draft. `JobsWaitTheirTurn`: no job before the review
(`ReviewedBeforeJobs`); none outside the canary batch before every canary was tried,
unless `regrouped` (`CanaryFirst`); and, without exception, none for a site that no
confirmation ever put in its canary batch before one that was put there was tried
(`TrialFirst`; `trial` collects those sites). `ShownAsUpdated`: succeeded targets
were updated, and so were the sites of a completed rollout, unless `regrouped`.
`EndedJobKept`: an ended job is not enqueued again. `regrouped` records that the
selection or a batch changed once batches existed. Confirmations alone do not set
it, for they assign the same batches to the same selection; a selection between
them, or late, does, and then the promises it excepts are false of the code: a
confirmation enqueues the canaries its own `prepareBatches` returned
(`plugin-rollout-service.ts:143`), though another one has put them in the later batch
by then and the canary it has put in their place was never tried; TLC shows this with
three administrators, one worker and four requests, in 15 steps. The model reaches
other states a reader of the code should know of:

- a selection saved between the checks of `confirm` and `prepareBatches` brings in
  a site that is not ready for recovery (`plugin-rollout-service.ts:116`, `279`);
- two reviews of one request both write; a rejection may follow the approval
  that started the jobs (`action-request-service.ts:54`);
- a failure in the catch block is written over a recorded success after another
  worker has counted it for the release (`plugin-rollout-service.ts:193`);
- a target that has succeeded is marked queued by the enqueuer, for its job is
  committed first (`plugin-rollout-service.ts:262`);
- a job that finds the limit reached is parked and its target stays queued, which
  `retryTarget` refuses (`plugin-rollout-service.ts:168`); a worker that dies after
  `setTargetRunning` leaves a target that counts for ever (`:171`).

*`Recoveries`* (parts *restores* and *evidence*). The preflight with its three
queries, outcomes technicians record, evidence that is confirmed or derived (the
backup is looked for in one statement and the evidence saved in another) and
expires. The backup has a worker, which may go on after its job was taken from it;
what it finishes then is not written. `RecoveriesSound`: a plan that passed is for a complete backup, a verified
download stays on record unless two records overlap, and a rollout is confirmed on
evidence that is recent enough at that moment. Execution and retries do not check it
again; `docs/CENTRAL_PLUGIN_UPDATES.md:50` leaves that to the administrator.

## 7. What the documentation says otherwise

Five runs check a sentence of the repository that the code does not keep. TLC
finds the counterexample that is summarized here; further sentences of the same
kind follow without a run.

- `automation_lock_lost`, `ActiveOwnsLock`. "An active job owns both a job lease
  and its operation lock" (`docs/AUTOMATION_AND_NOTIFICATIONS.md:44`). While a heartbeat
  transaction is open, recovery skips its job, but `claimNext` takes over the
  expired operation lock for another job. The heartbeat then extends the lease
  without noticing that the lock is gone: two jobs of one operation are active
  (`automation-repository.ts:253`).
- `automation_cancel_lost`, `CancellationEnds`. "Cancellation is immediate for
  queued jobs and cooperative for active jobs" (same file, line 50). An active job
  that was asked to stop and then fails transiently or loses its lease is queued
  with the request still set; `claimNext` never selects it (`:233`). The run assumes
  `FairSpec` of `Automation`.
- `uptime_closed`, `SuccessClosesIncident`. "A successful Cloudflare observation
  immediately closes an incident" (`docs/CLOUDFLARE_UPTIME_AND_SECURITY.md:88`).
  `processSuccess` recovers only the incident of a monitor in status `incident`.
  Provisioning, a failure inside a maintenance window and `disableUptime` write
  another status over it; the next success leaves the incident open, and every
  later confirmation is refused by the unique index (`cloudflare-service.ts:612`).
- `annual_lost`, `AnnualCheckupHappens`. "SiteCare Plus and SiteCare Pro receive one
  automated annual Checkup" (`docs/SITEHEALTH_CHECKUPS_AND_REVIEWS.md:20`). A checkup
  whose site is not entitled when it runs is cancelled; the policy keeps its
  date, and the planner skips a cycle that has a checkup in any status
  (`sitehealth-service.ts:106`). After the site is entitled again it never gets
  one. The run assumes weak fairness of the daily planner, of the worker, of the
  recovery of expired leases and of time, and a worker that never fails.
- `source_ready`, `ReadyWasTested`. SSH details "must pass a connection test before
  backup execution" (`server/backups/ssh-sftp-connection.ts:33`). A check-in over an
  untested SSH source makes the row ready and keeps the remote fields
  (`backup-service.ts:305`); when the administrator saves the same form again,
  nothing has changed and the status stays ready.

Without a run, each violated by TLC and stated in its module:

| Definition | Sentence | What happens |
| --- | --- | --- |
| `ConcurrencyRespected` (`PluginRolloutProps`) | `docs/CENTRAL_PLUGIN_UPDATES.md:31` | counting the running targets and marking one's own are two statements, and the operation lock is per site (`plugin-rollout-service.ts:167`) |
| `BodiesPurged` (`EmailProps`) | `docs/AUTOMATION_AND_NOTIFICATIONS.md:101` | when the last attempt ends by its lease running out, `recoverStale` makes the failure terminal and keeps both bodies |
| `DestinationKept` (`BackupProps`) | `docs/BACKUP_DESTINATIONS.md:10` | `retryFailedBackup` inserts the queued job before its destination; a worker that claims it in between falls back to the Dropbox of the environment (`backup-service.ts:682`) |
| `PublishedIsImmutable` (`SiteHealthReviews`) | `docs/SITEHEALTH_CHECKUPS_AND_REVIEWS.md:79` | an edit that overlaps a publication writes its older row back |
| `OnlyAcknowledgedRemoved` (`UpdateReports`) | `docs/WORDPRESS_UPDATE_INTELLIGENCE.md:72` | overlapping writes of the queue, and its limit, drop activities |
| `ReportedPathUnread` (`HostingSource`) | `server/services/backup-service.ts:309` | the worker reads a path a check-in reported |

Hazards of the code that the models leave out or that no property states: a
claim looks at 25 candidates only, so 25 older jobs of locked operations hide a
claimable one (`automation-repository.ts:236`); two claims lock operation rows in
different orders, and PostgreSQL aborts one (`:242`), which shows here as a failing
statement; an error message of a plugin of more than 1000 characters
(`wordpress-update-service.ts:164`).

## 8. What is proved

| Module | Theorem | Property |
| --- | --- | --- |
| `AutomationProofs` | `TypeCorrect` | `TypeOK` |
| | `AttemptsAreSound` | `AttemptsSound` |
| | `ClaimsAreSound` | `ClaimsSound` |
| | `ImplementsTheLedger` | `ImplementsLedger`: the engine implements `JobLedger` |
| `EmailProofs` | `SendersAreExclusive` | `OneSender` |
| | `LossesAreBounded` | `AttemptsWithBody` |
| | `StatusRestsOnEvidence` | `EvidenceForStatus` |
| | `DecisionsStand` | `DecisionsHold` (two action properties) |
| `BackupProofs` | `RunnersAreAlone` | `OneRunnerPerJob` |
| | `CompletedAreWhole` | `CompletedIsWhole` |
| | `CompletedStays` | `CompletedIsFinal` (action property) |
| | `MonthsHaveOneBackup` | one planned backup a month |
| `EntitlementsProofs` | `WaitingAlwaysFitsPlan` | `WaitingFitsPlan` |
| | `ExceptionsNeverCompete` | `OneExceptionAtATime` |
| | `GrantsWereInEffect` | `GrantWasInEffect` |
| `SiteProofs` | `PlansAreSound` | `PlansSound` |
| | `SitesAreSound` | `SitesSound` (registry and hosting accounts) |
| | `InventoryIsSound` | `InventorySound` |
| | `BackupPackagesAreSound` | `PackageSound` |
| | `AccessAlwaysFollows` | `AccessFollowsCredential` |
| `SiteHealthProofs` | `OncePerPeriodHolds` | `OncePerPeriod` |
| | `DueIsNeverLost` | `DueUntilEnqueued` (action property) |
| | `CleanupRestsOnPublished` | `RestsOnPublished` |
| | `PublishedStays` | `PublishedUnlessOverlapped` (action property) |
| | `CheckupsAreYearly` | `YearlyWithReview` |
| | `NotificationsAreSound` | `NotificationsSound` |
| `ServicesProofs` | `OncePerMonthHolds` | `OncePerMonth` |
| | `RequestsAreSound` | `RequestsSound` (action property) |
| | `ChangesAreReported` | `ChangesReported` |
| | `SourcesAreVouched` | `SourceIsVouched` |
| | `SignInIsSound` | `SignInSound` |
| | `IncidentsAreSound` | `RowsAndAlertsAgree` |
| | `RecoveredStays` | `RecoveredIsFinal` (action property) |
| `OperationsProofs` | `PackagesAreSound` | `PackagesSound` |
| | `RolloutsWaitTheirTurn` | `JobsWaitTheirTurn` |
| | `RolloutsShowWhatHappened` | `ShownAsUpdated` |
| | `EndedJobsStayEnded` | `EndedJobKept` (action property) |
| | `RecoveriesAreSound` | `RecoveriesSound` |
| | `ControlsAreSound` | `ControlsSound` |
| | `HealthCheckIsKnown` | `ZoneSound` |
| | `DestinationsAreSound` | `DestinationsSound` |

They hold for every set of workers, calls, sites, files, addresses and so on, and
for every cap, lease, interval and bound, under the assumptions the modules
name: `OperationAssumption` and `LimitAssumption` (each job has an operation,
caps and the lease are positive), `EmailAssumption`, `BackupAssumption`,
`EntitlementAssumption`, and for the composite modules `SiteAssumption`,
`ServicesAssumption` and `OperationsAssumption`, which are the assumptions of
their parts. They say that bounds are natural numbers, that periods, limits and
chunks are positive and that the identities of a part differ from its "nothing".
TLC evaluates every assumption in the passing runs. One thing is fixed instead of
assumed: `MCServices` gives the uptime monitor three failures, one
event of every other kind and the default threshold of two, for any number of
calls, incidents and alerts.

Each proof shows an inductive invariant with one lemma per action; lemmas about
the SET clauses and about the loops say what a statement leaves alone. A
composite module runs one part in a behaviour (section 3), so an invariant of a
part is `part = "x" => Inv`: the steps of the part keep it, and those of the
others keep `part`. Most properties are far from inductive; what each needs:

*Automation.* That two workers never hold one job after a claim needs that no
stale token equals the token the claim writes: `TokenOfPastClaim`. That a failing
holder requeues its job only with an attempt left needs its snapshot of
`max_attempts` to be the job's while the claim is current: `HolderKnowsLimit`. That
a new job is queued with an attempt left needs `AbsentIsFresh`. `QuietStep` covers
all steps that move only timestamps, flags and local control. For the ledger,
every action is a step of `JobLedger` under the mapping or leaves it as it is
(`PlaceFor`, `VerdictsFor`).

*Email.* Of every row: accepted requests and tokens belong to counted attempts
(`Counted`), a recorded id is of an accepted request and the status rests on it
(`Recorded`), the body is there while it may be sent (`HasBody`). Of every process:
what it remembers of its claim belongs to an attempt already counted
(`Remembers`), and no two remember one claim or have swept one row (`Apart`). The
rows alone are not inductive: a process whose lease ran out settles with its own
token, and only `Remembers` and `Apart` say that it differs from that of every
later claim.

*Backups.* A worker past its claim works on a job that was claimed and whose backup
is not complete (`JobWasClaimed`, `NotYetCompleted`), what it has uploaded is there
(`UploadsAreThere`), and a planner that is about to insert a month holds the only
row there will be for it (`OneForPeriod`).

*Entitlements.* What waits fits the plan because every transaction writes
subscription, transition and intents together (`PlanInv`), however old the preview
of the change (`Asks`). Exceptions never compete because live ones of one
capability have periods that lie apart, past and future (`Apart`), which is
stronger than the property. A grant that is read from several tables at several
moments was in effect at one of them: `Follows` carries what each reading has
established.

*Schedules.* `PeriodsApart` needs that the next due time is an interval after every
job (`PeriodBeforeNext`), which a late worker preserves because the time it
fixed is not ahead of the clock (`TimesArePast`) and a schedule that was never
registered has no jobs (`RegisteredFirst`).

*Sites.* Of the registry: a client's status is the decision that locked its row
last, requests that hold something about one site are recorded as contended, and
folders and clients correspond (`FoldersApart`). Of the hosting accounts: what has
been read is the beginning of the listing while the listing has not moved
(`PagesListed`). Of the inventory: an offer is fetched later than the one before,
reports of one moment are alike (`InOrder`), and what a refresh was promised is a
bound on every report collected since (`RefreshKnows`). Of archives: objects are
recorded in order, those before the one under way and no other (`SavedInOrder`),
and a token that was made and is not brief ends when it is believed to. Of credentials:
between rotations the plugin holds the active secret or is about to be sent it
(`InEra`, `BetweenEras`).

*SiteHealth.* Every operation holds what it is going to write
(`OperationIsSound`), and a version that was current has content somebody was
shown. While operations do not overlap, the draft is the newest version and
what an operation holds is the row that is there (`OperationIsAlone`). Of annual
checkups: a date in play is of a requested cycle, or a year after everything
completed with nothing left to complete (`DatesAreInOrder`, `OneToComplete`); a
planner that read the policy before knows one of both (`PlannerFollows`).

*Notifications.* A save that has been written is the last of its row and holds its
address exclusively; who is due a message is in the queue or among those a call
has still to tell (`TellerIsSound`); the ids of all calls are apart (`QueuesApart`);
until an address is given up, messages go to the address of their recipient.

*Services.* Of signed requests: a request that reached the plugin has its claim,
was crowded out or is too old (`ClaimLasts`), a list holds only claims that were
fresh (`ListedWhenFresh`), and what is carried out is newer than what is installed
(`InstallsNewer`). Of reports: a check-in sends and removes only what was stored
(`RequestFollows`). Of sources: not only the row but every row a call holds was
tested as it is (`TestedRow`), or a key of another time is on record. Of sign-in: an open visit knows the account it read
(`KnowsAccount`), one invitation was accepted (`AcceptedOnce`), and verifications of
one code are apart unless the overlap is recorded (`AreApart`).

*Uptime.* `UptimeOwnInv` has two layers. Under every interleaving what a call
holds comes from rows that are there (`CallKnows`), rows are numbered as they are
made and one is open (`UptimeRowsInOrder`), and a count never exceeds the calls that
have ended (`CallsWereCounted`), or the next failure would not fit. Without
overlap the call under way finds the rows as it has read them (`CallsAreAlone`),
and the monitor has counted nothing, or the first failure, whose event is not
stored, or what the open incident has (`MonitorAgrees`). The second failure is
another event because a call that gets to counting was not the first failure
again (`EventIsNew`).

*Operations.* Of rollouts: a worker in the canary batch has been counted as a try
before it leaves the target (`WorkerFollows`), who may have a job was put in a canary
batch or comes after one that was tried (`Cleared`, which no step takes back), jobs
exist only behind the review (`AdminFollows`, `RowsFollow`), and batches and selection
stand still once batches exist, or `regrouped` is set. Of packages: the row of an upload
names its file until the upload that wrote it removes both. Of recoveries: a
verified plan is of a whole backup (`BackupWhole`), and evidence, recorded or
about to be, is vouched for by a backup that was recent (`EvidenceVouched`). Of controls: calls have times of their own, a
latest statement exists (`LeastNatural`) and the two queries agree on it. Of
the zone: of errands that do not overlap one is under way, and it knows the check
that exists and, unless an answer was lost, its interval (`ErrandKnows`, `OneExists`). Of destinations: a row is written from
the row that was read or the overlap is recorded (`ReadOf`, `FormFits`).

*What the proofs found.* Attempts that failed for a good reason corrected the models
where TLC had accepted them within the bounds. Six properties needed an
exception for a case with more steps than a run takes: a row of a hosting source
that is paired with a key of another time (`torn`), a form that keeps a credential
of another destination (`mixed`), a listing that shifts while it is read
(`shifted`), a completed checkup that is run again and completes on a later day
(`redone`), a rotation that crosses a revocation (`crossed`), a counted failure whose
observation is deleted and which is delivered again inside a maintenance window
(`purged`: TLC shows it with two changes). The unique index over open incidents
was missing from the updates of an incident: a touch or report that writes an old
status back while another incident is open is refused (`SaveRejected`; TLC shows
the second open incident with six calls that overlap). One needed an
assumption: the lifetime of a token is above zero (`Shortest`). One was stated too
strongly: a recipient who is changed between the readings of a call was due the
message at no single moment, and is rightly told; `ToldAsWished` now says that
nobody is told who was subscribed at no moment (`ever`) or whose address was
suppressed at every one (`free`).

*Only model-checked.* Liveness (`JobEnds` of jobs and of backups, `LockReleased`,
`EveryMessageSettles`) needs fairness and ENABLED, which the prover does not have.
Every safety property of a passing run is the property of a theorem.
The sentences of section 7 are false of the code and are refuted by TLC.

## 9. Bounds

| Instance | Bounds |
| --- | --- |
| `automation_*` | two workers, one job (two for `automation_lock_lost`, one worker for `automation_cancel_lost`), cap 2, one additional attempt, lease, backoff and stall of one unit, three attempts in all, one crash |
| `email` | two workers, one message, two attempts, one crash |
| `backup_runs` | two workers, one request, two backups of two files, one destination, one month, one fault |
| `MCSite` | schedules: two, interval 2, limit 1, clock 4; credentials 3, requests 2; checkups: clock 4, two faults, one lapse; reviews: versions 3, operations 4; plans: two of them, clock 1, changes 2, two exceptions; archives: two destinations, sizes up to 5 with chunks of 2, tokens that live for 1 or 3 or a configured one that ends at 2, time 3; notifications: two addresses, two recipients, operations 3; synchronizations 2, pages of one site, one move; registry: two clients, two sites, operations 4; inventory: two reports, two versions, clock 2 |
| `MCServices` | uptime: two incidents, one alert, five calls (four once calls overlap), one change, three failures, threshold 2; reports: queue of 1, two activities, two updates; sources: two places, two keys, three accesses; requests: two, window 1, kept 2, limit 1, time 2, versions 2; planning: three backups, two months, two destinations, one fault; accounts: two invitations, a link, a session, five requests; codes: three challenges of one purpose, two attempts, two recovery codes, limit 2 |
| `MCOperations` | rollout: three at work, two workers and an administrator or a worker and two administrators (`Crews`), who see three requests and faults between them (`MaxEvents`), two sites, canary 1, threshold 1, limit 1, two attempts, one fault at most; destinations: two, one authorization, errands 2; zone: two checks, two errands, one change; security: two controls, time 3; packages: two uploads, two contents, time 2, one damage; recoveries: time 3, errands 3, evidence good for 2 and 1 |

Two actors give a stale and a current one; the counters let the case each
property is about happen at least once and be repeated: a third attempt lets a
stale worker meet a later claim twice, a third credential a rotation after a
rotation, a third version a current one between two others, a file of 5 bytes
two full chunks and a rest. Notifications were checked with four and five
operations as well, and uptime with two changes and with seven calls (six that
overlap, so that an update meets the unique index), and a rollout with three
administrators, one worker and four requests, which the runs have no time for.
Every mutant is refuted within these bounds. Bounds on
faults count events after which memory is lost or an administrator acts;
failures the code handles by itself (a handler that throws, a refused email, an
expired lease) are not bounded. Deadlock is not checked where a bounded instance
comes to rest.

## 10. Not modelled

| Part | Why |
| --- | --- |
| SFTP and local file transfers | input and output of files; `HostingSource` says when a source may be used, `ArchivePackage` what becomes of the archives |
| SiteHealth evidence collection | input and formatting; a checkup sees evidence or an error |
| Client portal and site registration views | views, and a form that ends in `Registry` and `Credentials` |
| Action requests outside a rollout | only record a decision |
| Dashboard, operational health, integrations, audit | queries and append-only records |
| Migrations and SQLite import | run once; the tables and their constraints are used throughout |
| HTTP handlers, middleware, MCP server | parse a request and call one service operation |
| Vue pages | presentation |
| Plugin admin pages and client care | pages that show what the dashboard answers |

Row locks inside a transaction that is one action are left out with it. Wording,
logging and layout are left out everywhere.

## 11. What is left

1. Composition of `Scheduler` with `AnnualCheckups`, and of `PluginRollout` with
   `Recoveries` and `PluginPackages`, in place of what each now assumes of the
   other.
2. A health threshold above two in `UptimeMonitor`, and more than one job kind in
   `Automation` to reach the limit of 25 candidates.
