-------------------------------- MODULE MCSite ---------------------------------
(* Eleven parts that share no row are checked side by side: a behaviour runs  *)
(* one of them, chosen in its initial state, and leaves the others alone, so  *)
(* the states are those of the parts together and not of their product.       *)
EXTENDS Naturals, FiniteSets, TLC

CONSTANTS
    a1, a2, x1, x2, nobody,     \* model values: actors, things, no worker
    Parts,                      \* the parts of this run
    Actors,                     \* workers, requests and calls that overlap
    Things,                     \* schedules, recommendations or sites, as the part has them
    Interval, Limit, MaxSchedulerClock,
    MaxCredentials, MaxRequests,
    FirstDue, Year, MaxAttempts, MaxCheckupClock, MaxFaults, MaxChanges,
    MaxVersions, MaxOperations,
    MaxRank, Exceptions, MaxOverrides, MaxPlanClock, MaxPlanChanges,
    Destinations, Chunk, MaxSize, Lifetimes, Shortest, Margin, StaticEnds, MaxUploadTime, MaxDamages,
    Addresses, Categories, Category, MaxRecipients, MaxSecrets, MaxNotifications,
    PageSize, MaxPages, MaxSyncs, MaxMoves,
    Clients, Names,
    LastVersion, Throttle, MaxSiteClock, MaxReports

VARIABLES
    part,
    clock, schedule, jobs, worker, registeredTwice,
    state, expired, connection, plugin, request, sent, admin, crossed,
    day, entitled, policy, checkup, reviewed, collection, planner, run, faults, lapses, completions, redone,
    proposed, review, approvals, proposal, mailed, operation, begun, shown, overlapped,
    time, client, subscription, pending, intents, override, call, changes, watch,
    included, granted, at, built, disk, checksum, place, bytes, offset, session, remote, saved, token,
    minute, damages, late, refused,
    recipient, ids, suppressed, outbox, telling, notices, submitted, gone, readdressed,
    configuration, form, entered, doubled,
    active, websites, installations, row, sync, syncs, moves, known, missed, tangled,
    clients, sites, owner, folders, backups, asked, operations, decided, disabled, contended,
    installed, released, cache, now, report, collected, received, snapshots, health, refresh,
    torn, reordered, outdated

Schedules == INSTANCE Scheduler WITH
    Workers <- Actors, Schedules <- Things, MaxClock <- MaxSchedulerClock

Keys == INSTANCE Credentials WITH
    Calls <- Actors, MaxCalls <- MaxRequests, call <- request

Annual == INSTANCE AnnualCheckups WITH
    Workers <- Actors, NoWorker <- nobody,
    MaxClock <- MaxCheckupClock, clock <- day, job <- collection, changes <- lapses

Reviews == INSTANCE SiteHealthReviews WITH
    Calls <- Actors, Recommendations <- Things, MaxCalls <- MaxOperations

Plans == INSTANCE EntitlementsProofs WITH
    Calls <- Actors, MaxClock <- MaxPlanClock, MaxChanges <- MaxPlanChanges, clock <- time

Archives == INSTANCE ArchivePackage WITH
    MaxTime <- MaxUploadTime, time <- minute, size <- bytes

Notify == INSTANCE Notifications WITH
    Calls <- Actors, MaxOperations <- MaxNotifications,
    call <- telling, operations <- notices, overlapped <- doubled

Hosting == INSTANCE HostingerPortfolio WITH
    Calls <- Actors, Sites <- Things, overlapped <- tangled

Register == INSTANCE Registry WITH
    Calls <- Actors, Sites <- Things, NoClient <- nobody, call <- asked

Inventory == INSTANCE UpdateInventory WITH
    Reports <- Actors, MaxClock <- MaxSiteClock

ASSUME SiteAssumption ==
    /\ Schedules!SchedulerAssumption
    /\ Keys!CredentialsAssumption
    /\ Annual!CheckupAssumption
    /\ Reviews!ReviewAssumption
    /\ Plans!EntitlementAssumption
    /\ Archives!PackageAssumption
    /\ Notify!NotificationAssumption
    /\ Hosting!PortfolioAssumption
    /\ Register!RegistryAssumption
    /\ Inventory!InventoryAssumption

schedules == <<clock, schedule, jobs, worker, registeredTwice>>

credentials == <<state, expired, connection, plugin, request, sent, admin, crossed>>

checkups == <<day, entitled, policy, checkup, reviewed, collection, planner, run, faults, lapses, completions, redone>>

reviews == <<proposed, review, approvals, proposal, mailed, operation, begun, shown, overlapped>>

plans == <<time, client, subscription, pending, intents, override, call, changes, watch>>

archives ==
    <<included, granted, at, built, disk, checksum, place, bytes, offset, session, remote, saved, token,
      minute, damages, late, refused>>

notifications ==
    <<recipient, ids, suppressed, outbox, telling, notices, submitted, gone, readdressed,
      configuration, form, entered, doubled>>

hosting ==
    <<active, websites, installations, row, sync, syncs, moves, known, missed, tangled>>

registry ==
    <<clients, sites, owner, folders, backups, asked, operations, decided, disabled, contended>>

inventory ==
    <<installed, released, cache, now, report, collected, received, snapshots, health, refresh,
      torn, reordered, outdated>>

vars == <<part, schedules, credentials, checkups, reviews, plans, archives, notifications, hosting, registry, inventory>>

\* The rows of a part that does not run are not there.
NoSchedules ==
    /\ clock = nobody /\ schedule = nobody /\ jobs = nobody /\ worker = nobody /\ registeredTwice = nobody

NoKeys ==
    /\ state = nobody /\ expired = nobody /\ connection = nobody /\ plugin = nobody /\ request = nobody
    /\ sent = nobody /\ admin = nobody /\ crossed = nobody

NoAnnual ==
    /\ day = nobody /\ entitled = nobody /\ policy = nobody /\ checkup = nobody /\ reviewed = nobody
    /\ collection = nobody /\ planner = nobody /\ run = nobody /\ faults = nobody /\ lapses = nobody
    /\ completions = nobody /\ redone = nobody

NoReviews ==
    /\ proposed = nobody /\ review = nobody /\ approvals = nobody /\ proposal = nobody /\ mailed = nobody
    /\ operation = nobody /\ begun = nobody /\ shown = nobody /\ overlapped = nobody

NoPlans ==
    /\ time = nobody /\ client = nobody /\ subscription = nobody /\ pending = nobody /\ intents = nobody
    /\ override = nobody /\ call = nobody /\ changes = nobody /\ watch = nobody

NoArchives ==
    /\ included = nobody /\ granted = nobody /\ at = nobody /\ built = nobody /\ disk = nobody /\ checksum = nobody
    /\ place = nobody /\ bytes = nobody /\ offset = nobody /\ session = nobody /\ remote = nobody
    /\ saved = nobody /\ token = nobody /\ minute = nobody /\ damages = nobody /\ late = nobody
    /\ refused = nobody

NoNotify ==
    /\ recipient = nobody /\ ids = nobody /\ suppressed = nobody /\ outbox = nobody
    /\ telling = nobody /\ notices = nobody /\ submitted = nobody /\ gone = nobody
    /\ readdressed = nobody /\ configuration = nobody /\ form = nobody /\ entered = nobody
    /\ doubled = nobody

NoHosting ==
    /\ active = nobody /\ websites = nobody /\ installations = nobody /\ row = nobody
    /\ sync = nobody /\ syncs = nobody /\ moves = nobody /\ known = nobody /\ missed = nobody
    /\ tangled = nobody

NoRegister ==
    /\ clients = nobody /\ sites = nobody /\ owner = nobody /\ folders = nobody /\ backups = nobody
    /\ asked = nobody /\ operations = nobody /\ decided = nobody /\ disabled = nobody /\ contended = nobody

NoInventory ==
    /\ installed = nobody /\ released = nobody /\ cache = nobody /\ now = nobody
    /\ report = nobody /\ collected = nobody /\ received = nobody /\ snapshots = nobody
    /\ health = nobody /\ refresh = nobody /\ torn = nobody /\ reordered = nobody
    /\ outdated = nobody

Init ==
    /\ part \in Parts
    /\ IF part = "schedules" THEN Schedules!Init ELSE NoSchedules
    /\ IF part = "credentials" THEN Keys!Init ELSE NoKeys
    /\ IF part = "checkups" THEN Annual!Init ELSE NoAnnual
    /\ IF part = "reviews" THEN Reviews!Init ELSE NoReviews
    /\ IF part = "plans" THEN Plans!Init ELSE NoPlans
    /\ IF part = "archives" THEN Archives!Init ELSE NoArchives
    /\ IF part \in {"recipients", "settings"} THEN Notify!Init ELSE NoNotify
    /\ IF part = "hosting" THEN Hosting!Init ELSE NoHosting
    /\ IF part = "registry" THEN Register!Init ELSE NoRegister
    /\ IF part = "inventory" THEN Inventory!Init ELSE NoInventory

Next ==
    /\ UNCHANGED part
    /\ \/ /\ part = "schedules" /\ Schedules!Next
          /\ UNCHANGED <<credentials, checkups, reviews, plans, archives, notifications, hosting, registry, inventory>>
       \/ /\ part = "credentials" /\ Keys!Next
          /\ UNCHANGED <<schedules, checkups, reviews, plans, archives, notifications, hosting, registry, inventory>>
       \/ /\ part = "checkups" /\ Annual!Next
          /\ UNCHANGED <<schedules, credentials, reviews, plans, archives, notifications, hosting, registry, inventory>>
       \/ /\ part = "reviews" /\ Reviews!Next
          /\ UNCHANGED <<schedules, credentials, checkups, plans, archives, notifications, hosting, registry, inventory>>
       \/ /\ part = "plans" /\ Plans!Next
          /\ UNCHANGED <<schedules, credentials, checkups, reviews, archives, notifications, hosting, registry, inventory>>
       \/ /\ part = "archives" /\ Archives!Next
          /\ UNCHANGED <<schedules, credentials, checkups, reviews, plans, notifications, hosting, registry, inventory>>
       \/ /\ part = "recipients" /\ Notify!Deliver
          /\ UNCHANGED <<schedules, credentials, checkups, reviews, plans, archives, hosting, registry, inventory>>
       \/ /\ part = "settings" /\ Notify!Configure
          /\ UNCHANGED <<schedules, credentials, checkups, reviews, plans, archives, hosting, registry, inventory>>
       \/ /\ part = "hosting" /\ Hosting!Next
          /\ UNCHANGED <<schedules, credentials, checkups, reviews, plans, archives, notifications, registry, inventory>>
       \/ /\ part = "registry" /\ Register!Next
          /\ UNCHANGED <<schedules, credentials, checkups, reviews, plans, archives, notifications, hosting, inventory>>
       \/ /\ part = "inventory" /\ Inventory!Next
          /\ UNCHANGED <<schedules, credentials, checkups, reviews, plans, archives, notifications, hosting, registry>>

Spec == Init /\ [][Next]_vars

\* The scheduler plans annual checkups daily, workers poll for jobs, leases that
\* expire are recovered by every poll, and time goes on.
FairSpec ==
    /\ Spec
    /\ WF_checkups(Annual!Plan)
    /\ \A w \in Actors : WF_checkups(Annual!RunCheckup(w))
    /\ \A d \in Annual!Dates : WF_checkups(Annual!Runs(d) = {} /\ Annual!Recover(d))
    /\ WF_checkups(Annual!TimePasses)

Symmetry == Permutations(Actors) \cup Permutations(Things)

--------------------------------------------------------------------------------
(* What the parts promise, asked of the behaviours of each part *)

\* A schedule runs once a period, no more and no less: however many workers tick,
\* and however late, two jobs are a whole period apart and the next run is due one
\* period after the last, unless two workers registered the schedule.
OncePerPeriod == part = "schedules" => Schedules!OncePerPeriod

\* What is due stays due until the run it is due for has its job, whatever other
\* workers register, enqueue or leave half done in between.
DueUntilEnqueued == [][part = "schedules" => Schedules!StaysDue]_vars

\* Rotation never locks a plugin out: one secret it can sign with is accepted and
\* it knows the one the dashboard signs with, whichever answers are lost and however
\* long it is away, unless an answer is held back until the rotation after it.  After
\* a revocation that no request crossed nothing is accepted and the site is shown as
\* revoked, until an administrator issues a credential.
AccessFollowsCredential ==
    part = "credentials" => Keys!RotationKeepsAccess /\ Keys!RevocationIsComplete

\* A draft-ready checkup has its review after any crash, and two cycles are never
\* completed within a year, though planner and runs overwrite the policy, a run may
\* never get to move it on, and a failed checkup is run again long after its date;
\* unless one that was completed before is run again.
YearlyWithReview == part = "checkups" => Annual!YearlyWithReview

\* docs/SITEHEALTH_CHECKUPS_AND_REVIEWS.md: Plus and Pro receive one automated annual
\* checkup; the next is due one year after the preceding one.
AnnualCheckupHappens == part = "checkups" => Annual!AnnualCheckupHappens

\* Cleanup rests on an answer that approved all of a version, and cleanup and mail
\* on nothing that version did not say when it was published; while operations do not
\* overlap, one version is current and none after it was current before.
RestsOnPublished == part = "reviews" => Reviews!RestsOnPublished /\ Reviews!NewestIsCurrent

\* What was published stays as it was, while operations do not overlap.
PublishedUnlessOverlapped == [][part = "reviews" => Reviews!StaysPublished]_vars

\* Whatever upgrades, reactivations, downgrades and cancellations overlap, no intent
\* waits for a capability the site has lost, and a scheduled change still fits the
\* site when it is applied; at no moment do two exceptions of one capability apply,
\* so the order in which they are read decides nothing. What an evaluation grants
\* was in effect at some moment since it began, although it reads client, plan and
\* exceptions one after the other, unless two changes fall in between.
PlansSound ==
    part = "plans" => Plans!WaitingFitsPlan /\ Plans!OneExceptionAtATime /\ Plans!GrantWasInEffect

\* A package is complete at every destination when its backup is, every recorded object
\* is what its checksum was taken of, unless its file changed after it was verified, and
\* a destination with a refresh token sends none that has ended, for files of any size.
PackageSound == part = "archives" => Archives!PackageSound

\* Messages reach whom they should, once, though recipients change while they are queued,
\* and keys and tokens stay the ones entered last.
NotificationsSound == part \in {"recipients", "settings"} => Notify!NotificationsSound

\* What is shown of a hosting account is what its last listing said, and rows of sites
\* and clients that are written back whole, and folders named once, keep what others
\* decided.
SitesSound ==
    /\ part = "hosting" => Hosting!PortfolioSound
    /\ part = "registry" => Register!RegistrySound

\* UpdateInventory.InventorySound: the newest report is shown, and a refresh is verified by what it brought.
InventorySound == part = "inventory" => Inventory!InventorySound

================================================================================
