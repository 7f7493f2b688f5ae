------------------------------- MODULE MCServices ------------------------------
(* Parts of the dashboard that talk to the outside, side by side as in        *)
(* MCSite: a behaviour runs one of them, chosen in its initial state.         *)
EXTENDS Naturals, FiniteSets, TLC

CONSTANTS
    a1, a2, x1, x2, none,       \* model values: actors, things, no thing
    up, down1, down2, down3, tls, odd,  \* model values: events of the provider
    runtime, chosen,            \* model values: backup destinations
    old, new,                   \* model values: versions of a component
    Parts,                      \* the parts of this run
    Actors,                     \* requests, jobs and calls that overlap
    Things,                     \* remote places, requests
    MaxIncidents, MaxAlerts, MaxUptimeCalls, MaxUptimeChanges,
    QueueLimit, MaxActivities, MaxUpdates,
    MaxKeys, MaxAccesses,
    Window, Keep, Limit, Skews, MaxVersion, MaxTime,
    BackupBound, MonthBound, FaultBound,
    Invitations, Links, Sessions, MaxSignIns,
    ChallengeBound, Purposes, MaximumAttempts, IssueLimit

VARIABLES
    part,
    monitor, incidents, observed, tlsAlerts, queued, window, entitled, call, overlapped,
    interrupted, purged, calls, changes,
    installed, baseline, queue, recorded, request, created, updates, opening, stored,
    crowdedOut, overwritten,
    source, planned, access, keys, accesses, tested, used, archived, torn,
    now, sent, claims, list, handler, version, ran, repeated, crowded, crossed,
    artifact, job, objects, policy, setting, month, process, faults,
    account, password, invitations, links, sessions, devices, challenge, enrolment, factor,
    visit, begun, decided, rewritten, cut, uses,
    challenges, recent, codes, answer, succeeded, spent, doubled, rushed, revived

Uptime == INSTANCE UptimeProps WITH
    Calls <- Actors, Healthy <- {up}, Unhealthy <- {down1, down2, down3}, Tls <- {tls},
    Unknown <- {odd}, Polled <- {down2}, Threshold <- 2,
    MaxCalls <- MaxUptimeCalls, MaxOverlapping <- MaxUptimeCalls - 1, MaxChanges <- MaxUptimeChanges

Reports == INSTANCE UpdateReports WITH
    Requests <- Actors, Versions <- {old, new}, First <- old, NoVersion <- none

\* Places that an administrator may enter, with the host key or without.
Place(type, remote, hostKey) ==
    [type |-> type, remote |-> remote, hostKey |-> hostKey,
     local |-> IF type = "local-vps" THEN "allowed" ELSE none, database |-> type # "ssh-sftp"]

Forms ==
    {Place("local-vps", none, none)}
    \cup {Place("database-credentials", r, none) : r \in Things}
    \cup {Place("ssh-sftp", r, none) : r \in Things}
    \cup {Place("ssh-sftp", r, r) : r \in Things}

Sources == INSTANCE HostingSource WITH
    Calls <- Actors, Remotes <- Things, None <- none, MaxCalls <- MaxAccesses

Signed == INSTANCE DashboardRequests WITH
    Calls <- Actors, Requests <- Things

Planning == INSTANCE BackupProofs WITH
    Workers <- {}, Requests <- Actors, Destinations <- {runtime, chosen}, RuntimeDropbox <- runtime,
    NoWorker <- none, NoDestination <- none, FileCount <- 1

SignIn == INSTANCE Accounts WITH
    Calls <- Actors, None <- none, MaxCalls <- MaxSignIns, call <- visit, torn <- rewritten

Codes == INSTANCE Challenges WITH
    Calls <- Actors, RecoveryCodes <- Things, None <- none, call <- answer, crowded <- doubled

ASSUME ServicesAssumption ==
    /\ Uptime!UptimeAssumption
    /\ Reports!ReportAssumption
    /\ Sources!SourceAssumption
    /\ Signed!RequestsAssumption
    /\ Planning!BackupAssumption
    /\ SignIn!AccountsAssumption
    /\ Codes!ChallengesAssumption

uptime == <<monitor, incidents, observed, tlsAlerts, queued, window, entitled, call, overlapped,
            interrupted, purged, calls, changes>>

reports == <<installed, baseline, queue, recorded, request, created, updates, opening, stored,
             crowdedOut, overwritten>>

sources == <<source, planned, access, keys, accesses, tested, used, archived, torn>>

requests == <<now, sent, claims, list, handler, version, ran, repeated, crowded, crossed>>

planning == <<artifact, job, objects, policy, setting, month, process, faults>>

accounts == <<account, password, invitations, links, sessions, devices, challenge, enrolment,
              factor, visit, begun, decided, rewritten, cut, uses>>

oneTimeCodes == <<challenges, recent, codes, answer, succeeded, spent, doubled, rushed, revived>>

vars == <<part, uptime, reports, sources, requests, planning, accounts, oneTimeCodes>>

\* The rows of a part that does not run are not there.
NoUptime ==
    /\ monitor = none /\ incidents = none /\ observed = none /\ tlsAlerts = none /\ queued = none
    /\ window = none /\ entitled = none /\ call = none /\ overlapped = none /\ interrupted = none
    /\ purged = none /\ calls = none /\ changes = none

NoReports ==
    /\ installed = none /\ baseline = none /\ queue = none /\ recorded = none /\ request = none
    /\ created = none /\ updates = none /\ opening = none /\ stored = none /\ crowdedOut = none
    /\ overwritten = none

NoSources ==
    /\ source = none /\ planned = none /\ access = none /\ keys = none /\ accesses = none
    /\ tested = none /\ used = none /\ archived = none /\ torn = none

NoSigned ==
    /\ now = none /\ sent = none /\ claims = none /\ list = none /\ handler = none
    /\ version = none /\ ran = none /\ repeated = none /\ crowded = none /\ crossed = none

NoPlanning ==
    /\ artifact = none /\ job = none /\ objects = none /\ policy = none /\ setting = none
    /\ month = none /\ process = none /\ faults = none

NoAccounts ==
    /\ account = none /\ password = none /\ invitations = none /\ links = none /\ sessions = none
    /\ devices = none /\ challenge = none /\ enrolment = none /\ factor = none /\ visit = none
    /\ begun = none /\ decided = none /\ rewritten = none /\ cut = none /\ uses = none

NoCodes ==
    /\ challenges = none /\ recent = none /\ codes = none /\ answer = none /\ succeeded = none
    /\ spent = none /\ doubled = none /\ rushed = none /\ revived = none

Init ==
    /\ part \in Parts
    /\ IF part = "uptime" THEN Uptime!Init ELSE NoUptime
    /\ IF part = "reports" THEN Reports!Init ELSE NoReports
    /\ IF part = "sources" THEN Sources!Init ELSE NoSources
    /\ IF part = "requests" THEN Signed!Init ELSE NoSigned
    /\ IF part = "planning" THEN Planning!Init ELSE NoPlanning
    /\ IF part = "accounts" THEN SignIn!Init ELSE NoAccounts
    /\ IF part = "codes" THEN Codes!Init ELSE NoCodes

Next ==
    /\ UNCHANGED part
    /\ \/ /\ part = "uptime" /\ Uptime!Next
          /\ UNCHANGED <<reports, sources, requests, planning, accounts, oneTimeCodes>>
       \/ /\ part = "reports" /\ Reports!Next
          /\ UNCHANGED <<uptime, sources, requests, planning, accounts, oneTimeCodes>>
       \/ /\ part = "sources" /\ Sources!Next
          /\ UNCHANGED <<uptime, reports, requests, planning, accounts, oneTimeCodes>>
       \/ /\ part = "requests" /\ Signed!Next
          /\ UNCHANGED <<uptime, reports, sources, planning, accounts, oneTimeCodes>>
       \/ /\ part = "planning" /\ Planning!Next
          /\ UNCHANGED <<uptime, reports, sources, requests, accounts, oneTimeCodes>>
       \/ /\ part = "accounts" /\ SignIn!Next
          /\ UNCHANGED <<uptime, reports, sources, requests, planning, oneTimeCodes>>
       \/ /\ part = "codes" /\ Codes!Next
          /\ UNCHANGED <<uptime, reports, sources, requests, planning, accounts>>

Spec == Init /\ [][Next]_vars

Symmetry == Permutations(Actors) \cup Permutations(Things)

--------------------------------------------------------------------------------
(* What the parts promise, asked of the behaviours of each part *)

\* However calls interleave, rows keep their shape, a site has one open incident and
\* one open TLS alert at most, what is queued matches them and only downtime is
\* counted; while calls do not overlap, it is counted once, and the monitor tracks
\* the open incident.
RowsAndAlertsAgree == part = "uptime" => Uptime!RowsAndAlertsAgree

\* While calls do not overlap, a recovered incident is never opened again.
RecoveredIsFinal == [][part = "uptime" => Uptime!StaysRecovered]_vars

\* docs/CLOUDFLARE_UPTIME_AND_SECURITY.md: a successful observation closes an incident.
SuccessClosesIncident == Uptime!SuccessClosesIncident

\* A change of a version is noted before the baseline moves past it, and an activity
\* stays in the queue until the dashboard has it or newer ones crowd it out.
ChangesReported == part = "reports" => Reports!ChangesReported

\* However saves, check-ins and tests write back rows that are out of date, a source
\* is ready only because a test or a check-in said so, and a test vouches only for
\* the place and the key it was made with.
SourceIsVouched == part = "sources" => Sources!SourceIsVouched

\* ssh-sftp-connection.ts: SSH details must pass a connection test before a backup.
ReadyWasTested == part = "sources" => Sources!ReadyWasTested

\* However often and late a request is delivered, the plugin carries it out once,
\* and no request takes a WordPress plugin back to an older version.
RequestsSound ==
    /\ [](part = "requests" => Signed!RequestsRunOnce)
    /\ [][part = "requests" => Signed!NotDowngraded]_vars

\* No month gets a second scheduled backup, although the cursor of the policy may be
\* lost, overwritten or repaired by several requests.
OncePerMonth == part = "planning" => Planning!OncePerMonth

\* However requests for one account overlap, it comes from one invitation and is what
\* was decided of it, what is signed in or trusted rests on its present password, and
\* a link, a challenge and a recovery code are good once: each except when requests
\* write back what they read before another changed it.
SignInSound ==
    /\ part = "accounts" => SignIn!AccountsSound
    /\ part = "codes" => Codes!ChallengesSound

================================================================================
