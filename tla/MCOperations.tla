------------------------------ MODULE MCOperations -----------------------------
(* Parts of the dashboard in which administrators, jobs and providers work on *)
(* the same rows, side by side as in MCSite: a behaviour runs one of them,    *)
(* chosen in its initial state.                                               *)
EXTENDS Naturals, FiniteSets, TLC

CONSTANTS
    a1, a2, x1, x2, none,       \* model values: actors, things, no thing
    b1, b2,                     \* model values: administrators of a rollout
    main, runtime,              \* model values: backup destinations
    Parts,                      \* the parts of this run
    Actors,                     \* workers, requests and jobs that overlap
    Admins,                     \* requests that the dashboard serves during a rollout
    Crews,                      \* bound: the workers and administrators of one behaviour
    MaxEvents,                  \* bound: its requests and faults, together
    TargetCount, Ready, Selected, CanarySize, FailureThreshold, ConcurrencyLimit,
    Things,                     \* OAuth states
    Archives, Inspected,        \* uploaded archives, those that the inspection accepts
    Tokens,                     \* download tokens
    Life,                       \* how long OAuth states and download tokens last
    AttemptBound, FaultBound,
    MaxDestinationErrands, MaxMinutes,
    MaxChecks, MaxZoneErrands, MaxZoneChanges,
    MaxEvidenceTime,
    MaxPackageTime, MaxDamages,
    DerivedDays, ConfirmedDays, \* how long a backup of SiteCare or of Hostinger is evidence
    MaxRecoveryTime, MaxRecoveryErrands

VARIABLES
    part,
    rollout, approval, target, job, updated, process, faults, trial, regrouped,
    crew,                       \* those at work on the rollout, what may still befall them
    destination, outcome, selection, consents, request, minute, requests, used, reused,
    mixed, watched, strayed,
    checks, entitled, promised, connection, pace, errand, errands, changes, overlapped, cut,
    unheard,
    evidence, syncs, call, now, statements, precedes,
    upload, quarantine, stored, packages, tokens, download, time, damages, installed, misused, broken, raced,
    policy, pro, artifact, objects, worker, plan, evidences, goal, doing, day, asked, verified, crossed, approved,
    unallowed

Rollout == INSTANCE PluginRolloutProps WITH
    Workers <- Actors

Destinations == INSTANCE BackupDestinations WITH
    Calls <- Actors, States <- Things, Main <- main, Runtime <- runtime, None <- none,
    MaxErrands <- MaxDestinationErrands, errand <- request, errands <- requests

Zone == INSTANCE CloudflareZone WITH
    Calls <- Actors, Intervals <- {2, 3}, Fast <- 1, MaxErrands <- MaxZoneErrands,
    MaxChanges <- MaxZoneChanges

Security == INSTANCE SecurityControls WITH
    Calls <- Actors, Controls <- {"level", "platform"}, MaxTime <- MaxEvidenceTime

Packages == INSTANCE PluginPackages WITH
    Uploads <- Actors, Contents <- Archives, Sound <- Inspected, Downloads <- Actors,
    None <- none, MaxTime <- MaxPackageTime, overlapped <- raced

Recovery == INSTANCE Recoveries WITH
    Calls <- Actors, None <- none, Derived <- DerivedDays, Confirmed <- ConfirmedDays, MaxTime <- MaxRecoveryTime,
    MaxErrands <- MaxRecoveryErrands, evidence <- evidences, target <- goal, call <- doing,
    time <- day, errands <- asked, overlapped <- crossed

ASSUME OperationsAssumption ==
    /\ Rollout!RolloutAssumption
    /\ Destinations!DestinationsAssumption
    /\ Zone!ZoneAssumption
    /\ Security!SecurityAssumption
    /\ Packages!PackagesAssumption
    /\ Recovery!RecoveriesAssumption

rollouts == <<rollout, approval, target, job, updated, process, faults, trial, regrouped, crew>>

destinations == <<destination, outcome, selection, consents, request, minute, requests, used, reused,
                  mixed, watched, strayed>>

zone == <<checks, entitled, promised, connection, pace, errand, errands, changes, overlapped, cut,
          unheard>>

security == <<evidence, syncs, call, now, statements, precedes>>

archives == <<upload, quarantine, stored, packages, tokens, download, time, damages, installed, misused,
              broken, raced>>

recoveries == <<policy, pro, artifact, objects, worker, plan, evidences, goal, doing, day, asked, verified,
                crossed, approved, unallowed>>

vars == <<part, rollouts, destinations, zone, security, archives, recoveries>>

\* The rows of a part that does not run are not there.
NoRollout ==
    /\ rollout = none /\ approval = none /\ target = none /\ job = none /\ updated = none
    /\ process = none /\ faults = none /\ trial = none /\ regrouped = none /\ crew = none

NoDestinations ==
    /\ destination = none /\ outcome = none /\ selection = none /\ consents = none
    /\ request = none /\ minute = none /\ requests = none /\ used = none /\ reused = none
    /\ mixed = none /\ watched = none /\ strayed = none

NoZone ==
    /\ checks = none /\ entitled = none /\ promised = none /\ connection = none /\ pace = none
    /\ errand = none /\ errands = none /\ changes = none /\ overlapped = none /\ cut = none
    /\ unheard = none

NoSecurity ==
    /\ evidence = none /\ syncs = none /\ call = none /\ now = none /\ statements = none
    /\ precedes = none

NoPackages ==
    /\ upload = none /\ quarantine = none /\ stored = none /\ packages = none /\ tokens = none
    /\ download = none /\ time = none /\ damages = none /\ installed = none /\ misused = none
    /\ broken = none /\ raced = none

NoRecovery ==
    /\ policy = none /\ pro = none /\ artifact = none /\ objects = none /\ worker = none /\ plan = none
    /\ evidences = none /\ goal = none /\ doing = none /\ day = none /\ asked = none
    /\ verified = none /\ crossed = none /\ approved = none /\ unallowed = none

\* One crew is at work in a behaviour.
CrewMeets == \E members \in Crews : crew = [members |-> members, events |-> MaxEvents]

CrewWorks ==
    LET asking == {a \in Admins : process[a].at = "idle" /\ process'[a].at # "idle"}
        events == Cardinality(asking) + (faults' - faults) IN
    /\ \A p \in (Actors \cup Admins) \ crew.members : process'[p] = process[p]
    /\ events <= crew.events
    /\ crew' = [crew EXCEPT !.events = @ - events]

Init ==
    /\ part \in Parts
    /\ IF part = "rollouts" THEN Rollout!Init /\ CrewMeets ELSE NoRollout
    /\ IF part = "destinations" THEN Destinations!Init ELSE NoDestinations
    /\ IF part = "zone" THEN Zone!Init ELSE NoZone
    /\ IF part = "security" THEN Security!Init ELSE NoSecurity
    /\ IF part = "packages" THEN Packages!Init ELSE NoPackages
    /\ IF part \in {"restores", "evidence"} THEN Recovery!Init ELSE NoRecovery

Next ==
    /\ UNCHANGED part
    /\ \/ /\ part = "rollouts" /\ Rollout!Next /\ CrewWorks
          /\ UNCHANGED <<destinations, zone, security, archives, recoveries>>
       \/ /\ part = "destinations" /\ Destinations!Next
          /\ UNCHANGED <<rollouts, zone, security, archives, recoveries>>
       \/ /\ part = "zone" /\ Zone!Next
          /\ UNCHANGED <<rollouts, destinations, security, archives, recoveries>>
       \/ /\ part = "security" /\ Security!Next
          /\ UNCHANGED <<rollouts, destinations, zone, archives, recoveries>>
       \/ /\ part = "packages" /\ Packages!Next
          /\ UNCHANGED <<rollouts, destinations, zone, security, recoveries>>
       \/ /\ part = "restores" /\ Recovery!Restore
          /\ UNCHANGED <<rollouts, destinations, zone, security, archives>>
       \/ /\ part = "evidence" /\ Recovery!Rely
          /\ UNCHANGED <<rollouts, destinations, zone, security, archives>>

Spec == Init /\ [][Next]_vars

Symmetry == Permutations(Actors) \cup Permutations({b1, b2})

--------------------------------------------------------------------------------
(* What the parts promise, asked of the behaviours of each part *)

\* Every job of a rollout waits for the review and, outside the canary batch, for
\* the canaries, whatever requests, retries and evaluations interleave; after a change
\* of the selection between confirmations, for one canary of any of them.
JobsWaitTheirTurn == part = "rollouts" => Rollout!JobsWaitTheirTurn

\* No target is shown further than its site is, nor a rollout whose selection stood
\* still, although results, failures and evaluations overtake each other.
ShownAsUpdated == part = "rollouts" => Rollout!ShownAsUpdated

\* An ended job stays ended: its key is never enqueued a second time by a retry or
\* a second evaluation.
EndedJobKept == [][part = "rollouts" => Rollout!EndedStaysEnded]_vars

\* A destination keeps the credential of its mode and a consent is used once and in
\* time, while no two edits overlap, and a backup resolves a destination that was
\* allowed at some moment since it began to.
DestinationsSound == part = "destinations" => Destinations!DestinationsSound

\* While calls do not overlap, a site has one health check at most; unless one is cut
\* off, the connection names it; and unless the answer to a change was lost too, a
\* success is never taken to need no change of its interval when it does.
ZoneSound == part = "zone" => Zone!ZoneSound

\* The detail of a site and the portfolio agree on its security controls, what a
\* technician stated holds against every synchronization until the next statement,
\* and everything else is shown as of the check that is named with it.
ControlsSound == part = "security" => Security!ControlsSound

\* Packages are announced and received as they were inspected, once for a token, and
\* a row always has its file, whatever uploads of one archive overlap or are cut off.
PackagesSound == part = "packages" => Packages!PackagesSound

\* A restore plan passes for a whole backup only, a verified download stays on record
\* while records do not overlap, and a rollout is confirmed on evidence that was
\* valid and recent, whatever happens between its discovery and its confirmation.
RecoveriesSound == part \in {"restores", "evidence"} => Recovery!RecoveriesSound

================================================================================
