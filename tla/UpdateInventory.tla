---------------------------- MODULE UpdateInventory ----------------------------
(* Which version of a component the dashboard shows a site to have: what the  *)
(* plugin collects, with the cache of offers WordPress keeps, reports that    *)
(* arrive late and in another order, the rows a check-in leaves step by step, *)
(* and the refresh job that asks for a report and verifies that it came.      *)
EXTENDS Naturals, FiniteSets

CONSTANTS
    Reports,        \* check-ins under way at once
    LastVersion,    \* versions are numbered up to this
    Throttle,       \* how long WordPress keeps what it was offered
    MaxClock,       \* bound: the clock of the site
    MaxReports      \* bound: reports collected

InventoryAssumption ==
    /\ LastVersion \in Nat \ {0} /\ Throttle \in Nat \ {0} /\ MaxClock \in Nat /\ MaxReports \in Nat

VARIABLES
    installed,      \* the version WordPress has
    released,       \* the newest one there is
    cache,          \* the update transient: offer, when it was fetched and for what
    now,            \* seconds of the site
    report,         \* where each check-in is
    collected,      \* reports collected so far
    received,       \* check-ins received so far, whose number stands for received_at
    snapshots,      \* wordpress_update_snapshots with their inventory
    health,         \* the newest row of site_health_snapshots
    refresh,        \* the wordpress.refresh job
    torn,           \* ghost: a check-in ended with only part of its rows
    reordered,      \* ghost: a report was received after one collected later
    outdated        \* ghost: a verified refresh showed a version gone before it was asked for

vars == <<installed, released, cache, now, report, collected, received, snapshots, health,
          refresh, torn, reordered, outdated>>

Versions == 1 .. LastVersion

\* An available version of 0 is none.
Content == [installed : Versions, available : {0} \cup Versions]

Snapshot == [content : Content, checkedAt : 0 .. MaxClock, receivedAt : Nat,
             collected : 0 .. MaxReports]

NoSnapshot == [content |-> [installed |-> 1, available |-> 0], checkedAt |-> 0, receivedAt |-> 0, collected |-> 0]

IdleReport == [at |-> "idle", of |-> NoSnapshot, awaited |-> FALSE]

Health == [createdAt : Nat, pending : BOOLEAN]

\* requestedAt is compared with received_at; since: the versions the site has had from then on.
IdleRefresh == [at |-> "idle", requestedAt |-> 0, since |-> {}]

Goto(r, value) == report' = [report EXCEPT ![r] = value]

--------------------------------------------------------------------------------
(* The site *)

Release ==
    /\ released < LastVersion /\ released' = released + 1
    /\ UNCHANGED <<installed, cache, now, report, collected, received, snapshots, health, refresh,
                   torn, reordered, outdated>>

\* An update, or a return to an older version, takes more than the second a clock tells.
Install ==
    /\ now < MaxClock /\ now' = now + 1
    /\ \E v \in (1 .. released) \ {installed} :
          /\ installed' = v
          /\ refresh' = IF refresh.at = "idle" THEN refresh ELSE [refresh EXCEPT !.since = @ \cup {v}]
    /\ UNCHANGED <<released, cache, report, collected, received, snapshots, health, torn, reordered, outdated>>

Wait ==
    /\ now < MaxClock /\ now' = now + 1
    /\ UNCHANGED <<installed, released, cache, report, collected, received, snapshots, health, refresh,
                   torn, reordered, outdated>>

\* wp_update_plugins asks again after a while, or when what is installed has changed.
Checked ==
    IF now >= cache.checked + Throttle \/ cache.of # installed
    THEN [offer |-> released, checked |-> now, of |-> installed] ELSE cache

\* The plugin's cron, or a refresh the dashboard asked for (awaited), collects a report.
Collect(r, awaited) ==
    /\ report[r].at = "idle" /\ collected < MaxReports
    /\ refresh.at = "requested" \/ ~awaited
    /\ cache' = Checked
    /\ collected' = collected + 1
    /\ Goto(r, [at |-> "sent", awaited |-> awaited,
                of |-> [NoSnapshot EXCEPT
                           !.content = [installed |-> installed,
                                        available |-> IF Checked.offer > installed THEN Checked.offer ELSE 0],
                           !.checkedAt = Checked.checked, !.collected = collected + 1]])
    /\ refresh' = IF awaited THEN [refresh EXCEPT !.at = "reporting"] ELSE refresh
    /\ UNCHANGED <<installed, released, now, received, snapshots, health, torn, reordered, outdated>>

--------------------------------------------------------------------------------
(* A check-in at the dashboard: three commits *)

\* A report that asks for an update to the installed version has none pending.
Pending(content) == content.available # 0 /\ content.available # content.installed

CreateCheckIn(r) ==
    /\ report[r].at = "sent"
    /\ received' = received + 1
    /\ Goto(r, [report[r] EXCEPT !.at = "received", !.of.receivedAt = received + 1])
    /\ reordered' = (reordered \/ \/ \E s \in snapshots : s.collected > report[r].of.collected
                                  \/ \E q \in Reports : /\ report[q].at \in {"received", "healthy"}
                                                        /\ report[q].of.collected > report[r].of.collected)
    /\ UNCHANGED <<installed, released, cache, now, collected, snapshots, health, refresh, torn, outdated>>

\* created_at is the time of receipt, and the newest row is the one that is read.
CreateHealthSnapshot(r) ==
    /\ report[r].at = "received"
    /\ health' = IF report[r].of.receivedAt > health.createdAt
                 THEN [createdAt |-> report[r].of.receivedAt, pending |-> Pending(report[r].of.content)] ELSE health
    /\ Goto(r, [report[r] EXCEPT !.at = "healthy"])
    /\ UNCHANGED <<installed, released, cache, now, collected, received, snapshots, refresh,
                   torn, reordered, outdated>>

\* Snapshot, inventory and activities in one transaction.
RecordUpdates(r) ==
    /\ report[r].at = "healthy"
    /\ snapshots' = snapshots \cup {report[r].of}
    /\ Goto(r, [report[r] EXCEPT !.at = "recorded"])
    /\ UNCHANGED <<installed, released, cache, now, collected, received, health, refresh,
                   torn, reordered, outdated>>

\* Mutant: the endpoint answers once the report is under way.
AtReceipt(r) == report[r].at # "idle"

\* RestController answers when its check-in has been answered.
Answered(r) == report[r].at = "recorded"

Answer(r) ==
    /\ Answered(r)
    /\ refresh' = IF report[r].awaited THEN [refresh EXCEPT !.at = "verifying"] ELSE refresh
    /\ Goto(r, IF report[r].at = "recorded" THEN IdleReport ELSE [report[r] EXCEPT !.awaited = FALSE])
    /\ UNCHANGED <<installed, released, cache, now, collected, received, snapshots, health,
                   torn, reordered, outdated>>

\* The report is lost or refused, or the process that handles it ends: the refresh fails.
Fail(r) ==
    /\ report[r].at \in {"sent", "received", "healthy", "recorded"}
    /\ Goto(r, IdleReport)
    /\ refresh' = IF report[r].awaited THEN IdleRefresh ELSE refresh
    /\ torn' = (torn \/ report[r].at \in {"received", "healthy"})
    /\ UNCHANGED <<installed, released, cache, now, collected, received, snapshots, health, reordered, outdated>>

--------------------------------------------------------------------------------
(* The refresh job *)

RequestRefresh ==
    /\ refresh.at = "idle" /\ collected < MaxReports
    /\ refresh' = [at |-> "requested", requestedAt |-> received, since |-> {installed}]
    /\ UNCHANGED <<installed, released, cache, now, report, collected, received, snapshots, health,
                   torn, reordered, outdated>>

\* The 45 seconds run out: nobody waits for the report any more, which goes on.
TimeOut ==
    /\ refresh.at \in {"requested", "reporting"}
    /\ refresh' = IdleRefresh
    /\ report' = [r \in Reports |-> [report[r] EXCEPT !.awaited = FALSE]]
    /\ UNCHANGED <<installed, released, cache, now, collected, received, snapshots, health,
                   torn, reordered, outdated>>

\* Mutant: the snapshot that was received last.
ReceivedLater(s, t) == s.receivedAt > t.receivedAt

\* ORDER BY checked_at DESC, received_at DESC
Newer(s, t) == s.checkedAt > t.checkedAt \/ (s.checkedAt = t.checkedAt /\ s.receivedAt > t.receivedAt)

Shown == IF snapshots = {} THEN NoSnapshot ELSE CHOOSE s \in snapshots : \A t \in snapshots \ {s} : Newer(s, t)

VerifyRefresh ==
    /\ refresh.at = "verifying"
    /\ refresh' = IdleRefresh
    /\ outdated' = (outdated \/ /\ Shown.receivedAt > refresh.requestedAt
                                /\ Shown.content.installed \notin refresh.since)
    /\ UNCHANGED <<installed, released, cache, now, report, collected, received, snapshots, health, torn, reordered>>

Init ==
    /\ installed = 1 /\ released \in Versions /\ now = 0
    /\ cache = [offer |-> 1, checked |-> 0, of |-> 1]
    /\ report = [r \in Reports |-> IdleReport] /\ collected = 0 /\ received = 0
    /\ snapshots = {} /\ health = [createdAt |-> 0, pending |-> FALSE]
    /\ refresh = IdleRefresh
    /\ torn = FALSE /\ reordered = FALSE /\ outdated = FALSE

Next ==
    \/ Release \/ Install \/ Wait \/ RequestRefresh \/ TimeOut \/ VerifyRefresh
    \/ \E r \in Reports :
          \/ Collect(r, TRUE) \/ Collect(r, FALSE)
          \/ CreateCheckIn(r) \/ CreateHealthSnapshot(r) \/ RecordUpdates(r) \/ Answer(r) \/ Fail(r)

Spec == Init /\ [][Next]_vars

--------------------------------------------------------------------------------
(* What is promised of it *)

\* Snapshots, health and the offers of WordPress have the shape of their rows.
InventoryTypeOK ==
    /\ installed \in 1 .. released /\ released \in Versions /\ now \in 0 .. MaxClock
    /\ snapshots \subseteq Snapshot /\ health \in Health
    /\ \A r \in Reports : report[r].of \in Snapshot

\* However late a report arrives, the dashboard shows what the site said last.
ShownIsLastCollected ==
    \A s \in snapshots : (\A t \in snapshots : t.collected <= s.collected) => Shown.content = s.content

\* A verified refresh shows a version the site had after it was asked for, though
\* reports collected earlier may arrive in between.
VerifiedShowsRecent == ~outdated

\* Health and inventory speak of the same report, once its check-in has ended: unless
\* reports overtook each other or a check-in ended in its middle.
HealthAgrees ==
    ~torn /\ ~reordered /\ (\A r \in Reports : report[r].at \notin {"received", "healthy"}) =>
        health.pending = Pending(Shown.content)

\* The dashboard shows the newest report, and a refresh is verified by what it brought.
InventorySound == InventoryTypeOK /\ ShownIsLastCollected /\ VerifiedShowsRecent /\ HealthAgrees

================================================================================
