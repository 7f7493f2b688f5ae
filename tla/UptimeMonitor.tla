----------------------------- MODULE UptimeMonitor -----------------------------
(* The Cloudflare uptime monitor of one site: the row uptime_monitor_state,   *)
(* the incidents, the raw observations and the TLS alerts that the calls of   *)
(* CloudflareService write.  A call (a webhook request or an automation job)  *)
(* is cut where another one can come in between: after every read it goes on  *)
(* to use and at every commit.  An observation is a provider event; webhooks  *)
(* come late, twice and in any order, each poll is an event of its own.       *)
EXTENDS Naturals, FiniteSets

CONSTANTS
    Calls,          \* requests and jobs that may be under way at once
    Healthy,        \* provider events, by what they report: the site is up,
    Unhealthy,      \*   the site is down,
    Tls,            \*   a TLS or certificate failure,
    Unknown,        \*   none of these
    Polled,         \* the events that come from the reconciliation job
    Threshold,      \* alert_failure_threshold of the connection
    MaxIncidents,   \* bound: incident rows
    MaxAlerts,      \* bound: TLS alert rows
    MaxCalls,       \* bound: calls
    MaxOverlapping, \* bound: calls of behaviours in which calls overlap
    MaxChanges      \* bound: windows, entitlement changes, purges and crashes

Events == Healthy \cup Unhealthy \cup Tls \cup Unknown

UptimeAssumption ==
    /\ Polled \subseteq Events
    /\ \A k \in {Threshold, MaxIncidents, MaxAlerts, MaxCalls, MaxOverlapping, MaxChanges} : k \in Nat
    /\ Threshold > 0

None == 0                       \* SQL NULL in active_incident_id

Incidents == 1 .. MaxIncidents
Alerts == 1 .. MaxAlerts

VARIABLES
    monitor,        \* the row uptime_monitor_state (a missing row reads as NewMonitor)
    incidents,      \* uptime_incidents by id
    observed,       \* uptime_observations: the stored status of each provider event
    tlsAlerts,      \* uptime_tls_alerts by id
    queued,         \* idempotency keys of the notifications enqueued
    window,         \* an uncancelled maintenance window exists
    entitled,       \* the capability uptime-monitoring of the site
    call,           \* what each call has read, and the step it is at
    overlapped,     \* ghost: two calls have been under way at once
    interrupted,    \* ghost: the row was taken from an open incident or first failure
    purged,         \* ghost: events whose observation was deleted
    calls, changes  \* counters of the bounds

vars == <<monitor, incidents, observed, tlsAlerts, queued, window, entitled, call,
          overlapped, interrupted, purged, calls, changes>>

MonitorStatus == {"not-configured", "disabled", "healthy", "first-failure", "incident", "maintenance"}

\* counted is a ghost: the events behind consecutive_failures.
Monitor == [status : MonitorStatus, failures : 0 .. MaxCalls,
            first : SUBSET Events, active : Incidents \cup {None}, counted : SUBSET Events]

NewMonitor == [status |-> "not-configured", failures |-> 0, first |-> {},
               active |-> None, counted |-> {}]

Incident == [status : {"absent", "open", "recovered"}, counted : SUBSET Events]

AbsentIncident == [status |-> "absent", counted |-> {}]

Step == {"idle", "classify", "maintain", "mark", "fail", "count", "touch", "succeed",
         "resolve", "restore", "stored", "recover", "tls", "disable", "provision", "report"}

IdleCall == [at |-> "idle", events |-> {}, read |-> NewMonitor, row |-> AbsentIncident, id |-> None]

--------------------------------------------------------------------------------
(* Rows *)

\* Mutant: the table has no partial unique index.
OpenIncidentsUnindexed == {}

\* The unique index over the open incidents of a site.
OpenIncidents == {i \in Incidents : incidents[i].status = "open"}

\* Mutant: the incident takes the id of the health check, not one of its own.
NextIncidentOfCheck == 1

NextIncident == Cardinality({i \in Incidents : incidents[i].status # "absent"}) + 1

OpenAlerts == {a \in Alerts : tlsAlerts[a] = "open"}

NextAlert == Cardinality({a \in Alerts : tlsAlerts[a] # "absent"}) + 1

\* createObservation: a provider event is stored once.
Store(table, e, status) == IF table[e] = "none" THEN [table EXCEPT ![e] = status] ELSE table

\* The monitor row after a healthy observation; every branch writes the same.
Reset(m) == [m EXCEPT !.status = "healthy", !.failures = 0, !.first = {}, !.active = None, !.counted = {}]

\* Mutant: a status the table does not allow.
FirstFailureTransient(m, e) == [m EXCEPT !.status = "transient", !.failures = @ + 1, !.first = {e}]

FirstFailure(m, e) ==
    [m EXCEPT !.status = "first-failure", !.failures = @ + 1,
              !.first = IF @ = {} THEN {e} ELSE @, !.counted = @ \cup {e}]

\* Mutant: the monitor does not remember the incident it opened.
ConfirmedForgotten(m, e, i) ==
    [m EXCEPT !.status = "incident", !.failures = @ + 1, !.counted = @ \cup {e}]

Confirmed(m, e, i) ==
    [m EXCEPT !.status = "incident", !.failures = @ + 1, !.active = i, !.counted = @ \cup {e}]

Disabled(m) == [m EXCEPT !.status = "disabled", !.failures = 0, !.first = {}, !.active = None, !.counted = {}]

\* A write of saveMonitor that lets go of an incident that is still open, or
\* keeps the count of a first failure without its status.
LetsGo(m) ==
    \/ monitor.active \in OpenIncidents /\ (m.status # "incident" \/ m.active # monitor.active)
    \/ monitor.status = "first-failure" /\ m.status \notin {"first-failure", "incident"} /\ m.failures > 0

--------------------------------------------------------------------------------
(* Calls *)

Event(c) == CHOOSE e \in call[c].events : TRUE

At(c, step) == call[c].at = step

Goto(c, step) == call' = [call EXCEPT ![c].at = step]

Finish(c) == call' = [call EXCEPT ![c] = IdleCall]

Begin(c, r) ==
    /\ At(c, "idle")
    /\ calls' = calls + 1
    /\ call' = [call EXCEPT ![c] = r]
    /\ overlapped' = (overlapped \/ \E d \in Calls \ {c} : ~At(d, "idle"))
    /\ calls < (IF overlapped' THEN MaxOverlapping ELSE MaxCalls)

Unbegun == UNCHANGED <<calls, overlapped>>

\* processObservation up to its first check: a stored event is a duplicate, and
\* the call returns having done nothing.
Receive(c, e) ==
    /\ observed[e] = "none"
    /\ Begin(c, [IdleCall EXCEPT !.at = "classify", !.events = {e}])
    /\ UNCHANGED <<monitor, incidents, observed, tlsAlerts, queued, window, entitled, interrupted, purged, changes>>

ProcessWebhook(c) == \E e \in Events \ Polled : Receive(c, e)

\* reconcileUptime and provisionUptime: without the entitlement the monitor is
\* read to be disabled instead.
ReadToDisable(c) ==
    /\ ~entitled
    /\ Begin(c, [IdleCall EXCEPT !.at = "disable", !.read = monitor])
    /\ UNCHANGED <<monitor, incidents, observed, tlsAlerts, queued, window, entitled, interrupted, purged, changes>>

ReconcileUptime(c) == ReadToDisable(c) \/ (entitled /\ \E e \in Polled : Receive(c, e))

\* The unique index admits a row that leaves no second incident open.
Admitted(i, row) == row.status = "open" => OpenIncidents \subseteq {i}

\* An incident is inserted or its whole row written over.
SaveIncident(i, row) ==
    /\ Admitted(i, row)
    /\ incidents' = [incidents EXCEPT ![i] = row]

\* The whole row is written from what was read, as by every save below.
Save(m) ==
    /\ monitor' = m
    /\ interrupted' = (interrupted \/ LetsGo(m))

DisableUptime(c) ==
    /\ At(c, "disable")
    /\ Save(Disabled(call[c].read))
    /\ Finish(c)
    /\ Unbegun
    /\ UNCHANGED <<incidents, observed, tlsAlerts, queued, window, entitled, purged, changes>>

\* The provider's check exists when the monitor is read.
ProvisionUptime(c) ==
    /\ entitled
    /\ Begin(c, [IdleCall EXCEPT !.at = "provision", !.read = monitor])
    /\ UNCHANGED <<monitor, incidents, observed, tlsAlerts, queued, window, entitled, interrupted, purged, changes>>

SaveProvisioned(c) ==
    /\ At(c, "provision")
    /\ \E status \in {"healthy", call[c].read.status} :
           Save([call[c].read EXCEPT !.status = status])
    /\ Finish(c)
    /\ Unbegun
    /\ UNCHANGED <<incidents, observed, tlsAlerts, queued, window, entitled, purged, changes>>

--------------------------------------------------------------------------------
(* processObservation *)

\* Mutant: the reason is not looked at.
IsTlsFailureNever(e) == FALSE

\* isTlsFailure: told by the reason of the event.
IsTlsFailure(e) == e \in Tls

\* Mutant: the first failure is not remembered by its event.
RepeatedFirstUnknown(c) == FALSE

\* The first failure is no stored observation; the monitor row remembers it.
RepeatedFirst(c) == monitor.status = "first-failure" /\ monitor.first = call[c].events

\* A window counts for the events whose time it covers.
Covered == {FALSE, window}

Classify(c) ==
    /\ At(c, "classify")
    /\ Unbegun
    /\ LET e == Event(c) IN
       \/ /\ RepeatedFirst(c)
          /\ Finish(c)
          /\ UNCHANGED observed
       \/ /\ ~RepeatedFirst(c)
          /\ e \in Unknown
          /\ observed' = Store(observed, e, "unknown")
          /\ Finish(c)
       \/ /\ ~RepeatedFirst(c)
          /\ e \in Unhealthy \cup Tls /\ IsTlsFailure(e)
          /\ Goto(c, "tls")
          /\ UNCHANGED observed
       \/ /\ ~RepeatedFirst(c)
          /\ e \in Unhealthy \cup Tls /\ ~IsTlsFailure(e)
          /\ \E covered \in Covered :
                IF covered
                THEN observed' = Store(observed, e, "maintenance") /\ Goto(c, "maintain")
                ELSE UNCHANGED observed /\ Goto(c, "fail")
       \/ /\ ~RepeatedFirst(c)
          /\ e \in Healthy
          /\ Goto(c, "succeed")
          /\ UNCHANGED observed
    /\ UNCHANGED <<monitor, incidents, tlsAlerts, queued, window, entitled, interrupted, purged, changes>>

\* ensureMonitor: what the call reads here is what it writes back later.
ReadMonitor(c, step) == call' = [call EXCEPT ![c].at = step, ![c].read = monitor]

ReadMaintained(c) ==
    /\ At(c, "maintain")
    /\ ReadMonitor(c, "mark")
    /\ UNCHANGED <<monitor, incidents, observed, tlsAlerts, queued, window, entitled,
                   overlapped, interrupted, purged, calls, changes>>

\* Mutant: the excluded failure is counted.
MarkMaintainedCounting(c) ==
    /\ At(c, "mark")
    /\ Save([FirstFailure(call[c].read, Event(c)) EXCEPT !.status = "maintenance"])
    /\ Finish(c)
    /\ Unbegun
    /\ UNCHANGED <<incidents, observed, tlsAlerts, queued, window, entitled, purged, changes>>

MarkMaintained(c) ==
    /\ At(c, "mark")
    /\ Save([call[c].read EXCEPT !.status = "maintenance"])
    /\ Finish(c)
    /\ Unbegun
    /\ UNCHANGED <<incidents, observed, tlsAlerts, queued, window, entitled, purged, changes>>

\* A TLS alert is inserted open; the service asked for an open one just before.
CreateTlsAlert == NextAlert \in Alerts /\ tlsAlerts' = [tlsAlerts EXCEPT ![NextAlert] = "open"]

\* processTlsFailure: only the first failure opens an alert and queues a message.
ProcessTlsFailure(c) ==
    /\ At(c, "tls")
    /\ observed' = Store(observed, Event(c), "tls-error")
    /\ \/ /\ OpenAlerts # {}
          /\ UNCHANGED <<tlsAlerts, queued>>
       \/ /\ OpenAlerts = {}
          /\ CreateTlsAlert
          /\ queued' = queued \cup {<<"tls-open", NextAlert>>}
    /\ Finish(c)
    /\ Unbegun
    /\ UNCHANGED <<monitor, incidents, window, entitled, interrupted, purged, changes>>

--------------------------------------------------------------------------------
(* processFailure *)

Tracks(m) == m.status = "incident" /\ m.active # None

\* The branch is chosen by the row that was read.  Within an incident the
\* transaction reads the incident next, without a lock.
ReadFailing(c) ==
    /\ At(c, "fail")
    /\ ReadMonitor(c, "count")
    /\ UNCHANGED <<monitor, incidents, observed, tlsAlerts, queued, window, entitled,
                   overlapped, interrupted, purged, calls, changes>>

ReadIncident(c, step) ==
    call' = [call EXCEPT ![c].at = step, ![c].id = call[c].read.active,
                         ![c].row = incidents[call[c].read.active]]

CountFailure(c) ==
    /\ At(c, "count")
    /\ ~Tracks(call[c].read)
    /\ call[c].read.failures + 1 < Threshold
    /\ Save(FirstFailure(call[c].read, Event(c)))
    /\ Finish(c)
    /\ Unbegun
    /\ UNCHANGED <<incidents, observed, tlsAlerts, queued, window, entitled, purged, changes>>

Confirms(c) ==
    /\ At(c, "count")
    /\ ~Tracks(call[c].read)
    /\ call[c].read.failures + 1 >= Threshold

\* The row of the incident that a confirming call inserts.
Opened(c) == [status |-> "open", counted |-> Confirmed(call[c].read, Event(c), NextIncident).counted]

\* One transaction: incident, observations, monitor and message.
ConfirmIncident(c) ==
    /\ Confirms(c)
    /\ NextIncident \in Incidents
    /\ Save(Confirmed(call[c].read, Event(c), NextIncident))
    /\ SaveIncident(NextIncident, Opened(c))
    /\ observed' = [e \in Events |-> IF e \in call[c].read.first \cup call[c].events /\ observed[e] = "none"
                                     THEN "unhealthy" ELSE observed[e]]
    /\ queued' = queued \cup {<<"confirmed", NextIncident>>}
    /\ Finish(c)
    /\ Unbegun
    /\ UNCHANGED <<tlsAlerts, window, entitled, purged, changes>>

ReadTouched(c) ==
    /\ At(c, "count")
    /\ Tracks(call[c].read)
    /\ ReadIncident(c, "touch")
    /\ UNCHANGED <<monitor, incidents, observed, tlsAlerts, queued, window, entitled,
                   overlapped, interrupted, purged, calls, changes>>

\* Both whole rows are written back: the incident's status is the one read.
TouchIncident(c) ==
    /\ At(c, "touch")
    /\ LET e == Event(c) IN
       /\ SaveIncident(call[c].id, [call[c].row EXCEPT !.counted = @ \cup {e}])
       /\ observed' = Store(observed, e, "unhealthy")
       /\ Save([call[c].read EXCEPT !.failures = IF observed[e] = "none" THEN @ + 1 ELSE @,
                                    !.counted = @ \cup {e}])
    /\ Finish(c)
    /\ Unbegun
    /\ UNCHANGED <<tlsAlerts, queued, window, entitled, purged, changes>>

--------------------------------------------------------------------------------
(* processSuccess *)

ReadSucceeding(c) ==
    /\ At(c, "succeed")
    /\ call' = [call EXCEPT ![c].at = IF OpenAlerts = {} THEN "restore" ELSE "resolve",
                            ![c].read = monitor,
                            ![c].id = IF OpenAlerts = {} THEN None ELSE CHOOSE a \in OpenAlerts : TRUE]
    /\ UNCHANGED <<monitor, incidents, observed, tlsAlerts, queued, window, entitled,
                   overlapped, interrupted, purged, calls, changes>>

\* resolveTls: the message is queued whether or not the alert was still open.
ResolveTls(c) ==
    /\ At(c, "resolve")
    /\ tlsAlerts' = [tlsAlerts EXCEPT ![call[c].id] = "resolved"]
    /\ queued' = queued \cup {<<"tls-resolved", call[c].id>>}
    /\ Goto(c, "restore")
    /\ Unbegun
    /\ UNCHANGED <<monitor, incidents, observed, window, entitled, interrupted, purged, changes>>

\* After a first failure or maintenance nothing else than the monitor is written.
DiscardTransient(c) ==
    /\ At(c, "restore")
    /\ call[c].read.status \in {"first-failure", "maintenance"}
    /\ Save(Reset(call[c].read))
    /\ Finish(c)
    /\ Unbegun
    /\ UNCHANGED <<incidents, observed, tlsAlerts, queued, window, entitled, purged, changes>>

StoreHealthy(c) ==
    /\ At(c, "restore")
    /\ call[c].read.status \notin {"first-failure", "maintenance"}
    /\ ~Tracks(call[c].read)
    /\ observed' = Store(observed, Event(c), "healthy")
    /\ Goto(c, "stored")
    /\ Unbegun
    /\ UNCHANGED <<monitor, incidents, tlsAlerts, queued, window, entitled, interrupted, purged, changes>>

SaveHealthy(c) ==
    /\ At(c, "stored")
    /\ Save(Reset(call[c].read))
    /\ Finish(c)
    /\ Unbegun
    /\ UNCHANGED <<incidents, observed, tlsAlerts, queued, window, entitled, purged, changes>>

\* The recovery transaction writes all but the status of the incident it reads
\* back as it was read.
ReadRecovering(c) ==
    /\ At(c, "restore")
    /\ Tracks(call[c].read)
    /\ ReadIncident(c, "recover")
    /\ UNCHANGED <<monitor, incidents, observed, tlsAlerts, queued, window, entitled,
                   overlapped, interrupted, purged, calls, changes>>

RecoverIncident(c) ==
    /\ At(c, "recover")
    /\ SaveIncident(call[c].id, [call[c].row EXCEPT !.status = "recovered"])
    /\ observed' = Store(observed, Event(c), "healthy")
    /\ monitor' = Reset(call[c].read)
    /\ queued' = queued \cup {<<"recovery", call[c].id>>}
    /\ Finish(c)
    /\ Unbegun
    /\ UNCHANGED <<tlsAlerts, window, entitled, interrupted, purged, changes>>

--------------------------------------------------------------------------------
(* Technicians, plans, retention and restarts *)

\* updateRecoveryReport: notes are added to any incident, open or not.
ReadReport(c) ==
    /\ \E i \in Incidents :
          /\ incidents[i].status # "absent"
          /\ Begin(c, [IdleCall EXCEPT !.at = "report", !.id = i, !.row = incidents[i]])
    /\ UNCHANGED <<monitor, incidents, observed, tlsAlerts, queued, window, entitled, interrupted, purged, changes>>

SaveReport(c) ==
    /\ At(c, "report")
    /\ SaveIncident(call[c].id, call[c].row)
    /\ Finish(c)
    /\ Unbegun
    /\ UNCHANGED <<monitor, observed, tlsAlerts, queued, window, entitled, interrupted, purged, changes>>

\* The incident that a call is about to write would be a second open one.
MeetsIndex(c) ==
    \/ Confirms(c) /\ ~Admitted(NextIncident, Opened(c))
    \/ call[c].at \in {"touch", "report"} /\ ~Admitted(call[c].id, call[c].row)

\* The statement meets uptime_incidents_one_open_site: the call throws and its
\* transaction is undone.
SaveRejected(c) ==
    /\ MeetsIndex(c)
    /\ Finish(c)
    /\ UNCHANGED <<monitor, incidents, observed, tlsAlerts, queued, window, entitled,
                   overlapped, interrupted, purged, calls, changes>>

Change ==
    /\ changes < MaxChanges
    /\ changes' = changes + 1

CreateMaintenanceWindow ==
    /\ ~window
    /\ Change
    /\ window' = TRUE
    /\ UNCHANGED <<monitor, incidents, observed, tlsAlerts, queued, entitled, call, interrupted, purged>>
    /\ Unbegun

CancelMaintenanceWindow ==
    /\ window
    /\ window' = FALSE
    /\ UNCHANGED <<monitor, incidents, observed, tlsAlerts, queued, entitled, call, interrupted, purged, changes>>
    /\ Unbegun

ChangeEntitlement ==
    /\ Change
    /\ entitled' = ~entitled
    /\ UNCHANGED <<monitor, incidents, observed, tlsAlerts, queued, window, call, interrupted, purged>>
    /\ Unbegun

\* Observations older than 60 days are deleted; incidents are kept.
PurgeRawHistory ==
    /\ Change
    /\ \E e \in Events :
          /\ observed[e] # "none"
          /\ observed' = [observed EXCEPT ![e] = "none"]
          /\ purged' = purged \cup {e}
    /\ UNCHANGED <<monitor, incidents, tlsAlerts, queued, window, entitled, call, interrupted>>
    /\ Unbegun

\* The process ends between two statements of a call, or a statement fails.
Crash(c) ==
    /\ ~At(c, "idle")
    /\ Change
    /\ Finish(c)
    /\ UNCHANGED <<monitor, incidents, observed, tlsAlerts, queued, window, entitled, interrupted, purged>>
    /\ Unbegun

--------------------------------------------------------------------------------

Init ==
    /\ monitor = NewMonitor
    /\ incidents = [i \in Incidents |-> AbsentIncident]
    /\ observed = [e \in Events |-> "none"]
    /\ tlsAlerts = [a \in Alerts |-> "absent"]
    /\ queued = {}
    /\ window = FALSE
    /\ entitled = TRUE
    /\ call = [c \in Calls |-> IdleCall]
    /\ overlapped = FALSE
    /\ interrupted = FALSE
    /\ purged = {}
    /\ calls = 0
    /\ changes = 0

ProcessObservation(c) ==
    \/ Classify(c) \/ ReadMaintained(c) \/ MarkMaintained(c) \/ ProcessTlsFailure(c)
    \/ ReadFailing(c) \/ CountFailure(c) \/ ConfirmIncident(c)
    \/ ReadTouched(c) \/ TouchIncident(c)
    \/ ReadSucceeding(c) \/ ResolveTls(c) \/ DiscardTransient(c) \/ StoreHealthy(c)
    \/ SaveHealthy(c) \/ ReadRecovering(c) \/ RecoverIncident(c)

Work(c) ==
    \/ ProcessWebhook(c) \/ ReconcileUptime(c) \/ DisableUptime(c)
    \/ ProvisionUptime(c) \/ SaveProvisioned(c)
    \/ ProcessObservation(c)
    \/ ReadReport(c) \/ SaveReport(c) \/ SaveRejected(c)
    \/ Crash(c)

Next ==
    \/ \E c \in Calls : Work(c)
    \/ CreateMaintenanceWindow \/ CancelMaintenanceWindow
    \/ ChangeEntitlement \/ PurgeRawHistory

Spec == Init /\ [][Next]_vars

================================================================================
