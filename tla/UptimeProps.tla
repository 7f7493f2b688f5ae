------------------------------ MODULE UptimeProps ------------------------------
(* What the uptime monitor of a site promises.                                *)
EXTENDS UptimeMonitor

\* The rows and calls have the shape of their tables and of the service's code.
UptimeTypeOK ==
    /\ monitor \in Monitor
    /\ incidents \in [Incidents -> Incident]
    /\ observed \in [Events -> {"none", "healthy", "unhealthy", "unknown", "maintenance", "tls-error"}]
    /\ tlsAlerts \in [Alerts -> {"absent", "open", "resolved"}]
    /\ queued \subseteq ({"confirmed", "recovery"} \X Incidents) \cup ({"tls-open", "tls-resolved"} \X Alerts)
    /\ call \in [Calls -> [at : Step, events : SUBSET Events, read : Monitor, row : Incident,
                           id : Incidents \cup Alerts \cup {None}]]
    /\ {window, entitled, overlapped, interrupted} \subseteq BOOLEAN
    /\ purged \subseteq Events
    /\ calls \in 0 .. MaxCalls /\ changes \in 0 .. MaxChanges

\* However calls interleave, a site has at most one open incident and one open
\* TLS alert (the partial unique indexes), every incident was alerted, and one
\* that has recovered was reported.
AlertsMatchRows ==
    /\ Cardinality({i \in Incidents : incidents[i].status = "open"}) <= 1
    /\ Cardinality(OpenAlerts) <= 1
    /\ \A i \in Incidents :
          /\ incidents[i].status # "absent" <=> <<"confirmed", i>> \in queued
          /\ incidents[i].status = "recovered" => <<"recovery", i>> \in queued
    /\ \A a \in Alerts :
          /\ tlsAlerts[a] # "absent" <=> <<"tls-open", a>> \in queued
          /\ tlsAlerts[a] = "resolved" <=> <<"tls-resolved", a>> \in queued

\* TLS failures and provider states that are no failures never count towards an
\* incident, neither in the monitor nor in the incident.
OnlyDowntimeCounts ==
    /\ monitor.counted \subseteq Unhealthy
    /\ \A i \in Incidents : incidents[i].counted \subseteq Unhealthy

\* While calls do not overlap and nothing takes the monitor away from a first
\* failure, redelivered webhooks are not counted twice: an incident rests on at
\* least as many distinct events as the threshold (of two).
DistinctFailures ==
    ~overlapped /\ ~interrupted =>
        \A i \in Incidents : incidents[i].status # "absent" => Cardinality(incidents[i].counted) >= Threshold

\* In the same circumstances a failure stored as excluded by a maintenance
\* window is not among the failures that are counted, unless the observation
\* that told it was counted has been deleted since.
ExcludedNotCounted ==
    ~overlapped /\ ~interrupted =>
        \A e \in Events \ purged : observed[e] = "maintenance" =>
            e \notin monitor.counted \cup UNION {incidents[i].counted : i \in OpenIncidents}

\* What is counted is counted once, and nothing excluded is.
CountedOnce == DistinctFailures /\ ExcludedNotCounted

\* While calls do not overlap and no maintenance, provisioning or loss of the
\* entitlement takes the monitor away from an open incident, the monitor and
\* the incident table agree on what is open.
OpenIncidentTracked ==
    ~overlapped /\ ~interrupted =>
        \A i \in Incidents : incidents[i].status = "open" <=> (Tracks(monitor) /\ monitor.active = i)

\* Under every interleaving rows keep their shape, alerts match them and only
\* downtime is counted; without overlap it is counted once, and the monitor knows
\* what is open.
RowsAndAlertsAgree ==
    UptimeTypeOK /\ AlertsMatchRows /\ OnlyDowntimeCounts /\ CountedOnce /\ OpenIncidentTracked

\* While calls do not overlap, a recovered incident is never opened again.
StaysRecovered ==
    \A i \in Incidents :
        incidents[i].status = "recovered" /\ ~overlapped' => incidents'[i].status = "recovered"

RecoveredIsFinal == [][StaysRecovered]_vars

\* The documented promise that a healthy observation closes an incident: when
\* the call of one has written its last row, no incident of the site is open.
SuccessClosesIncident ==
    [][\A c \in Calls :
         DiscardTransient(c) \/ SaveHealthy(c) \/ RecoverIncident(c) => OpenIncidents' = {}]_vars

================================================================================
