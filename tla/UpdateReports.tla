----------------------------- MODULE UpdateReports -----------------------------
(* How a WordPress site reports the updates of one component: the two options *)
(* of UpdateMonitorService (baseline and activity queue), the check-in that   *)
(* sends the queue and removes what the dashboard acknowledges, and the       *)
(* activities the dashboard stores.  PHP requests overlap, options are read   *)
(* and written without a lock, and an option read once comes from the cache   *)
(* of the request afterwards, unless the site shares its object cache.        *)
EXTENDS Naturals, FiniteSets

CONSTANTS
    Requests,       \* PHP requests: updates, cron runs, refreshes, connection tests
    Versions,       \* the versions of the component
    First,          \* the one installed in the beginning
    NoVersion,      \* no baseline yet
    QueueLimit,     \* activities the queue holds (200)
    MaxActivities,  \* bound: activities created
    MaxUpdates      \* bound: updates, failed ones included

ReportAssumption ==
    /\ First \in Versions /\ NoVersion \notin Versions
    /\ QueueLimit \in Nat \ {0} /\ MaxActivities \in Nat /\ MaxUpdates \in Nat

VARIABLES
    installed,      \* the version WordPress has
    baseline,       \* apsc_update_inventory_baseline
    queue,          \* apsc_update_activity_queue: what it holds, the oldest first
    recorded,       \* wordpress_update_activities, unique by source_event_id
    request,        \* where each request is and what it has read
    created,        \* activities created
    updates,        \* updates tried
    opening,        \* ghost: the versions written by requests that found no baseline
    stored,         \* ghost: the activities that have been in the queue
    crowdedOut,     \* ghost: those that its limit removed
    overwritten      \* ghost: a request wrote a queue another had written since it read it

vars == <<installed, baseline, queue, recorded, request, created, updates,
          opening, stored, crowdedOut, overwritten>>

Outcomes == {"succeeded", "failed", "observed"}

\* The order of creation stands for the UUID of an activity.
Activity == [id : 1 .. MaxActivities, version : Versions, outcome : Outcomes]

\* What a request has read: the installed version, the baseline and the queue;
\* and what the dashboard has accepted of it.
Request == [at : {"idle", "noticed", "enqueue", "reconcile", "compare", "observe",
                  "settle", "gather", "send", "answered", "purge"},
            seen : Versions, prior : Versions \cup {NoVersion}, outcome : Outcomes,
            copy : SUBSET Activity, sent : SUBSET Activity]

IdleRequest == [at |-> "idle", seen |-> First, prior |-> NoVersion, outcome |-> "observed",
                copy |-> {}, sent |-> {}]

--------------------------------------------------------------------------------
(* The options *)

Goto(r, value) == request' = [request EXCEPT ![r] = value]

\* update_option of the queue a request has worked out from its copy.
SaveQueue(r, q) ==
    /\ queue' = q
    /\ stored' = stored \cup q
    /\ overwritten' = (overwritten \/ request[r].copy # queue)

QueueUnchanged == UNCHANGED <<queue, stored, crowdedOut, overwritten>>

\* array_slice(queue, -200): with one activity too many the oldest is left out.
Newest(q) ==
    IF Cardinality(q) <= QueueLimit THEN {q}
    ELSE {q \ {a} : a \in {a \in q : \A b \in q : a.id <= b.id}}

--------------------------------------------------------------------------------
(* Updates *)

\* WordPress installs a version and will call upgrader_process_complete, unless
\* the request ends first or the update is not one of its own.
Update(r) ==
    /\ request[r].at = "idle" /\ updates < MaxUpdates
    /\ installed' \in Versions \ {installed}
    /\ updates' = updates + 1
    /\ Goto(r, [IdleRequest EXCEPT !.at = "noticed", !.outcome = "succeeded"])
    /\ QueueUnchanged /\ UNCHANGED <<baseline, recorded, created, opening>>

\* An update fails and leaves the version as it was.
FailUpdate(r) ==
    /\ request[r].at = "idle" /\ updates < MaxUpdates
    /\ updates' = updates + 1
    /\ Goto(r, [IdleRequest EXCEPT !.at = "noticed", !.outcome = "failed"])
    /\ QueueUnchanged /\ UNCHANGED <<installed, baseline, recorded, created, opening>>

\* record_completed_update and record_failure read the version and the queue.
Notice(r) ==
    /\ request[r].at = "noticed"
    /\ Goto(r, [request[r] EXCEPT !.at = "enqueue", !.seen = installed, !.copy = queue])
    /\ QueueUnchanged /\ UNCHANGED <<installed, baseline, recorded, created, updates, opening>>

\* Where an activity has been enqueued from.
AfterEnqueue(r, q) ==
    IF request[r].at = "observe" THEN [request[r] EXCEPT !.at = "settle", !.copy = q] ELSE IdleRequest

\* enqueue: nothing new when the queue has the same result of the last minutes.
SkipDuplicate(r) ==
    /\ request[r].at \in {"enqueue", "observe"}
    /\ \E a \in request[r].copy :
          a.outcome = request[r].outcome /\ a.version = request[r].seen
    /\ Goto(r, AfterEnqueue(r, request[r].copy))
    /\ QueueUnchanged /\ UNCHANGED <<installed, baseline, recorded, created, updates, opening>>

Enqueue(r) ==
    /\ request[r].at \in {"enqueue", "observe"} /\ created < MaxActivities
    /\ LET activity == [id |-> created + 1, version |-> request[r].seen, outcome |-> request[r].outcome]
           longer == request[r].copy \cup {activity}
       IN  \E q \in Newest(longer) :
              /\ SaveQueue(r, q)
              /\ crowdedOut' = crowdedOut \cup (longer \ q)
              /\ Goto(r, AfterEnqueue(r, q))
    /\ created' = created + 1
    /\ UNCHANGED <<installed, baseline, recorded, updates, opening>>

--------------------------------------------------------------------------------
(* Check-ins *)

\* collect takes the inventory, after WordPress has asked for updates.
Collect(r) ==
    /\ request[r].at = "idle"
    /\ Goto(r, [IdleRequest EXCEPT !.at = "reconcile", !.seen = installed])
    /\ QueueUnchanged /\ UNCHANGED <<installed, baseline, recorded, created, updates, opening>>

\* reconcile_and_get_pending reads the baseline; the first inventory becomes it,
\* and one that is equal to it is not written.
Reconcile(r) ==
    /\ request[r].at = "reconcile"
    /\ Goto(r, [request[r] EXCEPT !.prior = baseline,
                                  !.at = CASE baseline = NoVersion -> "settle"
                                           [] baseline = request[r].seen -> "gather"
                                           [] OTHER -> "compare"])
    /\ QueueUnchanged /\ UNCHANGED <<installed, baseline, recorded, created, updates, opening>>

\* Mutant: a failed attempt counts as the result of its version.
ResultOfAnyOutcome(a, version) == a.version = version

\* queue_has_result
IsResult(a, version) == a.version = version /\ a.outcome \in {"succeeded", "observed"}

Compare(r) ==
    /\ request[r].at = "compare"
    /\ Goto(r, [request[r] EXCEPT !.copy = queue,
                                  !.outcome = "observed",
                                  !.at = IF \E a \in queue : IsResult(a, request[r].seen)
                                         THEN "settle" ELSE "observe"])
    /\ QueueUnchanged /\ UNCHANGED <<installed, baseline, recorded, created, updates, opening>>

\* The baseline moves on after the activity has been enqueued.
Settle(r) ==
    /\ request[r].at = "settle"
    /\ baseline' = request[r].seen
    /\ opening' = IF request[r].prior = NoVersion THEN opening \cup {request[r].seen} ELSE opening
    /\ Goto(r, [request[r] EXCEPT !.at = IF request[r].prior = NoVersion THEN "gather" ELSE "send"])
    /\ QueueUnchanged /\ UNCHANGED <<installed, recorded, created, updates>>

\* A queue that has not been read yet.
Gather(r) ==
    /\ request[r].at = "gather"
    /\ Goto(r, [request[r] EXCEPT !.at = "send", !.copy = queue])
    /\ QueueUnchanged /\ UNCHANGED <<installed, baseline, recorded, created, updates, opening>>

\* The dashboard stores the activities it does not have in one transaction and
\* accepts them all.
Send(r) ==
    /\ request[r].at = "send"
    /\ recorded' = recorded \cup request[r].copy
    /\ Goto(r, [request[r] EXCEPT !.at = "answered", !.sent = request[r].copy])
    /\ QueueUnchanged /\ UNCHANGED <<installed, baseline, created, updates, opening>>

\* acknowledge reads the queue again, from its own cache or from a shared one.
Acknowledge(r) ==
    /\ request[r].at = "answered"
    /\ \E known \in {request[r].copy, queue} :
          Goto(r, [request[r] EXCEPT !.at = "purge", !.copy = known])
    /\ QueueUnchanged /\ UNCHANGED <<installed, baseline, recorded, created, updates, opening>>

\* Mutant: an acknowledgment empties the queue.
KeepNothing(r) == {}

\* What remains of the queue when the accepted activities are unset.
Unacknowledged(r) == request[r].copy \ request[r].sent

\* A queue that has not changed is not written.
Purge(r) ==
    /\ request[r].at = "purge"
    /\ IF Unacknowledged(r) = request[r].copy
       THEN QueueUnchanged
       ELSE SaveQueue(r, Unacknowledged(r)) /\ UNCHANGED crowdedOut
    /\ Goto(r, IdleRequest)
    /\ UNCHANGED <<installed, baseline, recorded, created, updates, opening>>

\* The request dies, is refused by the dashboard or does not get its answer.
End(r) ==
    /\ request[r].at # "idle"
    /\ Goto(r, IdleRequest)
    /\ QueueUnchanged /\ UNCHANGED <<installed, baseline, recorded, created, updates, opening>>

Init ==
    /\ installed = First
    /\ baseline = NoVersion
    /\ queue = {}
    /\ recorded = {}
    /\ request = [r \in Requests |-> IdleRequest]
    /\ created = 0
    /\ updates = 0
    /\ opening = {}
    /\ stored = {}
    /\ crowdedOut = {}
    /\ overwritten = FALSE

Step(r) ==
    \/ Update(r) \/ FailUpdate(r) \/ Notice(r) \/ SkipDuplicate(r) \/ Enqueue(r)
    \/ Collect(r) \/ Reconcile(r) \/ Compare(r) \/ Settle(r) \/ Gather(r)
    \/ Send(r) \/ Acknowledge(r) \/ Purge(r) \/ End(r)

Next == \E r \in Requests : Step(r)

Spec == Init /\ [][Next]_vars

--------------------------------------------------------------------------------
(* What the reports promise *)

\* Options, rows and requests have the shape the code gives them.
ReportsTypeOK ==
    /\ installed \in Versions /\ baseline \in Versions \cup {NoVersion} /\ opening \subseteq Versions
    /\ queue \subseteq Activity /\ Cardinality(queue) <= QueueLimit
    /\ recorded \subseteq Activity /\ stored \subseteq Activity /\ crowdedOut \subseteq stored
    /\ request \in [Requests -> Request]
    /\ created \in 0 .. MaxActivities /\ updates \in 0 .. MaxUpdates /\ overwritten \in BOOLEAN

\* However often a report is refused, repeated or answered in vain, an activity
\* leaves the queue only when the dashboard has it or newer ones crowd it out,
\* while writes of the queue do not overlap.
QueuedOrRecorded ==
    ~overwritten => stored \subseteq queue \cup recorded \cup crowdedOut

\* The baseline never moves past a change nobody has noted: a version that was not
\* written as the first baseline has an activity that says so, whichever request
\* noticed it, died in between or saw an older inventory.
ChangeHasActivity ==
    baseline \notin opening \cup {NoVersion} => \E a \in stored : a.version = baseline /\ a.outcome # "failed"

\* A change of a version reaches the dashboard or is on its way there.
ChangesReported == ReportsTypeOK /\ QueuedOrRecorded /\ ChangeHasActivity

\* docs/WORDPRESS_UPDATE_INTELLIGENCE.md: the plugin removes only acknowledged
\* local events.
OnlyAcknowledgedRemoved ==
    [][queue \ queue' \subseteq recorded]_vars

================================================================================
