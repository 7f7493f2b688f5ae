----------------------------- MODULE CloudflareZone -----------------------------
(* The health check that probes one site for the dashboard: it lives at       *)
(* Cloudflare, the row cloudflare_site_connections names it, and the monitor  *)
(* remembers the interval it was last set to.  Each call of the dashboard is  *)
(* cut at every request to Cloudflare and at every statement.                 *)
EXTENDS Naturals, FiniteSets

CONSTANTS
    Calls,          \* jobs and requests under way at once
    Intervals,      \* intervals that plans promise
    Fast,           \* the interval while a site is down (60 seconds)
    MaxChecks,      \* bound: health checks ever made
    MaxErrands,     \* bound: calls
    MaxChanges      \* bound: changes of the plan and deletions at Cloudflare

ZoneAssumption ==
    /\ Intervals \subseteq Nat /\ Fast \in Nat
    /\ MaxChecks \in Nat /\ MaxErrands \in Nat /\ MaxChanges \in Nat

VARIABLES
    checks,         \* external: the health checks of the zone
    entitled,       \* the plan includes uptime-monitoring
    promised,       \* the interval of the plan
    connection,     \* the row cloudflare_site_connections
    pace,           \* current_interval_seconds of the monitor
    errand,         \* what each call has read, and what it does next
    errands, changes,   \* counters of the bounds
    overlapped,     \* ghost: two calls were under way at once
    cut,            \* ghost: a call ended before it wrote what Cloudflare had done
    unheard         \* ghost: the answer to the last change of the check was lost

rows == <<connection, pace>>
plan == <<entitled, promised, changes>>
vars == <<checks, rows, plan, errand, errands, overlapped, cut, unheard>>

None == 0
Ids == 1 .. MaxChecks

\* All of them have the name of the site.
Check == [status : {"never", "exists", "deleted"}, interval : Intervals \cup {Fast}, suspended : BOOLEAN]

Connection == [availability : {"not-synchronized", "available", "not-found", "provider-error"},
               zone : BOOLEAN, check : Ids \cup {None}, normal : Intervals \cup {Fast}]

Step == {"idle", "disable", "sync", "site", "check", "create", "update", "save", "pace",
         "adjust", "observe", "note", "status"}

\* goal: what the call was made for.
Errand == [at : Step, goal : {"provision", "security", "reconcile", "webhook"}, row : Connection,
           check : Ids \cup {None}, promised : Intervals \cup {Fast},
           interval : Intervals \cup {Fast}]

NewConnection(interval) ==
    [availability |-> "not-synchronized", zone |-> FALSE, check |-> None, normal |-> interval]

Existing == {k \in Ids : checks[k].status = "exists"}

Idle(c) == errand[c].at = "idle"

Goto(c, step) == errand' = [errand EXCEPT ![c].at = step]

IdleErrand == [at |-> "idle", goal |-> "security", row |-> NewConnection(Fast), check |-> None,
               promised |-> Fast, interval |-> Fast]

Finish(c) == errand' = [errand EXCEPT ![c] = IdleErrand]

Begin(c, step, goal) ==
    /\ Idle(c) /\ errands < MaxErrands
    /\ errands' = errands + 1
    /\ overlapped' = (overlapped \/ \E d \in Calls \ {c} : ~Idle(d))
    /\ errand' = [errand EXCEPT ![c].at = step, ![c].goal = goal, ![c].row = connection,
                               ![c].check = None, ![c].promised = promised]

Unbegun == UNCHANGED <<errands, overlapped>>

--------------------------------------------------------------------------------
(* Provisioning *)

\* Without the entitlement the health check is suspended instead.
ProvisionUptime(c) ==
    /\ Begin(c, IF entitled THEN "sync" ELSE "disable", "provision")
    /\ UNCHANGED <<checks, rows, plan, cut, unheard>>

SynchronizeSecurity(c) ==
    /\ Begin(c, "sync", "security")
    /\ UNCHANGED <<checks, rows, plan, cut, unheard>>

\* Cloudflare may be out of reach, which is ignored.
DisableUptime(c) ==
    /\ errand[c].at = "disable"
    /\ \/ UNCHANGED checks
       \/ /\ connection.zone /\ connection.check \in Existing
          /\ checks' = [checks EXCEPT ![connection.check].suspended = TRUE]
    /\ Finish(c)
    /\ Unbegun /\ UNCHANGED <<rows, plan, cut, unheard>>

\* synchronizeSite reads the row and the plan,
ReadSite(c) ==
    /\ errand[c].at = "sync"
    /\ errand' = [errand EXCEPT ![c].at = "site", ![c].row = [connection EXCEPT !.normal = promised]]
    /\ Unbegun /\ UNCHANGED <<checks, rows, plan, cut, unheard>>

\* asks Cloudflare for the zone and writes the whole row; provisioning needs a zone.
SaveSite(c) ==
    LET row == errand[c].row IN
    /\ errand[c].at = "site"
    /\ \E answer \in {"available", "not-found", "provider-error"} :
          LET saved == [row EXCEPT !.availability = answer,
                                   !.zone = IF answer = "provider-error" THEN @ ELSE answer = "available"]
              goes == answer = "available" /\ errand[c].goal # "security"
          IN  /\ connection' = saved
              /\ IF goes THEN errand' = [errand EXCEPT ![c].at = "check", ![c].row = saved] ELSE Finish(c)
    /\ Unbegun /\ UNCHANGED <<checks, pace, plan, cut, unheard>>

\* Mutant: a check that the row does not name is not looked for.
NamedOnly(row) == Existing \cap {row.check}

\* The check that the row names, or else one with the name of the site.
Found(row) == IF row.check \in Existing THEN {row.check} ELSE Existing

FindCheck(c) ==
    LET found == Found(errand[c].row) IN
    /\ errand[c].at = "check"
    /\ \/ /\ found = {}
          /\ Goto(c, "create")
       \/ \E k \in found : errand' = [errand EXCEPT ![c].at = "update", ![c].check = k]
    /\ Unbegun /\ UNCHANGED <<checks, rows, plan, cut, unheard>>

SetCheck(c, k) ==
    /\ checks' = [checks EXCEPT ![k] = [status |-> "exists", interval |-> errand[c].row.normal, suspended |-> FALSE]]
    /\ errand' = [errand EXCEPT ![c].at = "save", ![c].check = k, ![c].interval = errand[c].row.normal]
    /\ unheard' = FALSE
    /\ Unbegun /\ UNCHANGED <<rows, plan, cut>>

CreateHealthCheck(c) ==
    /\ errand[c].at = "create"
    /\ \E k \in Ids : (\A j \in Ids : checks[j].status = "never" <=> j >= k) /\ SetCheck(c, k)

UpdateHealthCheck(c) ==
    /\ errand[c].at = "update" /\ errand[c].check \in Existing
    /\ SetCheck(c, errand[c].check)

\* The whole row again, as it was when the zone was found.
SaveCheck(c) ==
    LET row == [errand[c].row EXCEPT !.check = errand[c].check] IN
    /\ errand[c].at = "save"
    /\ connection' = row
    /\ errand' = [errand EXCEPT ![c].at = "pace", ![c].row = row]
    /\ Unbegun /\ UNCHANGED <<checks, pace, plan, cut, unheard>>

SavePace(c) ==
    /\ errand[c].at = "pace"
    /\ pace' = errand[c].interval
    /\ IF errand[c].goal = "reconcile" THEN Goto(c, "adjust") ELSE Finish(c)
    /\ Unbegun /\ UNCHANGED <<checks, connection, plan, cut, unheard>>

--------------------------------------------------------------------------------
(* Reconciliation and observations *)

\* A site without a health check is provisioned first.
ReconcileUptime(c) ==
    /\ Begin(c, IF ~entitled THEN "disable"
                ELSE IF connection.check # None /\ connection.zone THEN "adjust" ELSE "sync", "reconcile")
    /\ UNCHANGED <<checks, rows, plan, cut, unheard>>

\* The interval of the plan is saved; the check itself follows its next success.
AdjustInterval(c) ==
    LET row == [errand[c].row EXCEPT !.normal = errand[c].promised] IN
    /\ errand[c].at = "adjust"
    /\ connection' = IF row = errand[c].row THEN connection ELSE row
    /\ errand' = [errand EXCEPT ![c].at = "observe", ![c].row = row]
    /\ Unbegun /\ UNCHANGED <<checks, pace, plan, cut, unheard>>

ProcessWebhook(c) ==
    /\ connection.check # None
    /\ Begin(c, "observe", "webhook")
    /\ UNCHANGED <<checks, rows, plan, cut, unheard>>

\* Mutant: a request that fails is taken to have succeeded.
Believed(desired) == desired

Kept(desired) == pace

Note(c, interval) == errand' = [errand EXCEPT ![c].at = "note", ![c].interval = interval]

\* changeInterval: asks Cloudflare only for another interval than the monitor
\* remembers, and keeps that one when the request fails, also when Cloudflare
\* changed the check and the answer was lost.
ChangeInterval(c, desired) ==
    \/ /\ desired # pace /\ connection.zone /\ connection.check \in Existing
       /\ checks' = [checks EXCEPT ![connection.check].interval = desired]
       /\ \/ Note(c, desired) /\ unheard' = FALSE
          \/ Note(c, Kept(desired)) /\ unheard' = TRUE
    \/ Note(c, Kept(desired)) /\ UNCHANGED <<checks, unheard>>

\* A success asks for the interval of the plan, a first failure for the fast one; a
\* failure that confirms an incident takes it for granted, others leave it alone.
Observe(c) ==
    /\ errand[c].at = "observe"
    /\ errand[c].goal = "reconcile" => errand[c].row.check \in Existing
    /\ \/ ChangeInterval(c, connection.normal)
       \/ ChangeInterval(c, Fast)
       \/ UNCHANGED <<checks, unheard>> /\ \E interval \in {Fast, pace} : Note(c, interval)
    /\ Unbegun /\ UNCHANGED <<rows, plan, cut>>

NotePace(c) ==
    /\ errand[c].at = "note"
    /\ pace' = errand[c].interval
    /\ IF errand[c].goal = "reconcile" THEN Goto(c, "status") ELSE Finish(c)
    /\ Unbegun /\ UNCHANGED <<checks, connection, plan, cut, unheard>>

\* The whole row once more, for the status of the check.
SaveStatus(c) ==
    /\ errand[c].at = "status"
    /\ connection' = errand[c].row
    /\ Finish(c)
    /\ Unbegun /\ UNCHANGED <<checks, pace, plan, cut, unheard>>

--------------------------------------------------------------------------------
(* The system *)

\* A request or a statement fails, or the process ends.
End(c) ==
    /\ ~Idle(c)
    /\ cut' = (cut \/ errand[c].at \in {"save", "pace", "note"})
    /\ Finish(c)
    /\ Unbegun /\ UNCHANGED <<checks, rows, plan, unheard>>

\* The plan changes, or somebody deletes the check at Cloudflare.
Change ==
    /\ changes < MaxChanges
    /\ changes' = changes + 1
    /\ \/ entitled' = ~entitled /\ UNCHANGED <<promised, checks>>
       \/ promised' \in Intervals \ {promised} /\ UNCHANGED <<entitled, checks>>
       \/ /\ \E k \in Existing : checks' = [checks EXCEPT ![k].status = "deleted"]
          /\ UNCHANGED <<entitled, promised>>
    /\ UNCHANGED <<rows, errand, errands, overlapped, cut, unheard>>

Init ==
    /\ checks = [k \in Ids |-> [status |-> "never", interval |-> Fast, suspended |-> FALSE]]
    /\ entitled = TRUE /\ promised \in Intervals
    /\ connection = NewConnection(promised)
    /\ pace = promised
    /\ errand = [c \in Calls |-> IdleErrand]
    /\ errands = 0 /\ changes = 0
    /\ overlapped = FALSE /\ cut = FALSE /\ unheard = FALSE

Next ==
    \/ Change
    \/ \E c \in Calls :
          \/ ProvisionUptime(c) \/ SynchronizeSecurity(c) \/ DisableUptime(c) \/ ReadSite(c) \/ SaveSite(c)
          \/ FindCheck(c) \/ CreateHealthCheck(c) \/ UpdateHealthCheck(c) \/ SaveCheck(c) \/ SavePace(c)
          \/ ReconcileUptime(c) \/ AdjustInterval(c) \/ ProcessWebhook(c) \/ Observe(c) \/ NotePace(c)
          \/ SaveStatus(c) \/ End(c)

Spec == Init /\ [][Next]_vars

--------------------------------------------------------------------------------
(* What is promised of the health check *)

\* Rows, checks and calls have the shape of their tables and of the code.
ZoneTypeOK ==
    /\ checks \in [Ids -> Check] /\ connection \in Connection
    /\ entitled \in BOOLEAN /\ promised \in Intervals /\ pace \in Intervals \cup {Fast}
    /\ errand \in [Calls -> Errand] /\ errands \in 0 .. MaxErrands /\ changes \in 0 .. MaxChanges
    /\ overlapped \in BOOLEAN /\ cut \in BOOLEAN /\ unheard \in BOOLEAN

AllIdle == \A c \in Calls : Idle(c)

\* However often provisioning is cut off and begun again, a site has one health
\* check at most, while calls do not overlap.
OneCheck == ~overlapped => Cardinality(Existing) <= 1

\* No check probes the site without being named by its row, unless a call was cut
\* off between Cloudflare and the row.
CheckIsNamed == ~overlapped /\ ~cut /\ AllIdle /\ Existing # {} => connection.check \in Existing

\* The monitor remembers the interval of the check, or takes it to be the fast one:
\* so a success is never taken to need no change of the interval.  While calls do not
\* overlap and none is cut off, it is wrong only after a change that Cloudflare made
\* and whose answer was lost, until a later change or provisioning is answered.
PaceIsKnown ==
    ~overlapped /\ ~cut /\ ~unheard /\ AllIdle /\ connection.check \in Existing
        => checks[connection.check].interval = pace \/ pace = Fast

\* One check, known to the dashboard with its interval.
ZoneSound == ZoneTypeOK /\ OneCheck /\ CheckIsNamed /\ PaceIsKnown

================================================================================
