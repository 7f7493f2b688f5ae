----------------------------- MODULE Entitlements ------------------------------
(* The service plan of one site: its subscription, the one scheduled change,  *)
(* the activation intents and the capability exceptions.  Administrators      *)
(* change them after a preview that is read outside the transaction, clients  *)
(* are suspended, and every evaluation first writes what has fallen due.      *)
EXTENDS Naturals, FiniteSets

CONSTANTS
    Calls,          \* requests and jobs that may be under way at once
    MaxRank,        \* the highest plan; plans are their ranks, a plan has the
                    \*   activation capabilities up to its rank
    Exceptions,     \* the capabilities that exceptions are made for
    MaxOverrides,   \* bound: exceptions ever made
    MaxClock,       \* bound: the clock
    MaxChanges      \* bound: what administrators begin

EntitlementAssumption ==
    /\ {MaxRank, MaxOverrides, MaxClock, MaxChanges} \subseteq Nat
    /\ MaxRank > 0
    /\ Exceptions \subseteq 1 .. MaxRank

VARIABLES
    clock,
    client,         \* the client account that may be suspended: is the site its own, is it suspended
    subscription,   \* site_service_subscriptions: plan and status
    pending,        \* the scheduled row of site_plan_transitions
    intents,        \* the capabilities with a pending site_service_activation_intents
    override,       \* site_entitlement_overrides by id, in the order of creation
    call,           \* where each call is, and what it has read
    changes,        \* changes begun (bound)
    watch           \* ghost: per evaluation, what was in effect and what was written

tables == <<client, subscription, pending, intents, override>>

vars == <<clock, tables, call, changes, watch>>

Plans == 1 .. MaxRank

Capabilities(plan) == 1 .. plan

Forever == MaxClock + 1         \* no expiration
Ids == 1 .. MaxOverrides

Pending == [kind : {"none", "downgrade", "cancellation"}, to : Plans, at : 0 .. Forever]

NoPending == [kind |-> "none", to |-> 1, at |-> 0]

Override == [status : {"none", "live", "expired", "removed"}, capability : Plans, value : BOOLEAN,
             from : 0 .. MaxClock, until : 0 .. Forever]

NoOverride == [status |-> "none", capability |-> 1, value |-> FALSE, from |-> 0, until |-> 0]

Call == [at : {"idle", "context", "subscription", "overrides", "granted", "preview", "commit", "status"},
         time : 0 .. MaxClock, active : BOOLEAN, plan : Plans, granted : SUBSET Plans,
         action : {"none", "change", "cancel-service", "cancel-pending"}, target : Plans,
         effective : 0 .. Forever, listed : BOOLEAN]

IdleCall == [at |-> "idle", time |-> 0, active |-> FALSE, plan |-> 1, granted |-> {},
             action |-> "none", target |-> 1, effective |-> 0, listed |-> FALSE]

Suspended == client.owner /\ client.suspended

--------------------------------------------------------------------------------
(* Evaluation: synchronizeTemporalState, then four reads *)

InStatus(s) == {i \in Ids : override[i].status = s}

\* listActiveOverrides.
ActiveAt(time) == {i \in InStatus("live") : override[i].from <= time /\ time < override[i].until}

\* Exceptions are applied to the capabilities of the plan, the newest last.
WithOverrides(plan, time) ==
    {k \in Plans :
        LET S == {i \in ActiveAt(time) : override[i].capability = k}
        IN  IF S = {} THEN k \in Capabilities(plan)
            ELSE override[CHOOSE i \in S : \A j \in S : j <= i].value}

Due(time) == pending.kind # "none" /\ pending.at <= time

\* Mutant: the intents of a plan that is left stay as they are.
IntentsKept == intents

\* cancelPendingActivationIntents for the capabilities that are lost.
IntentsLeft == IF pending.kind = "cancellation" THEN {} ELSE intents \cap Capabilities(pending.to)

\* Mutant: what falls due at this moment is left for the next evaluation.
SynchronizeBefore(time) == Due(time) /\ pending.at < time

\* synchronizeTemporalState of one site: the scheduled change that is due is applied ...
Applies(time) == Due(time)

\* ... and the exceptions that are due are marked, in one transaction.
Synchronize(time) ==
    /\ IF Applies(time)
         THEN /\ subscription' = IF pending.kind = "downgrade"
                                   THEN [subscription EXCEPT !.plan = pending.to]
                                   ELSE [subscription EXCEPT !.active = FALSE]
              /\ intents' = IntentsLeft
              /\ pending' = NoPending
         ELSE UNCHANGED <<subscription, intents, pending>>
    /\ override' = [i \in Ids |-> IF override[i].status = "live" /\ override[i].until <= time
                                    THEN [override[i] EXCEPT !.status = "expired"] ELSE override[i]]

Goto(c, r) == call' = [call EXCEPT ![c] = r]

End(c) == Goto(c, IdleCall)

Abort(c) == End(c) /\ UNCHANGED tables

Begins(c) == call[c].at = "idle"

\* get, by a request, a handler or the five-minute schedule.
Evaluate(c) ==
    /\ Begins(c)
    /\ Synchronize(clock)
    /\ Goto(c, [IdleCall EXCEPT !.at = "context", !.time = clock])
    /\ UNCHANGED <<clock, client, changes>>

\* findSiteContext.
ReadContext(c) ==
    /\ call[c].at = "context"
    /\ Goto(c, [call[c] EXCEPT !.at = "subscription", !.active = ~Suspended])
    /\ UNCHANGED <<clock, tables, changes>>

ReadSubscription(c) ==
    /\ call[c].at = "subscription"
    /\ Goto(c, [call[c] EXCEPT !.at = "overrides", !.plan = subscription.plan,
                               !.active = @ /\ subscription.active])
    /\ UNCHANGED <<clock, tables, changes>>

ReadOverrides(c) ==
    /\ call[c].at = "overrides"
    /\ Goto(c, [IdleCall EXCEPT !.at = "granted",
                 !.granted = IF call[c].active THEN WithOverrides(call[c].plan, call[c].time) ELSE {}])
    /\ UNCHANGED <<clock, tables, changes>>

\* A handler that was granted its capability may acknowledge the intent: those of
\* the annual checkup and of the backups do.
Use(c) ==
    /\ call[c].at = "granted"
    /\ \E K \in {{}} \cup {{k} : k \in call[c].granted \ {1}} : intents' = intents \ K
    /\ End(c)
    /\ UNCHANGED <<clock, client, subscription, pending, override, changes>>

--------------------------------------------------------------------------------
(* What administrators do *)

MayChange == changes < MaxChanges /\ changes' = changes + 1

\* A paid period ends in the future; a downgrade and a cancellation ask for its end.
Requests ==
    [action : {"change"}, target : Plans, effective : clock + 1 .. Forever]
        \cup [action : {"cancel-service"}, target : {1}, effective : clock + 1 .. Forever]
        \cup [action : {"cancel-pending"}, target : {1}, effective : {0}]

\* applyChange: previewChange evaluates the site ...
BeginChange(c) ==
    /\ Begins(c) /\ MayChange
    /\ Synchronize(clock)
    /\ \E request \in Requests : Goto(c, [IdleCall EXCEPT !.at = "preview",
                     !.action = request.action, !.target = request.target, !.effective = request.effective])
    /\ UNCHANGED <<clock, client>>

\* ... and refuses what does not fit the plan and the scheduled change it reads.
Preview(c) ==
    /\ call[c].at = "preview"
    /\ IF \/ call[c].action = "cancel-pending" /\ pending.kind # "none"
          \/ /\ pending.kind = "none" /\ subscription.active
             /\ call[c].action = "change" => call[c].target # subscription.plan
             /\ call[c].action # "cancel-pending"
         THEN Goto(c, [call[c] EXCEPT !.at = "commit", !.plan = subscription.plan])
         ELSE End(c)
    /\ UNCHANGED <<clock, tables, changes>>

\* Mutant: the transaction relies on the plan of the preview.
StillActive(c) == subscription.active

\* The plan of the preview is still the plan of the site.
AsPreviewed(c) == subscription.active /\ subscription.plan = call[c].plan

\* The subscription row is written over with the plan asked for.
SaveSubscription(to) == subscription' = [subscription EXCEPT !.plan = to]

\* A change that waits for its time; a cancellation waits for the first plan.
CreateTransition(c) ==
    pending' = [kind |-> IF call[c].action = "change" THEN "downgrade" ELSE "cancellation",
                to |-> IF call[c].action = "change" THEN call[c].target ELSE 1,
                at |-> call[c].effective]

\* The transaction: a change that is pending is cancelled, or the plan and the
\* absence of a pending change are checked again and the change is made.
Commit(c) ==
    LET from == call[c].plan
        to   == call[c].target
    IN  /\ call[c].at = "commit"
        /\ \/ /\ call[c].action = "cancel-pending" /\ pending.kind # "none"
              /\ pending' = NoPending
              /\ UNCHANGED <<subscription, intents>>
           \/ /\ call[c].action # "cancel-pending" /\ pending.kind = "none" /\ AsPreviewed(c)
              /\ IF call[c].action = "change" /\ to > from
                   THEN /\ SaveSubscription(to)
                        /\ intents' = intents \cup (Capabilities(to) \ Capabilities(from))
                        /\ UNCHANGED pending
                   ELSE /\ CreateTransition(c)
                        /\ UNCHANGED <<subscription, intents>>
        /\ End(c)
        /\ UNCHANGED <<clock, client, override, changes>>

\* The transaction throws: somebody else changed the plan since the preview.
Reject(c) ==
    /\ call[c].at = "commit"
    /\ IF call[c].action = "cancel-pending" THEN pending.kind = "none"
       ELSE pending.kind # "none" \/ ~AsPreviewed(c)
    /\ Abort(c)
    /\ UNCHANGED <<clock, changes>>

\* changeClientStatus lists the sites of the client and synchronizes them ...
BeginStatus(c) ==
    /\ Begins(c) /\ MayChange
    /\ IF client.owner THEN Synchronize(clock) ELSE UNCHANGED <<subscription, pending, intents, override>>
    /\ Goto(c, [IdleCall EXCEPT !.at = "status", !.active = client.suspended,
                                !.listed = client.owner])
    /\ UNCHANGED <<clock, client>>

\* ... then changes the client and the intents of the sites it listed; active is
\* the status asked for, and a client that has it already is refused.
ChangeStatus(c) ==
    /\ call[c].at = "status"
    /\ client.suspended = call[c].active
    /\ client' = [client EXCEPT !.suspended = ~@]
    /\ intents' = IF ~call[c].listed THEN intents
                  ELSE IF ~client.suspended THEN {}
                  ELSE IF subscription.active THEN intents \cup Capabilities(subscription.plan) ELSE intents
    /\ End(c)
    /\ UNCHANGED <<clock, subscription, pending, override, changes>>

RefuseStatus(c) ==
    /\ call[c].at = "status"
    /\ client.suspended # call[c].active
    /\ Abort(c)
    /\ UNCHANGED <<clock, changes>>

\* assignSite looks at neither plan nor intents.
AssignSite ==
    /\ MayChange
    /\ client' = [client EXCEPT !.owner = ~@]
    /\ UNCHANGED <<clock, subscription, pending, intents, override, call>>

\* Mutant: only exceptions in force at the start of the new one are in its way.
Clash(o, p) == o.from <= p.from /\ p.from < o.until

\* assertNoOverlappingOverride.
Overlap(o, p) == o.from < p.until /\ p.from < o.until

Free(o, others) ==
    \A i \in others : override[i].status = "live" /\ override[i].capability = o.capability => ~Overlap(override[i], o)

\* What normalizeOverrideInput lets pass.
Inputs == {o \in [status : {"live"}, capability : Exceptions, value : BOOLEAN,
                  from : 0 .. MaxClock, until : 0 .. Forever] : o.from < o.until}

\* The row of an override is inserted or written over as a whole.
SaveOverride(i, o) == override' = [override EXCEPT ![i] = o]

\* createOverride: one transaction, serialized by the lock of the subscription.
CreateOverride ==
    /\ MayChange
    /\ InStatus("none") # {}
    /\ \E o \in Inputs :
          /\ Free(o, Ids)
          /\ SaveOverride(Cardinality(Ids \ InStatus("none")) + 1, o)
    /\ UNCHANGED <<clock, client, subscription, pending, intents, call>>

UpdateOverride ==
    /\ MayChange
    /\ \E i \in InStatus("live"), o \in Inputs :
          /\ Free(o, Ids \ {i})
          /\ SaveOverride(i, o)
    /\ UNCHANGED <<clock, client, subscription, pending, intents, call>>

RemoveOverride ==
    /\ MayChange
    /\ \E i \in InStatus("live") : override' = [override EXCEPT ![i].status = "removed"]
    /\ UNCHANGED <<clock, client, subscription, pending, intents, call>>

TimePasses ==
    /\ clock < MaxClock
    /\ clock' = clock + 1
    /\ UNCHANGED <<tables, call, changes>>

--------------------------------------------------------------------------------

\* What the tables grant now, the scheduled change taken as applied when it is due.
InEffect ==
    IF Suspended \/ ~subscription.active \/ (Due(clock) /\ pending.kind = "cancellation") THEN {}
    ELSE WithOverrides(IF Due(clock) THEN pending.to ELSE subscription.plan, clock)

Unwatched == [effect |-> {}, changed |-> {}]

Evaluating == {"context", "subscription", "overrides", "granted"}

\* Ghost: what was in effect, and which sources changed, during an evaluation.
Watch ==
    watch' = [c \in Calls |->
        IF call'[c].at \notin Evaluating THEN Unwatched
        ELSE IF call[c].at = "idle" THEN [effect |-> {InEffect'}, changed |-> {}]
        ELSE [effect |-> watch[c].effect \cup {InEffect'},
              changed |-> watch[c].changed
                  \cup {x \in {"client"} : client' # client}
                  \cup {x \in {"plan"} : subscription' # subscription \/ pending' # pending}
                  \cup {x \in {"exceptions"} : override' # override}
                  \cup {x \in {"clock"} : clock' # clock}]]

\* assignInitialPlan: a site is registered with a plan and the intents of it.
Init ==
    /\ clock = 0
    /\ client = [owner |-> TRUE, suspended |-> FALSE]
    /\ \E p \in Plans :
          /\ subscription = [plan |-> p, active |-> TRUE]
          /\ intents = Capabilities(p)
    /\ pending = NoPending
    /\ override = [i \in Ids |-> NoOverride]
    /\ call = [c \in Calls |-> IdleCall]
    /\ changes = 0
    /\ watch = [c \in Calls |-> Unwatched]

Get(c) == Evaluate(c) \/ ReadContext(c) \/ ReadSubscription(c) \/ ReadOverrides(c) \/ Use(c)

ApplyChange(c) == BeginChange(c) \/ Preview(c) \/ Commit(c) \/ Reject(c)

ChangeClientStatus(c) == BeginStatus(c) \/ ChangeStatus(c) \/ RefuseStatus(c)

Administer == AssignSite \/ CreateOverride \/ UpdateOverride \/ RemoveOverride

Act == (\E c \in Calls : Get(c) \/ ApplyChange(c) \/ ChangeClientStatus(c)) \/ Administer \/ TimePasses

Next == Act /\ Watch

Spec == Init /\ [][Next]_vars

--------------------------------------------------------------------------------
(* What the service promises *)

\* Rows and calls have the shape of their tables and methods.
EntitlementsTypeOK ==
    /\ clock \in 0 .. MaxClock
    /\ client \in [owner : BOOLEAN, suspended : BOOLEAN]
    /\ subscription \in [plan : Plans, active : BOOLEAN]
    /\ pending \in Pending
    /\ intents \subseteq Plans
    /\ override \in [Ids -> Override]
    /\ call \in [Calls -> Call]
    /\ changes \in 0 .. MaxChanges
    /\ watch \in [Calls -> [effect : SUBSET SUBSET Plans, changed : SUBSET {"client", "plan", "exceptions", "clock"}]]

\* Work waits to be activated only for what the plan includes: whatever upgrades,
\* reactivations, downgrades and cancellations overlap, none leaves an intent of
\* a capability the site has lost.
IntentsWithinPlan == intents \subseteq (IF subscription.active THEN Capabilities(subscription.plan) ELSE {})

\* A scheduled change still fits the site when it is applied: a downgrade leads to
\* a lower plan, and nothing is scheduled for a cancelled service, though every
\* change was previewed before others could commit theirs.
ScheduledFitsPlan ==
    pending.kind # "none" =>
        /\ subscription.active
        /\ pending.kind = "downgrade" => pending.to < subscription.plan

\* What waits for a site, work or change, still fits the plan it has.
WaitingFitsPlan == EntitlementsTypeOK /\ IntentsWithinPlan /\ ScheduledFitsPlan

\* At no moment do two exceptions of one capability apply, so the order in which
\* they are read decides nothing.
OneExceptionAtATime ==
    \A time \in 0 .. MaxClock : \A i, j \in ActiveAt(time) :
        override[i].capability = override[j].capability => i = j

\* What an evaluation grants was in effect at some moment since it began, although
\* it reads client, plan and exceptions one after the other; two changes in
\* between may add up to a grant that was never due.
GrantWasInEffect ==
    \A c \in Calls :
        call[c].at = "granted" /\ Cardinality(watch[c].changed) < 2 =>
            \A k \in call[c].granted : \E granted \in watch[c].effect : k \in granted

================================================================================
