-------------------------- MODULE EntitlementsProofs ---------------------------
(* What waits for a site fits its plan, and exceptions never compete, for any *)
(* number of requests, plans and exceptions.                                  *)
EXTENDS Entitlements, FiniteSetTheorems, TLAPS

\* The subscription, the scheduled change and the intents fit each other.
PlanInv ==
    /\ client \in [owner : BOOLEAN, suspended : BOOLEAN]
    /\ subscription \in [plan : Plans, active : BOOLEAN]
    /\ pending \in Pending
    /\ intents \subseteq Plans
    /\ IntentsWithinPlan
    /\ ScheduledFitsPlan

\* Two live exceptions of one capability have periods that lie apart.
Apart ==
    \A i, j \in Ids :
        /\ i # j /\ override[i].status = "live" /\ override[j].status = "live"
        /\ override[i].capability = override[j].capability
        => ~Overlap(override[i], override[j])

OverrideInv == override \in [Ids -> Override] /\ Apart

\* A change that has passed its preview asks for another plan than the one it saw.
Asks(r) == r.at = "commit" /\ r.action = "change" => r.target # r.plan

CallInv == call \in [Calls -> Call] /\ \A c \in Calls : Asks(call[c])

BoundInv == clock \in 0 .. MaxClock /\ changes \in 0 .. MaxChanges

WatchInv ==
    watch \in [Calls -> [effect : SUBSET SUBSET Plans, changed : SUBSET {"client", "plan", "exceptions", "clock"}]]

IInv == PlanInv /\ OverrideInv /\ CallInv /\ BoundInv /\ WatchInv

\* All but the ghost, which every step writes in the same way.
RealInv == PlanInv /\ OverrideInv /\ CallInv /\ BoundInv

--------------------------------------------------------------------------------
(* Plans, periods and records *)

LEMMA PlanFacts ==
    ASSUME EntitlementAssumption
    PROVE  /\ Plans \subseteq Nat /\ 1 \in Plans
           /\ \A p \in Plans : Capabilities(p) \subseteq Plans
           /\ \A p, q \in Plans : p <= q => Capabilities(p) \subseteq Capabilities(q)
           /\ MaxClock \in Nat /\ MaxChanges \in Nat /\ Forever \in Nat /\ Forever > MaxClock
           /\ 0 \in 0 .. Forever /\ Exceptions \subseteq Plans
BY DEF EntitlementAssumption, Plans, Capabilities, Forever

LEMMA NothingPending ==
    ASSUME EntitlementAssumption
    PROVE  NoPending \in Pending /\ NoPending.kind = "none"
BY PlanFacts DEF NoPending, Pending

LEMMA CallFacts ==
    ASSUME EntitlementAssumption
    PROVE  IdleCall \in Call /\ Asks(IdleCall)
BY PlanFacts DEF IdleCall, Call, Asks

\* A call that goes on keeps its shape.
LEMMA MovedCall ==
    ASSUME EntitlementAssumption, CallInv, NEW c \in Calls, NEW r \in Call, Asks(r), Goto(c, r)
    PROVE  CallInv'
<1>1. call' \in [Calls -> Call]
  BY DEF CallInv, Goto
<1>2. \A d \in Calls : Asks(call'[d])
  BY DEF CallInv, Goto
<1> QED
  BY <1>1, <1>2 DEF CallInv

LEMMA EndedCall ==
    ASSUME EntitlementAssumption, CallInv, NEW c \in Calls, End(c)
    PROVE  CallInv'
BY CallFacts, MovedCall DEF End

LEMMA SameTables ==
    ASSUME PlanInv, OverrideInv, UNCHANGED tables
    PROVE  PlanInv' /\ OverrideInv'
BY DEF tables, PlanInv, OverrideInv, IntentsWithinPlan, ScheduledFitsPlan, Apart, Overlap

LEMMA SamePlan ==
    ASSUME PlanInv, UNCHANGED <<client, subscription, pending, intents>>
    PROVE  PlanInv'
BY DEF PlanInv, IntentsWithinPlan, ScheduledFitsPlan

LEMMA SameOverrides ==
    ASSUME OverrideInv, UNCHANGED override
    PROVE  OverrideInv'
BY DEF OverrideInv, Apart, Overlap

LEMMA Bounds ==
    ASSUME EntitlementAssumption, BoundInv, UNCHANGED clock, UNCHANGED changes \/ MayChange
    PROVE  BoundInv'
BY PlanFacts DEF BoundInv, MayChange

--------------------------------------------------------------------------------
(* Synchronization, plan changes and client status *)

\* Writing off exceptions only takes some of them out of force.
LEMMA ExpiryKeepsOverrideInv ==
    ASSUME OverrideInv, NEW time,
           override' = [i \in Ids |-> IF override[i].status = "live" /\ override[i].until <= time
                                        THEN [override[i] EXCEPT !.status = "expired"] ELSE override[i]]
    PROVE  OverrideInv'
<1>1. \A i \in Ids :
        /\ override'[i] \in Override
        /\ override'[i].capability = override[i].capability
        /\ override'[i].from = override[i].from /\ override'[i].until = override[i].until
        /\ override'[i].status = "live" => override[i].status = "live"
  BY DEF OverrideInv, Override
<1>2. override' \in [Ids -> Override]
  BY <1>1
<1>3. Apart'
  BY <1>1 DEF OverrideInv, Apart, Overlap
<1> QED
  BY <1>2, <1>3 DEF OverrideInv

\* What falls due is applied with the intents it takes away.
LEMMA SynchronizeKeepsTables ==
    ASSUME EntitlementAssumption, PlanInv, OverrideInv, NEW time, Synchronize(time), UNCHANGED client
    PROVE  PlanInv' /\ OverrideInv'
<1>1. OverrideInv'
  BY ExpiryKeepsOverrideInv DEF Synchronize
<1>2. CASE ~Applies(time)
  BY <1>1, <1>2, SamePlan DEF Synchronize
<1>3. CASE Applies(time)
  <2>1. pending.kind \in {"downgrade", "cancellation"} /\ pending.to \in Plans
    BY <1>3 DEF Applies, Due, PlanInv, Pending
  <2>2. pending' = NoPending /\ pending' \in Pending /\ pending'.kind = "none"
    BY <1>3, NothingPending DEF Synchronize
  <2>3. CASE pending.kind = "downgrade"
    <3>1. subscription' = [subscription EXCEPT !.plan = pending.to] /\ intents' = intents \cap Capabilities(pending.to)
      BY <1>3, <2>3 DEF Synchronize, IntentsLeft
    <3>2. subscription.active
      BY <2>3 DEF PlanInv, ScheduledFitsPlan
    <3>3. subscription' \in [plan : Plans, active : BOOLEAN] /\ subscription'.plan = pending.to /\ subscription'.active
      BY <2>1, <3>1, <3>2 DEF PlanInv
    <3> QED
      BY <1>1, <2>2, <3>1, <3>3 DEF PlanInv, IntentsWithinPlan, ScheduledFitsPlan
  <2>4. CASE pending.kind = "cancellation"
    <3>1. subscription' = [subscription EXCEPT !.active = FALSE] /\ intents' = {}
      BY <1>3, <2>4 DEF Synchronize, IntentsLeft
    <3>2. subscription' \in [plan : Plans, active : BOOLEAN]
      BY <3>1 DEF PlanInv
    <3> QED
      BY <1>1, <2>2, <3>1, <3>2 DEF PlanInv, IntentsWithinPlan, ScheduledFitsPlan
  <2> QED
    BY <2>1, <2>3, <2>4
<1> QED
  BY <1>2, <1>3

LEMMA GetKeepsRealInv ==
    ASSUME EntitlementAssumption, RealInv, NEW c \in Calls, Get(c)
    PROVE  RealInv'
<1> USE DEF RealInv
<1>1. call[c] \in Call /\ IdleCall \in Call
  BY CallFacts DEF CallInv
<1>2. CASE Evaluate(c)
  <2> DEFINE r == [IdleCall EXCEPT !.at = "context", !.time = clock]
  <2>1. r \in Call /\ Asks(r)
    BY <1>1 DEF Call, Asks, BoundInv
  <2>2. Goto(c, r) /\ Synchronize(clock) /\ UNCHANGED <<clock, client, changes>>
    BY <1>2 DEF Evaluate
  <2> HIDE DEF r
  <2> QED
    BY <2>1, <2>2, MovedCall, SynchronizeKeepsTables, Bounds
<1>3. CASE ReadContext(c)
  <2> DEFINE r == [call[c] EXCEPT !.at = "subscription", !.active = ~Suspended]
  <2>1. r \in Call /\ Asks(r)
    BY <1>1 DEF Call, Asks, Suspended
  <2>2. Goto(c, r) /\ UNCHANGED tables /\ UNCHANGED <<clock, changes>>
    BY <1>3 DEF ReadContext
  <2> HIDE DEF r
  <2> QED
    BY <2>1, <2>2, MovedCall, SameTables, Bounds
<1>4. CASE ReadSubscription(c)
  <2> DEFINE r == [call[c] EXCEPT !.at = "overrides", !.plan = subscription.plan, !.active = @ /\ subscription.active]
  <2>1. r \in Call /\ Asks(r)
    BY <1>1 DEF Call, Asks, PlanInv
  <2>2. Goto(c, r) /\ UNCHANGED tables /\ UNCHANGED <<clock, changes>>
    BY <1>4 DEF ReadSubscription
  <2> HIDE DEF r
  <2> QED
    BY <2>1, <2>2, MovedCall, SameTables, Bounds
<1>5. CASE ReadOverrides(c)
  <2> DEFINE g == IF call[c].active THEN WithOverrides(call[c].plan, call[c].time) ELSE {}
             r == [IdleCall EXCEPT !.at = "granted", !.granted = g]
  <2>1. g \in SUBSET Plans
    BY DEF WithOverrides
  <2>2. Goto(c, r) /\ UNCHANGED tables /\ UNCHANGED <<clock, changes>>
    BY <1>5 DEF ReadOverrides
  <2> HIDE DEF g
  <2>3. r \in Call /\ Asks(r)
    BY <1>1, <2>1 DEF Call, Asks
  <2> HIDE DEF r
  <2> QED
    BY <2>2, <2>3, MovedCall, SameTables, Bounds
<1>6. CASE Use(c)
  <2>1. intents' \subseteq intents /\ End(c)
    BY <1>6 DEF Use
  <2>2. UNCHANGED <<clock, client, subscription, pending, override, changes>>
    BY <1>6 DEF Use
  <2>3. PlanInv'
    BY <2>1, <2>2 DEF PlanInv, IntentsWithinPlan, ScheduledFitsPlan
  <2> QED
    BY <2>1, <2>2, <2>3, EndedCall, SameOverrides, Bounds
<1> QED
  BY <1>2, <1>3, <1>4, <1>5, <1>6 DEF Get

LEMMA PlanChangeKeepsRealInv ==
    ASSUME EntitlementAssumption, RealInv, NEW c \in Calls, ApplyChange(c)
    PROVE  RealInv'
<1> USE DEF RealInv
<1>1. call[c] \in Call /\ IdleCall \in Call /\ Asks(call[c])
  BY CallFacts DEF CallInv
<1>2. CASE BeginChange(c)
  <2>1. PICK request \in Requests :
          Goto(c, [IdleCall EXCEPT !.at = "preview", !.action = request.action, !.target = request.target,
                                   !.effective = request.effective])
    BY <1>2 DEF BeginChange
  <2>2. /\ request.action \in {"change", "cancel-service", "cancel-pending"}
        /\ request.target \in Plans /\ request.effective \in 0 .. Forever
    BY PlanFacts DEF Requests, BoundInv
  <2> DEFINE r == [IdleCall EXCEPT !.at = "preview", !.action = request.action, !.target = request.target,
                                   !.effective = request.effective]
  <2>3. r \in Call /\ Asks(r)
    BY <1>1, <2>2 DEF Call, Asks
  <2>4. Goto(c, r) /\ Synchronize(clock) /\ MayChange /\ UNCHANGED <<clock, client>>
    BY <1>2, <2>1 DEF BeginChange
  <2> HIDE DEF r
  <2> QED
    BY <2>3, <2>4, MovedCall, SynchronizeKeepsTables, Bounds
<1>3. CASE Preview(c)
  <2>1. UNCHANGED tables /\ UNCHANGED <<clock, changes>>
    BY <1>3 DEF Preview
  <2>2. CASE End(c)
    BY <2>1, <2>2, EndedCall, SameTables, Bounds
  <2> DEFINE r == [call[c] EXCEPT !.at = "commit", !.plan = subscription.plan]
  <2>3. CASE Goto(c, r) /\ (call[c].action = "change" => call[c].target # subscription.plan)
    <3>1. r \in Call /\ Asks(r)
      BY <1>1, <2>3 DEF Call, Asks, PlanInv
    <3> HIDE DEF r
    <3> QED
      BY <2>1, <2>3, <3>1, MovedCall, SameTables, Bounds
  <2> QED
    BY <1>3, <2>2, <2>3 DEF Preview
<1>4. CASE Commit(c)
  <2> DEFINE to == call[c].target
             from == call[c].plan
  <2>1. End(c) /\ UNCHANGED <<clock, client, override, changes>>
    BY <1>4 DEF Commit, SaveSubscription, CreateTransition
  <2>2. /\ to \in Plans /\ from \in Plans /\ call[c].effective \in 0 .. Forever
        /\ call[c].action = "change" => to # from
    BY <1>1, <1>4 DEF Call, Asks, Commit, SaveSubscription, CreateTransition
  <2>3. ASSUME pending' = NoPending, UNCHANGED <<subscription, intents>>
        PROVE  PlanInv'
    BY <2>1, <2>3, NothingPending DEF PlanInv, IntentsWithinPlan, ScheduledFitsPlan
  <2>4. ASSUME subscription.active, subscription.plan = from, to > from,
               subscription' = [subscription EXCEPT !.plan = to],
               intents' = intents \cup (Capabilities(to) \ Capabilities(from)),
               pending.kind = "none", UNCHANGED pending
        PROVE  PlanInv'
    <3>1. subscription' \in [plan : Plans, active : BOOLEAN] /\ subscription'.plan = to /\ subscription'.active
      BY <2>2, <2>4 DEF PlanInv
    <3>2. intents \subseteq Capabilities(from)
      BY <2>4 DEF PlanInv, IntentsWithinPlan
    <3>3. from <= to
      BY <2>2, <2>4, PlanFacts
    <3>4. Capabilities(from) \subseteq Capabilities(to) /\ Capabilities(to) \subseteq Plans
      BY <2>2, <3>3, PlanFacts
    <3> QED
      BY <2>1, <2>4, <3>1, <3>2, <3>4 DEF PlanInv, IntentsWithinPlan, ScheduledFitsPlan
  <2> DEFINE p == [kind |-> IF call[c].action = "change" THEN "downgrade" ELSE "cancellation",
                   to |-> IF call[c].action = "change" THEN to ELSE 1,
                   at |-> call[c].effective]
  <2>5. ASSUME subscription.active, subscription.plan = from, ~(call[c].action = "change" /\ to > from),
               pending' = p, UNCHANGED <<subscription, intents>>
        PROVE  PlanInv'
    <3>1. p \in Pending
      BY <2>2, PlanFacts DEF Pending
    <3>2. p.kind = "downgrade" => p.to < subscription.plan
      BY <2>2, <2>5, PlanFacts
    <3> QED
      BY <2>1, <2>5, <3>1, <3>2 DEF PlanInv, IntentsWithinPlan, ScheduledFitsPlan
  <2>6. PlanInv'
    BY <1>4, <2>3, <2>4, <2>5 DEF Commit, AsPreviewed, SaveSubscription, CreateTransition
  <2> QED
    BY <2>1, <2>6, EndedCall, SameOverrides, Bounds
<1>5. CASE Reject(c)
  BY <1>5, EndedCall, SameTables, Bounds DEF Reject, Abort
<1> QED
  BY <1>2, <1>3, <1>4, <1>5 DEF ApplyChange

LEMMA StatusChangeKeepsRealInv ==
    ASSUME EntitlementAssumption, RealInv, NEW c \in Calls, ChangeClientStatus(c)
    PROVE  RealInv'
<1> USE DEF RealInv
<1>1. call[c] \in Call /\ IdleCall \in Call
  BY CallFacts DEF CallInv
<1>2. CASE BeginStatus(c)
  <2> DEFINE r == [IdleCall EXCEPT !.at = "status", !.active = client.suspended, !.listed = client.owner]
  <2>1. r \in Call /\ Asks(r)
    BY <1>1 DEF Call, Asks, PlanInv
  <2>2. Goto(c, r) /\ MayChange /\ UNCHANGED <<clock, client>>
    BY <1>2 DEF BeginStatus
  <2>3. PlanInv' /\ OverrideInv'
    BY <1>2, <2>2, SynchronizeKeepsTables, SamePlan, SameOverrides DEF BeginStatus
  <2> HIDE DEF r
  <2> QED
    BY <2>1, <2>2, <2>3, MovedCall, Bounds
<1>3. CASE ChangeStatus(c)
  <2>1. End(c) /\ UNCHANGED <<clock, subscription, pending, override, changes>>
    BY <1>3 DEF ChangeStatus
  <2>2. client' \in [owner : BOOLEAN, suspended : BOOLEAN]
    BY <1>3 DEF ChangeStatus, PlanInv
  <2>3. intents' \subseteq intents \cup (IF subscription.active THEN Capabilities(subscription.plan) ELSE {})
    BY <1>3 DEF ChangeStatus
  <2>4. subscription.plan \in Plans
    BY DEF PlanInv
  <2>5. PlanInv'
    BY <2>1, <2>2, <2>3, <2>4, PlanFacts DEF PlanInv, IntentsWithinPlan, ScheduledFitsPlan
  <2> QED
    BY <2>1, <2>5, EndedCall, SameOverrides, Bounds
<1>4. CASE RefuseStatus(c)
  BY <1>4, EndedCall, SameTables, Bounds DEF RefuseStatus, Abort
<1> QED
  BY <1>2, <1>3, <1>4 DEF ChangeClientStatus

--------------------------------------------------------------------------------
(* Exceptions *)

LEMMA InputFacts ==
    ASSUME EntitlementAssumption, NEW o \in Inputs
    PROVE  o \in Override
BY PlanFacts DEF Inputs, Override

\* A new or moved exception lies apart from all the others.
LEMMA WrittenKeepsOverrideInv ==
    ASSUME EntitlementAssumption, OverrideInv, NEW n, NEW o \in Override,
           Free(o, Ids \ {n}), override' = [override EXCEPT ![n] = o]
    PROVE  OverrideInv'
<1>1. override' \in [Ids -> Override]
  BY DEF OverrideInv
<1>2. \A i \in Ids : override'[i] = IF i = n THEN o ELSE override[i]
  BY DEF OverrideInv
<1>3. \A i \in Ids \ {n} :
        override[i].status = "live" /\ override[i].capability = o.capability =>
          ~Overlap(override[i], o) /\ ~Overlap(o, override[i])
  BY DEF Free, Overlap
<1>4. Apart'
  <2> SUFFICES ASSUME NEW i \in Ids, NEW j \in Ids, i # j,
                      override'[i].status = "live", override'[j].status = "live",
                      override'[i].capability = override'[j].capability
               PROVE  ~Overlap(override'[i], override'[j])
    BY DEF Apart, Overlap
  <2>1. CASE i # n /\ j # n
    BY <1>2, <2>1 DEF OverrideInv, Apart
  <2>2. CASE i = n
    BY <1>2, <1>3, <2>2
  <2>3. CASE j = n
    BY <1>2, <1>3, <2>3
  <2> QED
    BY <2>1, <2>2, <2>3
<1> QED
  BY <1>1, <1>4 DEF OverrideInv

LEMMA AdministerKeepsRealInv ==
    ASSUME EntitlementAssumption, RealInv, Administer
    PROVE  RealInv'
<1> USE DEF RealInv
<1>1. CASE AssignSite
  <2>1. client' \in [owner : BOOLEAN, suspended : BOOLEAN]
    BY <1>1 DEF AssignSite, PlanInv
  <2>2. UNCHANGED <<clock, subscription, pending, intents, override, call>> /\ MayChange
    BY <1>1 DEF AssignSite
  <2>3. PlanInv'
    BY <2>1, <2>2 DEF PlanInv, IntentsWithinPlan, ScheduledFitsPlan
  <2>4. CallInv'
    BY <2>2 DEF CallInv, Asks
  <2> QED
    BY <2>2, <2>3, <2>4, SameOverrides, Bounds
<1>2. ASSUME OverrideInv', MayChange, UNCHANGED <<clock, client, subscription, pending, intents, call>>
      PROVE  RealInv'
  <2>1. CallInv'
    BY <1>2 DEF CallInv, Asks
  <2> QED
    BY <1>2, <2>1, SamePlan, Bounds
<1>3. CASE CreateOverride
  <2>1. PICK o \in Inputs :
          /\ Free(o, Ids)
          /\ override' = [override EXCEPT ![Cardinality(Ids \ InStatus("none")) + 1] = o]
    BY <1>3 DEF CreateOverride, SaveOverride
  <2> DEFINE n == Cardinality(Ids \ InStatus("none")) + 1
  <2>2. Free(o, Ids \ {n})
    BY <2>1 DEF Free
  <2>3. o \in Override /\ override' = [override EXCEPT ![n] = o]
    BY <2>1, InputFacts
  <2> HIDE DEF n
  <2>4. OverrideInv'
    BY <2>2, <2>3, WrittenKeepsOverrideInv
  <2> QED
    BY <1>2, <1>3, <2>4 DEF CreateOverride, SaveOverride
<1>4. CASE UpdateOverride
  <2>1. PICK n \in InStatus("live"), o \in Inputs :
          Free(o, Ids \ {n}) /\ override' = [override EXCEPT ![n] = o]
    BY <1>4 DEF UpdateOverride, SaveOverride
  <2>2. OverrideInv'
    BY <2>1, InputFacts, WrittenKeepsOverrideInv
  <2> QED
    BY <1>2, <1>4, <2>2 DEF UpdateOverride, SaveOverride
<1>5. CASE RemoveOverride
  <2>1. PICK n \in InStatus("live") : override' = [override EXCEPT ![n].status = "removed"]
    BY <1>5 DEF RemoveOverride
  <2>2. \A i \in Ids :
          /\ override'[i] \in Override
          /\ override'[i].capability = override[i].capability
          /\ override'[i].from = override[i].from /\ override'[i].until = override[i].until
          /\ override'[i].status = "live" => override[i].status = "live"
    BY <2>1 DEF OverrideInv, Override
  <2>3. override' \in [Ids -> Override]
    BY <2>1, <2>2 DEF OverrideInv
  <2>4. OverrideInv'
    BY <2>2, <2>3 DEF OverrideInv, Apart, Overlap
  <2> QED
    BY <1>2, <1>5, <2>4 DEF RemoveOverride
<1> QED
  BY <1>1, <1>3, <1>4, <1>5 DEF Administer

--------------------------------------------------------------------------------
(* All steps *)

LEMMA InitIInv ==
    ASSUME EntitlementAssumption
    PROVE  Init => IInv
<1> SUFFICES ASSUME Init PROVE IInv
  OBVIOUS
<1>1. PICK p \in Plans : subscription = [plan |-> p, active |-> TRUE] /\ intents = Capabilities(p)
  BY DEF Init
<1>2. PlanInv
  BY <1>1, PlanFacts, NothingPending DEF Init, PlanInv, IntentsWithinPlan, ScheduledFitsPlan
<1>3. NoOverride \in Override /\ NoOverride.status = "none"
  BY PlanFacts DEF NoOverride, Override
<1>4. OverrideInv
  BY <1>3 DEF Init, OverrideInv, Apart
<1>5. CallInv
  BY CallFacts DEF Init, CallInv
<1>6. BoundInv /\ WatchInv
  BY PlanFacts DEF Init, BoundInv, WatchInv, Unwatched
<1> QED
  BY <1>2, <1>4, <1>5, <1>6 DEF IInv

\* The ghost collects sets of capabilities and names of sources.
LEMMA WatchKeepsWatchInv ==
    ASSUME WatchInv, Watch
    PROVE  WatchInv'
<1>1. InEffect' \in SUBSET Plans
  BY DEF InEffect, WithOverrides
<1>2. Unwatched \in [effect : SUBSET SUBSET Plans, changed : SUBSET {"client", "plan", "exceptions", "clock"}]
  BY DEF Unwatched
<1> QED
  BY <1>1, <1>2 DEF WatchInv, Watch

LEMMA NextKeepsIInv ==
    ASSUME EntitlementAssumption
    PROVE  IInv /\ [Next]_vars => IInv'
<1> SUFFICES ASSUME IInv, [Next]_vars PROVE IInv'
  OBVIOUS
<1>1. RealInv
  BY DEF IInv, RealInv
<1>2. CASE Next
  <2>1. WatchInv'
    BY <1>2, WatchKeepsWatchInv DEF Next, IInv
  <2>2. CASE TimePasses
    <3>1. PlanInv' /\ OverrideInv'
      BY <1>1, <2>2, SameTables DEF TimePasses, RealInv
    <3>2. CallInv' /\ BoundInv'
      BY <1>1, <2>2, PlanFacts DEF TimePasses, RealInv, CallInv, Asks, BoundInv
    <3> QED
      BY <2>1, <3>1, <3>2 DEF IInv
  <2>3. RealInv' => IInv'
    BY <2>1 DEF RealInv, IInv
  <2> QED
    BY <1>1, <1>2, <2>2, <2>3, EntitlementAssumption, GetKeepsRealInv, PlanChangeKeepsRealInv,
       StatusChangeKeepsRealInv, AdministerKeepsRealInv DEF Next, Act
<1>3. CASE UNCHANGED vars
  <2>1. UNCHANGED tables /\ UNCHANGED <<clock, call, changes, watch>>
    BY <1>3 DEF vars
  <2>2. PlanInv' /\ OverrideInv'
    BY <1>1, <2>1, SameTables DEF RealInv
  <2> QED
    BY <2>1, <2>2 DEF IInv, CallInv, Asks, BoundInv, WatchInv
<1> QED
  BY <1>2, <1>3

--------------------------------------------------------------------------------
(* What follows for every behaviour *)

\* Rows keep their types, no intent waits for a capability the site has lost, and
\* a scheduled change fits the plan it will be applied to, whatever requests overlap.
THEOREM WaitingAlwaysFitsPlan ==
    ASSUME EntitlementAssumption
    PROVE  Spec => []WaitingFitsPlan
<1>1. Init => IInv
  BY EntitlementAssumption, InitIInv
<1>2. IInv /\ [Next]_vars => IInv'
  BY EntitlementAssumption, NextKeepsIInv
<1>3. IInv => WaitingFitsPlan
  BY DEF IInv, PlanInv, OverrideInv, CallInv, BoundInv, WatchInv, WaitingFitsPlan, EntitlementsTypeOK
<1> QED
  BY <1>1, <1>2, <1>3, PTL DEF Spec

\* Exceptions whose periods lie apart never apply at the same time.
LEMMA ApartNeverTogether ==
    ASSUME EntitlementAssumption, OverrideInv
    PROVE  OneExceptionAtATime
<1> SUFFICES ASSUME NEW time \in 0 .. MaxClock, NEW i \in ActiveAt(time), NEW j \in ActiveAt(time),
                    override[i].capability = override[j].capability, i # j
             PROVE  FALSE
  BY DEF OneExceptionAtATime
<1>1. i \in Ids /\ j \in Ids /\ override[i].status = "live" /\ override[j].status = "live"
  BY DEF ActiveAt, InStatus
<1>2. /\ override[i].from <= time /\ time < override[i].until
      /\ override[j].from <= time /\ time < override[j].until
  BY DEF ActiveAt
<1>3. /\ override[i].from \in Nat /\ override[i].until \in Nat
      /\ override[j].from \in Nat /\ override[j].until \in Nat /\ time \in Nat
  BY <1>1, PlanFacts DEF OverrideInv, Override
<1>4. Overlap(override[i], override[j])
  BY <1>2, <1>3 DEF Overlap
<1> QED
  BY <1>1, <1>4 DEF OverrideInv, Apart

\* However exceptions are made, moved, removed and written off, at no moment do two
\* of one capability apply.
THEOREM ExceptionsNeverCompete ==
    ASSUME EntitlementAssumption
    PROVE  Spec => []OneExceptionAtATime
<1>1. Init => IInv
  BY EntitlementAssumption, InitIInv
<1>2. IInv /\ [Next]_vars => IInv'
  BY EntitlementAssumption, NextKeepsIInv
<1>3. IInv => OneExceptionAtATime
  BY EntitlementAssumption, ApartNeverTogether DEF IInv
<1> QED
  BY <1>1, <1>2, <1>3, PTL DEF Spec

--------------------------------------------------------------------------------
(* What is granted was in effect *)

\* WithOverrides over the rows o.
Allowed(o, plan, time) ==
    {k \in Plans :
        LET S == {i \in {i \in {i \in Ids : o[i].status = "live"} : o[i].from <= time /\ time < o[i].until} :
                    o[i].capability = k}
        IN  IF S = {} THEN k \in Capabilities(plan)
            ELSE o[CHOOSE i \in S : \A j \in S : j <= i].value}

Alone(X) == \A x, y \in X : x = y

\* What an evaluation has read still stands, unless its source was changed since ...
Stands(c) ==
    /\ "clock" \notin watch[c].changed => call[c].time = clock
    /\ "plan" \notin watch[c].changed => ~Due(call[c].time)
    /\ call[c].at = "subscription" /\ "client" \notin watch[c].changed => call[c].active = ~Suspended
    /\ call[c].at = "overrides" /\ "plan" \notin watch[c].changed => call[c].plan = subscription.plan
    /\ call[c].at = "overrides" /\ "plan" \notin watch[c].changed /\ "client" \notin watch[c].changed
         => call[c].active = (~Suspended /\ subscription.active)

\* ... and what it would grant from here on was in effect, unless exceptions or two
\* sources were changed.
ToBeGranted(c) ==
    /\ call[c].at = "context" /\ ~Suspended /\ subscription.active
         => Allowed(override, subscription.plan, call[c].time) \in watch[c].effect
    /\ call[c].at = "subscription" /\ call[c].active /\ subscription.active
         => Allowed(override, subscription.plan, call[c].time) \in watch[c].effect
    /\ call[c].at = "overrides" /\ call[c].active
         => Allowed(override, call[c].plan, call[c].time) \in watch[c].effect

Follows(c) ==
    /\ InEffect \in watch[c].effect
    /\ call[c].at # "granted" => Stands(c)
    /\ Alone(watch[c].changed) /\ "exceptions" \notin watch[c].changed => ToBeGranted(c)
    /\ call[c].at = "granted" /\ Alone(watch[c].changed) /\ call[c].granted # {}
         => call[c].granted \in watch[c].effect

FollowInv == \A c \in Calls : call[c].at \in Evaluating => Follows(c)

LEMMA EffectNow ==
    /\ \A p, t : WithOverrides(p, t) = Allowed(override, p, t)
    /\ InEffect = IF Suspended \/ ~subscription.active \/ (Due(clock) /\ pending.kind = "cancellation") THEN {}
                  ELSE Allowed(override, IF Due(clock) THEN pending.to ELSE subscription.plan, clock)
    /\ InEffect' = IF Suspended' \/ ~subscription'.active
                        \/ (pending'.kind # "none" /\ pending'.at <= clock' /\ pending'.kind = "cancellation")
                   THEN {}
                   ELSE Allowed(override', IF pending'.kind # "none" /\ pending'.at <= clock'
                                           THEN pending'.to ELSE subscription'.plan, clock')
BY DEF InEffect, WithOverrides, Allowed, ActiveAt, InStatus, Due

LEMMA FewAreAlone ==
    ASSUME NEW X \in SUBSET {"client", "plan", "exceptions", "clock"}, Cardinality(X) < 2
    PROVE  Alone(X)
<1> SUFFICES ASSUME NEW x \in X, NEW y \in X, x # y PROVE FALSE
  BY DEF Alone
<1>1. IsFiniteSet({x}) /\ Cardinality({x}) = 1
  BY FS_Singleton
<1>2. IsFiniteSet({x} \cup {y}) /\ Cardinality({x} \cup {y}) = 2
  BY <1>1, FS_AddElement
<1>3. IsFiniteSet({"client", "plan", "exceptions", "clock"})
  <2>1. IsFiniteSet({"client"})
    BY FS_Singleton
  <2>2. IsFiniteSet({"client"} \cup {"plan"})
    BY <2>1, FS_AddElement
  <2>3. IsFiniteSet(({"client"} \cup {"plan"}) \cup {"exceptions"})
    BY <2>2, FS_AddElement
  <2>4. IsFiniteSet((({"client"} \cup {"plan"}) \cup {"exceptions"}) \cup {"clock"})
    BY <2>3, FS_AddElement
  <2>5. (({"client"} \cup {"plan"}) \cup {"exceptions"}) \cup {"clock"} = {"client", "plan", "exceptions", "clock"}
    OBVIOUS
  <2> QED
    BY <2>4, <2>5
<1>4. IsFiniteSet(X)
  BY <1>3, FS_Subset
<1>5. Cardinality(X) \in Nat
  BY <1>4, FS_CardinalityType
<1>6. {x} \cup {y} \in SUBSET X
  OBVIOUS
<1>7. Cardinality({x} \cup {y}) <= Cardinality(X)
  BY <1>4, <1>6, FS_Subset
<1> QED
  BY <1>2, <1>5, <1>7

\* A plan that is written over leaves no change that waits.
LEMMA WrittenPlanIsDue ==
    ASSUME Act
    PROVE  subscription' = subscription \/ pending'.kind = "none"
<1>1. ASSUME NEW time, Synchronize(time)
      PROVE  subscription' = subscription \/ pending'.kind = "none"
  BY <1>1 DEF Synchronize, NoPending
<1>2. ASSUME NEW c \in Calls, Get(c)
      PROVE  subscription' = subscription \/ pending'.kind = "none"
  BY <1>1, <1>2 DEF Get, Evaluate, ReadContext, ReadSubscription, ReadOverrides, Use, tables
<1>3. ASSUME NEW c \in Calls, ApplyChange(c)
      PROVE  subscription' = subscription \/ pending'.kind = "none"
  <2>1. CASE Commit(c)
    BY <2>1 DEF Commit, SaveSubscription
  <2> QED
    BY <1>1, <1>3, <2>1 DEF ApplyChange, BeginChange, Preview, Reject, Abort, tables
<1>4. ASSUME NEW c \in Calls, ChangeClientStatus(c)
      PROVE  subscription' = subscription \/ pending'.kind = "none"
  BY <1>1, <1>4 DEF ChangeClientStatus, BeginStatus, ChangeStatus, RefuseStatus, Abort, tables
<1>5. CASE Administer \/ TimePasses
  BY <1>5 DEF Administer, AssignSite, CreateOverride, UpdateOverride, RemoveOverride, TimePasses, tables
<1> QED
  BY <1>2, <1>3, <1>4, <1>5 DEF Act

\* An evaluation rests, begins, reads on, or is over.
LEMMA EvaluationMoves ==
    ASSUME RealInv, Act, NEW c \in Calls, call'[c].at \in Evaluating
    PROVE  \/ call'[c] = call[c]
           \/ Evaluate(c) \/ ReadContext(c) \/ ReadSubscription(c) \/ ReadOverrides(c)
<1>1. call \in [Calls -> Call]
  BY DEF RealInv, CallInv
<1>2. ASSUME NEW d \in Calls, d # c, NEW r, Goto(d, r)
      PROVE  call'[c] = call[c]
  BY <1>1, <1>2 DEF Goto
<1>3. ASSUME NEW r, Goto(c, r)
      PROVE  r.at \in Evaluating
  BY <1>1, <1>3 DEF Goto
<1>4. CASE \E d \in Calls : Get(d)
  <2>1. PICK d \in Calls : Get(d)
    BY <1>4
  <2>2. CASE d = c
    <3>1. ~Use(c)
      BY <1>3 DEF Use, End, IdleCall, Evaluating
    <3> QED
      BY <2>1, <2>2, <3>1 DEF Get
  <2>3. CASE d # c
    BY <1>2, <2>1, <2>3 DEF Get, Evaluate, ReadContext, ReadSubscription, ReadOverrides, Use, End
  <2> QED
    BY <2>2, <2>3
<1>5. CASE \E d \in Calls : ApplyChange(d) \/ ChangeClientStatus(d)
  <2>1. PICK d \in Calls : ApplyChange(d) \/ ChangeClientStatus(d)
    BY <1>5
  <2>2. PICK r : Goto(d, r) /\ r.at \notin Evaluating
    <3>1. CASE ApplyChange(d)
      <4>1. IdleCall.at \notin Evaluating /\ (End(d) => Goto(d, IdleCall))
        BY DEF IdleCall, Evaluating, End
      <4>2. CASE BeginChange(d)
        <5>1. PICK q \in Requests :
                Goto(d, [IdleCall EXCEPT !.at = "preview", !.action = q.action, !.target = q.target,
                                         !.effective = q.effective])
          BY <4>2 DEF BeginChange
        <5>2. [IdleCall EXCEPT !.at = "preview", !.action = q.action, !.target = q.target,
                               !.effective = q.effective].at = "preview"
          BY DEF IdleCall
        <5> QED
          BY <5>1, <5>2 DEF Evaluating
      <4>3. CASE Preview(d)
        <5>1. [call[d] EXCEPT !.at = "commit", !.plan = subscription.plan].at = "commit"
          BY <1>1 DEF Call
        <5> QED
          BY <4>1, <4>3, <5>1 DEF Preview, Evaluating
      <4>4. CASE Commit(d) \/ Reject(d)
        BY <4>1, <4>4 DEF Commit, Reject, Abort
      <4> QED
        BY <3>1, <4>2, <4>3, <4>4 DEF ApplyChange
    <3>2. CASE ChangeClientStatus(d)
      <4>1. [IdleCall EXCEPT !.at = "status", !.active = client.suspended, !.listed = client.owner].at = "status"
        BY DEF IdleCall
      <4>2. IdleCall.at \notin Evaluating /\ (End(d) => Goto(d, IdleCall))
        BY DEF IdleCall, Evaluating, End
      <4> QED
        BY <3>2, <4>1, <4>2 DEF ChangeClientStatus, BeginStatus, ChangeStatus, RefuseStatus, Abort, Evaluating
    <3> QED
      BY <2>1, <3>1, <3>2
  <2> QED
    BY <1>2, <1>3, <2>2
<1>6. CASE Administer \/ TimePasses
  BY <1>6 DEF Administer, AssignSite, CreateOverride, UpdateOverride, RemoveOverride, TimePasses
<1> QED
  BY <1>4, <1>5, <1>6 DEF Act

LEMMA BeginningFollows ==
    ASSUME EntitlementAssumption, RealInv, Watch, NEW c \in Calls, Evaluate(c)
    PROVE  Follows(c)'
<1>1. /\ call[c].at = "idle" /\ Synchronize(clock)
      /\ call'[c] = [IdleCall EXCEPT !.at = "context", !.time = clock]
      /\ UNCHANGED <<clock, client>>
  BY DEF Evaluate, Begins, Goto, RealInv, CallInv
<1>2. call'[c].at = "context" /\ call'[c].time = clock'
  BY <1>1 DEF IdleCall
<1>3. watch'[c].effect = {InEffect'} /\ watch'[c].changed = {}
  BY <1>1, <1>2 DEF Watch, Evaluating
<1>4. ~(pending'.kind # "none" /\ pending'.at <= clock')
  BY <1>1 DEF Synchronize, Applies, Due, NoPending
<1>5. Suspended' \/ ~subscription'.active \/ InEffect' = Allowed(override', subscription'.plan, clock')
  BY <1>4, EffectNow
<1> QED
  BY <1>2, <1>3, <1>4, <1>5 DEF Follows, Stands, ToBeGranted, Due

\* Reading on changes no table.
LEMMA ReadingFollows ==
    ASSUME EntitlementAssumption, RealInv, WatchInv, Watch, NEW c \in Calls, Follows(c),
           ReadContext(c) \/ ReadSubscription(c) \/ ReadOverrides(c)
    PROVE  Follows(c)'
<1>1. UNCHANGED tables /\ UNCHANGED clock
  BY DEF ReadContext, ReadSubscription, ReadOverrides
<1>2. UNCHANGED <<client, subscription, pending, override, clock>>
  BY <1>1 DEF tables
<1>3. Suspended' = Suspended
  BY <1>2 DEF Suspended
<1>4. InEffect' = InEffect
  BY <1>2, <1>3, EffectNow DEF Due
<1>5. call[c].at \in Evaluating /\ call[c].at # "idle" /\ call'[c].at \in Evaluating
  <2>1. call[c] \in Call /\ \A r : Goto(c, r) => call'[c] = r
    BY DEF Goto, RealInv, CallInv
  <2>2. CASE ReadContext(c) \/ ReadSubscription(c)
    BY <2>1, <2>2 DEF ReadContext, ReadSubscription, Call, Evaluating
  <2>3. CASE ReadOverrides(c)
    BY <2>1, <2>3 DEF ReadOverrides, IdleCall, Evaluating
  <2> QED
    BY <2>2, <2>3
<1>6. watch'[c].changed = watch[c].changed /\ watch'[c].effect = watch[c].effect \cup {InEffect'}
  BY <1>2, <1>5 DEF Watch, WatchInv
<1>7. InEffect' \in watch'[c].effect /\ watch[c].effect \subseteq watch'[c].effect
  BY <1>6
<1>8. CASE ReadContext(c)
  <2>1. /\ call[c].at = "context" /\ call'[c].at = "subscription" /\ call'[c].active = ~Suspended
        /\ call'[c].time = call[c].time
    BY <1>8 DEF ReadContext, Goto, RealInv, CallInv, Call
  <2> QED
    BY <1>2, <1>3, <1>6, <1>7, <2>1 DEF Follows, Stands, ToBeGranted, Due
<1>9. CASE ReadSubscription(c)
  <2>1. /\ call[c].at = "subscription" /\ call'[c].at = "overrides" /\ call'[c].plan = subscription.plan
        /\ call'[c].active = (call[c].active /\ subscription.active)
        /\ call'[c].time = call[c].time
    BY <1>9 DEF ReadSubscription, Goto, RealInv, CallInv, Call
  <2>2. call[c].active \in BOOLEAN /\ subscription.active \in BOOLEAN
    BY DEF RealInv, CallInv, PlanInv, Call
  <2> QED
    BY <1>2, <1>3, <1>6, <1>7, <2>1, <2>2 DEF Follows, Stands, ToBeGranted, Due
<1>10. CASE ReadOverrides(c)
  <2>1. /\ call[c].at = "overrides" /\ call'[c].at = "granted"
        /\ call'[c].granted = IF call[c].active THEN Allowed(override, call[c].plan, call[c].time) ELSE {}
    BY <1>10, EffectNow DEF ReadOverrides, Goto, RealInv, CallInv, IdleCall
  <2>2. ASSUME Alone(watch[c].changed), call'[c].granted # {}
        PROVE  call'[c].granted \in watch'[c].effect
    <3>1. CASE "exceptions" \notin watch[c].changed
      BY <1>7, <2>1, <2>2, <3>1 DEF Follows, ToBeGranted
    <3>2. CASE "exceptions" \in watch[c].changed
      <4>1. "clock" \notin watch[c].changed /\ "plan" \notin watch[c].changed /\ "client" \notin watch[c].changed
        BY <2>2, <3>2 DEF Alone
      <4>2. /\ call[c].time = clock /\ ~Due(clock) /\ call[c].plan = subscription.plan
            /\ call[c].active = (~Suspended /\ subscription.active)
        BY <2>1, <4>1 DEF Follows, Stands
      <4>3. InEffect = Allowed(override, subscription.plan, clock)
        BY <2>1, <2>2, <4>2, EffectNow
      <4> QED
        BY <1>4, <1>7, <2>1, <2>2, <4>2, <4>3
    <3> QED
      BY <3>1, <3>2
  <2> QED
    BY <1>6, <1>7, <2>1, <2>2 DEF Follows, ToBeGranted
<1> QED
  BY <1>8, <1>9, <1>10

\* What others change is noted, and what they bring into effect too.
LEMMA RestingFollows ==
    ASSUME EntitlementAssumption, RealInv, WatchInv, Act, Watch, NEW c \in Calls, Follows(c),
           call[c].at \in Evaluating, call'[c] = call[c]
    PROVE  Follows(c)'
<1>1. call[c].at # "idle"
  BY DEF Evaluating
<1> DEFINE old == watch[c].changed
           new == watch'[c].changed
<1>2. /\ watch'[c].effect = watch[c].effect \cup {InEffect'}
      /\ new = old \cup {x \in {"client"} : client' # client}
                   \cup {x \in {"plan"} : subscription' # subscription \/ pending' # pending}
                   \cup {x \in {"exceptions"} : override' # override}
                   \cup {x \in {"clock"} : clock' # clock}
  BY <1>1 DEF Watch
<1>3. InEffect' \in watch'[c].effect /\ watch[c].effect \subseteq watch'[c].effect /\ old \subseteq new
  BY <1>2
<1>4. /\ "client" \notin new => client' = client
      /\ "plan" \notin new => subscription' = subscription /\ pending' = pending
      /\ "exceptions" \notin new => override' = override
      /\ "clock" \notin new => clock' = clock
  BY <1>2
<1> HIDE DEF old, new
<1>5. call[c].at # "granted" => Stands(c)'
  <2> SUFFICES ASSUME call[c].at # "granted" PROVE Stands(c)'
    OBVIOUS
  <2>1. Stands(c)
    BY DEF Follows
  <2>2. "client" \notin new => Suspended' = Suspended
    BY <1>4 DEF Suspended
  <2> QED
    BY <1>3, <1>4, <2>1, <2>2 DEF Stands, Due, old, new
<1>6. ASSUME Alone(new), "exceptions" \notin new
      PROVE  ToBeGranted(c)'
  <2>1. Alone(old) /\ "exceptions" \notin old /\ override' = override
    BY <1>3, <1>4, <1>6 DEF Alone
  <2>2. ToBeGranted(c)
    BY <2>1 DEF Follows, old
  <2>3. CASE client' = client /\ subscription' = subscription
    BY <1>3, <2>1, <2>2, <2>3 DEF ToBeGranted, Suspended
  <2>4. CASE call[c].at \in {"overrides", "granted"}
    BY <1>3, <2>1, <2>2, <2>4 DEF ToBeGranted
  <2>5. CASE call[c].at \in {"context", "subscription"} /\ client' # client
    <3>1. "client" \in new /\ "plan" \notin new /\ "clock" \notin new
      BY <1>4, <1>6, <2>5 DEF Alone
    <3>2. subscription' = subscription /\ pending' = pending /\ clock' = clock
      BY <1>4, <3>1
    <3>3. call[c].time = clock' /\ ~(pending'.kind # "none" /\ pending'.at <= clock')
      BY <1>3, <2>5, <3>1, <3>2 DEF Follows, Stands, Due, old
    <3>4. ~Suspended' /\ subscription'.active => InEffect' = Allowed(override', subscription'.plan, call[c].time)
      BY <3>3, EffectNow
    <3> QED
      BY <1>3, <2>1, <2>2, <2>5, <3>2, <3>4 DEF ToBeGranted
  <2>6. CASE call[c].at \in {"context", "subscription"} /\ subscription' # subscription
    <3>1. "plan" \in new /\ "client" \notin new /\ "clock" \notin new
      BY <1>4, <1>6, <2>6 DEF Alone
    <3>2. client' = client /\ clock' = clock /\ pending'.kind = "none"
      BY <1>4, <2>6, <3>1, WrittenPlanIsDue
    <3>3. Suspended' = Suspended
      BY <3>2 DEF Suspended
    <3>4. call[c].time = clock' /\ (call[c].at = "subscription" => call[c].active = ~Suspended)
      BY <1>3, <2>6, <3>1, <3>2 DEF Follows, Stands, old
    <3>5. ~Suspended' /\ subscription'.active => InEffect' = Allowed(override', subscription'.plan, call[c].time)
      BY <3>2, <3>4, EffectNow
    <3> QED
      BY <1>3, <2>6, <3>3, <3>4, <3>5 DEF ToBeGranted
  <2>7. call[c].at \in {"context", "subscription", "overrides", "granted"}
    BY DEF Evaluating
  <2> QED
    BY <2>3, <2>4, <2>5, <2>6, <2>7
<1>7. ASSUME call[c].at = "granted", Alone(new), call[c].granted # {}
      PROVE  call[c].granted \in watch'[c].effect
  <2>1. Alone(old)
    BY <1>3, <1>7 DEF Alone
  <2> QED
    BY <1>3, <1>7, <2>1 DEF Follows, old
<1> QED
  BY <1>3, <1>5, <1>6, <1>7 DEF Follows, old, new

LEMMA NextKeepsFollowInv ==
    ASSUME EntitlementAssumption
    PROVE  IInv /\ FollowInv /\ [Next]_vars => FollowInv'
<1> SUFFICES ASSUME IInv, FollowInv, [Next]_vars, NEW c \in Calls, call'[c].at \in Evaluating
             PROVE  Follows(c)'
  BY DEF FollowInv
<1>1. RealInv /\ WatchInv
  BY DEF IInv, RealInv
<1>2. CASE Next
  <2>1. CASE Evaluate(c)
    BY <1>1, <1>2, <2>1, BeginningFollows DEF Next
  <2>2. CASE ReadContext(c) \/ ReadSubscription(c) \/ ReadOverrides(c)
    <3>1. call[c].at \in Evaluating
      BY <2>2 DEF ReadContext, ReadSubscription, ReadOverrides, Evaluating
    <3> QED
      BY <1>1, <1>2, <2>2, <3>1, ReadingFollows DEF Next, FollowInv
  <2>3. CASE call'[c] = call[c]
    BY <1>1, <1>2, <2>3, RestingFollows DEF Next, FollowInv
  <2> QED
    BY <1>1, <1>2, <2>1, <2>2, <2>3, EvaluationMoves DEF Next
<1>3. CASE UNCHANGED vars
  <2>1. UNCHANGED <<clock, client, subscription, pending, override, call, watch>>
    BY <1>3 DEF vars, tables
  <2>2. Follows(c)
    BY <2>1 DEF FollowInv
  <2>3. Suspended' = Suspended
    BY <2>1 DEF Suspended
  <2>4. InEffect' = InEffect
    BY <2>1, <2>3, EffectNow DEF Due
  <2> QED
    BY <2>1, <2>2, <2>3, <2>4 DEF Follows, Stands, ToBeGranted, Due
<1> QED
  BY <1>2, <1>3

LEMMA GrantsFollow ==
    ASSUME IInv, FollowInv
    PROVE  GrantWasInEffect
<1> SUFFICES ASSUME NEW c \in Calls, call[c].at = "granted", Cardinality(watch[c].changed) < 2,
                    NEW k \in call[c].granted
             PROVE  \E granted \in watch[c].effect : k \in granted
  BY DEF GrantWasInEffect
<1>1. Alone(watch[c].changed)
  BY FewAreAlone DEF IInv, WatchInv
<1>2. call[c].granted \in watch[c].effect
  BY <1>1 DEF FollowInv, Follows, Evaluating
<1> QED
  BY <1>2

\* What the invariant says of every state.
LEMMA IInvHolds ==
    ASSUME EntitlementAssumption, IInv
    PROVE  WaitingFitsPlan /\ OneExceptionAtATime
<1>1. WaitingFitsPlan
  BY DEF IInv, PlanInv, OverrideInv, CallInv, BoundInv, WatchInv, WaitingFitsPlan, EntitlementsTypeOK
<1>2. OneExceptionAtATime
  BY ApartNeverTogether DEF IInv
<1> QED
  BY <1>1, <1>2

LEMMA InitFollows == Init => FollowInv
BY DEF Init, FollowInv, IdleCall, Evaluating

\* An evaluation reads client, plan and exceptions one after the other: what it
\* grants was in effect at some moment since it began all the same, unless two of
\* the sources were changed in between.
THEOREM GrantsWereInEffect ==
    ASSUME EntitlementAssumption
    PROVE  Spec => []GrantWasInEffect
<1>1. Init => IInv /\ FollowInv
  BY EntitlementAssumption, InitIInv, InitFollows
<1>2. IInv /\ FollowInv /\ [Next]_vars => IInv' /\ FollowInv'
  BY EntitlementAssumption, NextKeepsIInv, NextKeepsFollowInv
<1>3. IInv /\ FollowInv => GrantWasInEffect
  BY GrantsFollow
<1> QED
  BY <1>1, <1>2, <1>3, PTL DEF Spec
=============================================================================
