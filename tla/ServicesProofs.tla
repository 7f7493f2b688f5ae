----------------------------- MODULE ServicesProofs ----------------------------
(* What MCServices asks of its parts holds for any number of actors and       *)
(* things and any bounds.  A behaviour runs one part and every step of it is  *)
(* a step of that part, so each part has its own inductive invariant.         *)
EXTENDS MCServices, Integers, FiniteSetTheorems, WellFoundedInduction, TLAPS

--------------------------------------------------------------------------------
(* Backups that are planned: the invariant of BackupProofs *)

PlanningInv == part = "planning" => Planning!IInv

LEMMA StepOfPlanning ==
    ASSUME part = "planning", [Next]_vars
    PROVE  part' = part /\ [Planning!Next]_(Planning!vars)
BY DEF Next, vars, planning, Planning!vars

LEMMA PlanningKept ==
    /\ Init => PlanningInv
    /\ PlanningInv /\ [Next]_vars => PlanningInv'
<1>1. Planning!BackupAssumption
  BY ServicesAssumption
<1>2. Init => PlanningInv
  BY <1>1, Planning!InitIInv DEF Init, PlanningInv
<1>3. ASSUME PlanningInv, [Next]_vars PROVE PlanningInv'
  <2>1. CASE part = "planning"
    BY <1>1, <1>3, <2>1, StepOfPlanning, Planning!NextKeepsIInv DEF PlanningInv
  <2>2. CASE part # "planning"
    BY <1>3, <2>2 DEF Next, vars, PlanningInv
  <2> QED
    BY <2>1, <2>2
<1> QED
  BY <1>2, <1>3

\* However requests and planning jobs write back a policy they read before, no month
\* gets a second scheduled backup.
THEOREM OncePerMonthHolds == Spec => []OncePerMonth
<1>1. PlanningInv => OncePerMonth
  BY Planning!MonthsOfIInv DEF PlanningInv, OncePerMonth
<1> QED
  BY <1>1, PlanningKept, PTL DEF Spec

--------------------------------------------------------------------------------
(* Signed requests.  A claim is deleted for its age only when no clock within *)
(* the window lets its request pass again: the time it is listed with, in the *)
(* list and in every copy that may be written back, is that of its receipt.   *)

\* q reached the plugin: a call works on it, or it was carried out.
Reached(q) == q \in ran \/ \E c \in Actors : handler[c] # Signed!Idle /\ handler[c].q = q

\* What l lists of the requests r was received at the time it is listed with.
ListedWhenFresh(l, r) ==
    \A q \in Things :
        l[q] # Signed!Unlisted => r[q] # Signed!Unsent /\ l[q] >= r[q].stamp - Window

\* A request that reached the plugin has its claim, was crowded out, or is too old.
ClaimLasts ==
    \A q \in Things :
        Reached(q) =>
            /\ sent[q] # Signed!Unsent
            /\ q \in claims \/ q \in crowded \/ now > sent[q].stamp + Window

\* No time passes between a receipt and its listing.
StillFresh ==
    \A c \in Actors : handler[c].at \in {"claimed", "listing"} => Signed!Fresh(handler[c].q)

ToCarryOut == {"claimed", "listing", "run"}

\* A request is carried out by the only call that received it, unless it was crowded out.
HasOneCall ==
    \A c \in Actors :
        handler[c].at \in ToCarryOut /\ handler[c].q \notin crowded =>
            /\ handler[c].q \notin ran
            /\ \A d \in Actors \ {c} : handler[d].at \in ToCarryOut => handler[d].q # handler[c].q

\* What is about to be installed is newer than what it was offered for.
InstallsNewer ==
    \A c \in Actors :
        handler[c].at = "install" =>
            /\ sent[handler[c].q].kind = "plugin-update"
            /\ Signed!Newer(sent[handler[c].q])

RequestsInv ==
    /\ Signed!RequestsTypeOK
    /\ ListedWhenFresh(list, sent)
    /\ \A c \in Actors : handler[c].at = "listing" => ListedWhenFresh(handler[c].copy, sent)
    /\ ClaimLasts
    /\ StillFresh
    /\ HasOneCall
    /\ InstallsNewer
    /\ Signed!CarriedOutOnce

\* What the shape of requests and calls says.
LEMMA RequestRows ==
    ASSUME Signed!RequestsTypeOK
    PROVE  /\ \A q \in Things : sent[q] = Signed!Unsent \/ sent[q].stamp \in Int
           /\ \A c \in Actors : handler[c] = Signed!Idle \/ handler[c].q \in Things
           /\ \A c \in Actors : handler[c].at = "listing" => handler[c].copy \in Signed!Listing
           /\ \A c \in Actors : handler[c] = Signed!Idle <=> handler[c].at = "idle"
           /\ now \in Int
BY DEF Signed!RequestsTypeOK, Signed!Sent, Signed!Call, Signed!Unsent, Signed!Idle, Signed!Times

\* Only sent, and for a request that was not sent before.
LEMMA SendKeepsRequests ==
    ASSUME RequestsInv, NEW q \in Things, NEW r \in Signed!Sent, r # Signed!Unsent, Signed!Send(q, r)
    PROVE  RequestsInv'
<1>1. /\ sent[q] = Signed!Unsent /\ sent' = [sent EXCEPT ![q] = r]
      /\ UNCHANGED <<now, claims, list, handler, version, ran, repeated, crowded, crossed>>
  BY DEF Signed!Send
<1>2. sent \in [Things -> Signed!Sent]
  BY DEF RequestsInv, Signed!RequestsTypeOK
<1>3. ~Reached(q) /\ list[q] = Signed!Unlisted
  BY <1>1 DEF RequestsInv, ClaimLasts, ListedWhenFresh
<1>4. \A p \in Things : p # q => sent'[p] = sent[p]
  BY <1>1, <1>2
<1>5. \A c \in Actors : handler[c] # Signed!Idle => handler[c].q \in Things /\ handler[c].q # q
  BY <1>3, RequestRows DEF RequestsInv, Reached
<1>6. Signed!RequestsTypeOK'
  BY <1>1 DEF RequestsInv, Signed!RequestsTypeOK
<1>7. ListedWhenFresh(list', sent')
  BY <1>1, <1>3, <1>4 DEF RequestsInv, ListedWhenFresh
<1>8. \A c \in Actors : handler'[c].at = "listing" => ListedWhenFresh(handler'[c].copy, sent')
  <2> SUFFICES ASSUME NEW c \in Actors, handler[c].at = "listing" PROVE ListedWhenFresh(handler'[c].copy, sent')
    BY <1>1
  <2>1. ListedWhenFresh(handler[c].copy, sent)
    BY DEF RequestsInv
  <2> QED
    BY <1>1, <1>4, <2>1 DEF ListedWhenFresh
<1>9. ClaimLasts'
  BY <1>1, <1>3, <1>4 DEF RequestsInv, ClaimLasts, Reached
<1>10. StillFresh'
  BY <1>1, <1>4, <1>5, RequestRows DEF RequestsInv, StillFresh, Signed!Fresh
<1>11. InstallsNewer'
  BY <1>1, <1>4, <1>5, RequestRows DEF RequestsInv, InstallsNewer, Signed!Newer
<1> QED
  BY <1>1, <1>6, <1>7, <1>8, <1>9, <1>10, <1>11 DEF RequestsInv, HasOneCall, Signed!CarriedOutOnce

LEMMA ReceiveKeepsRequests ==
    ASSUME RequestsInv, NEW c \in Actors, NEW q \in Things, Signed!Receive(c, q)
    PROVE  RequestsInv'
<1>1. /\ handler[c] = Signed!Idle /\ sent[q] # Signed!Unsent /\ Signed!Fresh(q) /\ q \notin claims
      /\ claims' = claims \cup {q}
      /\ handler' = [handler EXCEPT ![c] = [at |-> "claimed", q |-> q]]
      /\ UNCHANGED <<now, sent, list, version, ran, repeated, crowded, crossed>>
  BY DEF Signed!Receive, Signed!Goto
<1>2. /\ handler \in [Actors -> Signed!Call]
      /\ handler'[c] = [at |-> "claimed", q |-> q]
      /\ \A d \in Actors : d # c => handler'[d] = handler[d]
  BY <1>1 DEF RequestsInv, Signed!RequestsTypeOK
<1>3. sent[q].stamp \in Int /\ now \in Int /\ Window \in Int
  BY <1>1, RequestRows, ServicesAssumption DEF RequestsInv, Signed!RequestsAssumption
<1>4. Reached(q) => q \in crowded
  BY <1>1, <1>3 DEF RequestsInv, ClaimLasts, Signed!Fresh
<1>5. Signed!RequestsTypeOK'
  <2>1. [at |-> "claimed", q |-> q] \in Signed!Call
    BY DEF Signed!Call
  <2> QED
    BY <1>1, <2>1 DEF RequestsInv, Signed!RequestsTypeOK
<1>6. ListedWhenFresh(list', sent')
  BY <1>1 DEF RequestsInv, ListedWhenFresh
<1>7. \A d \in Actors : handler'[d].at = "listing" => ListedWhenFresh(handler'[d].copy, sent')
  <2> SUFFICES ASSUME NEW d \in Actors, handler'[d].at = "listing" PROVE ListedWhenFresh(handler'[d].copy, sent')
    OBVIOUS
  <2>1. d # c /\ handler'[d] = handler[d]
    BY <1>2
  <2>2. ListedWhenFresh(handler[d].copy, sent)
    BY <2>1 DEF RequestsInv
  <2> QED
    BY <1>1, <2>1, <2>2 DEF ListedWhenFresh
<1>8. ClaimLasts'
  <2> SUFFICES ASSUME NEW p \in Things, Reached(p)'
               PROVE  sent[p] # Signed!Unsent /\ (p \in claims' \/ p \in crowded \/ now > sent[p].stamp + Window)
    BY <1>1 DEF ClaimLasts
  <2>1. CASE p = q
    BY <1>1, <2>1
  <2>2. CASE p # q
    <3>1. Reached(p)
      BY <1>1, <1>2, <2>2 DEF Reached
    <3> QED
      BY <1>1, <3>1 DEF RequestsInv, ClaimLasts
  <2> QED
    BY <2>1, <2>2
<1>9. StillFresh'
  BY <1>1, <1>2 DEF RequestsInv, StillFresh, Signed!Fresh
<1>10. HasOneCall'
  <2> SUFFICES ASSUME NEW d \in Actors, handler'[d].at \in ToCarryOut, handler'[d].q \notin crowded
               PROVE  /\ handler'[d].q \notin ran
                      /\ \A e \in Actors \ {d} : handler'[e].at \in ToCarryOut => handler'[e].q # handler'[d].q
    BY <1>1 DEF HasOneCall
  <2>1. \A e \in Actors : handler[e].at \in ToCarryOut => handler[e] # Signed!Idle
    BY DEF ToCarryOut, Signed!Idle
  <2>2. CASE d = c
    BY <1>2, <1>4, <2>1, <2>2 DEF Reached
  <2>3. CASE d # c
    <3>1. handler[d].q \notin ran /\ \A e \in Actors \ {d} : handler[e].at \in ToCarryOut => handler[e].q # handler[d].q
      BY <1>2, <2>3 DEF RequestsInv, HasOneCall
    <3>2. handler[d].q # q
      BY <1>2, <1>4, <2>1, <2>3 DEF Reached
    <3> QED
      BY <1>2, <2>3, <3>1, <3>2
  <2> QED
    BY <2>2, <2>3
<1>11. InstallsNewer'
  BY <1>1, <1>2 DEF RequestsInv, InstallsNewer, Signed!Newer
<1> QED
  BY <1>1, <1>5, <1>6, <1>7, <1>8, <1>9, <1>10, <1>11 DEF RequestsInv, Signed!CarriedOutOnce

\* A call that goes on, or ends, and touches nothing but what is said.
LEMMA GoingOnKeepsRequests ==
    ASSUME RequestsInv, NEW c \in Actors, NEW h \in Signed!Call, handler' = [handler EXCEPT ![c] = h],
           UNCHANGED <<now, sent, claims, list>>,
           Signed!RequestsTypeOK',
           h = Signed!Idle \/ (h.q = handler[c].q /\ handler[c] # Signed!Idle),
           h.at \in ToCarryOut => handler[c].at \in ToCarryOut,
           h.at \in {"claimed", "listing"} => handler[c].at \in {"claimed", "listing"},
           h.at = "listing" => ListedWhenFresh(h.copy, sent),
           h.at = "install" => sent[h.q].kind = "plugin-update" /\ Signed!Newer(sent[h.q]),
           UNCHANGED crowded,
           \/ UNCHANGED <<ran, repeated>>
           \/ /\ handler[c].at = "run" /\ h.at \notin ToCarryOut
              /\ Signed!CarryOut(handler[c].q)
    PROVE  RequestsInv'
<1>1. /\ handler'[c] = h /\ \A d \in Actors : d # c => handler'[d] = handler[d]
  BY DEF RequestsInv, Signed!RequestsTypeOK
<1>2. ListedWhenFresh(list', sent')
  BY DEF RequestsInv, ListedWhenFresh
<1>3. \A d \in Actors : handler'[d].at = "listing" => ListedWhenFresh(handler'[d].copy, sent')
  BY <1>1 DEF RequestsInv, ListedWhenFresh
<1>4. \A q : Reached(q)' => Reached(q)
  BY <1>1 DEF Reached, Signed!CarryOut, Signed!Idle
<1>5. ClaimLasts'
  BY <1>4 DEF RequestsInv, ClaimLasts
<1>6. StillFresh'
  BY <1>1 DEF RequestsInv, StillFresh, Signed!Fresh, Signed!Idle
<1>7. HasOneCall'
  <2> SUFFICES ASSUME NEW d \in Actors, handler'[d].at \in ToCarryOut, handler'[d].q \notin crowded
               PROVE  /\ handler'[d].q \notin ran'
                      /\ \A e \in Actors \ {d} : handler'[e].at \in ToCarryOut => handler'[e].q # handler'[d].q
    BY DEF HasOneCall
  <2>1. \A e \in Actors : handler'[e].at \in ToCarryOut => handler[e].at \in ToCarryOut /\ handler'[e].q = handler[e].q
    BY <1>1 DEF ToCarryOut, Signed!Idle
  <2>2. handler[d].q \notin ran /\ \A e \in Actors \ {d} : handler[e].at \in ToCarryOut => handler[e].q # handler[d].q
    BY <2>1 DEF RequestsInv, HasOneCall
  <2>3. handler'[d].q \notin ran'
    BY <1>1, <2>1, <2>2 DEF Signed!CarryOut, ToCarryOut
  <2> QED
    BY <2>1, <2>2, <2>3
<1>8. InstallsNewer'
  BY <1>1 DEF RequestsInv, InstallsNewer, Signed!Newer
<1>9. Signed!CarriedOutOnce'
  BY DEF RequestsInv, Signed!CarriedOutOnce, Signed!CarryOut, HasOneCall, ToCarryOut
<1> QED
  BY <1>2, <1>3, <1>5, <1>6, <1>7, <1>8, <1>9 DEF RequestsInv

LEMMA CallsKeepRequests ==
    ASSUME RequestsInv, NEW c \in Actors,
           \/ Signed!ReadList(c) \/ Signed!Refresh(c) \/ Signed!CheckVersion(c)
           \/ Signed!InstallPackage(c) \/ Signed!Die(c)
    PROVE  RequestsInv'
<1>1. handler \in [Actors -> Signed!Call] /\ Signed!Idle \in Signed!Call /\ Signed!RequestsTypeOK
  BY DEF RequestsInv, Signed!RequestsTypeOK, Signed!Call
<1>2. /\ Signed!Idle.at = "idle"
      /\ handler[c].at # "idle" => handler[c].q \in Things
  BY <1>1, RequestRows DEF Signed!Idle
<1>3. CASE Signed!ReadList(c)
  <2> DEFINE h == [at |-> "listing", q |-> handler[c].q, copy |-> list]
  <2>1. /\ handler[c].at = "claimed" /\ handler' = [handler EXCEPT ![c] = h]
        /\ UNCHANGED <<now, sent, claims, list, version, ran, repeated, crowded, crossed>>
    BY <1>3 DEF Signed!ReadList, Signed!Goto
  <2>2. h \in Signed!Call /\ handler[c] # Signed!Idle /\ ListedWhenFresh(list, sent)
    BY <1>1, <1>2, <2>1 DEF Signed!Call, Signed!RequestsTypeOK, RequestsInv
  <2>3. Signed!RequestsTypeOK'
    BY <1>1, <2>1, <2>2 DEF Signed!RequestsTypeOK
  <2> QED
    BY <2>1, <2>2, <2>3, GoingOnKeepsRequests DEF ToCarryOut
<1>4. CASE Signed!Refresh(c)
  <2>1. /\ handler[c].at = "run" /\ handler' = [handler EXCEPT ![c] = Signed!Idle]
        /\ Signed!CarryOut(handler[c].q)
        /\ UNCHANGED <<now, sent, claims, list, version, crowded, crossed>>
    BY <1>4 DEF Signed!Refresh, Signed!Goto
  <2>2. Signed!RequestsTypeOK'
    BY <1>1, <1>2, <2>1 DEF Signed!RequestsTypeOK, Signed!CarryOut
  <2> QED
    BY <1>1, <1>2, <2>1, <2>2, GoingOnKeepsRequests DEF ToCarryOut
<1>5. CASE Signed!CheckVersion(c)
  <2> DEFINE r == sent[handler[c].q]
             h == IF version = r.from /\ Signed!Newer(r) THEN [at |-> "install", q |-> handler[c].q] ELSE Signed!Idle
  <2>1. /\ handler[c].at = "run" /\ r.kind = "plugin-update"
        /\ handler' = [handler EXCEPT ![c] = h]
        /\ Signed!CarryOut(handler[c].q)
        /\ UNCHANGED <<now, sent, claims, list, version, crowded, crossed>>
    BY <1>5 DEF Signed!CheckVersion, Signed!Goto
  <2>2. /\ h \in Signed!Call
        /\ h = Signed!Idle \/ (h = [at |-> "install", q |-> handler[c].q] /\ Signed!Newer(r))
    BY <1>1, <1>2, <2>1 DEF Signed!Call
  <2>3. handler[c] # Signed!Idle
    BY <1>2, <2>1
  <2> HIDE DEF h
  <2>4. Signed!RequestsTypeOK'
    <3>1. handler' \in [Actors -> Signed!Call] /\ handler[c].q \in Things
      BY <1>1, <1>2, <2>1, <2>2
    <3> QED
      BY <1>1, <2>1, <3>1 DEF Signed!RequestsTypeOK, Signed!CarryOut
  <2> QED
    BY <1>2, <2>1, <2>2, <2>3, <2>4, GoingOnKeepsRequests DEF ToCarryOut
<1>6. CASE Signed!InstallPackage(c)
  <2>1. /\ handler[c].at = "install" /\ handler' = [handler EXCEPT ![c] = Signed!Idle]
        /\ version' = sent[handler[c].q].to /\ crossed' = (crossed \/ version # sent[handler[c].q].from)
        /\ UNCHANGED <<now, sent, claims, list, ran, repeated, crowded>>
    BY <1>6 DEF Signed!InstallPackage, Signed!Goto
  <2>2. sent[handler[c].q] \in Signed!Sent /\ sent[handler[c].q].kind = "plugin-update"
    BY <1>1, <1>2, <2>1 DEF RequestsInv, InstallsNewer, Signed!RequestsTypeOK
  <2>3. version' \in Signed!Versions
    <3>1. sent[handler[c].q] \in [kind : {"plugin-update"}, stamp : Int, from : Signed!Versions, to : Signed!Versions]
      BY <2>2 DEF Signed!Sent, Signed!Unsent
    <3> QED
      BY <2>1, <3>1
  <2>4. Signed!RequestsTypeOK'
    BY <1>1, <2>1, <2>3 DEF Signed!RequestsTypeOK
  <2> QED
    BY <1>1, <1>2, <2>1, <2>4, GoingOnKeepsRequests DEF ToCarryOut
<1>7. CASE Signed!Die(c)
  <2>1. /\ handler' = [handler EXCEPT ![c] = Signed!Idle]
        /\ UNCHANGED <<now, sent, claims, list, version, ran, repeated, crowded, crossed>>
    BY <1>7 DEF Signed!Die, Signed!Goto
  <2>2. Signed!RequestsTypeOK'
    BY <1>1, <2>1 DEF Signed!RequestsTypeOK
  <2> QED
    BY <1>1, <1>2, <2>1, <2>2, GoingOnKeepsRequests DEF ToCarryOut
<1> QED
  BY <1>3, <1>4, <1>5, <1>6, <1>7

\* What is deleted for its age could not pass any more, and what is dropped is noted.
LEMMA ListClaimKeepsRequests ==
    ASSUME RequestsInv, NEW c \in Actors, Signed!ListClaim(c)
    PROVE  RequestsInv'
<1> DEFINE q == handler[c].q
           copy == handler[c].copy
           stale == {s \in Signed!Listed(copy) : Signed!Stale(copy[s])}
           kept == [s \in Things |-> IF s = q THEN now ELSE IF s \in stale THEN Signed!Unlisted ELSE copy[s]]
<1>1. PICK dropped \in SUBSET Signed!Listed(kept) :
        /\ claims' = (claims \ stale) \ dropped
        /\ list' = [s \in Things |-> IF s \in dropped THEN Signed!Unlisted ELSE kept[s]]
        /\ crowded' = crowded \cup dropped
  BY DEF Signed!ListClaim
<1>2. /\ handler[c].at = "listing"
      /\ handler' = [handler EXCEPT ![c] = [at |-> "run", q |-> q]]
      /\ UNCHANGED <<now, sent, version, ran, repeated, crossed>>
  BY DEF Signed!ListClaim, Signed!Goto
<1>3. /\ handler \in [Actors -> Signed!Call] /\ q \in Things /\ copy \in Signed!Listing
      /\ now \in Signed!Times /\ now \in Int
  BY <1>2, RequestRows DEF RequestsInv, Signed!RequestsTypeOK, Signed!Idle
<1>4. /\ handler'[c] = [at |-> "run", q |-> q]
      /\ \A d \in Actors : d # c => handler'[d] = handler[d]
  BY <1>2, <1>3
<1>5. Window \in Nat /\ Keep \in Nat /\ Keep >= 2 * Window
  BY ServicesAssumption DEF Signed!RequestsAssumption
<1>6. Signed!Fresh(q) /\ sent[q] # Signed!Unsent /\ sent[q].stamp \in Int
  <2>1. handler[c] # Signed!Idle
    BY <1>2 DEF Signed!Idle
  <2> QED
    BY <1>2, <1>3, <2>1, RequestRows DEF RequestsInv, StillFresh, ClaimLasts, Reached
<1>7. ListedWhenFresh(copy, sent)
  BY <1>2 DEF RequestsInv
<1>8. \A s \in stale : now > sent[s].stamp + Window
  <2> SUFFICES ASSUME NEW s \in stale PROVE now > sent[s].stamp + Window
    OBVIOUS
  <2>1. s \in Things /\ copy[s] # Signed!Unlisted /\ copy[s] < now - Keep
    BY DEF Signed!Listed, Signed!Stale
  <2>2. copy[s] \in Int /\ sent[s].stamp \in Int /\ copy[s] >= sent[s].stamp - Window
    BY <1>3, <1>7, <2>1, RequestRows
       DEF ListedWhenFresh, RequestsInv, Signed!Listing, Signed!Times, Signed!Unlisted
  <2> QED
    BY <1>3, <1>5, <2>1, <2>2
<1>9. kept \in Signed!Listing /\ ListedWhenFresh(kept, sent)
  <2>1. kept \in Signed!Listing
    BY <1>3 DEF Signed!Listing
  <2>2. now >= sent[q].stamp - Window
    BY <1>3, <1>5, <1>6 DEF Signed!Fresh
  <2> QED
    BY <1>6, <1>7, <2>1, <2>2 DEF ListedWhenFresh
<1> HIDE DEF kept
<1>10. list' \in Signed!Listing /\ ListedWhenFresh(list', sent')
  BY <1>1, <1>2, <1>9 DEF Signed!Listing, ListedWhenFresh
<1>11. Signed!RequestsTypeOK'
  <2>1. [at |-> "run", q |-> q] \in Signed!Call
    BY <1>3 DEF Signed!Call
  <2>2. dropped \subseteq Things
    BY DEF Signed!Listed
  <2> QED
    BY <1>1, <1>2, <1>10, <2>1, <2>2 DEF RequestsInv, Signed!RequestsTypeOK
<1>12. \A d \in Actors : handler'[d].at = "listing" => ListedWhenFresh(handler'[d].copy, sent')
  BY <1>2, <1>4 DEF RequestsInv
<1>13. ClaimLasts'
  <2> SUFFICES ASSUME NEW p \in Things, Reached(p)'
               PROVE  sent[p] # Signed!Unsent /\ (p \in claims' \/ p \in crowded' \/ now > sent[p].stamp + Window)
    BY <1>2 DEF ClaimLasts
  <2>1. Reached(p)
    BY <1>2, <1>4 DEF Reached, Signed!Idle
  <2>2. sent[p] # Signed!Unsent /\ (p \in claims \/ p \in crowded \/ now > sent[p].stamp + Window)
    BY <2>1 DEF RequestsInv, ClaimLasts
  <2> QED
    BY <1>1, <1>8, <2>2
<1>14. StillFresh'
  BY <1>2, <1>4 DEF RequestsInv, StillFresh, Signed!Fresh
<1>15. HasOneCall'
  <2> SUFFICES ASSUME NEW d \in Actors, handler'[d].at \in ToCarryOut, handler'[d].q \notin crowded'
               PROVE  /\ handler'[d].q \notin ran
                      /\ \A e \in Actors \ {d} : handler'[e].at \in ToCarryOut => handler'[e].q # handler'[d].q
    BY <1>2 DEF HasOneCall
  <2>1. \A e \in Actors : handler'[e].at \in ToCarryOut => handler[e].at \in ToCarryOut /\ handler'[e].q = handler[e].q
    BY <1>2, <1>4 DEF ToCarryOut
  <2>2. handler[d].q \notin ran /\ \A e \in Actors \ {d} : handler[e].at \in ToCarryOut => handler[e].q # handler[d].q
    BY <1>1, <2>1 DEF RequestsInv, HasOneCall
  <2> QED
    BY <2>1, <2>2
<1>16. InstallsNewer'
  BY <1>2, <1>4 DEF RequestsInv, InstallsNewer, Signed!Newer
<1>17. Signed!CarriedOutOnce'
  BY <1>1, <1>2 DEF RequestsInv, Signed!CarriedOutOnce
<1> QED
  BY <1>10, <1>11, <1>12, <1>13, <1>14, <1>15, <1>16, <1>17 DEF RequestsInv

LEMMA WorldKeepsRequests ==
    ASSUME RequestsInv, Signed!TimePasses \/ Signed!UpdateLocally \/ UNCHANGED Signed!vars
    PROVE  RequestsInv'
<1>1. CASE Signed!UpdateLocally \/ UNCHANGED Signed!vars
  <2>1. UNCHANGED <<now, sent, claims, list, handler, ran, repeated, crowded, crossed>>
        /\ version' \in Signed!Versions
    BY <1>1, ServicesAssumption DEF Signed!UpdateLocally, Signed!vars, RequestsInv, Signed!RequestsTypeOK,
       Signed!Versions, Signed!RequestsAssumption
  <2> QED
    BY <2>1 DEF RequestsInv, Signed!RequestsTypeOK, ListedWhenFresh, ClaimLasts, Reached, StillFresh, Signed!Fresh,
       HasOneCall, InstallsNewer, Signed!Newer, Signed!CarriedOutOnce
<1>2. CASE Signed!TimePasses
  <2>1. /\ now < MaxTime /\ now' = now + 1 /\ \A c \in Actors : handler[c].at \notin {"claimed", "listing"}
        /\ UNCHANGED <<sent, claims, list, handler, version, ran, repeated, crowded, crossed>>
    BY <1>2 DEF Signed!TimePasses
  <2>2. now \in Int /\ now' \in Signed!Times
    BY <2>1, ServicesAssumption DEF RequestsInv, Signed!RequestsTypeOK, Signed!Times, Signed!RequestsAssumption
  <2>3. ClaimLasts'
    <3> SUFFICES ASSUME NEW p \in Things, Reached(p)
                 PROVE  sent[p] # Signed!Unsent /\ (p \in claims \/ p \in crowded \/ now' > sent[p].stamp + Window)
      BY <2>1 DEF ClaimLasts, Reached
    <3>1. sent[p] # Signed!Unsent /\ (p \in claims \/ p \in crowded \/ now > sent[p].stamp + Window)
      BY DEF RequestsInv, ClaimLasts
    <3>2. sent[p].stamp \in Int /\ Window \in Int
      BY <3>1, RequestRows, ServicesAssumption DEF RequestsInv, Signed!RequestsAssumption
    <3> QED
      BY <2>1, <2>2, <3>1, <3>2
  <2> QED
    BY <2>1, <2>2, <2>3 DEF RequestsInv, Signed!RequestsTypeOK, ListedWhenFresh, StillFresh,
       HasOneCall, InstallsNewer, Signed!Newer, Signed!CarriedOutOnce
<1> QED
  BY <1>1, <1>2

LEMMA InitRequests == Signed!Init => RequestsInv
<1> SUFFICES ASSUME Signed!Init PROVE RequestsInv
  OBVIOUS
<1>1. /\ now = 0 /\ version = 1 /\ claims = {} /\ ran = {} /\ repeated = {} /\ crowded = {} /\ crossed = FALSE
      /\ sent = [q \in Things |-> Signed!Unsent] /\ list = [q \in Things |-> Signed!Unlisted]
      /\ handler = [c \in Actors |-> Signed!Idle]
  BY DEF Signed!Init
<1>2. 0 \in Signed!Times /\ 1 \in Signed!Versions
  BY ServicesAssumption DEF Signed!RequestsAssumption, Signed!Times, Signed!Versions
<1>3. Signed!RequestsTypeOK
  BY <1>1, <1>2 DEF Signed!RequestsTypeOK, Signed!Sent, Signed!Call, Signed!Listing
<1> QED
  BY <1>1, <1>3 DEF RequestsInv, ListedWhenFresh, ClaimLasts, Reached, StillFresh, HasOneCall, InstallsNewer,
     ToCarryOut, Signed!Idle, Signed!CarriedOutOnce

LEMMA NextKeepsRequests ==
    ASSUME RequestsInv, [Signed!Next]_(Signed!vars)
    PROVE  RequestsInv'
<1>1. ASSUME NEW q \in Things, Signed!RequestRefresh(q) \/ Signed!RequestPluginUpdate(q)
      PROVE  RequestsInv'
  <2>1. now \in Int /\ Skews \subseteq Int /\ version \in Signed!Versions
    BY RequestRows, ServicesAssumption DEF RequestsInv, Signed!RequestsAssumption, Signed!RequestsTypeOK
  <2>2. CASE Signed!RequestRefresh(q)
    <3>1. PICK skew \in Skews : Signed!Send(q, [kind |-> "refresh", stamp |-> now + skew])
      BY <2>2 DEF Signed!RequestRefresh
    <3>2. [kind |-> "refresh", stamp |-> now + skew] \in Signed!Sent
      BY <2>1 DEF Signed!Sent
    <3>3. [kind |-> "refresh", stamp |-> now + skew] # Signed!Unsent
      BY DEF Signed!Unsent
    <3> QED
      BY <3>1, <3>2, <3>3, SendKeepsRequests
  <2>3. CASE Signed!RequestPluginUpdate(q)
    <3>1. PICK skew \in Skews, target \in Signed!Versions :
            Signed!Send(q, [kind |-> "plugin-update", stamp |-> now + skew, from |-> version, to |-> target])
      BY <2>3 DEF Signed!RequestPluginUpdate
    <3>2. [kind |-> "plugin-update", stamp |-> now + skew, from |-> version, to |-> target] \in Signed!Sent
      BY <2>1 DEF Signed!Sent
    <3>3. [kind |-> "plugin-update", stamp |-> now + skew, from |-> version, to |-> target] # Signed!Unsent
      BY DEF Signed!Unsent
    <3> QED
      BY <3>1, <3>2, <3>3, SendKeepsRequests
  <2> QED
    BY <1>1, <2>2, <2>3
<1> QED
  BY <1>1, WorldKeepsRequests, ReceiveKeepsRequests, CallsKeepRequests, ListClaimKeepsRequests DEF Signed!Next

\* Nothing but an installation, of something newer, and WordPress change the version.
LEMMA StepIsNoDowngrade ==
    ASSUME RequestsInv, Signed!Next
    PROVE  Signed!NotDowngraded
<1>1. version \in Int
  BY DEF RequestsInv, Signed!RequestsTypeOK, Signed!Versions
<1>2. CASE version' = version \/ version' = version + 1
  BY <1>1, <1>2 DEF Signed!NotDowngraded
<1>3. ASSUME NEW c \in Actors, Signed!InstallPackage(c)
      PROVE  Signed!NotDowngraded
  <2> DEFINE r == sent[handler[c].q]
  <2>1. version' = r.to /\ (crossed' \/ version = r.from) /\ handler[c].at = "install"
    BY <1>3 DEF Signed!InstallPackage
  <2>2. r.to > r.from
    BY <2>1 DEF RequestsInv, InstallsNewer, Signed!Newer
  <2>3. handler[c].q \in Things /\ r.kind = "plugin-update"
    BY <2>1, RequestRows DEF RequestsInv, InstallsNewer
  <2>4. r.from \in Int /\ r.to \in Int
    BY <2>3 DEF RequestsInv, Signed!RequestsTypeOK, Signed!Sent, Signed!Unsent, Signed!Versions
  <2> QED
    BY <2>1, <2>2, <2>4 DEF Signed!NotDowngraded
<1> QED
  BY <1>2, <1>3 DEF Signed!Next, Signed!TimePasses, Signed!UpdateLocally, Signed!RequestRefresh,
     Signed!RequestPluginUpdate, Signed!Send, Signed!Receive, Signed!ReadList, Signed!ListClaim, Signed!Refresh,
     Signed!CheckVersion, Signed!Die

SignedInv == part = "requests" => RequestsInv

LEMMA RequestsKept ==
    /\ Init => SignedInv
    /\ SignedInv /\ [Next]_vars => SignedInv'
<1>1. Init => SignedInv
  BY InitRequests DEF Init, SignedInv
<1>2. ASSUME SignedInv, [Next]_vars PROVE SignedInv'
  <2>1. part' = part
    BY <1>2 DEF Next, vars
  <2>2. CASE part = "requests"
    <3>1. [Signed!Next]_(Signed!vars)
      BY <1>2, <2>2 DEF Next, vars, requests, Signed!vars
    <3> QED
      BY <1>2, <2>2, <3>1, NextKeepsRequests DEF SignedInv
  <2> QED
    BY <2>1, <2>2 DEF SignedInv
<1> QED
  BY <1>1, <1>2

\* However often and late requests are delivered, and whatever list of claims is
\* written over, each is carried out once unless the limit removed its claim, and none
\* takes a WordPress plugin back to an older version.
THEOREM RequestsAreSound == Spec => RequestsSound
<1>1. SignedInv => (part = "requests" => Signed!RequestsRunOnce)
  BY DEF SignedInv, RequestsInv, Signed!RequestsRunOnce
<1>2. SignedInv /\ [Next]_vars => [part = "requests" => Signed!NotDowngraded]_vars
  BY StepIsNoDowngrade DEF SignedInv, Next
<1> QED
  BY <1>1, <1>2, RequestsKept, PTL DEF Spec, RequestsSound

--------------------------------------------------------------------------------
(* Reports of updates.  What a request has read of the queue was in it, so an *)
(* activity that a request relies on when it moves the baseline was queued.   *)

\* A queue, or a copy of it, that fits the option.
Fits(q) == q \subseteq stored /\ IsFiniteSet(q) /\ Cardinality(q) <= QueueLimit

\* The activity that says of a version that it came.
HasResult(v) == \E a \in stored : a.version = v /\ a.outcome # "failed"

RequestFollows(r) ==
    /\ Fits(request[r].copy)
    /\ request[r].sent \subseteq recorded
    /\ request[r].at \in {"compare", "observe"} => request[r].prior # none
    /\ request[r].at = "observe" => request[r].outcome = "observed"
    /\ request[r].at = "settle" /\ request[r].prior # none => HasResult(request[r].seen)

ReportsInv ==
    /\ Reports!ReportsTypeOK
    /\ Fits(queue)
    /\ \A a \in stored : a.id <= created
    /\ \A r \in Actors : RequestFollows(r)
    /\ Reports!QueuedOrRecorded
    /\ Reports!ChangeHasActivity

LEMMA ReportRows ==
    /\ Reports!IdleRequest \in Reports!Request
    /\ Reports!IdleRequest.at = "idle" /\ Reports!IdleRequest.copy = {} /\ Reports!IdleRequest.sent = {}
    /\ none \notin {old, new} /\ QueueLimit \in Nat /\ QueueLimit >= 1
<1>1. Reports!ReportAssumption
  BY ServicesAssumption
<1>2. none \notin {old, new} /\ QueueLimit \in Nat /\ QueueLimit >= 1
  BY <1>1 DEF Reports!ReportAssumption
<1>3. Reports!IdleRequest \in Reports!Request
  BY DEF Reports!IdleRequest, Reports!Request, Reports!Outcomes
<1> QED
  BY <1>2, <1>3 DEF Reports!IdleRequest

LEMMA EmptyFits == Fits({})
BY FS_EmptySet, ReportRows DEF Fits

\* A step that reads: the options stay, and what the request goes on with follows.
LEMMA ReadingKeepsReports ==
    ASSUME ReportsInv, NEW r \in Actors, NEW v \in Reports!Request, Reports!Goto(r, v),
           Reports!QueueUnchanged, UNCHANGED <<baseline, created, opening>>,
           installed' \in {old, new}, updates' \in 0 .. MaxUpdates,
           recorded \subseteq recorded', recorded' \subseteq Reports!Activity,
           Fits(v.copy), v.sent \subseteq recorded',
           v.at \in {"compare", "observe"} => v.prior # none,
           v.at = "observe" => v.outcome = "observed",
           v.at = "settle" /\ v.prior # none => HasResult(v.seen)
    PROVE  ReportsInv'
<1>1. UNCHANGED <<queue, stored, crowdedOut, overwritten>>
  BY DEF Reports!QueueUnchanged
<1>2. /\ request' = [request EXCEPT ![r] = v] /\ request \in [Actors -> Reports!Request]
      /\ request'[r] = v /\ \A s \in Actors : s # r => request'[s] = request[s]
  BY DEF Reports!Goto, ReportsInv, Reports!ReportsTypeOK
<1>3. Reports!ReportsTypeOK'
  BY <1>1, <1>2 DEF ReportsInv, Reports!ReportsTypeOK
<1>4. \A s \in Actors : RequestFollows(s)'
  <2> SUFFICES ASSUME NEW s \in Actors PROVE RequestFollows(s)'
    OBVIOUS
  <2>1. CASE s = r
    BY <1>1, <1>2, <2>1 DEF RequestFollows, Fits, HasResult
  <2>2. CASE s # r
    BY <1>1, <1>2, <2>2 DEF ReportsInv, RequestFollows, Fits, HasResult
  <2> QED
    BY <2>1, <2>2
<1> QED
  BY <1>1, <1>3, <1>4 DEF ReportsInv, Fits, Reports!QueuedOrRecorded, Reports!ChangeHasActivity

\* The instance counts as this module does.
LEMMA SameCount == \A S : Reports!Cardinality(S) = Cardinality(S)
BY DEF Cardinality, Reports!Cardinality

LEMMA NewestIs ==
    ASSUME NEW longer, NEW q \in Reports!Newest(longer)
    PROVE  \/ q = longer /\ Cardinality(longer) <= QueueLimit
           \/ /\ ~(Cardinality(longer) <= QueueLimit)
              /\ \E b \in longer : q = longer \ {b} /\ \A c \in longer : b.id <= c.id
BY SameCount DEF Reports!Newest

\* The newest activities: one too many is left out, and never the one that was added.
LEMMA NewestFits ==
    ASSUME ReportsInv, NEW copy, Fits(copy), NEW a \in Reports!Activity, a.id = created + 1,
           NEW q \in Reports!Newest(copy \cup {a})
    PROVE  /\ a \in q /\ q \subseteq copy \cup {a}
           /\ IsFiniteSet(q) /\ Cardinality(q) <= QueueLimit
<1> DEFINE longer == copy \cup {a}
<1>1. IsFiniteSet(longer) /\ Cardinality(longer) \in Nat /\ Cardinality(longer) <= QueueLimit + 1
  <2>1. IsFiniteSet(copy) /\ Cardinality(copy) \in Nat
    BY FS_CardinalityType DEF Fits
  <2>2. IsFiniteSet(longer) /\ Cardinality(longer) = IF a \in copy THEN Cardinality(copy) ELSE Cardinality(copy) + 1
    BY <2>1, FS_AddElement
  <2> QED
    BY <2>1, <2>2, ReportRows DEF Fits
<1>2. CASE q = longer /\ Cardinality(longer) <= QueueLimit
  BY <1>1, <1>2
<1>3. CASE ~(q = longer /\ Cardinality(longer) <= QueueLimit)
  <2>1. ~(Cardinality(longer) <= QueueLimit)
    BY <1>3, NewestIs
  <2>2. PICK b \in longer : q = longer \ {b} /\ \A c \in longer : b.id <= c.id
    BY <1>3, NewestIs
  <2>3. IsFiniteSet(q) /\ Cardinality(q) = Cardinality(longer) - 1
    BY <1>1, <2>2, FS_RemoveElement
  <2>4. copy # {}
    <3>1. copy = {} => longer = {a}
      OBVIOUS
    <3>2. Cardinality({a}) = 1
      BY FS_Singleton
    <3> QED
      BY <2>1, <3>1, <3>2, ReportRows
  <2>5. PICK c \in copy : TRUE
    BY <2>4
  <2>6. c.id <= created /\ created \in Nat /\ c.id \in Nat
    BY <2>5 DEF Fits, ReportsInv, Reports!ReportsTypeOK, Reports!Activity
  <2>7. b # a
    BY <2>2, <2>5, <2>6
  <2> QED
    BY <1>1, <2>2, <2>3, <2>7, ReportRows
<1> QED
  BY <1>2, <1>3

LEMMA EnqueueKeepsReports ==
    ASSUME ReportsInv, NEW r \in Actors, Reports!Enqueue(r)
    PROVE  ReportsInv'
<1> DEFINE a == [id |-> created + 1, version |-> request[r].seen, outcome |-> request[r].outcome]
           copy == request[r].copy
<1>1. PICK q \in Reports!Newest(copy \cup {a}) :
        /\ Reports!SaveQueue(r, q)
        /\ crowdedOut' = crowdedOut \cup ((copy \cup {a}) \ q)
        /\ Reports!Goto(r, Reports!AfterEnqueue(r, q))
  BY DEF Reports!Enqueue
<1>2. /\ request[r].at \in {"enqueue", "observe"} /\ created < MaxActivities /\ created' = created + 1
      /\ UNCHANGED <<installed, baseline, recorded, updates, opening>>
  BY DEF Reports!Enqueue
<1>3. /\ request \in [Actors -> Reports!Request] /\ request[r] \in Reports!Request
      /\ created \in Nat /\ MaxActivities \in Nat /\ RequestFollows(r) /\ Fits(copy)
  BY ServicesAssumption DEF ReportsInv, Reports!ReportsTypeOK, Reports!ReportAssumption, RequestFollows
<1>4. a \in Reports!Activity /\ a.id = created + 1
  BY <1>2, <1>3 DEF Reports!Activity, Reports!Request, Reports!Outcomes
<1>5. a \in q /\ q \subseteq copy \cup {a} /\ IsFiniteSet(q) /\ Cardinality(q) <= QueueLimit
  BY <1>1, <1>3, <1>4, NewestFits
<1>6. queue' = q /\ stored' = stored \cup q /\ overwritten' = (overwritten \/ copy # queue)
  BY <1>1 DEF Reports!SaveQueue
<1>7. copy \subseteq stored /\ q \subseteq stored' /\ stored' \subseteq stored \cup {a}
  BY <1>3, <1>5, <1>6 DEF Fits
<1>8. PICK v \in Reports!Request :
        /\ request' = [request EXCEPT ![r] = v]
        /\ \/ v = Reports!IdleRequest
           \/ /\ request[r].at = "observe" /\ v.at = "settle"
              /\ v.copy = q /\ v.sent = request[r].sent /\ v.seen = request[r].seen
  <2>1. q \subseteq Reports!Activity
    BY <1>3, <1>4, <1>5 DEF Fits, ReportsInv, Reports!ReportsTypeOK
  <2> DEFINE v == Reports!AfterEnqueue(r, q)
  <2>2. /\ v \in Reports!Request
        /\ \/ v = Reports!IdleRequest
           \/ /\ request[r].at = "observe" /\ v.at = "settle"
              /\ v.copy = q /\ v.sent = request[r].sent /\ v.seen = request[r].seen
    BY <1>3, <2>1, ReportRows DEF Reports!AfterEnqueue, Reports!Request
  <2>3. request' = [request EXCEPT ![r] = v]
    BY <1>1 DEF Reports!Goto
  <2> HIDE DEF v
  <2> QED
    BY <2>2, <2>3
<1>9. request'[r] = v /\ \A s \in Actors : s # r => request'[s] = request[s]
  BY <1>3, <1>8
<1>10. Fits(queue)'
  BY <1>5, <1>6, <1>7 DEF Fits
<1>11. Reports!ReportsTypeOK'
  <2>1. stored' \subseteq Reports!Activity /\ queue' \subseteq Reports!Activity
    BY <1>4, <1>6, <1>7 DEF ReportsInv, Reports!ReportsTypeOK
  <2>2. crowdedOut' \subseteq stored'
    BY <1>1, <1>5, <1>6, <1>7 DEF ReportsInv, Reports!ReportsTypeOK
  <2>3. request' \in [Actors -> Reports!Request]
    BY <1>3, <1>8
  <2>4. created' \in 0 .. MaxActivities /\ overwritten' \in BOOLEAN
    BY <1>2, <1>3, <1>6 DEF ReportsInv, Reports!ReportsTypeOK
  <2>5. installed' \in {old, new} /\ baseline' \in {old, new} \cup {none} /\ opening' \subseteq {old, new}
        /\ recorded' \subseteq Reports!Activity /\ updates' \in 0 .. MaxUpdates
    BY <1>2 DEF ReportsInv, Reports!ReportsTypeOK
  <2>6. Cardinality(queue') <= QueueLimit
    BY <1>5, <1>6
  <2> QED
    BY <2>1, <2>2, <2>3, <2>4, <2>5, <2>6, SameCount DEF Reports!ReportsTypeOK
<1>12. \A b \in stored' : b.id <= created'
  <2> SUFFICES ASSUME NEW b \in stored' PROVE b.id <= created'
    OBVIOUS
  <2>1. CASE b = a
    BY <1>2, <1>3, <1>4, <2>1
  <2>2. CASE b \in stored
    <3>1. b.id \in Nat /\ b.id <= created
      BY <2>2 DEF ReportsInv, Reports!ReportsTypeOK, Reports!Activity
    <3> QED
      BY <1>2, <1>3, <3>1
  <2> QED
    BY <1>7, <2>1, <2>2
<1>13. ASSUME NEW s \in Actors PROVE RequestFollows(s)'
  <2>1. CASE s # r
    BY <1>2, <1>6, <1>9, <2>1 DEF ReportsInv, RequestFollows, Fits, HasResult
  <2>2. CASE s = r /\ v = Reports!IdleRequest
    BY <1>9, <2>2, EmptyFits, ReportRows DEF RequestFollows, Fits
  <2>3. CASE s = r /\ v # Reports!IdleRequest
    <3>1. HasResult(v.seen)'
      <4>1. a \in stored' /\ a.version = v.seen /\ a.outcome = "observed"
        BY <1>3, <1>5, <1>6, <1>8, <2>3 DEF RequestFollows
      <4> QED
        BY <1>9, <2>3, <4>1 DEF HasResult
    <3>2. Fits(q)'
      BY <1>5, <1>7 DEF Fits
    <3>3. v.sent \subseteq recorded'
      BY <1>2, <1>3, <1>8, <2>3 DEF RequestFollows
    <3> QED
      BY <1>8, <1>9, <2>3, <3>1, <3>2, <3>3 DEF RequestFollows, HasResult, Fits
  <2> QED
    BY <2>1, <2>2, <2>3
<1>14. Reports!QueuedOrRecorded'
  <2> SUFFICES ASSUME ~overwritten' PROVE stored' \subseteq queue' \cup recorded' \cup crowdedOut'
    BY DEF Reports!QueuedOrRecorded
  <2>1. ~overwritten /\ copy = queue
    BY <1>6
  <2> QED
    BY <1>1, <1>2, <1>6, <2>1 DEF ReportsInv, Reports!QueuedOrRecorded
<1>15. Reports!ChangeHasActivity'
  BY <1>2, <1>6 DEF ReportsInv, Reports!ChangeHasActivity
<1> QED
  BY <1>10, <1>11, <1>12, <1>13, <1>14, <1>15 DEF ReportsInv

\* What a step that is not one of Enqueue, Settle and Purge has in common: it reads.
LEMMA ReadersKeepReports ==
    ASSUME ReportsInv, NEW r \in Actors,
           \/ Reports!Update(r) \/ Reports!FailUpdate(r) \/ Reports!Notice(r) \/ Reports!SkipDuplicate(r)
           \/ Reports!Collect(r) \/ Reports!Reconcile(r) \/ Reports!Compare(r) \/ Reports!Gather(r)
           \/ Reports!Send(r) \/ Reports!Acknowledge(r) \/ Reports!End(r)
    PROVE  ReportsInv'
<1>1. /\ request[r] \in Reports!Request /\ RequestFollows(r) /\ Fits(queue)
      /\ installed \in {old, new} /\ baseline \in {old, new, none} /\ updates \in 0 .. MaxUpdates
      /\ recorded \subseteq Reports!Activity
  BY DEF ReportsInv, Reports!ReportsTypeOK
<1>2. request[r].copy \subseteq Reports!Activity /\ queue \subseteq Reports!Activity
  BY <1>1 DEF ReportsInv, Reports!ReportsTypeOK, RequestFollows, Fits
<1>3. CASE Reports!Update(r)
  <2>1. PICK v : v = [Reports!IdleRequest EXCEPT !.at = "noticed", !.outcome = "succeeded"]
    OBVIOUS
  <2>2. v \in Reports!Request /\ v.at = "noticed" /\ v.copy = {} /\ v.sent = {}
    BY <2>1 DEF Reports!IdleRequest, Reports!Request, Reports!Outcomes
  <2>3. /\ Reports!Goto(r, v) /\ Reports!QueueUnchanged /\ UNCHANGED <<baseline, recorded, created, opening>>
        /\ installed' \in {old, new} /\ updates < MaxUpdates /\ updates' = updates + 1
    BY <1>3, <2>1 DEF Reports!Update
  <2>4. updates' \in 0 .. MaxUpdates
    BY <1>1, <2>3, ServicesAssumption DEF Reports!ReportAssumption
  <2> QED
    BY <1>1, <2>2, <2>3, <2>4, EmptyFits, ReadingKeepsReports
<1>4. CASE Reports!FailUpdate(r)
  <2>1. PICK v : v = [Reports!IdleRequest EXCEPT !.at = "noticed", !.outcome = "failed"]
    OBVIOUS
  <2>2. v \in Reports!Request /\ v.at = "noticed" /\ v.copy = {} /\ v.sent = {}
    BY <2>1 DEF Reports!IdleRequest, Reports!Request, Reports!Outcomes
  <2>3. /\ Reports!Goto(r, v) /\ Reports!QueueUnchanged
        /\ UNCHANGED <<installed, baseline, recorded, created, opening>>
        /\ updates < MaxUpdates /\ updates' = updates + 1
    BY <1>4, <2>1 DEF Reports!FailUpdate
  <2>4. updates' \in 0 .. MaxUpdates
    BY <1>1, <2>3, ServicesAssumption DEF Reports!ReportAssumption
  <2> QED
    BY <1>1, <2>2, <2>3, <2>4, EmptyFits, ReadingKeepsReports
<1>5. CASE Reports!Notice(r)
  <2>1. PICK v : v = [request[r] EXCEPT !.at = "enqueue", !.seen = installed, !.copy = queue]
    OBVIOUS
  <2>2. v \in Reports!Request /\ v.at = "enqueue" /\ v.copy = queue /\ v.sent = request[r].sent
    BY <1>1, <1>2, <2>1 DEF Reports!Request
  <2>3. /\ Reports!Goto(r, v) /\ Reports!QueueUnchanged
        /\ UNCHANGED <<installed, baseline, recorded, created, updates, opening>>
    BY <1>5, <2>1 DEF Reports!Notice
  <2> QED
    BY <1>1, <2>2, <2>3, ReadingKeepsReports DEF RequestFollows
<1>6. CASE Reports!SkipDuplicate(r)
  <2>1. PICK v : v = Reports!AfterEnqueue(r, request[r].copy)
    OBVIOUS
  <2>2. PICK a \in request[r].copy : a.outcome = request[r].outcome /\ a.version = request[r].seen
    BY <1>6 DEF Reports!SkipDuplicate
  <2>3. /\ Reports!Goto(r, v) /\ Reports!QueueUnchanged
        /\ UNCHANGED <<installed, baseline, recorded, created, updates, opening>>
    BY <1>6, <2>1 DEF Reports!SkipDuplicate
  <2>4. CASE request[r].at = "observe"
    <3>1. v = [request[r] EXCEPT !.at = "settle", !.copy = request[r].copy]
      BY <2>1, <2>4 DEF Reports!AfterEnqueue
    <3>2. /\ v \in Reports!Request /\ v.at = "settle" /\ v.copy = request[r].copy
          /\ v.sent = request[r].sent /\ v.seen = request[r].seen
      BY <1>1, <3>1 DEF Reports!Request
    <3>3. HasResult(v.seen)
      BY <1>1, <2>2, <2>4, <3>2 DEF RequestFollows, Fits, HasResult
    <3> QED
      BY <1>1, <2>3, <3>2, <3>3, ReadingKeepsReports DEF RequestFollows
  <2>5. CASE request[r].at # "observe"
    BY <1>1, <2>1, <2>3, <2>5, EmptyFits, ReportRows, ReadingKeepsReports DEF Reports!AfterEnqueue
  <2> QED
    BY <2>4, <2>5
<1>7. CASE Reports!Collect(r)
  <2>1. PICK v : v = [Reports!IdleRequest EXCEPT !.at = "reconcile", !.seen = installed]
    OBVIOUS
  <2>2. v \in Reports!Request /\ v.at = "reconcile" /\ v.copy = {} /\ v.sent = {}
    BY <1>1, <2>1 DEF Reports!IdleRequest, Reports!Request, Reports!Outcomes
  <2>3. /\ Reports!Goto(r, v) /\ Reports!QueueUnchanged
        /\ UNCHANGED <<installed, baseline, recorded, created, updates, opening>>
    BY <1>7, <2>1 DEF Reports!Collect
  <2> QED
    BY <1>1, <2>2, <2>3, EmptyFits, ReadingKeepsReports
<1>8. CASE Reports!Reconcile(r)
  <2>1. PICK at : at = CASE baseline = none -> "settle"
                         [] baseline = request[r].seen -> "gather"
                         [] OTHER -> "compare"
    OBVIOUS
  <2>2. PICK v : v = [request[r] EXCEPT !.prior = baseline, !.at = at]
    OBVIOUS
  <2>3. at \in {"settle", "gather", "compare"} /\ (at = "settle" => baseline = none)
        /\ (at = "compare" => baseline # none)
    BY <1>1, <2>1, ReportRows DEF Reports!Request
  <2>4. /\ v \in Reports!Request /\ v.at = at /\ v.prior = baseline
        /\ v.copy = request[r].copy /\ v.sent = request[r].sent
    BY <1>1, <2>2, <2>3 DEF Reports!Request
  <2>5. /\ Reports!Goto(r, v) /\ Reports!QueueUnchanged
        /\ UNCHANGED <<installed, baseline, recorded, created, updates, opening>>
    BY <1>8, <2>1, <2>2 DEF Reports!Reconcile
  <2> QED
    BY <1>1, <2>3, <2>4, <2>5, ReadingKeepsReports DEF RequestFollows
<1>9. CASE Reports!Compare(r)
  <2>1. PICK at : at = IF \E a \in queue : Reports!IsResult(a, request[r].seen) THEN "settle" ELSE "observe"
    OBVIOUS
  <2>2. PICK v : v = [request[r] EXCEPT !.copy = queue, !.outcome = "observed", !.at = at]
    OBVIOUS
  <2>3. at \in {"settle", "observe"} /\ (at = "settle" => HasResult(request[r].seen))
    BY <1>1, <2>1 DEF Reports!IsResult, HasResult, Fits
  <2>4. /\ v \in Reports!Request /\ v.at = at /\ v.prior = request[r].prior /\ v.copy = queue
        /\ v.sent = request[r].sent /\ v.outcome = "observed" /\ v.seen = request[r].seen
    BY <1>1, <1>2, <2>2, <2>3 DEF Reports!Request, Reports!Outcomes
  <2>5. /\ Reports!Goto(r, v) /\ Reports!QueueUnchanged /\ request[r].at = "compare"
        /\ UNCHANGED <<installed, baseline, recorded, created, updates, opening>>
    BY <1>9, <2>1, <2>2 DEF Reports!Compare
  <2> QED
    BY <1>1, <2>3, <2>4, <2>5, ReadingKeepsReports DEF RequestFollows
<1>10. CASE Reports!Gather(r)
  <2>1. PICK v : v = [request[r] EXCEPT !.at = "send", !.copy = queue]
    OBVIOUS
  <2>2. v \in Reports!Request /\ v.at = "send" /\ v.copy = queue /\ v.sent = request[r].sent
    BY <1>1, <1>2, <2>1 DEF Reports!Request
  <2>3. /\ Reports!Goto(r, v) /\ Reports!QueueUnchanged
        /\ UNCHANGED <<installed, baseline, recorded, created, updates, opening>>
    BY <1>10, <2>1 DEF Reports!Gather
  <2> QED
    BY <1>1, <2>2, <2>3, ReadingKeepsReports DEF RequestFollows
<1>11. CASE Reports!Send(r)
  <2>1. PICK v : v = [request[r] EXCEPT !.at = "answered", !.sent = request[r].copy]
    OBVIOUS
  <2>2. v \in Reports!Request /\ v.at = "answered" /\ v.copy = request[r].copy /\ v.sent = request[r].copy
    BY <1>1, <1>2, <2>1 DEF Reports!Request
  <2>3. /\ Reports!Goto(r, v) /\ Reports!QueueUnchanged /\ recorded' = recorded \cup request[r].copy
        /\ UNCHANGED <<installed, baseline, created, updates, opening>>
    BY <1>11, <2>1 DEF Reports!Send
  <2>4. recorded \subseteq recorded' /\ recorded' \subseteq Reports!Activity /\ v.sent \subseteq recorded'
    BY <1>1, <1>2, <2>2, <2>3
  <2> QED
    BY <1>1, <2>2, <2>3, <2>4, ReadingKeepsReports DEF RequestFollows
<1>12. CASE Reports!Acknowledge(r)
  <2>1. PICK known \in {request[r].copy, queue} :
          Reports!Goto(r, [request[r] EXCEPT !.at = "purge", !.copy = known])
    BY <1>12 DEF Reports!Acknowledge
  <2>2. PICK v : v = [request[r] EXCEPT !.at = "purge", !.copy = known]
    OBVIOUS
  <2>3. v \in Reports!Request /\ v.at = "purge" /\ v.copy = known /\ v.sent = request[r].sent /\ Fits(known)
    BY <1>1, <1>2, <2>1, <2>2 DEF Reports!Request, RequestFollows
  <2>4. /\ Reports!Goto(r, v) /\ Reports!QueueUnchanged
        /\ UNCHANGED <<installed, baseline, recorded, created, updates, opening>>
    BY <1>12, <2>1, <2>2 DEF Reports!Acknowledge
  <2> QED
    BY <1>1, <2>3, <2>4, ReadingKeepsReports DEF RequestFollows
<1>13. CASE Reports!End(r)
  BY <1>1, <1>13, EmptyFits, ReportRows, ReadingKeepsReports DEF Reports!End
<1> QED
  BY <1>3, <1>4, <1>5, <1>6, <1>7, <1>8, <1>9, <1>10, <1>11, <1>12, <1>13

\* The baseline moves to a version that a request has found a result of.
LEMMA SettleKeepsReports ==
    ASSUME ReportsInv, NEW r \in Actors, Reports!Settle(r)
    PROVE  ReportsInv'
<1>1. /\ request[r] \in Reports!Request /\ request \in [Actors -> Reports!Request] /\ RequestFollows(r)
  BY DEF ReportsInv, Reports!ReportsTypeOK
<1>2. PICK at : at = IF request[r].prior = none THEN "gather" ELSE "send"
  OBVIOUS
<1>3. PICK v : v = [request[r] EXCEPT !.at = at]
  OBVIOUS
<1>4. at \in {"gather", "send"}
  BY <1>2
<1>5. v \in Reports!Request /\ v.at = at /\ v.copy = request[r].copy /\ v.sent = request[r].sent
  BY <1>1, <1>3, <1>4 DEF Reports!Request
<1>6. /\ request[r].at = "settle" /\ baseline' = request[r].seen
      /\ opening' = IF request[r].prior = none THEN opening \cup {request[r].seen} ELSE opening
      /\ request' = [request EXCEPT ![r] = v]
      /\ UNCHANGED <<installed, recorded, created, updates, queue, stored, crowdedOut, overwritten>>
  BY <1>2, <1>3 DEF Reports!Settle, Reports!Goto, Reports!QueueUnchanged
<1>7. request'[r] = v /\ \A s \in Actors : s # r => request'[s] = request[s]
  BY <1>1, <1>6
<1>8. request[r].seen \in {old, new}
  BY <1>1 DEF Reports!Request
<1>9. Reports!ReportsTypeOK'
  BY <1>1, <1>5, <1>6, <1>8 DEF ReportsInv, Reports!ReportsTypeOK
<1>10. ASSUME NEW s \in Actors PROVE RequestFollows(s)'
  <2>1. CASE s = r
    BY <1>1, <1>4, <1>5, <1>6, <1>7, <2>1 DEF RequestFollows, Fits
  <2>2. CASE s # r
    BY <1>6, <1>7, <2>2 DEF ReportsInv, RequestFollows, Fits, HasResult
  <2> QED
    BY <2>1, <2>2
<1>11. Reports!ChangeHasActivity'
  <2>1. CASE request[r].prior = none
    BY <1>6, <2>1 DEF Reports!ChangeHasActivity
  <2>2. CASE request[r].prior # none
    BY <1>1, <1>6, <2>2 DEF Reports!ChangeHasActivity, RequestFollows, HasResult
  <2> QED
    BY <2>1, <2>2
<1> QED
  BY <1>6, <1>9, <1>10, <1>11 DEF ReportsInv, Fits, Reports!QueuedOrRecorded

\* Only what the dashboard has accepted leaves the queue.
LEMMA PurgeKeepsReports ==
    ASSUME ReportsInv, NEW r \in Actors, Reports!Purge(r)
    PROVE  ReportsInv'
<1>1. /\ request[r] \in Reports!Request /\ request \in [Actors -> Reports!Request] /\ RequestFollows(r)
      /\ recorded \subseteq Reports!Activity /\ installed \in {old, new} /\ updates \in 0 .. MaxUpdates
  BY DEF ReportsInv, Reports!ReportsTypeOK
<1>2. /\ Reports!Goto(r, Reports!IdleRequest)
      /\ UNCHANGED <<installed, baseline, recorded, created, updates, opening>>
  BY DEF Reports!Purge
<1>3. CASE Reports!QueueUnchanged
  BY <1>1, <1>2, <1>3, EmptyFits, ReportRows, ReadingKeepsReports
<1>4. CASE Reports!SaveQueue(r, Reports!Unacknowledged(r)) /\ UNCHANGED crowdedOut
  <2>1. PICK q : q = request[r].copy \ request[r].sent
    OBVIOUS
  <2>2. queue' = q /\ stored' = stored \cup q /\ overwritten' = (overwritten \/ request[r].copy # queue)
    BY <1>4, <2>1 DEF Reports!SaveQueue, Reports!Unacknowledged
  <2>3. /\ q \subseteq stored /\ IsFiniteSet(q) /\ Cardinality(q) <= QueueLimit
    <3>1. q \subseteq request[r].copy /\ IsFiniteSet(request[r].copy)
          /\ request[r].copy \subseteq stored /\ Cardinality(request[r].copy) <= QueueLimit
      BY <1>1, <2>1 DEF RequestFollows, Fits
    <3>2. /\ IsFiniteSet(q) /\ Cardinality(q) <= Cardinality(request[r].copy)
          /\ Cardinality(q) \in Nat /\ Cardinality(request[r].copy) \in Nat
      BY <3>1, FS_Subset, FS_CardinalityType
    <3> QED
      BY <3>1, <3>2, ReportRows
  <2>4. stored' = stored
    BY <2>2, <2>3
  <2>5. request' = [request EXCEPT ![r] = Reports!IdleRequest]
    BY <1>2 DEF Reports!Goto
  <2>6. request'[r] = Reports!IdleRequest /\ \A s \in Actors : s # r => request'[s] = request[s]
    BY <1>1, <2>5
  <2>7. Reports!ReportsTypeOK'
    BY <1>1, <1>2, <1>4, <2>2, <2>3, <2>4, <2>5, ReportRows, SameCount DEF ReportsInv, Reports!ReportsTypeOK
  <2>8. ASSUME NEW s \in Actors PROVE RequestFollows(s)'
    <3>1. CASE s = r
      BY <2>4, <2>6, <3>1, EmptyFits, ReportRows DEF RequestFollows, Fits
    <3>2. CASE s # r
      BY <1>2, <2>4, <2>6, <3>2 DEF ReportsInv, RequestFollows, Fits, HasResult
    <3> QED
      BY <3>1, <3>2
  <2>9. Reports!QueuedOrRecorded'
    <3> SUFFICES ASSUME ~overwritten' PROVE stored' \subseteq queue' \cup recorded' \cup crowdedOut'
      BY DEF Reports!QueuedOrRecorded
    <3>1. ~overwritten /\ request[r].copy = queue
      BY <2>2
    <3>2. stored \subseteq queue \cup recorded \cup crowdedOut
      BY <3>1 DEF ReportsInv, Reports!QueuedOrRecorded
    <3> QED
      BY <1>1, <1>2, <1>4, <2>1, <2>2, <2>4, <3>1, <3>2 DEF RequestFollows
  <2> QED
    BY <1>2, <2>2, <2>3, <2>4, <2>7, <2>8, <2>9 DEF ReportsInv, Fits, Reports!ChangeHasActivity
<1> QED
  BY <1>3, <1>4 DEF Reports!Purge

LEMMA InitReports == Init => ReportsInv \/ part # "reports"
<1> SUFFICES ASSUME Reports!Init PROVE ReportsInv
  BY DEF Init
<1>1. Reports!ReportsTypeOK
  <2>1. Cardinality({}) = 0
    BY FS_EmptySet
  <2>2. old \in {old, new} /\ MaxActivities \in Nat /\ MaxUpdates \in Nat
    BY ServicesAssumption DEF Reports!ReportAssumption
  <2>3. Cardinality(queue) <= QueueLimit /\ queue = {}
    BY <2>1, ReportRows DEF Reports!Init
  <2>4. request \in [Actors -> Reports!Request]
    BY ReportRows DEF Reports!Init
  <2>5. Reports!Cardinality(queue) <= QueueLimit
    BY <2>3, SameCount
  <2>6. created \in 0 .. MaxActivities /\ updates \in 0 .. MaxUpdates
    <3>1. created = 0 /\ updates = 0
      BY DEF Reports!Init
    <3> QED
      BY <2>2, <3>1
  <2>7. overwritten \in BOOLEAN
    BY DEF Reports!Init
  <2> QED
    BY <2>2, <2>4, <2>5, <2>6, <2>7 DEF Reports!Init, Reports!ReportsTypeOK
<1>2. \A r \in Actors : RequestFollows(r)
  BY EmptyFits, ReportRows DEF Reports!Init, RequestFollows
<1> QED
  BY <1>1, <1>2, EmptyFits DEF Reports!Init, ReportsInv, Reports!QueuedOrRecorded, Reports!ChangeHasActivity

LEMMA NextKeepsReports ==
    ASSUME ReportsInv, [Reports!Next]_(Reports!vars)
    PROVE  ReportsInv'
<1>1. CASE UNCHANGED Reports!vars
  BY <1>1 DEF Reports!vars, ReportsInv, Reports!ReportsTypeOK, RequestFollows, Fits, HasResult,
     Reports!QueuedOrRecorded, Reports!ChangeHasActivity
<1>2. CASE \E r \in Actors : Reports!Step(r)
  <2>1. PICK r \in Actors : Reports!Step(r)
    BY <1>2
  <2> QED
    BY <2>1, EnqueueKeepsReports, ReadersKeepReports, SettleKeepsReports, PurgeKeepsReports DEF Reports!Step
<1> QED
  BY <1>1, <1>2 DEF Reports!Next

ReportingInv == part = "reports" => ReportsInv

LEMMA ReportsKept ==
    /\ Init => ReportingInv
    /\ ReportingInv /\ [Next]_vars => ReportingInv'
<1>1. Init => ReportingInv
  BY InitReports DEF ReportingInv
<1>2. ASSUME ReportingInv, [Next]_vars PROVE ReportingInv'
  <2>1. part' = part
    BY <1>2 DEF Next, vars
  <2>2. CASE part = "reports"
    <3>1. [Reports!Next]_(Reports!vars)
      BY <1>2, <2>2 DEF Next, vars, reports, Reports!vars
    <3> QED
      BY <1>2, <2>2, <3>1, NextKeepsReports DEF ReportingInv
  <2> QED
    BY <2>1, <2>2 DEF ReportingInv
<1> QED
  BY <1>1, <1>2

\* However requests overlap, die or are refused, the baseline never moves past a change
\* nobody has noted, and an activity stays queued until the dashboard has it or newer
\* ones crowd it out, while writes of the queue do not overlap.
THEOREM ChangesAreReported == Spec => []ChangesReported
<1>1. ReportingInv => ChangesReported
  BY DEF ReportingInv, ReportsInv, ChangesReported, Reports!ChangesReported
<1> QED
  BY <1>1, ReportsKept, PTL DEF Spec

--------------------------------------------------------------------------------
(* Hosting sources.  Every row a call holds was once the row of the table, so *)
(* what vouches for it still does when the call writes it back.               *)

Vouched(s) == s.status = "ready" => s.vouched # "nobody"

\* t holds the places and keys that passed a test.
TestedRow(s, t) == s.vouched = "test" => <<s.remote, s.key>> \in t

SourcesInv ==
    /\ Sources!SourceTypeOK
    /\ Vouched(source)
    /\ \A c \in Actors :
          /\ Vouched(access[c].row)
          /\ access[c].fresh => access[c].at = "save"
          /\ access[c].at = "save" => access[c].form \in Forms
    /\ ~torn => /\ TestedRow(source, tested)
                /\ \A c \in Actors : TestedRow(access[c].row, tested)
                /\ \A u \in used : u[3] = "test" => <<u[1], u[2]>> \in tested

LEMMA SourceRows ==
    /\ Sources!NoSource \in Sources!Source /\ Sources!IdleAccess \in Sources!Access
    /\ Sources!NoSource.status = "not-tested" /\ Sources!NoSource.vouched = "nobody"
    /\ Sources!IdleAccess.row = Sources!NoSource
    /\ Sources!IdleAccess.at = "idle" /\ Sources!IdleAccess.fresh = FALSE
    /\ MaxKeys \in Nat /\ MaxAccesses \in Nat
    /\ Forms \subseteq Sources!Form /\ Sources!NoJob \in Sources!Job
<1>1. Sources!SourceAssumption
  BY ServicesAssumption
<1>2. MaxKeys \in Nat /\ MaxAccesses \in Nat /\ Forms \subseteq Sources!Form
  BY <1>1 DEF Sources!SourceAssumption
<1>3. /\ Sources!NoSource \in Sources!Source /\ Sources!NoSource.status = "not-tested"
      /\ Sources!NoSource.vouched = "nobody"
  BY <1>2 DEF Sources!NoSource, Sources!Source, Sources!Types, Sources!Paths, Sources!Voucher, Sources!Keys
<1>4. Sources!IdleAccess \in Sources!Access
  BY <1>2, <1>3 DEF Sources!IdleAccess, Sources!Access, Sources!Keys
<1> QED
  BY <1>2, <1>3, <1>4 DEF Sources!IdleAccess, Sources!NoJob, Sources!Job

\* A step that takes up, reads on or gives up one call, and leaves the row alone.
LEMMA ReadingKeepsSources ==
    ASSUME SourcesInv, NEW c \in Actors, NEW v \in Sources!Access,
           access' = [access EXCEPT ![c] = v],
           UNCHANGED <<source, keys, tested, used, archived, torn>>,
           planned' \in Sources!Job, accesses' \in 0 .. MaxAccesses,
           v.row \in {source, access[c].row, Sources!NoSource},
           v.fresh => v.at = "save", v.at = "save" => v.form \in Forms
    PROVE  SourcesInv'
<1>1. /\ access \in [Actors -> Sources!Access]
      /\ access'[c] = v /\ \A d \in Actors : d # c => access'[d] = access[d]
  BY DEF SourcesInv, Sources!SourceTypeOK
<1>2. Vouched(v.row) /\ (~torn => TestedRow(v.row, tested))
  BY SourceRows DEF SourcesInv, Vouched, TestedRow
<1>3. Sources!SourceTypeOK'
  BY <1>1 DEF SourcesInv, Sources!SourceTypeOK
<1>4. ASSUME NEW d \in Actors
      PROVE  /\ Vouched(access'[d].row) /\ (access'[d].fresh => access'[d].at = "save")
             /\ access'[d].at = "save" => access'[d].form \in Forms
             /\ ~torn' => TestedRow(access'[d].row, tested')
  BY <1>1, <1>2 DEF SourcesInv
<1> QED
  BY <1>3, <1>4 DEF SourcesInv

\* A step that writes the row and ends the call.
LEMMA WritingKeepsSources ==
    ASSUME SourcesInv, NEW c \in Actors, NEW row \in Sources!Source, Sources!Write(c, row),
           UNCHANGED <<planned, accesses, used, archived>>,
           keys' \in Sources!Keys, tested \subseteq tested', tested' \subseteq Things \X Sources!Keys,
           Vouched(row), ~torn' => TestedRow(row, tested')
    PROVE  SourcesInv'
<1>1. /\ access' = [access EXCEPT ![c] = Sources!IdleAccess] /\ source' = row
      /\ torn' \in BOOLEAN /\ (torn => torn')
  BY DEF Sources!Write, Sources!Finish, SourcesInv, Sources!SourceTypeOK
<1>2. /\ access \in [Actors -> Sources!Access]
      /\ access'[c] = Sources!IdleAccess /\ \A d \in Actors : d # c => access'[d] = access[d]
  BY <1>1 DEF SourcesInv, Sources!SourceTypeOK
<1>3. Sources!SourceTypeOK'
  BY <1>1, <1>2, SourceRows DEF SourcesInv, Sources!SourceTypeOK
<1>4. ASSUME NEW d \in Actors
      PROVE  /\ Vouched(access'[d].row) /\ (access'[d].fresh => access'[d].at = "save")
             /\ access'[d].at = "save" => access'[d].form \in Forms
             /\ ~torn' => TestedRow(access'[d].row, tested')
  BY <1>1, <1>2, SourceRows DEF SourcesInv, Vouched, TestedRow
<1>5. ~torn' => \A u \in used : u[3] = "test" => <<u[1], u[2]>> \in tested'
  BY <1>1 DEF SourcesInv
<1> QED
  BY <1>1, <1>3, <1>4, <1>5 DEF SourcesInv

LEMMA SavesKeepSources ==
    ASSUME SourcesInv, NEW c \in Actors,
           Sources!SavePolicy(c) \/ Sources!SaveDetected(c) \/ Sources!TestPassed(c) \/ Sources!TestFailed(c)
    PROVE  SourcesInv'
<1>1. /\ access[c] \in Sources!Access /\ access[c].row \in Sources!Source /\ access[c].key \in Sources!Keys
      /\ keys \in Sources!Keys /\ tested \subseteq Things \X Sources!Keys
      /\ Vouched(access[c].row) /\ (~torn => TestedRow(access[c].row, tested))
      /\ access[c].fresh \in BOOLEAN
  BY DEF SourcesInv, Sources!SourceTypeOK, Sources!Access
<1>2. CASE Sources!SavePolicy(c)
  <2>1. PICK f : f = access[c].form
    OBVIOUS
  <2>2. PICK was : was = access[c].row
    OBVIOUS
  <2>3. PICK key : key = IF access[c].fresh THEN keys' ELSE access[c].key
    OBVIOUS
  <2>4. PICK status : status = CASE f.type = "local-vps" -> "quarantined"
                                 [] f.type # "local-vps" /\ Sources!SourceChanged(c) -> "not-tested"
                                 [] OTHER -> was.status
    OBVIOUS
  <2>5. PICK row : row = [type |-> f.type, remote |-> f.remote, hostKey |-> f.hostKey, local |-> f.local,
                          database |-> f.database, ssh |-> f.type = "ssh-sftp", credential |-> key # 0,
                          status |-> status, key |-> key,
                          vouched |-> IF status = "ready" THEN was.vouched ELSE "nobody"]
    OBVIOUS
  <2>6. /\ Sources!Has(c, "save") /\ keys' \in Sources!Keys /\ Sources!Write(c, row)
        /\ UNCHANGED <<planned, accesses, tested, used, archived>>
    BY <1>2, <2>1, <2>2, <2>3, <2>4, <2>5 DEF Sources!SavePolicy
  <2>7. f \in Sources!Form
    BY <2>1, <2>6, SourceRows DEF SourcesInv, Sources!Has
  <2>8. /\ status \in {"not-tested", "ready", "failed", "quarantined"}
        /\ status = "ready" => was.status = "ready" /\ ~access[c].fresh /\ f.remote = was.remote
    BY <1>1, <2>1, <2>2, <2>4 DEF Sources!SourceChanged, Sources!Source
  <2>9. key \in Sources!Keys
    BY <1>1, <2>3, <2>6
  <2>10. row \in Sources!Source
    <3>1. /\ f.type \in Sources!Types /\ f.remote \in Things \cup {none} /\ f.hostKey \in Things \cup {none}
          /\ f.local \in Sources!Paths \cup {none} /\ f.database \in BOOLEAN
      BY <2>7 DEF Sources!Form
    <3>2. was.vouched \in Sources!Voucher /\ "nobody" \in Sources!Voucher
      BY <1>1, <2>2 DEF Sources!Source, Sources!Voucher
    <3> QED
      BY <2>5, <2>8, <2>9, <3>1, <3>2 DEF Sources!Source
  <2>11. /\ row.status = status /\ row.key = key /\ row.remote = f.remote
         /\ row.vouched = IF status = "ready" THEN was.vouched ELSE "nobody"
    BY <2>5
  <2>12. Vouched(row)
    BY <1>1, <2>2, <2>8, <2>11 DEF Vouched
  <2>13. ~torn' => TestedRow(row, tested')
    <3> SUFFICES ASSUME ~torn', row.vouched = "test" PROVE <<row.remote, row.key>> \in tested'
      BY DEF TestedRow
    <3>1. status = "ready"
      BY <2>11
    <3>2. ~torn /\ row.key = was.key
      BY <2>2, <2>6, <2>8, <3>1 DEF Sources!Write
    <3> QED
      BY <1>1, <2>2, <2>6, <2>8, <2>11, <3>1, <3>2 DEF TestedRow
  <2> QED
    BY <1>1, <2>6, <2>10, <2>12, <2>13, WritingKeepsSources
<1>3. CASE Sources!SaveDetected(c)
  <2>1. PICK found \in BOOLEAN, path \in Sources!Paths \cup {none} :
          Sources!Write(c, [access[c].row EXCEPT !.type = "database-credentials", !.local = path,
                                         !.database = found, !.key = access[c].key,
                                         !.status = IF found THEN "ready" ELSE "not-tested",
                                         !.vouched = IF found THEN "check-in" ELSE "nobody"])
    BY <1>3 DEF Sources!SaveDetected
  <2>2. PICK row : row = [access[c].row EXCEPT !.type = "database-credentials", !.local = path,
                                         !.database = found, !.key = access[c].key,
                                         !.status = IF found THEN "ready" ELSE "not-tested",
                                         !.vouched = IF found THEN "check-in" ELSE "nobody"]
    OBVIOUS
  <2>3. row \in Sources!Source
    BY <1>1, <2>2 DEF Sources!Source, Sources!Types, Sources!Voucher
  <2>4. Vouched(row) /\ row.vouched # "test"
    BY <1>1, <2>2 DEF Sources!Source, Vouched
  <2>5. Sources!Write(c, row) /\ UNCHANGED <<keys, planned, accesses, tested, used, archived>>
    BY <1>3, <2>1, <2>2 DEF Sources!SaveDetected
  <2> QED
    BY <1>1, <2>3, <2>4, <2>5, WritingKeepsSources DEF TestedRow
<1>4. CASE Sources!TestPassed(c)
  <2>1. PICK row : row = [access[c].row EXCEPT !.hostKey = access[c].row.remote, !.status = "ready",
                                               !.vouched = "test", !.key = access[c].key]
    OBVIOUS
  <2>2. /\ row \in Sources!Source /\ row.vouched = "test" /\ row.key = access[c].key
        /\ row.remote = access[c].row.remote
    BY <1>1, <2>1 DEF Sources!Source, Sources!Voucher
  <2>3. /\ Sources!Write(c, row) /\ UNCHANGED <<keys, planned, accesses, used, archived>>
        /\ tested' = tested \cup {<<access[c].row.remote, access[c].key>>} /\ access[c].row.remote # none
    BY <1>4, <2>1 DEF Sources!TestPassed
  <2>4. <<access[c].row.remote, access[c].key>> \in Things \X Sources!Keys
    BY <1>1, <2>3 DEF Sources!Source
  <2> QED
    BY <1>1, <2>2, <2>3, <2>4, WritingKeepsSources DEF TestedRow, Vouched
<1>5. CASE Sources!TestFailed(c)
  <2>1. PICK row : row = [access[c].row EXCEPT !.status = "failed", !.vouched = "nobody", !.key = access[c].key]
    OBVIOUS
  <2>2. row \in Sources!Source /\ row.vouched = "nobody" /\ row.status = "failed"
    BY <1>1, <2>1 DEF Sources!Source, Sources!Voucher
  <2>3. Sources!Write(c, row) /\ UNCHANGED <<keys, planned, accesses, tested, used, archived>>
    BY <1>5, <2>1 DEF Sources!TestFailed
  <2> QED
    BY <1>1, <2>2, <2>3, WritingKeepsSources DEF TestedRow, Vouched
<1> QED
  BY <1>2, <1>3, <1>4, <1>5

LEMMA CallsKeepSources ==
    ASSUME SourcesInv, NEW c \in Actors,
           \/ Sources!UpdatePolicy(c) \/ Sources!ReadRow(c) \/ Sources!ReadKey(c)
           \/ Sources!RecordDetectedSource(c) \/ Sources!TestHostingConnection(c) \/ Sources!RunJob(c)
           \/ Sources!End(c)
    PROVE  SourcesInv'
<1>1. /\ access[c] \in Sources!Access /\ access \in [Actors -> Sources!Access] /\ source \in Sources!Source
      /\ source.key \in Sources!Keys /\ accesses \in 0 .. MaxAccesses /\ planned \in Sources!Job
      /\ access[c].fresh => access[c].at = "save"
      /\ access[c].at = "save" => access[c].form \in Forms
  BY DEF SourcesInv, Sources!SourceTypeOK, Sources!Source
<1>2. ASSUME accesses < MaxAccesses, accesses' = accesses + 1 PROVE accesses' \in 0 .. MaxAccesses
  BY <1>1, <1>2, SourceRows
<1>3. CASE Sources!UpdatePolicy(c)
  <2>1. PICK f \in Forms, fresh \in BOOLEAN :
          Sources!Begin(c, [Sources!IdleAccess EXCEPT !.at = "save", !.form = f, !.fresh = fresh])
    BY <1>3 DEF Sources!UpdatePolicy
  <2>2. PICK v : v = [Sources!IdleAccess EXCEPT !.at = "save", !.form = f, !.fresh = fresh]
    OBVIOUS
  <2>3. /\ v \in Sources!Access /\ v.at = "save" /\ v.form = f /\ v.row = Sources!NoSource
    BY <2>2, SourceRows DEF Sources!Access
  <2>4. /\ access' = [access EXCEPT ![c] = v] /\ accesses < MaxAccesses /\ accesses' = accesses + 1
        /\ UNCHANGED <<source, planned, keys, tested, used, archived, torn>>
    BY <1>3, <2>1, <2>2 DEF Sources!UpdatePolicy, Sources!Begin
  <2> QED
    BY <1>1, <1>2, <2>3, <2>4, ReadingKeepsSources
<1>4. CASE Sources!ReadRow(c)
  <2>1. PICK v : v = [access[c] EXCEPT !.got = @ \cup {"row"}, !.row = source]
    OBVIOUS
  <2>2. /\ v \in Sources!Access /\ v.row = source /\ v.fresh = access[c].fresh /\ v.at = access[c].at
        /\ v.form = access[c].form
    BY <1>1, <2>1 DEF Sources!Access
  <2>3. /\ access' = [access EXCEPT ![c] = v]
        /\ UNCHANGED <<source, planned, keys, accesses, tested, used, archived, torn>>
    BY <1>1, <1>4, <2>1 DEF Sources!ReadRow
  <2> QED
    BY <1>1, <2>2, <2>3, ReadingKeepsSources
<1>5. CASE Sources!ReadKey(c)
  <2>1. PICK v : v = [access[c] EXCEPT !.got = @ \cup {"key"}, !.key = source.key]
    OBVIOUS
  <2>2. /\ v \in Sources!Access /\ v.row = access[c].row /\ v.fresh = access[c].fresh /\ v.at = access[c].at
        /\ v.form = access[c].form
    BY <1>1, <2>1 DEF Sources!Access
  <2>3. /\ access' = [access EXCEPT ![c] = v]
        /\ UNCHANGED <<source, planned, keys, accesses, tested, used, archived, torn>>
    BY <1>1, <1>5, <2>1 DEF Sources!ReadKey
  <2> QED
    BY <1>1, <2>2, <2>3, ReadingKeepsSources
<1>6. CASE \/ Sources!RecordDetectedSource(c) \/ Sources!TestHostingConnection(c) \/ Sources!RunJob(c)
  <2>1. PICK what \in {"detect", "test", "run"} :
          /\ Sources!Begin(c, [Sources!IdleAccess EXCEPT !.at = what, !.row = source, !.got = {"row"}])
          /\ planned' \in {planned, Sources!NoJob}
          /\ UNCHANGED <<source, keys, tested, used, archived, torn>>
    BY <1>6 DEF Sources!RecordDetectedSource, Sources!TestHostingConnection, Sources!RunJob
  <2>2. PICK v : v = [Sources!IdleAccess EXCEPT !.at = what, !.row = source, !.got = {"row"}]
    OBVIOUS
  <2>3. v \in Sources!Access /\ v.row = source /\ v.fresh = FALSE /\ v.at = what
    BY <1>1, <2>2, SourceRows DEF Sources!Access
  <2>4. access' = [access EXCEPT ![c] = v] /\ accesses < MaxAccesses /\ accesses' = accesses + 1
    BY <2>1, <2>2 DEF Sources!Begin
  <2> QED
    BY <1>1, <1>2, <2>1, <2>3, <2>4, SourceRows, ReadingKeepsSources
<1>7. CASE Sources!End(c)
  <2>1. /\ access' = [access EXCEPT ![c] = Sources!IdleAccess]
        /\ UNCHANGED <<source, planned, keys, accesses, tested, used, archived, torn>>
    BY <1>7 DEF Sources!End, Sources!Finish
  <2> QED
    BY <1>1, <2>1, SourceRows, ReadingKeepsSources
<1> QED
  BY <1>3, <1>4, <1>5, <1>6, <1>7

\* A backup uses the place and the key of one row, or the key is another's.
LEMMA UseKeepsSources ==
    ASSUME SourcesInv, NEW c \in Actors, Sources!UseRemote(c)
    PROVE  SourcesInv'
<1>1. /\ access[c].row \in Sources!Source /\ access[c].key \in Sources!Keys
      /\ access \in [Actors -> Sources!Access]
  BY DEF SourcesInv, Sources!SourceTypeOK, Sources!Access
<1>2. /\ used' = used \cup {<<access[c].row.remote, access[c].key, access[c].row.vouched>>}
      /\ torn' = (torn \/ access[c].key # access[c].row.key)
      /\ access' = [access EXCEPT ![c] = Sources!IdleAccess]
      /\ UNCHANGED <<source, planned, keys, accesses, tested, archived>>
  BY DEF Sources!UseRemote, Sources!Finish
<1>3. access'[c] = Sources!IdleAccess /\ \A d \in Actors : d # c => access'[d] = access[d]
  BY <1>1, <1>2
<1>4. Sources!SourceTypeOK'
  <2>1. <<access[c].row.remote, access[c].key, access[c].row.vouched>>
          \in (Things \cup {none}) \X Sources!Keys \X Sources!Voucher
    BY <1>1 DEF Sources!Source
  <2>2. torn' \in BOOLEAN /\ access' \in [Actors -> Sources!Access]
    BY <1>1, <1>2, SourceRows
  <2> QED
    BY <1>2, <2>1, <2>2 DEF SourcesInv, Sources!SourceTypeOK
<1>5. ASSUME NEW d \in Actors
      PROVE  /\ Vouched(access'[d].row) /\ (access'[d].fresh => access'[d].at = "save")
             /\ access'[d].at = "save" => access'[d].form \in Forms
             /\ ~torn' => TestedRow(access'[d].row, tested')
  <2>1. CASE d = c
    BY <1>3, <2>1, SourceRows DEF Vouched, TestedRow
  <2>2. CASE d # c
    BY <1>2, <1>3, <2>2 DEF SourcesInv
  <2> QED
    BY <2>1, <2>2
<1>6. ASSUME ~torn', NEW u \in used', u[3] = "test" PROVE <<u[1], u[2]>> \in tested'
  <2>1. ~torn /\ access[c].key = access[c].row.key
    BY <1>2, <1>6
  <2>2. CASE u \in used
    BY <1>2, <1>6, <2>1, <2>2 DEF SourcesInv
  <2>3. CASE u = <<access[c].row.remote, access[c].key, access[c].row.vouched>>
    BY <1>2, <1>6, <2>1, <2>3 DEF SourcesInv, TestedRow
  <2> QED
    BY <1>2, <2>2, <2>3
<1> QED
  BY <1>2, <1>4, <1>5, <1>6 DEF SourcesInv

LEMMA JobsKeepSources ==
    ASSUME SourcesInv, Sources!PlanBackup \/ Sources!RunLocalJob \/ Sources!FailJob
    PROVE  SourcesInv'
<1>1. /\ UNCHANGED <<source, access, keys, accesses, tested, used, torn>>
      /\ planned' \in Sources!Job
  BY SourceRows DEF Sources!PlanBackup, Sources!RunLocalJob, Sources!FailJob
<1>2. archived' \subseteq Sources!Paths \cup {none}
  BY DEF SourcesInv, Sources!SourceTypeOK, Sources!Source, Sources!PlanBackup, Sources!RunLocalJob, Sources!FailJob
<1>3. Sources!SourceTypeOK'
  BY <1>1, <1>2 DEF SourcesInv, Sources!SourceTypeOK
<1> QED
  BY <1>1, <1>3 DEF SourcesInv

LEMMA InitSources == Init => SourcesInv \/ part # "sources"
<1> SUFFICES ASSUME Sources!Init PROVE SourcesInv
  BY DEF Init
<1>1. keys = 0 /\ accesses = 0
  BY DEF Sources!Init
<1>2. keys \in Sources!Keys /\ accesses \in 0 .. MaxAccesses
  BY <1>1, SourceRows DEF Sources!Keys
<1>3. torn \in BOOLEAN
  BY DEF Sources!Init
<1>4. Sources!SourceTypeOK
  BY <1>2, <1>3, SourceRows DEF Sources!Init, Sources!SourceTypeOK
<1> QED
  BY <1>4, SourceRows DEF Sources!Init, SourcesInv, Vouched, TestedRow

LEMMA NextKeepsSources ==
    ASSUME SourcesInv, [Sources!Next]_(Sources!vars)
    PROVE  SourcesInv'
<1>1. CASE UNCHANGED Sources!vars
  BY <1>1 DEF Sources!vars, SourcesInv, Sources!SourceTypeOK
<1>2. CASE Sources!Next
  BY <1>2, JobsKeepSources, SavesKeepSources, CallsKeepSources, UseKeepsSources DEF Sources!Next
<1> QED
  BY <1>1, <1>2

VouchedInv == part = "sources" => SourcesInv

LEMMA SourcesKept ==
    /\ Init => VouchedInv
    /\ VouchedInv /\ [Next]_vars => VouchedInv'
<1>1. Init => VouchedInv
  BY InitSources DEF VouchedInv
<1>2. ASSUME VouchedInv, [Next]_vars PROVE VouchedInv'
  <2>1. part' = part
    BY <1>2 DEF Next, vars
  <2>2. CASE part = "sources"
    <3>1. [Sources!Next]_(Sources!vars)
      BY <1>2, <2>2 DEF Next, vars, sources, Sources!vars
    <3> QED
      BY <1>2, <2>2, <3>1, NextKeepsSources DEF VouchedInv
  <2> QED
    BY <2>1, <2>2 DEF VouchedInv
<1> QED
  BY <1>1, <1>2

\* However saves, check-ins and tests write back rows that are out of date, a source is
\* ready only because something vouched for it, and a test vouches only for the place
\* and the key it was made with, while no row is paired with a key of another time.
THEOREM SourcesAreVouched == Spec => []SourceIsVouched
<1>1. VouchedInv => SourceIsVouched
  BY DEF VouchedInv, SourcesInv, Vouched, TestedRow, SourceIsVouched, Sources!SourceIsVouched,
     Sources!TestVouchesForSource, Sources!ReadyIsVouched
<1> QED
  BY <1>1, SourcesKept, PTL DEF Spec

--------------------------------------------------------------------------------
(* One-time codes.  A request that answers has locked the row it read, and    *)
(* one that issues is alone with its purpose unless doubled says otherwise.   *)

Answering ==
    {Codes!Idle}
        \cup [at : {"insert"}, purpose : Purposes, found : SUBSET Codes!Challenges]
        \cup [at : {"consume"}, challenge : Codes!Challenges, codes : SUBSET Things, answer : Codes!Answers]

CodesTypeOK ==
    /\ challenges \in [Codes!Challenges -> Codes!Challenge \cup {none}]
    /\ recent \in Nat /\ codes \subseteq Things
    /\ answer \in [Actors -> Answering]
    /\ succeeded \in [Codes!Challenges -> Nat] /\ spent \in [Things -> Nat]
    /\ doubled \subseteq Purposes /\ rushed \in BOOLEAN /\ revived \in BOOLEAN

\* A row that is locked may still be answered, or fail once more.
MayBeAnswered(c) ==
    /\ challenges[c] # none
    /\ challenges[c].state \in {"open", "expired"}
    /\ challenges[c].attempts < MaximumAttempts

\* What a request has read still holds when it comes to write.
Relies(v) ==
    /\ v.at = "insert" =>
          /\ v.found \subseteq Codes!Made
          /\ v.purpose \notin doubled => Codes!Open(v.purpose) \subseteq v.found
          /\ ~rushed => recent < IssueLimit
    /\ v.at = "consume" =>
          /\ MayBeAnswered(v.challenge)
          /\ ~revived => codes \subseteq v.codes

\* Two requests hold different rows, and two that issue at once are recorded.
AreApart(v, w) ==
    /\ v.at = "consume" /\ w.at = "consume" => v.challenge # w.challenge
    /\ v.at = "insert" /\ w.at = "insert" => rushed /\ (v.purpose = w.purpose => v.purpose \in doubled)

AnsweredRight(c) ==
    /\ succeeded[c] = IF challenges[c] # none /\ challenges[c].state = "used" THEN 1 ELSE 0
    /\ challenges[c] # none /\ challenges[c].state = "open" => challenges[c].attempts < MaximumAttempts

OneOpenRow == \A p \in Purposes \ doubled : \A c, d \in Codes!Open(p) : c = d

CodesOwnInv ==
    /\ CodesTypeOK
    /\ \A a \in Actors : Relies(answer[a])
    /\ \A a, b \in Actors : a # b => AreApart(answer[a], answer[b])
    /\ \A c \in Codes!Challenges : AnsweredRight(c)
    /\ OneOpenRow
    /\ rushed \/ recent <= IssueLimit
    /\ Codes!CodesSpentOnce

CodesInv == part = "codes" => CodesOwnInv

LEMMA CodeConstants ==
    /\ MaximumAttempts \in Nat \ {0} /\ IssueLimit \in Nat \ {0} /\ ChallengeBound \in Nat
    /\ none \notin Codes!Challenge
    /\ Codes!Idle \in Answering /\ Codes!Idle.at = "idle"
BY ServicesAssumption DEF Codes!ChallengesAssumption, Answering, Codes!Idle

\* A row by its fields.
LEMMA ChallengeRows ==
    ASSUME CodesTypeOK, NEW c \in Codes!Challenges, challenges[c] # none
    PROVE  /\ challenges[c] \in Codes!Challenge
           /\ challenges[c].purpose \in Purposes
           /\ challenges[c].state \in {"open", "used", "invalid", "expired"}
           /\ challenges[c].attempts \in 0 .. MaximumAttempts
BY DEF CodesTypeOK, Codes!Challenge

\* Requests only begin, go on or end: rows and codes are as they were.
LEMMA RequestsMove ==
    ASSUME CodesOwnInv, NEW a \in Actors, NEW v \in Answering,
           answer' = [answer EXCEPT ![a] = v],
           UNCHANGED <<challenges, recent, codes, succeeded, spent, revived>>,
           doubled \subseteq doubled', doubled' \subseteq Purposes,
           rushed' \in BOOLEAN, rushed => rushed',
           Relies(v)',
           \A b \in Actors \ {a} : AreApart(v, answer[b])' /\ AreApart(answer[b], v)'
    PROVE  CodesOwnInv'
<1>1. answer'[a] = v /\ \A b \in Actors : b # a => answer'[b] = answer[b]
  BY DEF CodesOwnInv, CodesTypeOK
<1>2. CodesTypeOK'
  BY DEF CodesOwnInv, CodesTypeOK
<1>3. Codes!Made' = Codes!Made /\ \A p : Codes!Open(p)' = Codes!Open(p)
  BY DEF Codes!Open, Codes!Made
<1>4. \A c : MayBeAnswered(c)' = MayBeAnswered(c)
  BY DEF MayBeAnswered
<1>5. ASSUME NEW b \in Actors PROVE Relies(answer[b])'
  <2>1. CASE b = a
    BY <1>1, <2>1
  <2>2. CASE b # a
    <3>1. PICK w \in Answering : w = answer[b] /\ w = answer'[b]
      BY <1>1, <2>2 DEF CodesOwnInv, CodesTypeOK
    <3>2. Relies(w)
      BY <3>1 DEF CodesOwnInv
    <3>3. Relies(w)'
      BY <1>3, <1>4, <3>2 DEF Relies
    <3> QED
      BY <3>1, <3>3
  <2> QED
    BY <2>1, <2>2
<1>6. ASSUME NEW b \in Actors, NEW d \in Actors, b # d PROVE AreApart(answer[b], answer[d])'
  <2>1. CASE b = a
    <3>1. answer'[d] = answer[d] /\ answer'[b] = v
      BY <1>1, <1>6, <2>1
    <3> QED
      BY <1>6, <2>1, <3>1 DEF AreApart
  <2>2. CASE d = a
    <3>1. answer'[b] = answer[b] /\ answer'[d] = v
      BY <1>1, <1>6, <2>2
    <3> QED
      BY <1>6, <2>2, <3>1 DEF AreApart
  <2>3. CASE b # a /\ d # a
    <3>1. answer'[b] = answer[b] /\ answer'[d] = answer[d]
      BY <1>1, <2>3
    <3>2. AreApart(answer[b], answer[d])
      BY <1>6 DEF CodesOwnInv
    <3> QED
      BY <3>1, <3>2 DEF AreApart
  <2> QED
    BY <2>1, <2>2, <2>3
<1>7. \A c \in Codes!Challenges : AnsweredRight(c)'
  BY DEF CodesOwnInv, AnsweredRight
<1>8. OneOpenRow'
  BY <1>3 DEF CodesOwnInv, OneOpenRow
<1>9. Codes!CodesSpentOnce' /\ (rushed' \/ recent' <= IssueLimit)
  BY DEF CodesOwnInv, Codes!CodesSpentOnce
<1> QED
  BY <1>2, <1>5, <1>6, <1>7, <1>8, <1>9 DEF CodesOwnInv

LEMMA IssuingKeepsCodes ==
    ASSUME CodesOwnInv, NEW a \in Actors, NEW p \in Purposes, Codes!ReadChallenges(a, p)
    PROVE  CodesOwnInv'
<1>1. PICK v, others :
          /\ v = [at |-> "insert", purpose |-> p, found |-> Codes!Open(p)]
          /\ others = {answer[b].purpose : b \in {b \in Actors : answer[b].at = "insert"}}
  OBVIOUS
<1>2. /\ answer' = [answer EXCEPT ![a] = v]
      /\ UNCHANGED <<challenges, recent, codes, succeeded, spent, revived>>
      /\ doubled' = doubled \cup (others \cap {p})
      /\ rushed' = (rushed \/ others # {})
      /\ recent < IssueLimit
  BY <1>1 DEF Codes!ReadChallenges, Codes!Goto
<1>3. v.at = "insert" /\ v.purpose = p /\ v.found = Codes!Open(p)
  BY <1>1
<1>4. v \in Answering
  <2>1. Codes!Open(p) \in SUBSET Codes!Challenges
    BY DEF Codes!Open, Codes!Made
  <2> QED
    BY <1>1, <2>1 DEF Answering
<1>5. /\ doubled \subseteq doubled' /\ doubled' \subseteq Purposes
      /\ rushed' \in BOOLEAN /\ (rushed => rushed')
  BY <1>2 DEF CodesOwnInv, CodesTypeOK
<1>6. Relies(v)'
  <2>1. Codes!Open(p)' = Codes!Open(p) /\ Codes!Made' = Codes!Made /\ Codes!Open(p) \subseteq Codes!Made
    BY <1>2 DEF Codes!Open, Codes!Made
  <2> QED
    BY <1>2, <1>3, <2>1 DEF Relies
<1>7. ASSUME NEW b \in Actors \ {a} PROVE AreApart(v, answer[b])' /\ AreApart(answer[b], v)'
  <2>1. answer'[b] = answer[b]
    BY <1>2 DEF CodesOwnInv, CodesTypeOK
  <2>2. CASE answer[b].at = "insert"
    <3>1. answer[b].purpose \in others
      BY <1>1, <1>7, <2>2
    <3>2. rushed' /\ (answer[b].purpose = p => p \in doubled')
      BY <1>2, <3>1
    <3> QED
      BY <1>3, <2>1, <2>2, <3>2 DEF AreApart
  <2>3. CASE answer[b].at # "insert"
    BY <1>3, <2>1, <2>3 DEF AreApart
  <2> QED
    BY <2>2, <2>3
<1> QED
  BY <1>2, <1>4, <1>5, <1>6, <1>7, RequestsMove

LEMMA ReadingKeepsCodes ==
    ASSUME CodesOwnInv, NEW a \in Actors, Codes!ReadChallenge(a)
    PROVE  CodesOwnInv'
<1>1. PICK c \in Codes!Made, w \in Codes!Answers :
          /\ Codes!Unlocked(c) /\ challenges[c].state = "open"
          /\ answer' = [answer EXCEPT ![a] =
                 [at |-> "consume", challenge |-> c, codes |-> codes, answer |->
                     IF Codes!Usable(challenges[c]) /\ w \in {"sent"} \cup codes THEN w ELSE "wrong"]]
          /\ UNCHANGED <<challenges, recent, codes, succeeded, spent, doubled, rushed, revived>>
  BY DEF Codes!ReadChallenge, Codes!Goto
<1>2. PICK w2 \in Codes!Answers :
          w2 = IF Codes!Usable(challenges[c]) /\ w \in {"sent"} \cup codes THEN w ELSE "wrong"
  BY DEF Codes!Answers
<1>3. PICK v : v = [at |-> "consume", challenge |-> c, codes |-> codes, answer |-> w2]
  OBVIOUS
<1>4. v.at = "consume" /\ v.challenge = c /\ v.codes = codes
  BY <1>3
<1>5. v \in Answering
  BY <1>3 DEF Answering, Codes!Made, CodesOwnInv, CodesTypeOK
<1>6. answer' = [answer EXCEPT ![a] = v]
  BY <1>1, <1>2, <1>3
<1>7. Relies(v)'
  <2>1. c \in Codes!Challenges /\ challenges[c] # none
    BY DEF Codes!Made
  <2>2. MayBeAnswered(c)'
    BY <1>1, <2>1 DEF MayBeAnswered, CodesOwnInv, AnsweredRight
  <2> QED
    BY <1>1, <1>4, <2>2 DEF Relies
<1>8. ASSUME NEW b \in Actors \ {a} PROVE AreApart(v, answer[b])' /\ AreApart(answer[b], v)'
  <2>1. answer'[b] = answer[b]
    BY <1>6 DEF CodesOwnInv, CodesTypeOK
  <2>2. answer[b].at = "consume" => answer[b].challenge # c
    BY <1>1 DEF Codes!Unlocked
  <2> QED
    BY <1>4, <2>1, <2>2 DEF AreApart
<1>9. /\ UNCHANGED <<challenges, recent, codes, succeeded, spent, revived>>
      /\ doubled \subseteq doubled' /\ doubled' \subseteq Purposes
      /\ rushed' \in BOOLEAN /\ (rushed => rushed')
  BY <1>1 DEF CodesOwnInv, CodesTypeOK
<1> QED
  BY <1>5, <1>6, <1>7, <1>8, <1>9, RequestsMove

LEMMA AbortKeepsCodes ==
    ASSUME CodesOwnInv, NEW a \in Actors, Codes!Abort(a)
    PROVE  CodesOwnInv'
<1>1. /\ answer' = [answer EXCEPT ![a] = Codes!Idle]
      /\ UNCHANGED <<challenges, recent, codes, succeeded, spent, doubled, rushed, revived>>
  BY DEF Codes!Abort, Codes!Goto
<1>2. PICK v \in Answering : v = Codes!Idle /\ v.at = "idle"
  BY CodeConstants
<1>3. Relies(v)'
  BY <1>2 DEF Relies
<1>4. \A b \in Actors \ {a} : AreApart(v, answer[b])' /\ AreApart(answer[b], v)'
  BY <1>2 DEF AreApart
<1>5. /\ doubled \subseteq doubled' /\ doubled' \subseteq Purposes
      /\ rushed' \in BOOLEAN /\ (rushed => rushed')
  BY <1>1 DEF CodesOwnInv, CodesTypeOK
<1> QED
  BY <1>1, <1>2, <1>3, <1>4, <1>5, RequestsMove

\* Rows are answered, fail or are invalidated: no row opens, and those that other
\* requests have locked stay as they were to them.
LEMMA ChallengesMove ==
    ASSUME CodesOwnInv, CodesTypeOK', UNCHANGED <<doubled, rushed>>, recent' <= recent,
           \A b \in Actors : answer'[b] = answer[b] \/ answer'[b] = Codes!Idle,
           \A b \in Actors : answer'[b].at = "consume" => MayBeAnswered(answer[b].challenge)',
           Codes!Made \subseteq Codes!Made',
           \A c \in Codes!Challenges : challenges'[c] # none /\ challenges'[c].state = "open" =>
               /\ challenges[c] # none /\ challenges[c].state = "open"
               /\ challenges'[c].purpose = challenges[c].purpose,
           \A c \in Codes!Challenges : AnsweredRight(c)',
           ~revived' => ~revived /\ codes' \subseteq codes,
           Codes!CodesSpentOnce'
    PROVE  CodesOwnInv'
<1>1. \A p : Codes!Open(p)' \subseteq Codes!Open(p)
  BY DEF Codes!Open, Codes!Made
<1>2. ASSUME NEW b \in Actors PROVE Relies(answer[b])'
  <2>1. CASE answer'[b] = Codes!Idle
    BY <2>1, CodeConstants DEF Relies
  <2>2. CASE answer'[b] = answer[b]
    <3>1. PICK w \in Answering : w = answer[b] /\ w = answer'[b]
      BY <2>2 DEF CodesOwnInv, CodesTypeOK
    <3>2. Relies(w)
      BY <3>1 DEF CodesOwnInv
    <3>3. w.at = "consume" => MayBeAnswered(w.challenge)'
      BY <3>1
    <3>4. recent' \in Nat /\ recent \in Nat /\ IssueLimit \in Nat
      BY CodeConstants DEF CodesOwnInv, CodesTypeOK
    <3>5. recent < IssueLimit => recent' < IssueLimit
      BY <3>4
    <3>6. Relies(w)'
      BY <1>1, <3>2, <3>3, <3>5 DEF Relies
    <3> QED
      BY <3>1, <3>6
  <2> QED
    BY <2>1, <2>2
<1>3. ASSUME NEW b \in Actors, NEW d \in Actors, b # d PROVE AreApart(answer[b], answer[d])'
  <2>1. AreApart(answer[b], answer[d])
    BY <1>3 DEF CodesOwnInv
  <2>2. CASE answer'[b] = answer[b] /\ answer'[d] = answer[d]
    BY <2>1, <2>2 DEF AreApart
  <2>3. CASE answer'[b] = Codes!Idle \/ answer'[d] = Codes!Idle
    BY <2>3, CodeConstants DEF AreApart
  <2> QED
    BY <2>2, <2>3
<1>4. OneOpenRow'
  BY <1>1 DEF CodesOwnInv, OneOpenRow
<1>5. rushed' \/ recent' <= IssueLimit
  <2>1. recent' \in Nat /\ recent \in Nat /\ IssueLimit \in Nat
    BY CodeConstants DEF CodesOwnInv, CodesTypeOK
  <2> QED
    BY <2>1 DEF CodesOwnInv
<1> QED
  BY <1>2, <1>3, <1>4, <1>5 DEF CodesOwnInv

\* What the request that answers holds, and where it ends.
LEMMA Answerer ==
    ASSUME CodesOwnInv, NEW a \in Actors, answer[a].at = "consume"
    PROVE  /\ answer[a].challenge \in Codes!Challenges /\ answer[a].codes \subseteq Things
           /\ answer[a].answer \in Codes!Answers
           /\ MayBeAnswered(answer[a].challenge)
           /\ ~revived => codes \subseteq answer[a].codes
           /\ \A b \in Actors \ {a} :
                 answer[b].at = "consume" => answer[b].challenge # answer[a].challenge
<1>1. answer[a] \in [at : {"consume"}, challenge : Codes!Challenges, codes : SUBSET Things, answer : Codes!Answers]
  BY DEF CodesOwnInv, CodesTypeOK, Answering, Codes!Idle
<1>2. Relies(answer[a]) /\ \A b \in Actors \ {a} : AreApart(answer[b], answer[a])
  BY DEF CodesOwnInv
<1> QED
  BY <1>1, <1>2 DEF Relies, AreApart

\* One row is written by the request that has locked it, which ends with it.
LEMMA RowAnswered ==
    ASSUME CodesOwnInv, NEW a \in Actors, answer[a].at = "consume",
           answer' = [answer EXCEPT ![a] = Codes!Idle],
           UNCHANGED <<recent, doubled, rushed>>,
           NEW c, c = answer[a].challenge,
           NEW row \in Codes!Challenge, NEW n \in Nat,
           row.purpose = challenges[c].purpose,
           row.state = "open" => challenges[c].state = "open" /\ row.attempts < MaximumAttempts,
           n = (IF row.state = "used" THEN 1 ELSE 0),
           challenges' = [challenges EXCEPT ![c] = row],
           succeeded' = [succeeded EXCEPT ![c] = n],
           codes' \subseteq Things, spent' \in [Things -> Nat], revived' \in BOOLEAN,
           ~revived' => ~revived /\ codes' \subseteq codes,
           Codes!CodesSpentOnce'
    PROVE  CodesOwnInv'
<1>1. /\ c \in Codes!Challenges /\ MayBeAnswered(c)
      /\ \A b \in Actors \ {a} : answer[b].at = "consume" => answer[b].challenge # c
  BY Answerer
<1>2. /\ challenges' = [challenges EXCEPT ![c] = row]
      /\ succeeded' = [succeeded EXCEPT ![c] = n]
      /\ challenges[c] # none
  BY <1>1 DEF MayBeAnswered
<1>3. /\ challenges'[c] = row /\ succeeded'[c] = n /\ row # none
      /\ \A d \in Codes!Challenges : d # c => challenges'[d] = challenges[d] /\ succeeded'[d] = succeeded[d]
  BY <1>1, <1>2, CodeConstants DEF CodesOwnInv, CodesTypeOK
<1>4. CodesTypeOK'
  <2>1. CodesTypeOK
    BY DEF CodesOwnInv
  <2>2. challenges' \in [Codes!Challenges -> Codes!Challenge \cup {none}]
    BY <1>1, <1>2, <2>1 DEF CodesTypeOK
  <2>3. succeeded' \in [Codes!Challenges -> Nat]
    BY <1>1, <1>2, <2>1 DEF CodesTypeOK
  <2>4. answer' \in [Actors -> Answering]
    BY <2>1, CodeConstants DEF CodesTypeOK
  <2> QED
    BY <2>1, <2>2, <2>3, <2>4 DEF CodesTypeOK
<1>5. \A b \in Actors : answer'[b] = answer[b] \/ answer'[b] = Codes!Idle
  BY DEF CodesOwnInv, CodesTypeOK
<1>6. ASSUME NEW b \in Actors, answer'[b].at = "consume" PROVE MayBeAnswered(answer[b].challenge)'
  <2>1. b # a /\ answer'[b] = answer[b]
    BY <1>6, CodeConstants DEF CodesOwnInv, CodesTypeOK
  <2>2. PICK d \in Codes!Challenges : d = answer[b].challenge /\ d = answer'[b].challenge /\ MayBeAnswered(d)
    BY <1>6, <2>1, Answerer
  <2>3. d # c
    BY <1>1, <1>6, <2>1, <2>2
  <2>4. MayBeAnswered(d)'
    BY <1>3, <2>2, <2>3 DEF MayBeAnswered
  <2> QED
    BY <2>2, <2>4
<1>7. ASSUME NEW d \in Codes!Challenges, challenges'[d] # none, challenges'[d].state = "open"
      PROVE  /\ challenges[d] # none /\ challenges[d].state = "open"
             /\ challenges'[d].purpose = challenges[d].purpose
  BY <1>1, <1>2, <1>3, <1>7
<1>8. ASSUME NEW d \in Codes!Challenges PROVE AnsweredRight(d)'
  <2>1. CASE d = c
    BY <1>3, <2>1 DEF AnsweredRight
  <2>2. CASE d # c
    BY <1>3, <2>2 DEF AnsweredRight, CodesOwnInv
  <2> QED
    BY <2>1, <2>2
<1>9. recent' <= recent
  BY DEF CodesOwnInv, CodesTypeOK
<1>10. Codes!Made \subseteq Codes!Made'
  BY <1>3 DEF Codes!Made
<1> QED
  BY <1>4, <1>5, <1>6, <1>10, <1>7, <1>8, <1>9, ChallengesMove

\* succeeded counts from zero: the row that is answered was not answered before.
LEMMA NotYetAnswered ==
    ASSUME CodesOwnInv, NEW c \in Codes!Challenges, MayBeAnswered(c)
    PROVE  succeeded[c] = 0
BY DEF CodesOwnInv, AnsweredRight, MayBeAnswered

LEMMA CodeKeepsCodes ==
    ASSUME CodesOwnInv, NEW a \in Actors, Codes!AnswerWithCode(a)
    PROVE  CodesOwnInv'
<1>1. PICK c : c = answer[a].challenge
  OBVIOUS
<1>2. /\ answer[a].at = "consume"
      /\ challenges' = [challenges EXCEPT ![c].state = "used"]
      /\ succeeded' = [succeeded EXCEPT ![c] = @ + 1]
      /\ answer' = [answer EXCEPT ![a] = Codes!Idle]
      /\ UNCHANGED <<recent, codes, spent, doubled, rushed, revived>>
  BY <1>1 DEF Codes!AnswerWithCode, Codes!Succeed, Codes!Goto
<1>3. c \in Codes!Challenges /\ MayBeAnswered(c)
  BY <1>1, <1>2, Answerer
<1>4. PICK row : row = [challenges[c] EXCEPT !.state = "used"]
  OBVIOUS
<1>5. row \in Codes!Challenge /\ row.purpose = challenges[c].purpose /\ row.state = "used"
  BY <1>3, <1>4, ChallengeRows DEF MayBeAnswered, CodesOwnInv, Codes!Challenge
<1>6. challenges' = [challenges EXCEPT ![c] = row]
  BY <1>2, <1>4
<1>7. PICK n \in Nat : n = 1 /\ succeeded' = [succeeded EXCEPT ![c] = n]
  <2>1. succeeded[c] = 0
    BY <1>3, NotYetAnswered
  <2>2. succeeded[c] + 1 = 1
    BY <2>1
  <2> QED
    BY <1>2, <2>2
<1>8. /\ codes' \subseteq Things /\ spent' \in [Things -> Nat] /\ revived' \in BOOLEAN
      /\ ~revived' => ~revived /\ codes' \subseteq codes
  BY <1>2 DEF CodesOwnInv, CodesTypeOK
<1>9. Codes!CodesSpentOnce'
  BY <1>2 DEF CodesOwnInv, Codes!CodesSpentOnce
<1>10. n = (IF row.state = "used" THEN 1 ELSE 0) /\ row.state # "open"
  BY <1>5, <1>7
<1>11. /\ answer[a].at = "consume" /\ answer' = [answer EXCEPT ![a] = Codes!Idle]
       /\ UNCHANGED <<recent, doubled, rushed>>
  BY <1>2
<1> QED
  BY <1>1, <1>11, <1>5, <1>6, <1>7, <1>8, <1>9, <1>10, RowAnswered

LEMMA RecoveryCodeKeepsCodes ==
    ASSUME CodesOwnInv, NEW a \in Actors, Codes!AnswerWithRecoveryCode(a)
    PROVE  CodesOwnInv'
<1>1. PICK c, r : c = answer[a].challenge /\ r = answer[a].answer
  OBVIOUS
<1>2. /\ answer[a].at = "consume" /\ r \in answer[a].codes
      /\ answer' = [answer EXCEPT ![a] = Codes!Idle]
      /\ UNCHANGED <<recent, doubled, rushed>>
  BY <1>1 DEF Codes!AnswerWithRecoveryCode, Codes!Goto
<1>3. /\ c \in Codes!Challenges /\ MayBeAnswered(c) /\ r \in Things
      /\ answer[a].codes \subseteq Things
      /\ ~revived => codes \subseteq answer[a].codes
  BY <1>1, <1>2, Answerer
<1>4. CASE r \in codes
  <2>1. /\ codes' = answer[a].codes \ {r}
        /\ revived' = (revived \/ ~ answer[a].codes \ {r} \subseteq codes)
        /\ spent' = IF revived' THEN spent ELSE [spent EXCEPT ![r] = @ + 1]
        /\ challenges' = [challenges EXCEPT ![c].state = "used"]
        /\ succeeded' = [succeeded EXCEPT ![c] = @ + 1]
    BY <1>1, <1>4 DEF Codes!AnswerWithRecoveryCode, Codes!Succeed, Codes!Has
  <2>2. PICK row : row = [challenges[c] EXCEPT !.state = "used"]
    OBVIOUS
  <2>3. row \in Codes!Challenge /\ row.purpose = challenges[c].purpose /\ row.state = "used"
    BY <1>3, <2>2, ChallengeRows DEF MayBeAnswered, CodesOwnInv, Codes!Challenge
  <2>4. challenges' = [challenges EXCEPT ![c] = row]
    BY <2>1, <2>2
  <2>5. PICK n \in Nat : n = 1 /\ succeeded' = [succeeded EXCEPT ![c] = n]
    <3>1. succeeded[c] = 0
      BY <1>3, NotYetAnswered
    <3>2. succeeded[c] + 1 = 1
      BY <3>1
    <3> QED
      BY <2>1, <3>2
  <2>6. codes' \subseteq Things /\ revived' \in BOOLEAN
    BY <1>3, <2>1 DEF CodesOwnInv, CodesTypeOK
  <2>7. ASSUME ~revived' PROVE ~revived /\ codes' = codes \ {r}
    BY <1>3, <1>4, <2>1, <2>7
  <2>8. spent' \in [Things -> Nat]
    BY <1>3, <2>1 DEF CodesOwnInv, CodesTypeOK
  <2>9. Codes!CodesSpentOnce'
    <3> SUFFICES ASSUME ~revived', NEW q \in Things
                 PROVE  spent'[q] = IF q \in codes' THEN 0 ELSE 1
      BY DEF Codes!CodesSpentOnce
    <3>1. spent[q] = IF q \in codes THEN 0 ELSE 1
      BY <2>7 DEF CodesOwnInv, Codes!CodesSpentOnce
    <3>2. spent[r] = 0
      BY <1>3, <1>4, <2>7 DEF CodesOwnInv, Codes!CodesSpentOnce
    <3>3. spent' = [spent EXCEPT ![r] = 1]
      BY <2>1, <3>2 DEF CodesOwnInv, CodesTypeOK
    <3>4. CASE q = r
      BY <2>7, <3>3, <3>4, <1>3 DEF CodesOwnInv, CodesTypeOK
    <3>5. CASE q # r
      BY <2>7, <3>1, <3>3, <3>5 DEF CodesOwnInv, CodesTypeOK
    <3> QED
      BY <3>4, <3>5
  <2>10. n = (IF row.state = "used" THEN 1 ELSE 0) /\ row.state # "open"
    BY <2>3, <2>5
  <2>11. ~revived' => ~revived /\ codes' \subseteq codes
    BY <2>7
  <2> QED
    BY <1>1, <1>2, <2>3, <2>4, <2>5, <2>6, <2>8, <2>9, <2>10, <2>11, RowAnswered
<1>5. CASE r \notin codes
  <2>1. UNCHANGED <<challenges, codes, succeeded, spent, revived>>
    BY <1>1, <1>5 DEF Codes!AnswerWithRecoveryCode, Codes!Has
  <2>2. Codes!Abort(a)
    BY <1>2, <2>1 DEF Codes!Abort, Codes!Goto
  <2> QED
    BY <2>2, AbortKeepsCodes
<1> QED
  BY <1>4, <1>5

LEMMA WrongAnswerKeepsCodes ==
    ASSUME CodesOwnInv, NEW a \in Actors, Codes!AnswerWrongly(a)
    PROVE  CodesOwnInv'
<1>1. PICK c, row : c = answer[a].challenge /\ row = Codes!Counted(challenges[c])
  OBVIOUS
<1>2. /\ answer[a].at = "consume"
      /\ answer' = [answer EXCEPT ![a] = Codes!Idle]
      /\ UNCHANGED <<recent, codes, succeeded, spent, doubled, rushed, revived>>
      /\ challenges' = [challenges EXCEPT ![c] = row]
  BY <1>1 DEF Codes!AnswerWrongly, Codes!Goto
<1>3. c \in Codes!Challenges /\ MayBeAnswered(c)
  BY <1>1, <1>2, Answerer
<1>4. PICK was \in Codes!Challenge :
          was = challenges[c] /\ was.state \in {"open", "expired"} /\ was.attempts < MaximumAttempts
                /\ was.attempts \in Nat
  BY <1>3, ChallengeRows DEF MayBeAnswered, CodesOwnInv
<1>5. PICK state \in {"open", "invalid", "expired"} :
          /\ state = IF was.attempts + 1 >= MaximumAttempts THEN "invalid" ELSE was.state
  BY <1>4
<1>6. row = [was EXCEPT !.attempts = was.attempts + 1, !.state = state]
  BY <1>1, <1>4, <1>5 DEF Codes!Counted
<1>7. was.attempts + 1 \in 0 .. MaximumAttempts
  BY <1>4, CodeConstants
<1>8. /\ row \in Codes!Challenge /\ row.purpose = was.purpose /\ row.state = state
      /\ row.attempts = was.attempts + 1
  BY <1>6, <1>7 DEF Codes!Challenge
<1>9. state = "open" => was.state = "open" /\ was.attempts + 1 < MaximumAttempts
  BY <1>4, <1>5, CodeConstants
<1>10. row.state = "open" => challenges[c].state = "open" /\ row.attempts < MaximumAttempts
  BY <1>4, <1>8, <1>9
<1>11. PICK n \in Nat : n = 0 /\ succeeded' = [succeeded EXCEPT ![c] = n]
  <2>1. succeeded[c] = 0
    BY <1>3, NotYetAnswered
  <2>2. succeeded' = [succeeded EXCEPT ![c] = 0]
    BY <1>2, <2>1 DEF CodesOwnInv, CodesTypeOK
  <2> QED
    BY <2>2
<1>12. /\ codes' \subseteq Things /\ spent' \in [Things -> Nat] /\ revived' \in BOOLEAN
       /\ ~revived' => ~revived /\ codes' \subseteq codes
  BY <1>2 DEF CodesOwnInv, CodesTypeOK
<1>13. Codes!CodesSpentOnce'
  BY <1>2 DEF CodesOwnInv, Codes!CodesSpentOnce
<1>14. n = (IF row.state = "used" THEN 1 ELSE 0) /\ row.purpose = challenges[c].purpose
  BY <1>4, <1>5, <1>8, <1>11
<1>15. /\ answer[a].at = "consume" /\ answer' = [answer EXCEPT ![a] = Codes!Idle]
       /\ UNCHANGED <<recent, doubled, rushed>> /\ challenges' = [challenges EXCEPT ![c] = row]
  BY <1>2
<1> QED
  BY <1>1, <1>15, <1>8, <1>10, <1>11, <1>12, <1>13, <1>14, RowAnswered

\* The UPDATE leaves every row but those found open, and none of these is locked.
LEMMA ReplacedRows ==
    ASSUME CodesOwnInv, NEW found \in SUBSET Codes!Made, \A c \in found : Codes!Unlocked(c),
           NEW table, table = Codes!Replaced(found), NEW c \in Codes!Challenges
    PROVE  /\ table[c] \in Codes!Challenge \cup {none}
           /\ challenges[c] = none => table[c] = none
           /\ challenges[c] # none =>
                 /\ table[c] # none /\ table[c].purpose = challenges[c].purpose
                 /\ table[c].attempts = challenges[c].attempts
                 /\ table[c].state =
                       IF c \in found /\ challenges[c].state = "open" THEN "invalid" ELSE challenges[c].state
           /\ \A b \in Actors :
                 answer[b].at = "consume" /\ answer[b].challenge = c => table[c] = challenges[c]
<1>1. table[c] = IF c \in found /\ challenges[c].state = "open"
                 THEN [challenges[c] EXCEPT !.state = "invalid"] ELSE challenges[c]
  BY DEF Codes!Replaced
<1>2. CASE c \in found /\ challenges[c].state = "open"
  <2>1. challenges[c] # none
    BY <1>2 DEF Codes!Made
  <2>2. challenges[c] \in Codes!Challenge
    BY <2>1, ChallengeRows DEF CodesOwnInv
  <2>3. /\ table[c] \in Codes!Challenge /\ table[c].purpose = challenges[c].purpose
        /\ table[c].attempts = challenges[c].attempts /\ table[c].state = "invalid"
    BY <1>1, <1>2, <2>2 DEF Codes!Challenge
  <2>4. table[c] # none
    BY <2>3, CodeConstants
  <2>5. \A b \in Actors : answer[b].at = "consume" => answer[b].challenge # c
    BY <1>2 DEF Codes!Unlocked
  <2> QED
    BY <1>2, <2>1, <2>3, <2>4, <2>5
<1>3. CASE ~(c \in found /\ challenges[c].state = "open")
  BY <1>1, <1>3 DEF CodesOwnInv, CodesTypeOK
<1> QED
  BY <1>2, <1>3

LEMMA InvalidationKeepsCodes ==
    ASSUME CodesOwnInv, Codes!InvalidateAll
    PROVE  CodesOwnInv'
<1>1. PICK found \in SUBSET Codes!Made :
          /\ \A c \in found : Codes!Unlocked(c)
          /\ challenges' = Codes!Replaced(found)
          /\ UNCHANGED <<recent, codes, answer, succeeded, spent, doubled, rushed, revived>>
  BY DEF Codes!InvalidateAll
<1>2. challenges' \in [Codes!Challenges -> Codes!Challenge \cup {none}]
  <2>1. \A c \in Codes!Challenges : challenges'[c] \in Codes!Challenge \cup {none}
    BY <1>1, ReplacedRows
  <2> QED
    BY <1>1, <2>1 DEF Codes!Replaced
<1>3. CodesTypeOK'
  BY <1>1, <1>2 DEF CodesOwnInv, CodesTypeOK
<1>4. ASSUME NEW b \in Actors, answer'[b].at = "consume" PROVE MayBeAnswered(answer[b].challenge)'
  <2>1. answer'[b] = answer[b]
    BY <1>1
  <2>2. PICK d \in Codes!Challenges : d = answer[b].challenge /\ d = answer'[b].challenge /\ MayBeAnswered(d)
    BY <1>4, <2>1, Answerer
  <2>3. challenges'[d] = challenges[d]
    BY <1>1, <1>4, <2>1, <2>2, ReplacedRows
  <2>4. MayBeAnswered(d)'
    BY <2>2, <2>3 DEF MayBeAnswered
  <2> QED
    BY <2>2, <2>4
<1>5. ASSUME NEW d \in Codes!Challenges, challenges'[d] # none, challenges'[d].state = "open"
      PROVE  /\ challenges[d] # none /\ challenges[d].state = "open"
             /\ challenges'[d].purpose = challenges[d].purpose
  <2>1. challenges[d] # none
    BY <1>1, <1>5, ReplacedRows
  <2> QED
    BY <1>1, <1>5, <2>1, ReplacedRows
<1>6. ASSUME NEW d \in Codes!Challenges PROVE AnsweredRight(d)'
  <2>1. CASE challenges[d] = none
    <3>1. challenges'[d] = none /\ succeeded'[d] = succeeded[d]
      BY <1>1, <2>1, ReplacedRows
    <3> QED
      BY <2>1, <3>1 DEF CodesOwnInv, AnsweredRight
  <2>2. CASE challenges[d] # none
    <3>1. /\ challenges'[d] # none /\ challenges'[d].attempts = challenges[d].attempts
          /\ challenges'[d].state = "used" <=> challenges[d].state = "used"
          /\ challenges'[d].state = "open" => challenges[d].state = "open"
          /\ succeeded'[d] = succeeded[d]
      BY <1>1, <2>2, ReplacedRows
    <3> QED
      BY <2>2, <3>1 DEF CodesOwnInv, AnsweredRight
  <2> QED
    BY <2>1, <2>2
<1>7. Codes!Made \subseteq Codes!Made'
  BY <1>1, ReplacedRows DEF Codes!Made
<1>8. recent' <= recent
  BY <1>1 DEF CodesOwnInv, CodesTypeOK
<1>9. Codes!CodesSpentOnce'
  BY <1>1 DEF CodesOwnInv, Codes!CodesSpentOnce
<1>10. UNCHANGED <<doubled, rushed>> /\ (~revived' => ~revived /\ codes' \subseteq codes)
  BY <1>1
<1>11. \A b \in Actors : answer'[b] = answer[b] \/ answer'[b] = Codes!Idle
  BY <1>1
<1> QED
  BY <1>3, <1>4, <1>5, <1>6, <1>7, <1>8, <1>9, <1>10, <1>11, ChallengesMove

LEMMA ExpiryKeepsCodes ==
    ASSUME CodesOwnInv, Codes!Expire
    PROVE  CodesOwnInv'
<1>1. PICK c \in Codes!Made :
          /\ challenges[c].state = "open"
          /\ challenges' = [challenges EXCEPT ![c] = [challenges[c] EXCEPT !.state = "expired", !.attempts = 0]]
          /\ UNCHANGED <<recent, codes, answer, succeeded, spent, doubled, rushed, revived>>
  BY DEF Codes!Expire
<1>2. PICK row : row = [challenges[c] EXCEPT !.state = "expired", !.attempts = 0]
  OBVIOUS
<1>3. c \in Codes!Challenges /\ challenges[c] # none
  BY DEF Codes!Made
<1>4. /\ row \in Codes!Challenge /\ row.state = "expired" /\ row.attempts = 0 /\ row # none
      /\ 0 < MaximumAttempts
  <2>1. 0 \in 0 .. MaximumAttempts /\ 0 < MaximumAttempts
    BY CodeConstants
  <2>2. challenges[c] \in Codes!Challenge
    BY <1>3, ChallengeRows DEF CodesOwnInv
  <2>3. row \in Codes!Challenge /\ row.state = "expired" /\ row.attempts = 0
    BY <1>2, <2>1, <2>2 DEF Codes!Challenge
  <2> QED
    BY <2>1, <2>3, CodeConstants
<1>5. /\ challenges'[c] = row
      /\ \A d \in Codes!Challenges : d # c => challenges'[d] = challenges[d]
  BY <1>1, <1>2, <1>3 DEF CodesOwnInv, CodesTypeOK
<1>6. CodesTypeOK'
  BY <1>1, <1>2, <1>3, <1>4 DEF CodesOwnInv, CodesTypeOK
<1>7. ASSUME NEW b \in Actors, answer'[b].at = "consume" PROVE MayBeAnswered(answer[b].challenge)'
  <2>1. PICK d \in Codes!Challenges : d = answer[b].challenge /\ d = answer'[b].challenge /\ MayBeAnswered(d)
    BY <1>1, <1>7, Answerer
  <2>2. MayBeAnswered(d)'
    BY <1>4, <1>5, <2>1 DEF MayBeAnswered
  <2> QED
    BY <2>1, <2>2
<1>8. ASSUME NEW d \in Codes!Challenges, challenges'[d] # none, challenges'[d].state = "open"
      PROVE  /\ challenges[d] # none /\ challenges[d].state = "open"
             /\ challenges'[d].purpose = challenges[d].purpose
  BY <1>4, <1>5, <1>8
<1>9. ASSUME NEW d \in Codes!Challenges PROVE AnsweredRight(d)'
  BY <1>1, <1>3, <1>4, <1>5 DEF CodesOwnInv, AnsweredRight
<1>10. Codes!Made \subseteq Codes!Made'
  BY <1>4, <1>5 DEF Codes!Made
<1>11. recent' <= recent
  BY <1>1 DEF CodesOwnInv, CodesTypeOK
<1>12. Codes!CodesSpentOnce'
  BY <1>1 DEF CodesOwnInv, Codes!CodesSpentOnce
<1>13. UNCHANGED <<doubled, rushed>> /\ (~revived' => ~revived /\ codes' \subseteq codes)
  BY <1>1
<1>14. \A b \in Actors : answer'[b] = answer[b] \/ answer'[b] = Codes!Idle
  BY <1>1
<1> QED
  BY <1>6, <1>7, <1>8, <1>9, <1>10, <1>11, <1>12, <1>13, <1>14, ChallengesMove

LEMMA SameCountOfCodes == \A S : Codes!Cardinality(S) = Cardinality(S)
BY DEF Codes!Cardinality, Cardinality

LEMMA ForgettingKeepsCodes ==
    ASSUME CodesOwnInv, Codes!Forget
    PROVE  CodesOwnInv'
<1> DEFINE S == {c \in Codes!Made : challenges[c].state = "open"}
<1>1. /\ recent > Cardinality(S) /\ recent' = recent - 1
      /\ UNCHANGED <<challenges, codes, answer, succeeded, spent, doubled, rushed, revived>>
  BY SameCountOfCodes DEF Codes!Forget
<1>2. Cardinality(S) \in Nat
  <2>1. IsFiniteSet(Codes!Challenges)
    BY CodeConstants, FS_Interval DEF Codes!Challenges
  <2> QED
    BY <2>1, FS_Subset, FS_CardinalityType DEF Codes!Made
<1>3. recent \in Nat /\ recent' \in Nat /\ recent' <= recent
  BY <1>1, <1>2 DEF CodesOwnInv, CodesTypeOK
<1>4. CodesTypeOK'
  BY <1>1, <1>3 DEF CodesOwnInv, CodesTypeOK
<1>5. ASSUME NEW b \in Actors, answer'[b].at = "consume" PROVE MayBeAnswered(answer[b].challenge)'
  BY <1>1, <1>5, Answerer DEF MayBeAnswered
<1>6. /\ Codes!Made \subseteq Codes!Made'
      /\ \A d \in Codes!Challenges : challenges'[d] # none /\ challenges'[d].state = "open" =>
               /\ challenges[d] # none /\ challenges[d].state = "open"
               /\ challenges'[d].purpose = challenges[d].purpose
  BY <1>1 DEF Codes!Made
<1>7. \A d \in Codes!Challenges : AnsweredRight(d)'
  BY <1>1 DEF CodesOwnInv, AnsweredRight
<1>8. Codes!CodesSpentOnce'
  BY <1>1 DEF CodesOwnInv, Codes!CodesSpentOnce
<1>9. UNCHANGED <<doubled, rushed>> /\ (~revived' => ~revived /\ codes' \subseteq codes)
  BY <1>1
<1>10. \A b \in Actors : answer'[b] = answer[b] \/ answer'[b] = Codes!Idle
  BY <1>1
<1> HIDE DEF S
<1> QED
  BY <1>3, <1>4, <1>5, <1>6, <1>7, <1>8, <1>9, <1>10, ChallengesMove

LEMMA InsertionKeepsCodes ==
    ASSUME CodesOwnInv, NEW a \in Actors, Codes!InsertChallenge(a)
    PROVE  CodesOwnInv'
<1>1. PICK found, p : found = answer[a].found /\ p = answer[a].purpose
  OBVIOUS
<1>2. /\ answer[a].at = "insert" /\ \A d \in found : Codes!Unlocked(d)
      /\ answer' = [answer EXCEPT ![a] = Codes!Idle]
      /\ recent' = recent + 1
      /\ UNCHANGED <<codes, succeeded, spent, doubled, rushed, revived>>
  BY <1>1 DEF Codes!InsertChallenge, Codes!Goto
<1>3. PICK row : row = [purpose |-> p, state |-> "open", attempts |-> 0]
  OBVIOUS
<1>4. PICK c \in Codes!Challenges \ Codes!Made : challenges' = [Codes!Replaced(found) EXCEPT ![c] = row]
  BY <1>3, <1>1 DEF Codes!InsertChallenge
<1>5. p \in Purposes /\ found \in SUBSET Codes!Challenges
  BY <1>1, <1>2 DEF CodesOwnInv, CodesTypeOK, Answering, Codes!Idle
<1>6. /\ found \subseteq Codes!Made
      /\ p \notin doubled => Codes!Open(p) \subseteq found
      /\ ~rushed => recent < IssueLimit
  BY <1>1, <1>2 DEF CodesOwnInv, Relies
<1>7. PICK table : table = Codes!Replaced(found)
  OBVIOUS
<1>8. row \in Codes!Challenge /\ row # none /\ row.state = "open" /\ row.purpose = p /\ row.attempts = 0
  <2>1. 0 \in 0 .. MaximumAttempts
    BY CodeConstants
  <2>2. row \in Codes!Challenge /\ row.state = "open" /\ row.purpose = p /\ row.attempts = 0
    BY <1>3, <1>5, <2>1 DEF Codes!Challenge
  <2> QED
    BY <2>2, CodeConstants
<1>9. /\ challenges'[c] = row /\ challenges[c] = none
      /\ \A d \in Codes!Challenges : d # c => challenges'[d] = table[d]
  BY <1>4, <1>7 DEF Codes!Replaced, Codes!Made
<1>10. CodesTypeOK'
  <2>1. \A d \in Codes!Challenges : table[d] \in Codes!Challenge \cup {none}
    BY <1>2, <1>6, <1>7, ReplacedRows
  <2>2. challenges' \in [Codes!Challenges -> Codes!Challenge \cup {none}]
    BY <1>4, <1>7, <1>8, <2>1 DEF Codes!Replaced
  <2>3. recent' \in Nat
    BY <1>2 DEF CodesOwnInv, CodesTypeOK
  <2> QED
    BY <1>2, <2>2, <2>3, CodeConstants DEF CodesOwnInv, CodesTypeOK
<1>11. \A b \in Actors \ {a} : answer'[b] = answer[b]
  BY <1>2 DEF CodesOwnInv, CodesTypeOK
<1>12. answer'[a].at = "idle"
  BY <1>2, CodeConstants DEF CodesOwnInv, CodesTypeOK
<1>13. Codes!Made \subseteq Codes!Made'
  BY <1>2, <1>6, <1>7, <1>8, <1>9, ReplacedRows DEF Codes!Made
<1>14. ASSUME NEW q \in Purposes, q # p PROVE Codes!Open(q)' \subseteq Codes!Open(q)
  <2> SUFFICES ASSUME NEW d \in Codes!Challenges, challenges'[d] # none,
                      challenges'[d].state = "open", challenges'[d].purpose = q
               PROVE  challenges[d] # none /\ challenges[d].state = "open" /\ challenges[d].purpose = q
    BY DEF Codes!Open, Codes!Made
  <2>1. d # c
    BY <1>8, <1>9, <1>14
  <2>2. challenges'[d] = table[d]
    BY <1>9, <2>1
  <2>3. challenges[d] # none
    BY <1>2, <1>6, <1>7, <2>2, ReplacedRows
  <2> QED
    BY <1>2, <1>6, <1>7, <2>2, <2>3, ReplacedRows
<1>15. ASSUME p \notin doubled PROVE Codes!Open(p)' \subseteq {c}
  <2> SUFFICES ASSUME NEW d \in Codes!Challenges, challenges'[d] # none, d # c,
                      challenges'[d].state = "open", challenges'[d].purpose = p
               PROVE  FALSE
    BY DEF Codes!Open, Codes!Made
  <2>1. challenges'[d] = table[d]
    BY <1>9
  <2>2. challenges[d] # none
    BY <1>2, <1>6, <1>7, <2>1, ReplacedRows
  <2>3. challenges[d].state = "open" /\ challenges[d].purpose = p /\ d \notin found
    BY <1>2, <1>6, <1>7, <2>1, <2>2, ReplacedRows
  <2> QED
    BY <1>6, <1>15, <2>2, <2>3 DEF Codes!Open, Codes!Made
<1>16. ASSUME NEW b \in Actors PROVE Relies(answer[b])'
  <2>1. CASE b = a
    BY <1>12, <2>1 DEF Relies
  <2>2. CASE b # a
    <3>1. PICK w \in Answering : w = answer[b] /\ w = answer'[b]
      BY <1>11, <2>2 DEF CodesOwnInv, CodesTypeOK
    <3>2. Relies(w) /\ AreApart(w, answer[a])
      BY <2>2, <3>1 DEF CodesOwnInv
    <3>3. CASE w.at = "insert"
      <4>1. w.purpose \in Purposes
        BY <3>3 DEF Answering, Codes!Idle
      <4>2. rushed /\ (w.purpose = p => w.purpose \in doubled)
        BY <1>1, <1>2, <3>2, <3>3 DEF AreApart
      <4>3. w.purpose \notin doubled' => Codes!Open(w.purpose)' \subseteq w.found
        BY <1>2, <1>14, <3>2, <3>3, <4>1, <4>2 DEF Relies
      <4>4. Relies(w)'
        BY <1>2, <1>13, <3>2, <3>3, <4>2, <4>3 DEF Relies
      <4> QED
        BY <3>1, <4>4
    <3>4. CASE w.at = "consume"
      <4>1. PICK d \in Codes!Challenges : d = w.challenge /\ MayBeAnswered(d)
        BY <3>1, <3>4, Answerer
      <4>2. challenges'[d] = challenges[d]
        <5>1. d # c
          BY <1>9, <4>1 DEF MayBeAnswered
        <5>2. /\ found \in SUBSET Codes!Made /\ \A e \in found : Codes!Unlocked(e)
              /\ answer[b].at = "consume" /\ answer[b].challenge = d
          BY <1>2, <1>6, <3>1, <3>4, <4>1
        <5>3. table[d] = challenges[d]
          BY <1>7, <5>2, ReplacedRows
        <5> QED
          BY <1>9, <5>1, <5>3
      <4>3. MayBeAnswered(d)'
        BY <4>1, <4>2 DEF MayBeAnswered
      <4>4. Relies(w)'
        BY <1>2, <3>2, <3>4, <4>1, <4>3 DEF Relies
      <4> QED
        BY <3>1, <4>4
    <3>5. CASE w.at = "idle"
      BY <3>1, <3>5 DEF Relies
    <3>6. w.at \in {"idle", "insert", "consume"}
      BY DEF Answering, Codes!Idle
    <3> QED
      BY <3>3, <3>4, <3>5, <3>6
  <2> QED
    BY <2>1, <2>2
<1>17. ASSUME NEW b \in Actors, NEW d \in Actors, b # d PROVE AreApart(answer[b], answer[d])'
  <2>1. CASE b # a /\ d # a
    BY <1>2, <1>11, <1>17, <2>1 DEF CodesOwnInv, AreApart
  <2>2. CASE b = a \/ d = a
    BY <1>12, <2>2 DEF AreApart
  <2> QED
    BY <2>1, <2>2
<1>18. ASSUME NEW d \in Codes!Challenges PROVE AnsweredRight(d)'
  <2>1. AnsweredRight(d) /\ succeeded'[d] = succeeded[d]
    BY <1>2 DEF CodesOwnInv
  <2>2. CASE d = c
    BY <1>8, <1>9, <2>1, <2>2, CodeConstants DEF AnsweredRight
  <2>3. CASE d # c /\ challenges[d] = none
    <3>1. challenges'[d] = none
      BY <1>2, <1>6, <1>7, <1>9, <2>3, ReplacedRows
    <3> QED
      BY <2>1, <2>3, <3>1 DEF AnsweredRight
  <2>4. CASE d # c /\ challenges[d] # none
    <3>1. /\ challenges'[d] # none /\ challenges'[d].attempts = challenges[d].attempts
          /\ challenges'[d].state = "used" <=> challenges[d].state = "used"
          /\ challenges'[d].state = "open" => challenges[d].state = "open"
      BY <1>2, <1>6, <1>7, <1>9, <2>4, ReplacedRows
    <3> QED
      BY <2>1, <2>4, <3>1 DEF AnsweredRight
  <2> QED
    BY <2>2, <2>3, <2>4
<1>19. OneOpenRow'
  <2> SUFFICES ASSUME NEW q \in Purposes \ doubled PROVE \A d, e \in Codes!Open(q)' : d = e
    BY <1>2 DEF OneOpenRow
  <2>1. CASE q = p
    BY <1>15, <2>1
  <2>2. CASE q # p
    BY <1>14, <2>2 DEF CodesOwnInv, OneOpenRow
  <2> QED
    BY <2>1, <2>2
<1>20. rushed' \/ recent' <= IssueLimit
  <2>1. recent \in Nat /\ IssueLimit \in Nat
    BY CodeConstants DEF CodesOwnInv, CodesTypeOK
  <2>2. recent < IssueLimit => recent + 1 <= IssueLimit
    BY <2>1
  <2> QED
    BY <1>2, <1>6, <2>2
<1>21. Codes!CodesSpentOnce'
  BY <1>2 DEF CodesOwnInv, Codes!CodesSpentOnce
<1> QED
  BY <1>10, <1>16, <1>17, <1>18, <1>19, <1>20, <1>21 DEF CodesOwnInv

LEMMA InitCodes == Codes!Init => CodesOwnInv
<1> SUFFICES ASSUME Codes!Init PROVE CodesOwnInv
  OBVIOUS
<1>1. /\ challenges = [c \in Codes!Challenges |-> none] /\ recent = 0 /\ codes = Things
      /\ answer = [a \in Actors |-> Codes!Idle]
      /\ succeeded = [c \in Codes!Challenges |-> 0] /\ spent = [r \in Things |-> 0]
      /\ doubled = {} /\ rushed = FALSE /\ revived = FALSE
  BY DEF Codes!Init
<1>2. CodesTypeOK
  BY <1>1, CodeConstants DEF CodesTypeOK
<1>3. \A p : Codes!Open(p) = {}
  BY <1>1 DEF Codes!Open, Codes!Made
<1>4. \A a \in Actors : answer[a].at = "idle"
  BY <1>1, CodeConstants
<1>5. recent <= IssueLimit
  BY <1>1, CodeConstants
<1>6. Codes!CodesSpentOnce
  BY <1>1 DEF Codes!CodesSpentOnce
<1>7. OneOpenRow
  BY <1>3 DEF OneOpenRow
<1>8. \A c \in Codes!Challenges : AnsweredRight(c)
  BY <1>1 DEF AnsweredRight
<1>9. \A a \in Actors : Relies(answer[a])
  BY <1>4 DEF Relies
<1>10. \A a, b \in Actors : AreApart(answer[a], answer[b])
  BY <1>4 DEF AreApart
<1> QED
  BY <1>2, <1>5, <1>6, <1>7, <1>8, <1>9, <1>10 DEF CodesOwnInv

LEMMA NextKeepsCodes ==
    ASSUME CodesOwnInv, [Codes!Next]_(Codes!vars)
    PROVE  CodesOwnInv'
<1>1. CASE UNCHANGED Codes!vars
  <2>1. UNCHANGED <<challenges, recent, codes, answer, succeeded, spent, doubled, rushed, revived>>
    BY <1>1 DEF Codes!vars
  <2>2. CodesTypeOK' /\ OneOpenRow' /\ Codes!CodesSpentOnce' /\ (\A c \in Codes!Challenges : AnsweredRight(c)')
    BY <2>1 DEF CodesOwnInv, CodesTypeOK, OneOpenRow, Codes!Open, Codes!Made, Codes!CodesSpentOnce, AnsweredRight
  <2>3. \A a \in Actors : Relies(answer[a])'
    BY <2>1 DEF CodesOwnInv, Relies, MayBeAnswered, Codes!Open, Codes!Made
  <2>4. \A a, b \in Actors : a # b => AreApart(answer[a], answer[b])'
    BY <2>1 DEF CodesOwnInv, AreApart
  <2> QED
    BY <2>1, <2>2, <2>3, <2>4 DEF CodesOwnInv
<1>2. CASE Codes!Next
  BY <1>2, IssuingKeepsCodes, InsertionKeepsCodes, ReadingKeepsCodes, CodeKeepsCodes, RecoveryCodeKeepsCodes,
     WrongAnswerKeepsCodes, AbortKeepsCodes, InvalidationKeepsCodes, ExpiryKeepsCodes, ForgettingKeepsCodes
     DEF Codes!Next
<1> QED
  BY <1>1, <1>2

LEMMA CodesKept ==
    /\ Init => CodesInv
    /\ CodesInv /\ [Next]_vars => CodesInv'
<1>1. Init => CodesInv
  BY InitCodes DEF Init, CodesInv
<1>2. ASSUME CodesInv, [Next]_vars PROVE CodesInv'
  <2>1. part' = part
    BY <1>2 DEF Next, vars
  <2>2. CASE part = "codes"
    <3>1. [Codes!Next]_(Codes!vars)
      BY <1>2, <2>2 DEF Next, vars, oneTimeCodes, Codes!vars
    <3> QED
      BY <1>2, <2>2, <3>1, NextKeepsCodes DEF CodesInv
  <2> QED
    BY <2>1, <2>2 DEF CodesInv
<1> QED
  BY <1>1, <1>2

LEMMA AtMostOne == ASSUME NEW S, \A x, y \in S : x = y PROVE Cardinality(S) <= 1
<1>1. CASE S = {}
  BY <1>1, FS_EmptySet
<1>2. CASE S # {}
  <2>1. PICK x : S = {x}
    BY <1>2
  <2> QED
    BY <2>1, FS_Singleton
<1> QED
  BY <1>1, <1>2

LEMMA CodesOfInv == CodesInv => (part = "codes" => Codes!ChallengesSound)
<1> SUFFICES ASSUME CodesOwnInv PROVE Codes!ChallengesSound
  BY DEF CodesInv
<1>1. Codes!AnsweredOnce
  BY DEF CodesOwnInv, AnsweredRight, Codes!AnsweredOnce, Codes!Made
<1>2. Codes!OneOpen
  BY AtMostOne, SameCountOfCodes DEF CodesOwnInv, OneOpenRow, Codes!OneOpen
<1> QED
  BY <1>1, <1>2 DEF CodesOwnInv, Codes!ChallengesSound
--------------------------------------------------------------------------------
(* Accounts.  A request that nothing overtook knows the present password; the *)
(* statements of an enrolment leave a trace until the last of them.           *)

\* Requests that sign in, and that enrol the factor.
SigningIn ==
    [at : {"verified", "save", "open", "remember"}, row : SignIn!Account, proof : Nat,
     late : BOOLEAN, coded : BOOLEAN]

Enrolling == [at : {"disable", "insert", "flag", "remember"}, proof : Nat, late : BOOLEAN]

Visiting ==
    SigningIn \cup Enrolling
        \cup [at : {"accept"}, invitation : Invitations, late : BOOLEAN]
        \cup [at : {"passed"}, proof : Nat, late : BOOLEAN]
        \cup [at : {"resolve", "touch"}, session : Sessions, age : 0 .. 2, late : BOOLEAN]
        \cup [at : {"reset"}, link : Links, late : BOOLEAN]
        \cup [at : {"update"}, row : SignIn!Account, late : BOOLEAN]

AccountsTypeOK ==
    /\ account \in SignIn!Account \cup {none} /\ password \in Nat
    /\ invitations \in [Invitations -> {"none", "open", "accepted", "expired"}]
    /\ links \in [Links -> {"none", "open", "used", "expired"}]
    /\ sessions \in [Sessions -> SignIn!Session] /\ devices \subseteq SignIn!Proof
    /\ challenge \in SignIn!Proof \cup {none}
    /\ enrolment \in BOOLEAN /\ factor \in BOOLEAN
    /\ visit \in [Actors -> Visiting \cup {SignIn!Idle}]
    /\ rewritten \in BOOLEAN /\ cut \in BOOLEAN
    /\ uses \in [Links -> Nat]

\* What a request has read still holds when it comes to write.
KnowsAccount(v) ==
    /\ v.at \notin {"idle", "accept"} => account # none
    /\ v.at \in {"verified", "save", "open", "remember", "passed", "disable", "insert", "flag"} =>
          v.late \/ v.proof = password
    /\ v.at \in {"verified", "save"} => v.row.status = "active"
    /\ v.at = "open" => v.late \/ account.status = "active"
    /\ v.at = "touch" => v.age # 2
    /\ v.at = "reset" => v.late \/ uses[v.link] = 0

\* Before there is an account there is nothing of it.
NothingBefore ==
    account = none =>
        /\ \A i \in Invitations : invitations[i] # "accepted"
        /\ \A l \in Links : links[l] = "none"
        /\ \A s \in Sessions : sessions[s].state # "open"
        /\ devices = {} /\ challenge = none /\ ~enrolment /\ ~factor

AcceptedOnce ==
    \A i, j \in Invitations : invitations[i] = "accepted" /\ invitations[j] = "accepted" => i = j

SomeAt(step) == \E a \in Actors : visit[a].at = step

\* A factor that nobody is about to insert or to enter in the row is entered.
EnrolledAsFactor ==
    /\ factor /\ ~SomeAt("flag") => account.enrolled
    /\ ~factor /\ ~SomeAt("insert") => ~account.enrolled /\ ~SomeAt("flag")

RowFollows ==
    account # none /\ ~rewritten => SignIn!Decision(account) = decided /\ (cut \/ EnrolledAsFactor)

SessionRight(s) ==
    sessions[s].state = "open" /\ ~sessions[s].late =>
        /\ sessions[s].proof = password /\ account.status = "active"
        /\ sessions[s].lapsed => sessions[s].age = 2

LinkRight(l) == uses[l] <= 1 /\ (links[l] \in {"none", "open"} => uses[l] = 0)

AccountsOwnInv ==
    /\ AccountsTypeOK
    /\ \A a \in Actors : KnowsAccount(visit[a])
    /\ NothingBefore
    /\ AcceptedOnce
    /\ RowFollows
    /\ \A s \in Sessions : SessionRight(s)
    /\ \A d \in devices : d.late \/ d.proof = password
    /\ challenge # none => challenge.late \/ challenge.proof = password
    /\ \A l \in Links : LinkRight(l)

AccountsInv == part = "accounts" => AccountsOwnInv

LEMMA AccountConstants ==
    /\ none \notin SignIn!Account /\ none \notin SignIn!Proof
    /\ SignIn!Idle.at = "idle"
BY ServicesAssumption DEF SignIn!AccountsAssumption, SignIn!Idle

\* What a request has read, by where it is.
LEMMA VisitFields ==
    ASSUME NEW v \in Visiting \cup {SignIn!Idle}
    PROVE  /\ v.at = "idle" => v = SignIn!Idle
           /\ v.at \in {"verified", "save", "open"} => v \in SigningIn
           /\ v.at \in {"disable", "insert", "flag"} => v \in Enrolling
           /\ v.at \in {"remember", "passed"} => v.proof \in Nat /\ v.late \in BOOLEAN
           /\ v.at = "remember" => v \in SigningIn \/ v \in Enrolling
           /\ v.at \in {"resolve", "touch"} =>
                 v \in [at : {"resolve", "touch"}, session : Sessions, age : 0 .. 2, late : BOOLEAN]
           /\ v.at = "reset" => v.link \in Links /\ v.late \in BOOLEAN
           /\ v.at = "update" => v.row \in SignIn!Account
           /\ v.at = "accept" => v.invitation \in Invitations
BY DEF Visiting, SigningIn, Enrolling, SignIn!Idle

LEMMA Visitors ==
    ASSUME AccountsOwnInv, NEW a \in Actors
    PROVE  visit[a] \in Visiting \cup {SignIn!Idle} /\ KnowsAccount(visit[a])
BY DEF AccountsOwnInv, AccountsTypeOK

\* A request goes on that neither inserts nor enters the factor, or none does.
VisitsQuietly ==
    \/ UNCHANGED visit
    \/ \E a \in Actors, v \in Visiting \cup {SignIn!Idle} :
          /\ visit' = [visit EXCEPT ![a] = v]
          /\ v.at \notin {"insert", "flag"} /\ visit[a].at \notin {"insert", "flag"}
          /\ KnowsAccount(v)'

LEMMA AccountStays ==
    ASSUME AccountsOwnInv, AccountsTypeOK', VisitsQuietly,
           UNCHANGED <<account, password, factor, decided, rewritten, cut, uses>>,
           NothingBefore', AcceptedOnce', \A s \in Sessions : SessionRight(s)',
           \A d \in devices' : d.late \/ d.proof = password,
           challenge' # none => challenge'.late \/ challenge'.proof = password,
           \A l \in Links : LinkRight(l)'
    PROVE  AccountsOwnInv'
<1>1. ASSUME NEW v, KnowsAccount(v) PROVE KnowsAccount(v)'
  BY <1>1 DEF KnowsAccount
<1>2. CASE UNCHANGED visit
  <2>1. ASSUME NEW b \in Actors PROVE KnowsAccount(visit[b])'
    <3>1. PICK v : v = visit[b] /\ v = visit'[b]
      BY <1>2
    <3>2. KnowsAccount(v)'
      BY <1>1, <3>1 DEF AccountsOwnInv
    <3> QED
      BY <3>1, <3>2
  <2>2. RowFollows'
    BY <1>2 DEF AccountsOwnInv, RowFollows, EnrolledAsFactor, SomeAt, SignIn!Decision
  <2> QED
    BY <2>1, <2>2 DEF AccountsOwnInv
<1>3. ASSUME NEW a \in Actors, NEW v \in Visiting \cup {SignIn!Idle},
             visit' = [visit EXCEPT ![a] = v],
             v.at \notin {"insert", "flag"}, visit[a].at \notin {"insert", "flag"},
             KnowsAccount(v)'
      PROVE  AccountsOwnInv'
  <2>1. visit'[a] = v /\ \A b \in Actors : b # a => visit'[b] = visit[b]
    BY <1>3 DEF AccountsOwnInv, AccountsTypeOK
  <2>2. ASSUME NEW b \in Actors PROVE KnowsAccount(visit[b])'
    <3>1. CASE b = a
      BY <1>3, <2>1, <3>1
    <3>2. CASE b # a
      <4>1. PICK w : w = visit[b] /\ w = visit'[b]
        BY <2>1, <3>2
      <4>2. KnowsAccount(w)'
        BY <1>1, <4>1 DEF AccountsOwnInv
      <4> QED
        BY <4>1, <4>2
    <3> QED
      BY <3>1, <3>2
  <2>3. \A step \in {"insert", "flag"} : SomeAt(step)' <=> SomeAt(step)
    BY <1>3, <2>1 DEF SomeAt
  <2>4. RowFollows'
    BY <2>3 DEF AccountsOwnInv, RowFollows, EnrolledAsFactor, SignIn!Decision
  <2> QED
    BY <2>2, <2>4 DEF AccountsOwnInv
<1> QED
  BY <1>2, <1>3 DEF VisitsQuietly

\* A request reads, and no row is written.
LEMMA VisitorReads ==
    ASSUME AccountsOwnInv, NEW a \in Actors, NEW v \in Visiting \cup {SignIn!Idle},
           visit' = [visit EXCEPT ![a] = v], KnowsAccount(v),
           v.at \notin {"insert", "flag"}, visit[a].at \notin {"insert", "flag"},
           UNCHANGED <<account, password, invitations, links, sessions, devices, challenge,
                       enrolment, factor, decided, rewritten, cut, uses>>
    PROVE  AccountsOwnInv'
<1>1. KnowsAccount(v)'
  BY DEF KnowsAccount
<1>2. VisitsQuietly
  BY <1>1 DEF VisitsQuietly
<1>3. AccountsTypeOK'
  BY DEF AccountsOwnInv, AccountsTypeOK
<1>4. NothingBefore' /\ AcceptedOnce'
  BY DEF AccountsOwnInv, NothingBefore, AcceptedOnce
<1>5. \A s \in Sessions : SessionRight(s)'
  BY DEF AccountsOwnInv, SessionRight
<1>6. /\ \A d \in devices' : d.late \/ d.proof = password
      /\ challenge' # none => challenge'.late \/ challenge'.proof = password
      /\ \A l \in Links : LinkRight(l)'
  BY DEF AccountsOwnInv, LinkRight
<1> QED
  BY <1>2, <1>3, <1>4, <1>5, <1>6, AccountStays

LEMMA ReadsKeepAccounts ==
    ASSUME AccountsOwnInv, NEW a \in Actors,
           \/ SignIn!ReadInvitation(a) \/ SignIn!VerifyCredentials(a) \/ SignIn!TrustedSignIn(a)
           \/ SignIn!FindUser(a) \/ SignIn!ReadSession(a) \/ SignIn!ResolveUser(a)
           \/ SignIn!ReadLink(a) \/ SignIn!ReadUser(a)
    PROVE  AccountsOwnInv'
<1>1. UNCHANGED <<account, password, invitations, links, sessions, devices, challenge,
                  enrolment, factor, decided, rewritten, cut, uses>>
  BY DEF SignIn!ReadInvitation, SignIn!VerifyCredentials, SignIn!TrustedSignIn, SignIn!FindUser,
     SignIn!ReadSession, SignIn!ResolveUser, SignIn!ReadLink, SignIn!ReadUser
<1>2. visit[a] \in Visiting \cup {SignIn!Idle} /\ KnowsAccount(visit[a])
  BY Visitors
<1>3. CASE SignIn!ReadInvitation(a)
  <2>1. PICK v \in [at : {"accept"}, invitation : Invitations, late : BOOLEAN] :
            visit' = [visit EXCEPT ![a] = v] /\ visit[a].at = "idle"
    BY <1>3 DEF SignIn!ReadInvitation, SignIn!Goto, SignIn!Begin
  <2>2. v \in Visiting /\ v.at = "accept"
    BY <2>1 DEF Visiting
  <2>3. KnowsAccount(v)
    BY <2>2 DEF KnowsAccount
  <2> QED
    BY <1>1, <2>1, <2>2, <2>3, VisitorReads
<1>4. CASE SignIn!VerifyCredentials(a)
  <2>1. PICK v : v = [at |-> "verified", row |-> account, proof |-> password, late |-> FALSE, coded |-> FALSE]
    OBVIOUS
  <2>2. /\ visit' = [visit EXCEPT ![a] = v] /\ visit[a].at = "idle"
        /\ account # none /\ account.status = "active"
    BY <1>4, <2>1 DEF SignIn!VerifyCredentials, SignIn!SignsIn, SignIn!Goto, SignIn!Begin
  <2>3. v \in Visiting
    BY <2>1, <2>2 DEF Visiting, SigningIn, AccountsOwnInv, AccountsTypeOK
  <2>4. v.at = "verified" /\ v.row = account /\ v.proof = password
    BY <2>1
  <2>5. KnowsAccount(v)
    BY <2>2, <2>4 DEF KnowsAccount
  <2> QED
    BY <1>1, <2>2, <2>3, <2>4, <2>5, VisitorReads
<1>5. CASE SignIn!TrustedSignIn(a)
  <2>1. PICK v : v = [visit[a] EXCEPT !.at = "save"]
    OBVIOUS
  <2>2. visit' = [visit EXCEPT ![a] = v] /\ visit[a].at = "verified"
    BY <1>5, <2>1 DEF SignIn!TrustedSignIn, SignIn!Goto
  <2>3. visit[a] \in SigningIn
    BY <1>2, <2>2, VisitFields
  <2>4. /\ v \in SigningIn /\ v.at = "save" /\ v.row = visit[a].row /\ v.proof = visit[a].proof
        /\ v.late = visit[a].late
    BY <2>1, <2>3 DEF SigningIn
  <2>5. KnowsAccount(v)
    BY <1>2, <2>2, <2>4 DEF KnowsAccount
  <2>6. v \in Visiting
    BY <2>4 DEF Visiting
  <2> QED
    BY <1>1, <2>2, <2>4, <2>5, <2>6, VisitorReads
<1>6. CASE SignIn!FindUser(a)
  <2>1. PICK v : v = [at |-> "save", row |-> account, proof |-> visit[a].proof, late |-> visit[a].late, coded |-> TRUE]
    OBVIOUS
  <2>2. visit' = [visit EXCEPT ![a] = v] /\ visit[a].at = "passed" /\ account.status = "active"
    BY <1>6, <2>1 DEF SignIn!FindUser, SignIn!SignsIn, SignIn!Goto, SignIn!Available
  <2>3. account # none /\ (visit[a].late \/ visit[a].proof = password)
    BY <1>2, <2>2 DEF KnowsAccount
  <2>4. visit[a].proof \in Nat /\ visit[a].late \in BOOLEAN
    BY <1>2, <2>2, VisitFields
  <2>5. v \in Visiting
    BY <2>1, <2>3, <2>4 DEF Visiting, SigningIn, AccountsOwnInv, AccountsTypeOK
  <2>6. v.at = "save" /\ v.row = account /\ v.proof = visit[a].proof /\ v.late = visit[a].late
    BY <2>1
  <2>7. KnowsAccount(v)
    BY <2>2, <2>3, <2>6 DEF KnowsAccount
  <2> QED
    BY <1>1, <2>2, <2>5, <2>6, <2>7, VisitorReads
<1>7. CASE SignIn!ReadSession(a)
  <2>1. PICK s \in Sessions :
            /\ visit' = [visit EXCEPT ![a] =
                   [at |-> "resolve", session |-> s, age |-> sessions[s].age, late |-> FALSE]]
            /\ visit[a].at = "idle" /\ sessions[s].state = "open"
    BY <1>7 DEF SignIn!ReadSession, SignIn!Goto, SignIn!Begin
  <2>2. sessions[s].age \in 0 .. 2 /\ account # none
    BY <2>1 DEF AccountsOwnInv, AccountsTypeOK, SignIn!Session, NothingBefore
  <2>3. PICK v : v = [at |-> "resolve", session |-> s, age |-> sessions[s].age, late |-> FALSE]
    OBVIOUS
  <2>4. v \in Visiting /\ v.at = "resolve"
    BY <2>2, <2>3 DEF Visiting
  <2>5. KnowsAccount(v)
    BY <2>2, <2>4 DEF KnowsAccount
  <2> QED
    BY <1>1, <2>1, <2>3, <2>4, <2>5, VisitorReads
<1>8. CASE SignIn!ResolveUser(a)
  <2>1. PICK v : v = IF visit[a].age = 0 THEN SignIn!Idle ELSE [visit[a] EXCEPT !.at = "touch"]
    OBVIOUS
  <2>2. visit' = [visit EXCEPT ![a] = v] /\ visit[a].at = "resolve" /\ visit[a].age # 2
    BY <1>8, <2>1 DEF SignIn!ResolveUser, SignIn!Goto, SignIn!TooLong
  <2>3. visit[a] \in [at : {"resolve", "touch"}, session : Sessions, age : 0 .. 2, late : BOOLEAN]
    BY <1>2, <2>2, VisitFields
  <2>4. account # none
    BY <1>2, <2>2 DEF KnowsAccount
  <2>5. CASE visit[a].age = 0
    <3>1. v \in Visiting \cup {SignIn!Idle} /\ v.at = "idle"
      BY <2>1, <2>5, AccountConstants
    <3>2. KnowsAccount(v)
      BY <3>1 DEF KnowsAccount
    <3> QED
      BY <1>1, <2>2, <3>1, <3>2, VisitorReads
  <2>6. CASE visit[a].age # 0
    <3>1. v = [visit[a] EXCEPT !.at = "touch"]
      BY <2>1, <2>6
    <3>2. /\ v \in [at : {"resolve", "touch"}, session : Sessions, age : 0 .. 2, late : BOOLEAN]
          /\ v.at = "touch" /\ v.age = visit[a].age
      BY <2>3, <3>1
    <3>3. v \in Visiting /\ KnowsAccount(v)
      BY <2>2, <2>4, <3>2 DEF Visiting, KnowsAccount
    <3> QED
      BY <1>1, <2>2, <3>2, <3>3, VisitorReads
  <2> QED
    BY <2>5, <2>6
<1>9. CASE SignIn!ReadLink(a)
  <2>1. PICK l \in Links : /\ visit' = [visit EXCEPT ![a] = [at |-> "reset", link |-> l, late |-> FALSE]]
                           /\ visit[a].at = "idle" /\ links[l] = "open"
    BY <1>9 DEF SignIn!ReadLink, SignIn!Goto, SignIn!Begin
  <2>2. account # none /\ uses[l] = 0
    BY <2>1 DEF AccountsOwnInv, NothingBefore, LinkRight
  <2>3. PICK v : v = [at |-> "reset", link |-> l, late |-> FALSE]
    OBVIOUS
  <2>4. v \in Visiting /\ v.at = "reset" /\ v.link = l
    BY <2>3 DEF Visiting
  <2>5. KnowsAccount(v)
    BY <2>2, <2>4 DEF KnowsAccount
  <2> QED
    BY <1>1, <2>1, <2>3, <2>4, <2>5, VisitorReads
<1>10. CASE SignIn!ReadUser(a)
  <2>1. PICK v : v = [at |-> "update", row |-> account, late |-> FALSE]
    OBVIOUS
  <2>2. visit' = [visit EXCEPT ![a] = v] /\ visit[a].at = "idle" /\ account # none
    BY <1>10, <2>1 DEF SignIn!ReadUser, SignIn!Goto, SignIn!Begin
  <2>3. v \in Visiting /\ v.at = "update"
    BY <2>1, <2>2 DEF Visiting, AccountsOwnInv, AccountsTypeOK
  <2>4. KnowsAccount(v)
    BY <2>2, <2>3 DEF KnowsAccount
  <2> QED
    BY <1>1, <2>2, <2>3, <2>4, VisitorReads
<1> QED
  BY <1>3, <1>4, <1>5, <1>6, <1>7, <1>8, <1>9, <1>10

\* Tables of an account change, and a request ends or goes on with what it knows.
LEMMA TablesMove ==
    ASSUME AccountsOwnInv, VisitsQuietly,
           visit' \in [Actors -> Visiting \cup {SignIn!Idle}],
           UNCHANGED <<account, password, factor, decided, rewritten, cut, uses>>,
           account # none \/ UNCHANGED <<links, sessions, devices, challenge, enrolment>>,
           invitations' \in [Invitations -> {"none", "open", "accepted", "expired"}],
           \A i \in Invitations : invitations'[i] = "accepted" => invitations[i] = "accepted",
           sessions' \in [Sessions -> SignIn!Session], \A s \in Sessions : SessionRight(s)',
           devices' \subseteq SignIn!Proof, \A d \in devices' : d.late \/ d.proof = password,
           challenge' \in SignIn!Proof \cup {none},
           challenge' # none => challenge'.late \/ challenge'.proof = password,
           links' \in [Links -> {"none", "open", "used", "expired"}],
           \A l \in Links : links'[l] \in {"none", "open"} => links[l] \in {"none", "open"},
           enrolment' \in BOOLEAN
    PROVE  AccountsOwnInv'
<1>1. AccountsTypeOK'
  BY DEF AccountsOwnInv, AccountsTypeOK
<1>2. NothingBefore'
  BY DEF AccountsOwnInv, NothingBefore
<1>3. AcceptedOnce'
  BY DEF AccountsOwnInv, AcceptedOnce
<1>4. \A l \in Links : LinkRight(l)'
  BY DEF AccountsOwnInv, LinkRight
<1> QED
  BY <1>1, <1>2, <1>3, <1>4, AccountStays

\* What is as it was is right.
LEMMA AsItWas ==
    ASSUME AccountsOwnInv, UNCHANGED <<account, password>>
    PROVE  /\ invitations' = invitations =>
                 /\ invitations' \in [Invitations -> {"none", "open", "accepted", "expired"}]
                 /\ \A i \in Invitations : invitations'[i] = "accepted" => invitations[i] = "accepted"
           /\ sessions' = sessions =>
                 sessions' \in [Sessions -> SignIn!Session] /\ \A s \in Sessions : SessionRight(s)'
           /\ devices' \subseteq devices =>
                 devices' \subseteq SignIn!Proof /\ \A d \in devices' : d.late \/ d.proof = password
           /\ challenge' \in {challenge, none} =>
                 /\ challenge' \in SignIn!Proof \cup {none}
                 /\ challenge' # none => challenge'.late \/ challenge'.proof = password
           /\ links' = links =>
                 /\ links' \in [Links -> {"none", "open", "used", "expired"}]
                 /\ \A l \in Links : links'[l] \in {"none", "open"} => links[l] \in {"none", "open"}
           /\ enrolment' \in {enrolment, FALSE} => enrolment' \in BOOLEAN
           /\ visit' = visit => visit' \in [Actors -> Visiting \cup {SignIn!Idle}] /\ VisitsQuietly
BY DEF AccountsOwnInv, AccountsTypeOK, SessionRight, VisitsQuietly

\* The request ends.
LEMMA VisitorEnds ==
    ASSUME AccountsOwnInv, NEW a \in Actors, visit' = [visit EXCEPT ![a] = SignIn!Idle],
           visit[a].at \notin {"insert", "flag"}
    PROVE  visit' \in [Actors -> Visiting \cup {SignIn!Idle}] /\ VisitsQuietly
<1>1. PICK v \in Visiting \cup {SignIn!Idle} : v = SignIn!Idle /\ v.at = "idle"
  BY AccountConstants
<1>2. KnowsAccount(v)'
  BY <1>1 DEF KnowsAccount
<1>3. VisitsQuietly
  BY <1>1, <1>2 DEF VisitsQuietly
<1> QED
  BY <1>3 DEF AccountsOwnInv, AccountsTypeOK

\* The request goes on with v.
LEMMA VisitorGoesOn ==
    ASSUME AccountsOwnInv, NEW a \in Actors, NEW v \in Visiting,
           visit' = [visit EXCEPT ![a] = v], KnowsAccount(v), UNCHANGED <<account, password, uses>>,
           v.at \notin {"insert", "flag"}, visit[a].at \notin {"insert", "flag"}
    PROVE  visit' \in [Actors -> Visiting \cup {SignIn!Idle}] /\ VisitsQuietly
<1>1. KnowsAccount(v)'
  BY DEF KnowsAccount
<1>2. VisitsQuietly
  BY <1>1 DEF VisitsQuietly
<1> QED
  BY <1>2 DEF AccountsOwnInv, AccountsTypeOK

\* Rows of sessions.
LEMMA SessionRows ==
    ASSUME AccountsOwnInv, NEW s \in Sessions
    PROVE  /\ sessions[s] \in SignIn!Session /\ sessions[s].state \in {"none", "open", "revoked"}
           /\ sessions[s].age \in 0 .. 2 /\ sessions[s].proof \in Nat
           /\ sessions[s].late \in BOOLEAN /\ sessions[s].lapsed \in BOOLEAN
           /\ SignIn!Revoked(sessions[s]) \in SignIn!Session
           /\ SignIn!Revoked(sessions[s]).state # "open"
<1>1. /\ sessions[s] \in SignIn!Session /\ sessions[s].state \in {"none", "open", "revoked"}
      /\ sessions[s].age \in 0 .. 2 /\ sessions[s].proof \in Nat
      /\ sessions[s].late \in BOOLEAN /\ sessions[s].lapsed \in BOOLEAN
  BY DEF AccountsOwnInv, AccountsTypeOK, SignIn!Session
<1>2. CASE sessions[s].state = "open"
  <2>1. SignIn!Revoked(sessions[s]) = [sessions[s] EXCEPT !.state = "revoked"]
    BY <1>2 DEF SignIn!Revoked
  <2> QED
    BY <1>1, <2>1 DEF SignIn!Session
<1>3. CASE sessions[s].state # "open"
  BY <1>1, <1>3 DEF SignIn!Revoked
<1> QED
  BY <1>1, <1>2, <1>3

\* One session is written.
LEMMA SessionWritten ==
    ASSUME AccountsOwnInv, NEW s \in Sessions, NEW row \in SignIn!Session,
           sessions' = [sessions EXCEPT ![s] = row], UNCHANGED <<account, password>>,
           row.state = "open" /\ ~row.late =>
               /\ row.proof = password /\ account.status = "active"
               /\ row.lapsed => row.age = 2
    PROVE  sessions' \in [Sessions -> SignIn!Session] /\ \A z \in Sessions : SessionRight(z)'
<1>1. /\ sessions'[s] = row /\ \A z \in Sessions : z # s => sessions'[z] = sessions[z]
      /\ sessions' \in [Sessions -> SignIn!Session]
  BY DEF AccountsOwnInv, AccountsTypeOK
<1>2. ASSUME NEW z \in Sessions PROVE SessionRight(z)'
  <2>1. CASE z = s
    BY <1>1, <2>1 DEF SessionRight
  <2>2. CASE z # s
    BY <1>1, <2>2 DEF AccountsOwnInv, SessionRight
  <2> QED
    BY <2>1, <2>2
<1> QED
  BY <1>1, <1>2

LEMMA InvitingKeepsAccounts ==
    ASSUME AccountsOwnInv, NEW a \in Actors, SignIn!CreateInvitation(a)
    PROVE  AccountsOwnInv'
<1>1. PICK i \in Invitations : invitations' = [invitations EXCEPT ![i] = "open"]
  BY DEF SignIn!CreateInvitation
<1>2. UNCHANGED <<account, password, links, sessions, devices, challenge, enrolment, factor,
                  visit, decided, rewritten, cut, uses>>
  BY DEF SignIn!CreateInvitation
<1>3. /\ invitations' \in [Invitations -> {"none", "open", "accepted", "expired"}]
      /\ \A j \in Invitations : invitations'[j] = "accepted" => invitations[j] = "accepted"
  BY <1>1 DEF AccountsOwnInv, AccountsTypeOK
<1> QED
  BY <1>2, <1>3, AsItWas, TablesMove

LEMMA ChallengesKeepAccounts ==
    ASSUME AccountsOwnInv, NEW a \in Actors,
           SignIn!IssueLoginChallenge(a) \/ SignIn!VerifyLoginChallenge(a)
    PROVE  AccountsOwnInv'
<1>1. CASE SignIn!IssueLoginChallenge(a)
  <2>1. /\ visit[a].at = "verified" /\ visit' = [visit EXCEPT ![a] = SignIn!Idle]
        /\ challenge' = [proof |-> visit[a].proof, late |-> visit[a].late]
        /\ UNCHANGED <<account, password, invitations, links, sessions, devices, enrolment, factor,
                       decided, rewritten, cut, uses>>
    BY <1>1 DEF SignIn!IssueLoginChallenge, SignIn!Goto
  <2>2. /\ visit[a].proof \in Nat /\ visit[a].late \in BOOLEAN
        /\ visit[a].late \/ visit[a].proof = password
        /\ account # none
    BY <2>1, Visitors, VisitFields DEF SigningIn, KnowsAccount
  <2>3. challenge' \in SignIn!Proof /\ (challenge'.late \/ challenge'.proof = password)
    BY <2>1, <2>2 DEF SignIn!Proof
  <2>4. VisitsQuietly /\ visit' \in [Actors -> Visiting \cup {SignIn!Idle}]
    BY <2>1, VisitorEnds
  <2> QED
    BY <2>1, <2>2, <2>3, <2>4, AsItWas, TablesMove
<1>2. CASE SignIn!VerifyLoginChallenge(a)
  <2>1. PICK v : v = [at |-> "passed", proof |-> challenge.proof, late |-> challenge.late]
    OBVIOUS
  <2>2. /\ visit[a].at = "idle" /\ visit' = [visit EXCEPT ![a] = v]
        /\ challenge # none /\ challenge' = none
        /\ UNCHANGED <<account, password, invitations, links, sessions, devices, enrolment, factor,
                       decided, rewritten, cut, uses>>
    BY <1>2, <2>1 DEF SignIn!VerifyLoginChallenge, SignIn!Goto, SignIn!Begin
  <2>3. /\ challenge \in SignIn!Proof /\ (challenge.late \/ challenge.proof = password)
        /\ account # none
    BY <2>2 DEF AccountsOwnInv, AccountsTypeOK, NothingBefore
  <2>4. v \in Visiting /\ v.at = "passed" /\ v.proof = challenge.proof /\ v.late = challenge.late
    BY <2>1, <2>3 DEF Visiting, SignIn!Proof
  <2>5. KnowsAccount(v)
    BY <2>3, <2>4 DEF KnowsAccount
  <2>6. VisitsQuietly /\ visit' \in [Actors -> Visiting \cup {SignIn!Idle}]
    BY <2>2, <2>4, <2>5, VisitorGoesOn
  <2> QED
    BY <2>2, <2>3, <2>6, AsItWas, TablesMove
<1> QED
  BY <1>1, <1>2

LEMMA SessionsKeepAccounts ==
    ASSUME AccountsOwnInv, NEW a \in Actors,
           SignIn!CreateSession(a) \/ SignIn!RevokeIdle(a) \/ SignIn!TouchSession(a) \/ SignIn!RevokeSession(a)
    PROVE  AccountsOwnInv'
<1>1. UNCHANGED <<account, password, invitations, links, devices, challenge, enrolment, factor,
                  decided, rewritten, cut, uses>>
  BY DEF SignIn!CreateSession, SignIn!RevokeIdle, SignIn!TouchSession, SignIn!RevokeSession
<1>2. visit[a] \in Visiting \cup {SignIn!Idle} /\ KnowsAccount(visit[a])
  BY Visitors
<1>3. CASE SignIn!CreateSession(a)
  <2>1. PICK s \in Sessions :
            /\ visit[a].at = "open"
            /\ sessions' = [sessions EXCEPT ![s] = [SignIn!NoSession EXCEPT
                                !.state = "open", !.proof = visit[a].proof, !.late = visit[a].late]]
    BY <1>3 DEF SignIn!CreateSession
  <2>2. visit[a] \in SigningIn /\ account # none
    BY <1>2, <2>1, VisitFields DEF KnowsAccount
  <2>3. PICK row : row = [SignIn!NoSession EXCEPT
                              !.state = "open", !.proof = visit[a].proof, !.late = visit[a].late]
    OBVIOUS
  <2>4. row = [state |-> "open", age |-> 0, proof |-> visit[a].proof, late |-> visit[a].late, lapsed |-> FALSE]
    BY <2>3 DEF SignIn!NoSession
  <2>5. row \in SignIn!Session
    BY <2>2, <2>4 DEF SignIn!Session, SigningIn
  <2>6. row.state = "open" /\ ~row.late =>
            /\ row.proof = password /\ account.status = "active"
            /\ row.lapsed => row.age = 2
    BY <1>2, <2>1, <2>4 DEF KnowsAccount
  <2>7. sessions' \in [Sessions -> SignIn!Session] /\ \A z \in Sessions : SessionRight(z)'
    BY <1>1, <2>1, <2>3, <2>5, <2>6, SessionWritten
  <2>8. PICK v : v = [visit[a] EXCEPT !.at = "remember"]
    OBVIOUS
  <2>9. /\ v \in Visiting /\ v.at = "remember" /\ v.proof = visit[a].proof /\ v.late = visit[a].late
    BY <2>2, <2>8 DEF Visiting, SigningIn
  <2>10. KnowsAccount(v)
    BY <1>2, <2>1, <2>2, <2>9 DEF KnowsAccount
  <2>11. VisitsQuietly /\ visit' \in [Actors -> Visiting \cup {SignIn!Idle}]
    <3>1. visit' = [visit EXCEPT ![a] = v] \/ visit' = [visit EXCEPT ![a] = SignIn!Idle]
      BY <1>3, <2>8 DEF SignIn!CreateSession, SignIn!Goto
    <3>2. CASE visit' = [visit EXCEPT ![a] = v]
      BY <1>1, <2>1, <2>9, <2>10, <3>2, VisitorGoesOn
    <3>3. CASE visit' = [visit EXCEPT ![a] = SignIn!Idle]
      BY <2>1, <3>3, VisitorEnds
    <3> QED
      BY <3>1, <3>2, <3>3
  <2> QED
    BY <1>1, <2>2, <2>7, <2>11, AsItWas, TablesMove
<1>4. CASE SignIn!RevokeIdle(a)
  <2>1. PICK s : s = visit[a].session
    OBVIOUS
  <2>2. /\ visit[a].at = "resolve" /\ visit' = [visit EXCEPT ![a] = SignIn!Idle]
        /\ sessions' = [sessions EXCEPT ![s] = SignIn!Revoked(sessions[s])]
    BY <1>4, <2>1 DEF SignIn!RevokeIdle, SignIn!Goto
  <2>3. s \in Sessions /\ account # none
    BY <1>2, <2>1, <2>2, VisitFields DEF KnowsAccount
  <2>4. PICK row : row = SignIn!Revoked(sessions[s])
    OBVIOUS
  <2>5. row \in SignIn!Session /\ row.state # "open"
    BY <2>3, <2>4, SessionRows
  <2>6. sessions' \in [Sessions -> SignIn!Session] /\ \A z \in Sessions : SessionRight(z)'
    BY <1>1, <2>2, <2>3, <2>4, <2>5, SessionWritten
  <2>7. VisitsQuietly /\ visit' \in [Actors -> Visiting \cup {SignIn!Idle}]
    BY <2>2, VisitorEnds
  <2> QED
    BY <1>1, <2>3, <2>6, <2>7, AsItWas, TablesMove
<1>5. CASE SignIn!TouchSession(a)
  <2>1. PICK s : s = visit[a].session
    OBVIOUS
  <2>2. PICK late \in BOOLEAN : late = (sessions[s].late \/ sessions[s].age # visit[a].age)
    OBVIOUS
  <2>3. /\ visit[a].at = "touch" /\ visit' = [visit EXCEPT ![a] = SignIn!Idle]
        /\ sessions' = [sessions EXCEPT ![s] = [sessions[s] EXCEPT !.age = 0, !.late = late]]
    BY <1>5, <2>1, <2>2 DEF SignIn!TouchSession, SignIn!Goto
  <2>4. s \in Sessions /\ account # none /\ visit[a].age # 2
    BY <1>2, <2>1, <2>3, VisitFields DEF KnowsAccount
  <2>5. PICK row : row = [sessions[s] EXCEPT !.age = 0, !.late = late]
    OBVIOUS
  <2>6. /\ row \in SignIn!Session /\ row.state = sessions[s].state /\ row.late = late
        /\ row.proof = sessions[s].proof /\ row.lapsed = sessions[s].lapsed
    <3>1. sessions[s] \in SignIn!Session /\ late \in BOOLEAN /\ 0 \in 0 .. 2
      BY <2>2, <2>4, SessionRows
    <3> QED
      BY <2>5, <3>1 DEF SignIn!Session
  <2>7. ASSUME row.state = "open", ~row.late
        PROVE  row.proof = password /\ account.status = "active" /\ ~row.lapsed
    <3>1. sessions[s].state = "open" /\ ~sessions[s].late /\ sessions[s].age # 2
      BY <2>2, <2>4, <2>6, <2>7
    <3>2. SessionRight(s)
      BY <2>4 DEF AccountsOwnInv
    <3> QED
      BY <2>6, <3>1, <3>2 DEF SessionRight
  <2>8. sessions' \in [Sessions -> SignIn!Session] /\ \A z \in Sessions : SessionRight(z)'
    BY <1>1, <2>3, <2>4, <2>5, <2>6, <2>7, SessionWritten
  <2>9. VisitsQuietly /\ visit' \in [Actors -> Visiting \cup {SignIn!Idle}]
    BY <2>3, VisitorEnds
  <2> QED
    BY <1>1, <2>4, <2>8, <2>9, AsItWas, TablesMove
<1>6. CASE SignIn!RevokeSession(a)
  <2>1. PICK s \in Sessions :
            sessions[s].state = "open" /\ sessions' = [sessions EXCEPT ![s] = SignIn!Revoked(sessions[s])]
    BY <1>6 DEF SignIn!RevokeSession
  <2>2. account # none
    BY <2>1 DEF AccountsOwnInv, NothingBefore
  <2>3. PICK row : row = SignIn!Revoked(sessions[s])
    OBVIOUS
  <2>4. row \in SignIn!Session /\ row.state # "open"
    BY <2>3, SessionRows
  <2>5. sessions' \in [Sessions -> SignIn!Session] /\ \A z \in Sessions : SessionRight(z)'
    BY <1>1, <2>1, <2>3, <2>4, SessionWritten
  <2>6. visit' = visit
    BY <1>6 DEF SignIn!RevokeSession
  <2> QED
    BY <1>1, <2>2, <2>5, <2>6, AsItWas, TablesMove
<1> QED
  BY <1>3, <1>4, <1>5, <1>6

LEMMA AgeKeepsAccounts ==
    ASSUME AccountsOwnInv, SignIn!Age
    PROVE  AccountsOwnInv'
<1>1. UNCHANGED <<account, password, invitations, links, devices, challenge, enrolment, factor,
                  visit, decided, rewritten, cut, uses>>
  BY DEF SignIn!Age
<1>2. PICK s \in Sessions :
          /\ sessions[s].state = "open" /\ sessions[s].age < 2
          /\ sessions' = [sessions EXCEPT ![s].age = sessions[s].age + 1,
                                          ![s].lapsed = sessions[s].lapsed \/ sessions[s].age = 1]
  BY DEF SignIn!Age
<1>3. PICK age : age = sessions[s].age + 1
  OBVIOUS
<1>4. PICK lapsed \in BOOLEAN : lapsed = (sessions[s].lapsed \/ sessions[s].age = 1)
  OBVIOUS
<1>5. /\ sessions[s].state = "open" /\ sessions[s].age < 2
      /\ sessions' = [sessions EXCEPT ![s] = [sessions[s] EXCEPT !.age = age, !.lapsed = lapsed]]
  BY <1>2, <1>3, <1>4
<1>6. PICK row : row = [sessions[s] EXCEPT !.age = age, !.lapsed = lapsed]
  OBVIOUS
<1>7. age \in 0 .. 2 /\ lapsed \in BOOLEAN
  BY <1>3, <1>5, <1>4, SessionRows
<1>8. /\ row \in SignIn!Session /\ row.state = "open" /\ row.late = sessions[s].late
      /\ row.proof = sessions[s].proof /\ row.age = age /\ row.lapsed = lapsed
  BY <1>5, <1>6, <1>7, SessionRows DEF SignIn!Session
<1>9. ASSUME ~row.late PROVE row.proof = password /\ account.status = "active" /\ (row.lapsed => row.age = 2)
  <2>1. SessionRight(s)
    BY DEF AccountsOwnInv
  <2>2. row.proof = password /\ account.status = "active" /\ (sessions[s].lapsed => sessions[s].age = 2)
    BY <1>5, <1>8, <1>9, <2>1 DEF SessionRight
  <2>3. ~sessions[s].lapsed
    BY <1>5, <2>2, SessionRows
  <2>4. lapsed => sessions[s].age = 1
    BY <1>4, <2>3
  <2>5. lapsed => age = 2
    BY <1>3, <2>4
  <2> QED
    BY <1>8, <2>2, <2>5
<1>10. sessions' = [sessions EXCEPT ![s] = row]
  BY <1>5, <1>6
<1>11. sessions' \in [Sessions -> SignIn!Session] /\ \A z \in Sessions : SessionRight(z)'
  BY <1>1, <1>8, <1>9, <1>10, SessionWritten
<1>12. account # none
  BY <1>5 DEF AccountsOwnInv, NothingBefore
<1> QED
  BY <1>1, <1>11, <1>12, AsItWas, TablesMove

LEMMA DevicesKeepAccounts ==
    ASSUME AccountsOwnInv, NEW a \in Actors,
           \/ SignIn!CreateTrustedDevice(a) \/ SignIn!RevokeTrustedDevice(a)
           \/ SignIn!RequestPasswordReset(a) \/ SignIn!BeginEnrollment(a) \/ SignIn!ConsumeEnrolment(a)
    PROVE  AccountsOwnInv'
<1>1. UNCHANGED <<account, password, invitations, sessions, challenge, factor, decided, rewritten, cut, uses>>
  BY DEF SignIn!CreateTrustedDevice, SignIn!RevokeTrustedDevice, SignIn!RequestPasswordReset,
     SignIn!BeginEnrollment, SignIn!ConsumeEnrolment
<1>2. visit[a] \in Visiting \cup {SignIn!Idle} /\ KnowsAccount(visit[a])
  BY Visitors
<1>3. CASE SignIn!CreateTrustedDevice(a)
  <2>1. PICK d : d = [proof |-> visit[a].proof, late |-> visit[a].late]
    OBVIOUS
  <2>2. /\ visit[a].at = "remember" /\ visit' = [visit EXCEPT ![a] = SignIn!Idle]
        /\ devices' = devices \cup {d}
        /\ UNCHANGED <<links, enrolment>>
    BY <1>3, <2>1 DEF SignIn!CreateTrustedDevice, SignIn!Goto
  <2>3. /\ account # none /\ visit[a].proof \in Nat /\ visit[a].late \in BOOLEAN
        /\ visit[a].late \/ visit[a].proof = password
    BY <1>2, <2>2, VisitFields DEF KnowsAccount
  <2>4. d \in SignIn!Proof /\ (d.late \/ d.proof = password)
    BY <2>1, <2>3 DEF SignIn!Proof
  <2>5. devices' \subseteq SignIn!Proof /\ \A e \in devices' : e.late \/ e.proof = password
    BY <2>2, <2>4 DEF AccountsOwnInv, AccountsTypeOK
  <2>6. VisitsQuietly /\ visit' \in [Actors -> Visiting \cup {SignIn!Idle}]
    BY <2>2, VisitorEnds
  <2> QED
    BY <1>1, <2>2, <2>3, <2>5, <2>6, AsItWas, TablesMove
<1>4. CASE SignIn!RevokeTrustedDevice(a)
  <2>1. devices' \subseteq devices /\ UNCHANGED <<links, enrolment, visit>> /\ devices # {}
    BY <1>4 DEF SignIn!RevokeTrustedDevice
  <2>2. account # none
    BY <2>1 DEF AccountsOwnInv, NothingBefore
  <2> QED
    BY <1>1, <2>1, <2>2, AsItWas, TablesMove
<1>5. CASE SignIn!RequestPasswordReset(a)
  <2>1. PICK l \in Links : links[l] = "none" /\ links' = [links EXCEPT ![l] = "open"]
    BY <1>5 DEF SignIn!RequestPasswordReset
  <2>2. UNCHANGED <<devices, enrolment, visit>> /\ account # none
    BY <1>5 DEF SignIn!RequestPasswordReset
  <2>3. /\ links' \in [Links -> {"none", "open", "used", "expired"}]
        /\ \A k \in Links : links'[k] \in {"none", "open"} => links[k] \in {"none", "open"}
    BY <2>1 DEF AccountsOwnInv, AccountsTypeOK
  <2> QED
    BY <1>1, <2>2, <2>3, AsItWas, TablesMove
<1>6. CASE SignIn!BeginEnrollment(a)
  <2>1. UNCHANGED <<links, devices, visit>> /\ account # none /\ enrolment' = TRUE
    BY <1>6 DEF SignIn!BeginEnrollment
  <2>2. enrolment' \in BOOLEAN
    BY <2>1
  <2> QED
    BY <1>1, <2>1, <2>2, AsItWas, TablesMove
<1>7. CASE SignIn!ConsumeEnrolment(a)
  <2>1. PICK v : v = [at |-> "disable", proof |-> password, late |-> FALSE]
    OBVIOUS
  <2>2. /\ UNCHANGED <<links, devices>> /\ enrolment' = FALSE /\ enrolment
        /\ visit[a].at = "idle" /\ visit' = [visit EXCEPT ![a] = v]
    BY <1>7, <2>1 DEF SignIn!ConsumeEnrolment, SignIn!Goto, SignIn!Begin
  <2>3. account # none /\ password \in Nat
    BY <2>2 DEF AccountsOwnInv, AccountsTypeOK, NothingBefore
  <2>4. v \in Visiting /\ v.at = "disable" /\ v.proof = password
    BY <2>1, <2>3 DEF Visiting, Enrolling
  <2>5. KnowsAccount(v)
    BY <2>3, <2>4 DEF KnowsAccount
  <2>6. VisitsQuietly /\ visit' \in [Actors -> Visiting \cup {SignIn!Idle}]
    BY <1>1, <2>2, <2>4, <2>5, VisitorGoesOn
  <2>7. enrolment' \in BOOLEAN
    BY <2>2
  <2> QED
    BY <1>1, <2>2, <2>3, <2>6, <2>7, AsItWas, TablesMove
<1> QED
  BY <1>3, <1>4, <1>5, <1>6, <1>7

LEMMA ExpiryKeepsAccounts ==
    ASSUME AccountsOwnInv, SignIn!Expire
    PROVE  AccountsOwnInv'
<1>1. UNCHANGED <<account, password, factor, visit, decided, rewritten, cut, uses>>
  BY DEF SignIn!Expire
<1>2. CASE /\ \E i \in Invitations : invitations[i] = "open" /\ invitations' = [invitations EXCEPT ![i] = "expired"]
           /\ UNCHANGED <<links, sessions, devices, challenge, enrolment>>
  <2>1. /\ invitations' \in [Invitations -> {"none", "open", "accepted", "expired"}]
        /\ \A j \in Invitations : invitations'[j] = "accepted" => invitations[j] = "accepted"
    BY <1>2 DEF AccountsOwnInv, AccountsTypeOK
  <2> QED
    BY <1>1, <1>2, <2>1, AsItWas, TablesMove
<1>3. CASE /\ \E l \in Links : links[l] = "open" /\ links' = [links EXCEPT ![l] = "expired"]
           /\ UNCHANGED <<invitations, sessions, devices, challenge, enrolment>>
  <2>1. /\ links' \in [Links -> {"none", "open", "used", "expired"}]
        /\ \A k \in Links : links'[k] \in {"none", "open"} => links[k] \in {"none", "open"}
    BY <1>3 DEF AccountsOwnInv, AccountsTypeOK
  <2>2. account # none
    BY <1>3 DEF AccountsOwnInv, NothingBefore
  <2> QED
    BY <1>1, <1>3, <2>1, <2>2, AsItWas, TablesMove
<1>4. CASE /\ challenge' \in {challenge, none} /\ enrolment' \in {enrolment, FALSE}
           /\ devices' \in SUBSET devices
           /\ UNCHANGED <<invitations, links, sessions>>
  <2>1. account # none \/ UNCHANGED <<links, sessions, devices, challenge, enrolment>>
    BY <1>4 DEF AccountsOwnInv, AccountsTypeOK, NothingBefore
  <2>2. devices' \subseteq devices
    BY <1>4
  <2> QED
    BY <1>1, <1>4, <2>1, <2>2, AsItWas, TablesMove
<1> QED
  BY <1>2, <1>3, <1>4 DEF SignIn!Expire

--------------------------------------------------------------------------------

\* The factor is about to be inserted, inserted or given up.
LEMMA FactorKeepsAccounts ==
    ASSUME AccountsOwnInv, NEW a \in Actors,
           SignIn!DisableFactor(a) \/ SignIn!InsertFactor(a) \/ SignIn!Fail(a)
    PROVE  AccountsOwnInv'
<1>1. UNCHANGED <<account, password, invitations, links, sessions, devices, challenge, enrolment,
                  decided, rewritten, uses>>
  BY DEF SignIn!DisableFactor, SignIn!InsertFactor, SignIn!Fail
<1>2. visit[a] \in Visiting \cup {SignIn!Idle} /\ KnowsAccount(visit[a])
  BY Visitors
<1>3. PICK v \in Visiting \cup {SignIn!Idle} : KnowsAccount(v) /\ visit' = [visit EXCEPT ![a] = v]
  <2>1. ASSUME visit[a].at \in {"disable", "insert"}, NEW step \in {"insert", "flag"},
               visit' = [visit EXCEPT ![a] = [visit[a] EXCEPT !.at = step]]
        PROVE  \E v \in Visiting \cup {SignIn!Idle} : KnowsAccount(v) /\ visit' = [visit EXCEPT ![a] = v]
    <3>1. PICK v : v = [visit[a] EXCEPT !.at = step]
      OBVIOUS
    <3>2. visit[a] \in Enrolling
      BY <1>2, <2>1, VisitFields
    <3>3. v \in Visiting /\ v.at = step /\ v.proof = visit[a].proof /\ v.late = visit[a].late
      BY <2>1, <3>1, <3>2 DEF Visiting, Enrolling
    <3>4. KnowsAccount(v)
      BY <1>2, <2>1, <3>3 DEF KnowsAccount
    <3> QED
      BY <2>1, <3>1, <3>3, <3>4
  <2>2. KnowsAccount(SignIn!Idle)
    BY AccountConstants DEF KnowsAccount
  <2>3. CASE SignIn!DisableFactor(a)
    BY <2>1, <2>3 DEF SignIn!DisableFactor, SignIn!Goto
  <2>4. CASE SignIn!InsertFactor(a)
    BY <2>1, <2>4 DEF SignIn!InsertFactor, SignIn!Goto
  <2>5. CASE SignIn!Fail(a)
    BY <2>2, <2>5 DEF SignIn!Fail, SignIn!Goto
  <2> QED
    BY <2>3, <2>4, <2>5
<1>4. visit'[a] = v /\ \A b \in Actors : b # a => visit'[b] = visit[b]
  BY <1>3 DEF AccountsOwnInv, AccountsTypeOK
<1>5. ASSUME NEW b \in Actors PROVE KnowsAccount(visit[b])'
  <2>1. PICK w : w = visit'[b] /\ (w = v \/ w = visit[b])
    BY <1>4
  <2>2. KnowsAccount(w)
    BY <1>3, <2>1 DEF AccountsOwnInv
  <2>3. KnowsAccount(w)'
    BY <1>1, <2>2 DEF KnowsAccount
  <2> QED
    BY <2>1, <2>3
<1>6. factor' \in BOOLEAN /\ cut' \in BOOLEAN /\ (visit[a].at \in {"disable", "insert"} \/ factor' = factor)
  BY DEF AccountsOwnInv, AccountsTypeOK, SignIn!DisableFactor, SignIn!InsertFactor, SignIn!Fail
<1>7. AccountsTypeOK'
  BY <1>1, <1>3, <1>6 DEF AccountsOwnInv, AccountsTypeOK
<1>8. NothingBefore'
  <2>1. visit[a].at \in {"disable", "insert"} => account # none
    BY <1>2 DEF KnowsAccount
  <2> QED
    BY <1>1, <1>6, <2>1 DEF AccountsOwnInv, NothingBefore
<1>9. RowFollows'
  <2> SUFFICES ASSUME account # none, ~rewritten, ~cut' PROVE EnrolledAsFactor'
    BY <1>1 DEF AccountsOwnInv, RowFollows, SignIn!Decision
  <2>1. CASE SignIn!DisableFactor(a)
    <3>1. factor' = FALSE /\ visit'[a].at = "insert"
      <4>1. visit[a] \in Enrolling
        BY <1>2, <2>1, VisitFields DEF SignIn!DisableFactor
      <4> QED
        BY <2>1, <4>1 DEF SignIn!DisableFactor, SignIn!Goto, Enrolling, AccountsOwnInv, AccountsTypeOK
    <3> QED
      BY <3>1 DEF EnrolledAsFactor, SomeAt
  <2>2. CASE SignIn!InsertFactor(a)
    <3>1. factor' = TRUE /\ visit'[a].at = "flag"
      <4>1. visit[a] \in Enrolling
        BY <1>2, <2>2, VisitFields DEF SignIn!InsertFactor
      <4> QED
        BY <2>2, <4>1 DEF SignIn!InsertFactor, SignIn!Goto, Enrolling, AccountsOwnInv, AccountsTypeOK
    <3> QED
      BY <3>1 DEF EnrolledAsFactor, SomeAt
  <2>3. CASE SignIn!Fail(a)
    <3>1. ~cut /\ visit[a].at # "flag" /\ (visit[a].at = "insert" => factor) /\ factor' = factor
      BY <2>3 DEF SignIn!Fail
    <3>2. visit'[a].at = "idle"
      BY <2>3, AccountConstants DEF SignIn!Fail, SignIn!Goto, AccountsOwnInv, AccountsTypeOK
    <3>3. EnrolledAsFactor
      BY <3>1 DEF AccountsOwnInv, RowFollows
    <3>4. SomeAt("flag")' <=> SomeAt("flag")
      BY <1>4, <3>1, <3>2 DEF SomeAt
    <3>5. ~factor => (SomeAt("insert")' <=> SomeAt("insert"))
      BY <1>4, <3>1, <3>2 DEF SomeAt
    <3> QED
      BY <1>1, <3>1, <3>3, <3>4, <3>5 DEF EnrolledAsFactor
  <2> QED
    BY <2>1, <2>2, <2>3
<1>10. AcceptedOnce' /\ (\A s \in Sessions : SessionRight(s)') /\ (\A l \in Links : LinkRight(l)')
  BY <1>1 DEF AccountsOwnInv, AcceptedOnce, SessionRight, LinkRight
<1>11. /\ \A d \in devices' : d.late \/ d.proof = password'
       /\ challenge' # none => challenge'.late \/ challenge'.proof = password'
  BY <1>1 DEF AccountsOwnInv
<1> QED
  BY <1>5, <1>7, <1>8, <1>9, <1>10, <1>11 DEF AccountsOwnInv

--------------------------------------------------------------------------------
(* The row of the account is written *)

LEMMA AcceptanceKeepsAccounts ==
    ASSUME AccountsOwnInv, NEW a \in Actors, SignIn!AcceptInvitation(a)
    PROVE  AccountsOwnInv'
<1>1. /\ visit[a].at = "accept" /\ visit' = [visit EXCEPT ![a] = SignIn!Idle]
      /\ UNCHANGED <<links, sessions, devices, challenge, enrolment, factor, rewritten, cut, uses>>
  BY DEF SignIn!AcceptInvitation, SignIn!Goto
<1>2. CASE account # none
  <2>1. UNCHANGED <<account, password, invitations, decided>>
    BY <1>2 DEF SignIn!AcceptInvitation, SignIn!AddressIsFree
  <2>2. VisitsQuietly /\ visit' \in [Actors -> Visiting \cup {SignIn!Idle}]
    BY <1>1, VisitorEnds
  <2> QED
    BY <1>1, <1>2, <2>1, <2>2, AsItWas, TablesMove
<1>3. CASE account = none
  <2>1. PICK required \in BOOLEAN :
            /\ account' = [status |-> "active", required |-> required, enrolled |-> FALSE]
            /\ password' = 1
            /\ invitations' = [invitations EXCEPT ![visit[a].invitation] = "accepted"]
            /\ decided' = SignIn!Decision(account')
    BY <1>3 DEF SignIn!AcceptInvitation, SignIn!AddressIsFree
  <2>2. account' \in SignIn!Account /\ account' # none /\ ~account'.enrolled /\ password' \in Nat
    <3>1. account' \in SignIn!Account /\ ~account'.enrolled /\ 1 \in Nat
      BY <2>1 DEF SignIn!Account
    <3> QED
      BY <2>1, <3>1, AccountConstants
  <2>3. /\ \A i \in Invitations : invitations[i] # "accepted"
        /\ \A l \in Links : links[l] = "none"
        /\ \A s \in Sessions : sessions[s].state # "open"
        /\ devices = {} /\ challenge = none /\ ~enrolment /\ ~factor
    BY <1>3 DEF AccountsOwnInv, NothingBefore
  <2>4. ASSUME NEW b \in Actors
        PROVE  visit'[b] \in Visiting \cup {SignIn!Idle} /\ visit'[b].at \in {"idle", "accept"}
    <3>1. CASE b = a
      BY <1>1, <3>1, AccountConstants DEF AccountsOwnInv, AccountsTypeOK
    <3>2. CASE b # a
      <4>1. visit[b] \in Visiting \cup {SignIn!Idle} /\ KnowsAccount(visit[b])
        BY Visitors
      <4>2. visit'[b] = visit[b]
        BY <1>1, <3>2 DEF AccountsOwnInv, AccountsTypeOK
      <4> QED
        BY <1>3, <4>1, <4>2 DEF KnowsAccount
    <3> QED
      BY <3>1, <3>2
  <2>5. visit[a].invitation \in Invitations
    BY <1>1, Visitors, VisitFields
  <2>6. AccountsTypeOK'
    <3>1. visit' \in [Actors -> Visiting \cup {SignIn!Idle}]
      BY <1>1 DEF AccountsOwnInv, AccountsTypeOK
    <3>2. invitations' \in [Invitations -> {"none", "open", "accepted", "expired"}]
      BY <2>1 DEF AccountsOwnInv, AccountsTypeOK
    <3> QED
      BY <1>1, <2>2, <3>1, <3>2 DEF AccountsOwnInv, AccountsTypeOK
  <2>7. \A b \in Actors : KnowsAccount(visit[b])'
    BY <2>4 DEF KnowsAccount
  <2>8. NothingBefore' /\ (\A s \in Sessions : SessionRight(s)') /\ (\A l \in Links : LinkRight(l)')
    BY <1>1, <2>2, <2>3 DEF AccountsOwnInv, NothingBefore, SessionRight, LinkRight
  <2>9. AcceptedOnce'
    BY <2>1, <2>3 DEF AccountsOwnInv, AccountsTypeOK, AcceptedOnce
  <2>10. RowFollows'
    <3>1. ~SomeAt("insert")' /\ ~SomeAt("flag")'
      BY <2>4 DEF SomeAt
    <3>2. EnrolledAsFactor'
      BY <1>1, <2>2, <2>3, <3>1 DEF EnrolledAsFactor
    <3>3. SignIn!Decision(account)' = decided'
      BY <2>1
    <3> QED
      BY <3>2, <3>3 DEF RowFollows
  <2>11. devices' = {} /\ challenge' = none
    BY <1>1, <2>3
  <2> QED
    BY <2>6, <2>7, <2>8, <2>9, <2>10, <2>11 DEF AccountsOwnInv
<1> QED
  BY <1>2, <1>3

\* What is overtaken still knows where it is, and that it was.
LEMMA Overtaken ==
    ASSUME NEW v \in Visiting, NEW w, w = [v EXCEPT !.late = TRUE]
    PROVE  /\ w \in Visiting /\ w.at = v.at /\ w.late
           /\ v.at \in {"verified", "save"} => w.row = v.row
           /\ v.at = "touch" => w.age = v.age
           /\ v.at # "idle"
BY DEF Visiting, SigningIn, Enrolling

LEMMA OthersOvertaken ==
    ASSUME AccountsOwnInv, NEW a \in Actors, NEW v \in Visiting \cup {SignIn!Idle},
           SignIn!Overtaking(a, v), KnowsAccount(v)', account # none => account' # none
    PROVE  /\ visit' \in [Actors -> Visiting \cup {SignIn!Idle}]
           /\ visit'[a] = v /\ \A b \in Actors \ {a} : visit'[b].at = visit[b].at
           /\ \A b \in Actors : KnowsAccount(visit[b])'
<1>1. /\ visit' = [b \in Actors |-> IF b = a THEN v ELSE
                        IF visit[b].at = "idle" THEN SignIn!Idle ELSE [visit[b] EXCEPT !.late = TRUE]]
  BY DEF SignIn!Overtaking
<1>2. visit'[a] = v
  BY <1>1
<1>3. ASSUME NEW b \in Actors \ {a}
      PROVE  \E w \in Visiting \cup {SignIn!Idle} :
                 visit'[b] = w /\ w.at = visit[b].at /\ KnowsAccount(w)'
  <2>1. visit[b] \in Visiting \cup {SignIn!Idle} /\ KnowsAccount(visit[b])
    BY Visitors
  <2>2. CASE visit[b].at = "idle"
    <3>1. visit'[b] = SignIn!Idle /\ SignIn!Idle.at = "idle"
      BY <1>1, <1>3, <2>2, AccountConstants
    <3>2. KnowsAccount(SignIn!Idle)'
      BY <3>1 DEF KnowsAccount, SignIn!Idle
    <3> QED
      BY <2>2, <3>1, <3>2
  <2>3. CASE visit[b].at # "idle"
    <3>1. visit[b] \in Visiting
      BY <2>1, <2>3, AccountConstants
    <3>2. PICK w : w = [visit[b] EXCEPT !.late = TRUE]
      OBVIOUS
    <3>3. /\ w \in Visiting /\ w.at = visit[b].at /\ w.late
          /\ visit[b].at \in {"verified", "save"} => w.row = visit[b].row
          /\ visit[b].at = "touch" => w.age = visit[b].age
      BY <3>1, <3>2, Overtaken
    <3>4. KnowsAccount(w)'
      BY <2>1, <3>3 DEF KnowsAccount
    <3>5. visit'[b] = w
      BY <1>1, <1>3, <2>3, <3>2
    <3> QED
      BY <3>3, <3>4, <3>5
  <2> QED
    BY <2>2, <2>3
<1>4. visit' \in [Actors -> Visiting \cup {SignIn!Idle}]
  <2>1. \A b \in Actors : visit'[b] \in Visiting \cup {SignIn!Idle}
    BY <1>2, <1>3
  <2> QED
    BY <1>1, <2>1
<1>5. ASSUME NEW b \in Actors PROVE KnowsAccount(visit[b])'
  <2>1. CASE b = a
    BY <1>2, <2>1
  <2>2. CASE b # a
    <3>1. PICK w \in Visiting \cup {SignIn!Idle} : visit'[b] = w /\ KnowsAccount(w)'
      BY <1>3, <2>2
    <3> QED
      BY <3>1
  <2> QED
    BY <2>1, <2>2
<1> QED
  BY <1>2, <1>3, <1>4, <1>5

LEMMA SavingKeepsAccounts ==
    ASSUME AccountsOwnInv, NEW a \in Actors, SignIn!SaveUser(a)
    PROVE  AccountsOwnInv'
<1>1. PICK v : v = [visit[a] EXCEPT !.at = "open"]
  OBVIOUS
<1>2. /\ visit[a].at = "save" /\ visit' = [visit EXCEPT ![a] = v]
      /\ account' = visit[a].row /\ rewritten' = (rewritten \/ visit[a].row # account)
      /\ UNCHANGED <<password, invitations, links, sessions, devices, challenge, enrolment, factor,
                     decided, cut, uses>>
  BY <1>1 DEF SignIn!SaveUser, SignIn!Goto
<1>3. visit[a] \in Visiting \cup {SignIn!Idle} /\ KnowsAccount(visit[a])
  BY Visitors
<1>4. visit[a] \in SigningIn
  BY <1>2, <1>3, VisitFields
<1>5. /\ account' \in SignIn!Account /\ account' # none /\ account'.status = "active" /\ account # none
      /\ visit[a].late \/ visit[a].proof = password
  BY <1>2, <1>3, <1>4, AccountConstants DEF SigningIn, KnowsAccount
<1>6. v \in Visiting /\ v.at = "open" /\ v.late = visit[a].late /\ v.proof = visit[a].proof
  BY <1>1, <1>4 DEF Visiting, SigningIn
<1>7. visit'[a] = v /\ \A b \in Actors : b # a => visit'[b] = visit[b]
  BY <1>2 DEF AccountsOwnInv, AccountsTypeOK
<1>8. ASSUME NEW b \in Actors PROVE KnowsAccount(visit[b])'
  <2>1. CASE b = a
    <3>1. KnowsAccount(v)'
      BY <1>2, <1>5, <1>6 DEF KnowsAccount
    <3> QED
      BY <1>7, <2>1, <3>1
  <2>2. CASE b # a
    <3>1. PICK w : w = visit[b] /\ w = visit'[b]
      BY <1>7, <2>2
    <3>2. KnowsAccount(w)
      BY <3>1 DEF AccountsOwnInv
    <3>3. KnowsAccount(w)'
      BY <1>2, <1>5, <3>2 DEF KnowsAccount
    <3> QED
      BY <3>1, <3>3
  <2> QED
    BY <2>1, <2>2
<1>9. AccountsTypeOK'
  <2>1. visit' \in [Actors -> Visiting \cup {SignIn!Idle}] /\ rewritten' \in BOOLEAN
    BY <1>2, <1>6 DEF AccountsOwnInv, AccountsTypeOK
  <2> QED
    BY <1>2, <1>5, <2>1 DEF AccountsOwnInv, AccountsTypeOK
<1>10. RowFollows'
  <2> SUFFICES ASSUME ~rewritten' PROVE SignIn!Decision(account)' = decided' /\ (cut' \/ EnrolledAsFactor')
    BY DEF RowFollows
  <2>1. account' = account /\ ~rewritten
    BY <1>2
  <2>2. \A step \in {"insert", "flag"} : SomeAt(step)' <=> SomeAt(step)
    BY <1>2, <1>6, <1>7 DEF SomeAt
  <2> QED
    BY <1>2, <1>5, <2>1, <2>2 DEF AccountsOwnInv, RowFollows, EnrolledAsFactor, SignIn!Decision
<1>11. NothingBefore' /\ AcceptedOnce' /\ (\A s \in Sessions : SessionRight(s)') /\ (\A l \in Links : LinkRight(l)')
  BY <1>2, <1>5 DEF AccountsOwnInv, NothingBefore, AcceptedOnce, SessionRight, LinkRight
<1>12. /\ \A d \in devices' : d.late \/ d.proof = password'
       /\ challenge' # none => challenge'.late \/ challenge'.proof = password'
  BY <1>2 DEF AccountsOwnInv
<1> QED
  BY <1>8, <1>9, <1>10, <1>11, <1>12 DEF AccountsOwnInv

LEMMA UpdateKeepsAccounts ==
    ASSUME AccountsOwnInv, NEW a \in Actors, SignIn!UpdateUser(a)
    PROVE  AccountsOwnInv'
<1>1. PICK status \in {"active", "disabled"}, required \in BOOLEAN :
          /\ account' = [visit[a].row EXCEPT !.status = status, !.required = required]
          /\ sessions' = IF status = "disabled" THEN SignIn!AllRevoked ELSE sessions
  BY DEF SignIn!UpdateUser
<1>2. /\ visit[a].at = "update" /\ SignIn!Overtaking(a, SignIn!Idle)
      /\ decided' = SignIn!Decision(account') /\ rewritten' = (rewritten \/ visit[a].row # account)
      /\ UNCHANGED <<password, invitations, links, devices, challenge, enrolment, factor, cut, uses>>
  BY DEF SignIn!UpdateUser
<1>3. visit[a].row \in SignIn!Account /\ account # none
  BY <1>2, Visitors, VisitFields DEF KnowsAccount
<1>4. /\ account' \in SignIn!Account /\ account' # none /\ account'.status = status
      /\ account'.enrolled = visit[a].row.enrolled
  <2>1. account' \in SignIn!Account /\ account'.status = status /\ account'.enrolled = visit[a].row.enrolled
    BY <1>1, <1>3 DEF SignIn!Account
  <2> QED
    BY <2>1, AccountConstants
<1>5. KnowsAccount(SignIn!Idle)'
  BY AccountConstants DEF KnowsAccount, SignIn!Idle
<1>6. /\ visit' \in [Actors -> Visiting \cup {SignIn!Idle}]
      /\ visit'[a] = SignIn!Idle /\ \A b \in Actors \ {a} : visit'[b].at = visit[b].at
      /\ \A b \in Actors : KnowsAccount(visit[b])'
  BY <1>2, <1>4, <1>5, OthersOvertaken
<1>7. sessions' \in [Sessions -> SignIn!Session] /\ \A s \in Sessions : SessionRight(s)'
  <2>1. CASE status = "disabled"
    <3>1. sessions' = [s \in Sessions |-> SignIn!Revoked(sessions[s])]
      BY <1>1, <2>1 DEF SignIn!AllRevoked
    <3>2. \A s \in Sessions : sessions'[s] \in SignIn!Session /\ sessions'[s].state # "open"
      BY <3>1, SessionRows
    <3> QED
      BY <3>1, <3>2 DEF SessionRight
  <2>2. CASE status = "active"
    BY <1>1, <1>2, <1>4, <2>2 DEF AccountsOwnInv, AccountsTypeOK, SessionRight
  <2> QED
    BY <2>1, <2>2
<1>8. AccountsTypeOK'
  <2>1. rewritten' \in BOOLEAN
    BY <1>2 DEF AccountsOwnInv, AccountsTypeOK
  <2> QED
    BY <1>2, <1>4, <1>6, <1>7, <2>1 DEF AccountsOwnInv, AccountsTypeOK
<1>9. RowFollows'
  <2> SUFFICES ASSUME ~rewritten' PROVE cut' \/ EnrolledAsFactor'
    BY <1>2 DEF RowFollows
  <2>1. account'.enrolled = account.enrolled /\ ~rewritten
    BY <1>2, <1>4
  <2>2. \A step \in {"insert", "flag"} : SomeAt(step)' <=> SomeAt(step)
    BY <1>2, <1>6, AccountConstants DEF SomeAt
  <2> QED
    BY <1>2, <1>3, <2>1, <2>2 DEF AccountsOwnInv, RowFollows, EnrolledAsFactor
<1>10. NothingBefore' /\ AcceptedOnce' /\ (\A l \in Links : LinkRight(l)')
  BY <1>2, <1>4 DEF AccountsOwnInv, NothingBefore, AcceptedOnce, LinkRight
<1>11. /\ \A d \in devices' : d.late \/ d.proof = password'
       /\ challenge' # none => challenge'.late \/ challenge'.proof = password'
  BY <1>2 DEF AccountsOwnInv
<1> QED
  BY <1>6, <1>7, <1>8, <1>9, <1>10, <1>11 DEF AccountsOwnInv

LEMMA FlagKeepsAccounts ==
    ASSUME AccountsOwnInv, NEW a \in Actors, SignIn!FlagEnrolled(a)
    PROVE  AccountsOwnInv'
<1>1. PICK v : v = [visit[a] EXCEPT !.at = "remember"]
  OBVIOUS
<1>2. /\ visit[a].at = "flag" /\ SignIn!Overtaking(a, v)
      /\ account' = [account EXCEPT !.enrolled = TRUE]
      /\ UNCHANGED <<password, invitations, links, sessions, devices, challenge, enrolment, factor,
                     decided, rewritten, cut, uses>>
  BY <1>1 DEF SignIn!FlagEnrolled
<1>3. visit[a] \in Enrolling /\ account # none /\ (visit[a].late \/ visit[a].proof = password)
  BY <1>2, Visitors, VisitFields DEF KnowsAccount
<1>4. account \in SignIn!Account
  BY <1>3 DEF AccountsOwnInv, AccountsTypeOK
<1>5. /\ account' \in SignIn!Account /\ account'.enrolled /\ account'.status = account.status
      /\ SignIn!Decision(account)' = SignIn!Decision(account)
  BY <1>2, <1>4 DEF SignIn!Account, SignIn!Decision
<1>6. account' # none
  BY <1>5, AccountConstants
<1>7. v \in Visiting /\ v.at = "remember" /\ v.late = visit[a].late /\ v.proof = visit[a].proof
  BY <1>1, <1>3 DEF Visiting, Enrolling
<1>8. KnowsAccount(v)'
  BY <1>2, <1>3, <1>6, <1>7 DEF KnowsAccount
<1>9. /\ visit' \in [Actors -> Visiting \cup {SignIn!Idle}]
      /\ visit'[a] = v /\ \A b \in Actors \ {a} : visit'[b].at = visit[b].at
      /\ \A b \in Actors : KnowsAccount(visit[b])'
  BY <1>2, <1>6, <1>7, <1>8, OthersOvertaken
<1>10. AccountsTypeOK'
  BY <1>2, <1>5, <1>9 DEF AccountsOwnInv, AccountsTypeOK
<1>11. RowFollows'
  <2> SUFFICES ASSUME ~rewritten, ~cut PROVE EnrolledAsFactor'
    BY <1>2, <1>3, <1>5 DEF AccountsOwnInv, RowFollows
  <2>1. EnrolledAsFactor /\ SomeAt("flag")
    BY <1>2, <1>3 DEF AccountsOwnInv, RowFollows, SomeAt
  <2>2. SomeAt("insert")' <=> SomeAt("insert")
    BY <1>2, <1>7, <1>9 DEF SomeAt
  <2> QED
    BY <1>2, <1>5, <2>1, <2>2 DEF EnrolledAsFactor
<1>12. NothingBefore' /\ AcceptedOnce' /\ (\A s \in Sessions : SessionRight(s)') /\ (\A l \in Links : LinkRight(l)')
  BY <1>2, <1>5, <1>6 DEF AccountsOwnInv, NothingBefore, AcceptedOnce, SessionRight, LinkRight
<1>13. /\ \A d \in devices' : d.late \/ d.proof = password'
       /\ challenge' # none => challenge'.late \/ challenge'.proof = password'
  BY <1>2 DEF AccountsOwnInv
<1> QED
  BY <1>9, <1>10, <1>11, <1>12, <1>13 DEF AccountsOwnInv

LEMMA ResetKeepsAccounts ==
    ASSUME AccountsOwnInv, NEW a \in Actors, SignIn!CompletePasswordReset(a)
    PROVE  AccountsOwnInv'
<1>1. PICK l : l = visit[a].link
  OBVIOUS
<1>2. /\ visit[a].at = "reset" /\ SignIn!Overtaking(a, SignIn!Idle)
      /\ password' = password + 1 /\ links' = [links EXCEPT ![l] = "used"]
      /\ sessions' = [s \in Sessions |-> SignIn!Revoked(sessions[s])]
      /\ devices' = {} /\ challenge' = none /\ enrolment' = FALSE
      /\ uses' = [uses EXCEPT ![l] = IF visit[a].late THEN uses[l] ELSE uses[l] + 1]
      /\ UNCHANGED <<account, invitations, factor, decided, rewritten, cut>>
  BY <1>1 DEF SignIn!CompletePasswordReset, SignIn!AllRevoked, SignIn!Marked
<1>3. l \in Links /\ visit[a].late \in BOOLEAN /\ account # none /\ (visit[a].late \/ uses[l] = 0)
  BY <1>1, <1>2, Visitors, VisitFields DEF KnowsAccount
<1>4. KnowsAccount(SignIn!Idle)'
  BY AccountConstants DEF KnowsAccount, SignIn!Idle
<1>5. /\ visit' \in [Actors -> Visiting \cup {SignIn!Idle}]
      /\ visit'[a] = SignIn!Idle /\ \A b \in Actors \ {a} : visit'[b].at = visit[b].at
      /\ \A b \in Actors : KnowsAccount(visit[b])'
  BY <1>2, <1>4, OthersOvertaken
<1>6. /\ uses' \in [Links -> Nat] /\ uses'[l] <= 1
      /\ \A k \in Links : k # l => uses'[k] = uses[k]
  <2>1. uses[l] \in Nat /\ uses[l] <= 1
    BY <1>3 DEF AccountsOwnInv, AccountsTypeOK, LinkRight
  <2>2. PICK n \in Nat : n = (IF visit[a].late THEN uses[l] ELSE uses[l] + 1) /\ n <= 1
    BY <1>3, <2>1
  <2>3. uses' = [uses EXCEPT ![l] = n]
    BY <1>2, <2>2
  <2> QED
    BY <1>3, <2>2, <2>3 DEF AccountsOwnInv, AccountsTypeOK
<1>7. \A s \in Sessions : sessions'[s] \in SignIn!Session /\ sessions'[s].state # "open"
  BY <1>2, SessionRows
<1>8. AccountsTypeOK'
  <2>1. password' \in Nat
    <3>1. password \in Nat
      BY DEF AccountsOwnInv, AccountsTypeOK
    <3> QED
      BY <1>2, <3>1
  <2>2. enrolment' \in BOOLEAN
    BY <1>2
  <2>3. links' \in [Links -> {"none", "open", "used", "expired"}]
    BY <1>2, <1>3 DEF AccountsOwnInv, AccountsTypeOK
  <2>4. sessions' \in [Sessions -> SignIn!Session]
    BY <1>2, <1>7
  <2> QED
    BY <1>2, <1>5, <1>6, <2>1, <2>3, <2>4, <2>2 DEF AccountsOwnInv, AccountsTypeOK
<1>9. RowFollows'
  <2>1. \A step \in {"insert", "flag"} : SomeAt(step)' <=> SomeAt(step)
    BY <1>2, <1>5, AccountConstants DEF SomeAt
  <2> QED
    BY <1>2, <2>1 DEF AccountsOwnInv, RowFollows, EnrolledAsFactor, SignIn!Decision
<1>10. NothingBefore' /\ AcceptedOnce' /\ (\A s \in Sessions : SessionRight(s)')
  BY <1>2, <1>3, <1>7 DEF AccountsOwnInv, NothingBefore, AcceptedOnce, SessionRight
<1>11. ASSUME NEW k \in Links PROVE LinkRight(k)'
  <2>1. CASE k = l
    BY <1>2, <1>3, <1>6, <2>1 DEF LinkRight, AccountsOwnInv, AccountsTypeOK
  <2>2. CASE k # l
    BY <1>2, <1>6, <2>2 DEF LinkRight, AccountsOwnInv, AccountsTypeOK
  <2> QED
    BY <2>1, <2>2
<1> QED
  BY <1>2, <1>5, <1>8, <1>9, <1>10, <1>11 DEF AccountsOwnInv

LEMMA InitAccounts == SignIn!Init => AccountsOwnInv
<1> SUFFICES ASSUME SignIn!Init PROVE AccountsOwnInv
  OBVIOUS
<1>1. /\ invitations = [i \in Invitations |-> "none"] /\ links = [l \in Links |-> "none"]
      /\ sessions = [s \in Sessions |-> SignIn!NoSession]
      /\ devices = {} /\ challenge = none /\ enrolment = FALSE
      /\ visit = [a \in Actors |-> SignIn!Idle]
      /\ rewritten = FALSE /\ cut = FALSE /\ uses = [l \in Links |-> 0]
      /\ decided = [status |-> "active", required |-> TRUE]
  BY DEF SignIn!Init
<1>2. /\ account \in SignIn!Account \cup {none} /\ password \in Nat /\ factor \in BOOLEAN
      /\ account # none => SignIn!Decision(account) = decided /\ account.enrolled = factor
      /\ account = none => ~factor
  <2>1. CASE account = none /\ password = 0 /\ factor = FALSE
    BY <2>1
  <2>2. CASE \E enrolled \in BOOLEAN :
               /\ account = [status |-> "active", required |-> TRUE, enrolled |-> enrolled]
               /\ password = 1 /\ factor = enrolled
    <3>1. account \in SignIn!Account /\ 1 \in Nat
      BY <2>2 DEF SignIn!Account
    <3>2. account # none
      BY <3>1, AccountConstants
    <3> QED
      BY <1>1, <2>2, <3>1, <3>2 DEF SignIn!Decision
  <2> QED
    BY <2>1, <2>2 DEF SignIn!Init
<1>3. SignIn!NoSession \in SignIn!Session /\ SignIn!NoSession.state # "open"
  BY DEF SignIn!Session, SignIn!NoSession
<1>4. AccountsTypeOK
  BY <1>1, <1>2, <1>3 DEF AccountsTypeOK
<1>5. \A a \in Actors : visit[a].at = "idle"
  BY <1>1, AccountConstants
<1>6. \A a \in Actors : KnowsAccount(visit[a])
  BY <1>5 DEF KnowsAccount
<1>7. RowFollows
  BY <1>2, <1>5 DEF RowFollows, EnrolledAsFactor, SomeAt
<1>8. NothingBefore /\ AcceptedOnce /\ (\A s \in Sessions : SessionRight(s)) /\ (\A l \in Links : LinkRight(l))
  BY <1>1, <1>2, <1>3 DEF NothingBefore, AcceptedOnce, SessionRight, LinkRight
<1> QED
  BY <1>1, <1>4, <1>6, <1>7, <1>8 DEF AccountsOwnInv

LEMMA NextKeepsAccounts ==
    ASSUME AccountsOwnInv, [SignIn!Next]_(SignIn!vars)
    PROVE  AccountsOwnInv'
<1>1. CASE UNCHANGED SignIn!vars
  <2>1. UNCHANGED <<account, password, invitations, links, sessions, devices, challenge,
                    enrolment, factor, visit, decided, rewritten, cut, uses>>
    BY <1>1 DEF SignIn!vars
  <2>2. VisitsQuietly
    BY <2>1 DEF VisitsQuietly
  <2>3. visit' \in [Actors -> Visiting \cup {SignIn!Idle}]
    BY <2>1, AsItWas
  <2> QED
    BY <2>1, <2>2, <2>3, AsItWas, TablesMove
<1>2. CASE SignIn!Next
  BY <1>2, InvitingKeepsAccounts, ReadsKeepAccounts, AcceptanceKeepsAccounts, ChallengesKeepAccounts,
     SavingKeepsAccounts, SessionsKeepAccounts, DevicesKeepAccounts, ResetKeepsAccounts, UpdateKeepsAccounts,
     FactorKeepsAccounts, FlagKeepsAccounts, ExpiryKeepsAccounts, AgeKeepsAccounts
     DEF SignIn!Next
<1> QED
  BY <1>1, <1>2

LEMMA AccountsKept ==
    /\ Init => AccountsInv
    /\ AccountsInv /\ [Next]_vars => AccountsInv'
<1>1. Init => AccountsInv
  BY InitAccounts DEF Init, AccountsInv
<1>2. ASSUME AccountsInv, [Next]_vars PROVE AccountsInv'
  <2>1. part' = part
    BY <1>2 DEF Next, vars
  <2>2. CASE part = "accounts"
    <3>1. [SignIn!Next]_(SignIn!vars)
      BY <1>2, <2>2 DEF Next, vars, accounts, SignIn!vars
    <3> QED
      BY <1>2, <2>2, <3>1, NextKeepsAccounts DEF AccountsInv
  <2> QED
    BY <2>1, <2>2 DEF AccountsInv
<1> QED
  BY <1>1, <1>2

LEMMA AccountsOfInv == AccountsInv => (part = "accounts" => SignIn!AccountsSound)
<1> SUFFICES ASSUME AccountsOwnInv PROVE SignIn!AccountsSound
  BY DEF AccountsInv
<1>1. SignIn!OneInvitationAccepted
  <2>1. \A S : SignIn!Cardinality(S) = Cardinality(S)
    BY DEF SignIn!Cardinality, Cardinality
  <2>2. \A x, y \in {i \in Invitations : invitations[i] = "accepted"} : x = y
    BY DEF AccountsOwnInv, AcceptedOnce
  <2> QED
    BY <2>1, <2>2, AtMostOne DEF SignIn!OneInvitationAccepted
<1>2. SignIn!RowAsDecided
  BY DEF AccountsOwnInv, AccountsTypeOK, RowFollows, EnrolledAsFactor, SomeAt, SignIn!RowAsDecided, SignIn!Account
<1>3. SignIn!AccessIsCurrent /\ SignIn!IdleStaysIdle /\ SignIn!LinksUsedOnce
  BY DEF AccountsOwnInv, SessionRight, LinkRight, SignIn!AccessIsCurrent, SignIn!IdleStaysIdle, SignIn!LinksUsedOnce
<1> QED
  BY <1>1, <1>2, <1>3 DEF SignIn!AccountsSound

\* However requests for one account overlap, it comes from one invitation and is what was
\* decided of it, what is signed in or trusted rests on its present password, and a link,
\* a challenge and a recovery code are good once, each but for the recorded overlaps.
THEOREM SignInIsSound == Spec => []SignInSound
<1>1. AccountsInv /\ CodesInv => SignInSound
  BY AccountsOfInv, CodesOfInv DEF SignInSound
<1> QED
  BY <1>1, AccountsKept, CodesKept, PTL DEF Spec

--------------------------------------------------------------------------------
(* The uptime monitor.  Every call knows rows that are there, no failure is   *)
(* counted by more calls than were begun, and of the open rows there is one.  *)
(* While calls do not overlap a call finds the rows as it has read them, and  *)
(* the monitor row says what the incidents say.                               *)

Known(i) == i \in Uptime!Incidents /\ incidents[i].status # "absent"

WithEvent == {"classify", "maintain", "mark", "fail", "count", "touch", "tls", "succeed",
              "resolve", "restore", "stored", "recover"}

HasMonitor == {"mark", "count", "touch", "resolve", "restore", "stored", "recover", "disable", "provision"}

HasIncident == {"touch", "recover", "report"}

UptimeCall ==
    [at : Uptime!Step, events : SUBSET Uptime!Events, read : Uptime!Monitor, row : Uptime!Incident,
     id : Uptime!Incidents \cup Uptime!Alerts \cup {Uptime!None}]

\* What a call holds comes from rows that are there, and only downtime is counted.
CallKnows(k) ==
    /\ k.at \in WithEvent => \E e \in Uptime!Events : k.events = {e}
    /\ k.at \in {"maintain", "mark", "fail", "count", "touch"} => k.events \subseteq {down1, down2, down3}
    /\ k.read.counted \subseteq {down1, down2, down3} /\ k.row.counted \subseteq {down1, down2, down3}
    /\ k.read.active # Uptime!None => Known(k.read.active)
    /\ k.at \in {"touch", "recover"} => Uptime!Tracks(k.read) /\ k.id = k.read.active
    /\ k.at \in HasIncident => /\ Known(k.id) /\ k.row.status # "absent"
                               /\ k.row.status = "recovered" => <<"recovery", k.id>> \in queued
    /\ k.at = "resolve" => k.id \in Uptime!Alerts /\ tlsAlerts[k.id] # "absent"

\* Rows are numbered as they are made; one incident and one alert is open.
UptimeRowsInOrder ==
    /\ \A i \in Uptime!Incidents : incidents[i].status # "absent" => \A j \in 1 .. i : incidents[j].status # "absent"
    /\ \A a \in Uptime!Alerts : tlsAlerts[a] # "absent" => \A b \in 1 .. a : tlsAlerts[b] # "absent"
    /\ \A i, j \in Uptime!OpenIncidents : i = j
    /\ \A a, b \in Uptime!OpenAlerts : a = b

RowsWereAlerted ==
    /\ \A i \in Uptime!Incidents :
          /\ incidents[i].status # "absent" <=> <<"confirmed", i>> \in queued
          /\ incidents[i].status = "recovered" => <<"recovery", i>> \in queued
    /\ \A a \in Uptime!Alerts :
          /\ tlsAlerts[a] # "absent" <=> <<"tls-open", a>> \in queued
          /\ tlsAlerts[a] = "resolved" <=> <<"tls-resolved", a>> \in queued

MonitorKnows == Uptime!OnlyDowntimeCounts /\ (monitor.active # Uptime!None => Known(monitor.active))

\* Every failure that is counted took a call that has ended.
Busy == {c \in Actors : call[c].at # "idle"}

CallsWereCounted ==
    /\ IsFiniteSet(Busy)
    /\ monitor.failures + Cardinality(Busy) <= calls
    /\ \A c \in Busy : call[c].read.failures + Cardinality(Busy) <= calls

IsCurrent(k) ==
    /\ k.at \in HasMonitor => k.read = monitor
    /\ k.at \in HasIncident => k.row = incidents[k.id]

CallsAreAlone ==
    ~overlapped => /\ \A c, d \in Busy : c = d
                   /\ \A c \in Actors : IsCurrent(call[c])

\* The monitor has counted nothing, has counted the first failure and remembers its
\* event, or has counted what the open incident has.
NothingCounted(m) ==
    /\ m.status \notin {"first-failure", "incident"} /\ m.failures = 0
    /\ m.first = {} /\ m.counted = {} /\ m.active = Uptime!None

FirstCounted(m) ==
    /\ m.status = "first-failure" /\ m.failures = 1 /\ m.active = Uptime!None
    /\ \E e \in {down1, down2, down3} : m.first = {e} /\ m.counted = {e} /\ observed[e] = "none"

IncidentCounted(m) ==
    /\ m.status = "incident" /\ m.active \in Uptime!Incidents /\ incidents[m.active].counted = m.counted
    /\ \A e \in m.counted \ purged : observed[e] \notin {"none", "maintenance"}

MonitorAgrees ==
    /\ NothingCounted(monitor) \/ FirstCounted(monitor) \/ IncidentCounted(monitor)
    /\ \A i \in Uptime!Incidents :
          /\ incidents[i].status = "open" <=> monitor.status = "incident" /\ monitor.active = i
          /\ incidents[i].status # "absent" => Cardinality(incidents[i].counted) >= 2

\* The event of a call is not stored before its branch is, nor the first failure again.
EventIsNew(k) ==
    /\ k.at \in {"classify", "fail", "count", "touch", "tls"} => \A e \in k.events : observed[e] = "none"
    /\ k.at \in {"fail", "count", "tls"} /\ monitor.status = "first-failure" => monitor.first # k.events

MonitorIsRight ==
    ~overlapped /\ ~interrupted => MonitorAgrees /\ \A c \in Actors : EventIsNew(call[c])

UptimeOwnInv ==
    /\ Uptime!UptimeTypeOK
    /\ UptimeRowsInOrder /\ RowsWereAlerted /\ MonitorKnows
    /\ \A c \in Actors : CallKnows(call[c])
    /\ CallsWereCounted
    /\ CallsAreAlone
    /\ MonitorIsRight

LEMMA UptimeFacts ==
    /\ {MaxIncidents, MaxAlerts, MaxUptimeCalls, MaxUptimeCalls - 1, MaxUptimeChanges} \subseteq Nat
    /\ Uptime!None = 0 /\ Uptime!Incidents \subseteq Nat \ {0} /\ Uptime!Alerts \subseteq Nat \ {0}
    /\ Uptime!NewMonitor \in Uptime!Monitor /\ Uptime!NewMonitor.counted = {}
    /\ Uptime!NewMonitor.active = 0 /\ Uptime!NewMonitor.failures = 0
    /\ Uptime!AbsentIncident \in Uptime!Incident /\ Uptime!AbsentIncident.counted = {}
    /\ Uptime!IdleCall \in UptimeCall /\ Uptime!IdleCall.at = "idle"
    /\ Uptime!IdleCall.read = Uptime!NewMonitor /\ Uptime!IdleCall.row = Uptime!AbsentIncident
    /\ {down1, down2, down3} \subseteq Uptime!Events
<1>1. {MaxIncidents, MaxAlerts, MaxUptimeCalls, MaxUptimeCalls - 1, MaxUptimeChanges} \subseteq Nat
  BY ServicesAssumption DEF Uptime!UptimeAssumption
<1>2. Uptime!None = 0 /\ Uptime!Incidents \subseteq Nat \ {0} /\ Uptime!Alerts \subseteq Nat \ {0}
  BY <1>1 DEF Uptime!None, Uptime!Incidents, Uptime!Alerts
<1>3. /\ Uptime!NewMonitor \in Uptime!Monitor /\ Uptime!NewMonitor.counted = {}
      /\ Uptime!NewMonitor.active = 0 /\ Uptime!NewMonitor.failures = 0
  BY <1>1, <1>2 DEF Uptime!NewMonitor, Uptime!Monitor, Uptime!MonitorStatus
<1>4. Uptime!AbsentIncident \in Uptime!Incident /\ Uptime!AbsentIncident.counted = {}
  BY DEF Uptime!AbsentIncident, Uptime!Incident
<1>5. /\ Uptime!IdleCall \in UptimeCall /\ Uptime!IdleCall.at = "idle"
      /\ Uptime!IdleCall.read = Uptime!NewMonitor /\ Uptime!IdleCall.row = Uptime!AbsentIncident
  BY <1>2, <1>3, <1>4 DEF Uptime!IdleCall, UptimeCall, Uptime!Step
<1>6. {down1, down2, down3} \subseteq Uptime!Events
  BY DEF Uptime!Events
<1> QED
  BY <1>1, <1>2, <1>3, <1>4, <1>5, <1>6

ObservedAs == {"none", "healthy", "unhealthy", "unknown", "maintenance", "tls-error"}

Messages ==
    ({"confirmed", "recovery"} \X Uptime!Incidents) \cup ({"tls-open", "tls-resolved"} \X Uptime!Alerts)

LEMMA UptimeTypes ==
    ASSUME UptimeOwnInv
    PROVE  /\ monitor \in Uptime!Monitor /\ incidents \in [Uptime!Incidents -> Uptime!Incident]
           /\ observed \in [Uptime!Events -> ObservedAs] /\ tlsAlerts \in [Uptime!Alerts -> {"absent", "open", "resolved"}]
           /\ queued \subseteq Messages /\ call \in [Actors -> UptimeCall]
           /\ window \in BOOLEAN /\ entitled \in BOOLEAN /\ overlapped \in BOOLEAN /\ interrupted \in BOOLEAN
           /\ purged \subseteq Uptime!Events /\ calls \in 0 .. MaxUptimeCalls /\ changes \in 0 .. MaxUptimeChanges
           /\ calls \in Nat /\ MaxUptimeCalls \in Nat
<1>1. MaxUptimeCalls \in Nat
  BY UptimeFacts
<1> QED
  BY <1>1 DEF UptimeOwnInv, Uptime!UptimeTypeOK, UptimeCall, ObservedAs, Messages

LEMMA IdleKnows ==
    /\ CallKnows(Uptime!IdleCall) /\ IsCurrent(Uptime!IdleCall) /\ EventIsNew(Uptime!IdleCall)
    /\ CallKnows(Uptime!IdleCall)' /\ IsCurrent(Uptime!IdleCall)' /\ EventIsNew(Uptime!IdleCall)'
BY UptimeFacts DEF CallKnows, IsCurrent, EventIsNew, WithEvent, HasMonitor, HasIncident

\* A call that ends or goes on makes room for its failure.
LEMMA CallsStayCounted ==
    ASSUME UptimeOwnInv, NEW c \in Actors, NEW k \in UptimeCall, call[c].at # "idle",
           call' = [call EXCEPT ![c] = k], calls' = calls, monitor' \in Uptime!Monitor,
           monitor'.failures <= monitor.failures \/ (k.at = "idle" /\ monitor'.failures <= call[c].read.failures + 1),
           k.at # "idle" => k.read = call[c].read \/ k.read = monitor
    PROVE  CallsWereCounted'
<1>1. PICK n : n = Cardinality(Busy)
  OBVIOUS
<1>2. IsFiniteSet(Busy) /\ n \in Nat /\ calls \in Nat /\ c \in Busy
  BY <1>1, FS_CardinalityType, UptimeTypes DEF UptimeOwnInv, CallsWereCounted, Busy
<1>3. /\ monitor.failures + n <= calls
      /\ \A d \in Busy : call[d].read.failures + n <= calls
  BY <1>1 DEF UptimeOwnInv, CallsWereCounted
<1>4. \A d \in Actors : call[d].read.failures \in Nat /\ monitor.failures \in Nat /\ monitor'.failures \in Nat
  BY UptimeTypes DEF UptimeCall, Uptime!Monitor
<1>5. call'[c] = k /\ \A d \in Actors \ {c} : call'[d] = call[d]
  BY UptimeTypes
<1>6. CASE k.at = "idle"
  <2>1. Busy' = Busy \ {c}
    BY <1>5, <1>6 DEF Busy
  <2>2. IsFiniteSet(Busy') /\ Cardinality(Busy') = n - 1
    BY <1>1, <1>2, <2>1, FS_RemoveElement
  <2>3. monitor'.failures + (n - 1) <= calls
    BY <1>2, <1>3, <1>4
  <2>4. ASSUME NEW d \in Busy' PROVE call'[d].read.failures + (n - 1) <= calls
    <3>1. d \in Busy /\ d \in Actors /\ call'[d] = call[d]
      BY <1>5, <2>1 DEF Busy
    <3>2. call[d].read.failures + n <= calls /\ call[d].read.failures \in Nat
      BY <1>3, <1>4, <3>1
    <3> QED
      BY <1>2, <3>1, <3>2
  <2> QED
    BY <2>2, <2>3, <2>4 DEF CallsWereCounted
<1>7. CASE k.at # "idle"
  <2>1. Busy' = Busy
    BY <1>5, <1>7 DEF Busy
  <2>2. monitor'.failures + n <= calls
    BY <1>2, <1>3, <1>4, <1>7
  <2>3. ASSUME NEW d \in Busy PROVE call'[d].read.failures + n <= calls
    <3>1. CASE d = c
      BY <1>2, <1>3, <1>5, <1>7, <3>1
    <3>2. CASE d # c
      BY <1>3, <1>5, <3>2 DEF Busy
    <3> QED
      BY <3>1, <3>2
  <2> QED
    BY <1>1, <1>2, <2>1, <2>2, <2>3 DEF CallsWereCounted
<1> QED
  BY <1>6, <1>7

\* What the other calls know stays known while rows are only added or changed.
LEMMA OthersKnow ==
    ASSUME UptimeOwnInv, NEW c \in Actors, NEW k \in UptimeCall, call' = [call EXCEPT ![c] = k],
           \A i \in Uptime!Incidents : incidents[i].status # "absent" => incidents'[i].status # "absent",
           \A a \in Uptime!Alerts : tlsAlerts[a] # "absent" => tlsAlerts'[a] # "absent",
           queued \subseteq queued', CallKnows(k)'
    PROVE  \A d \in Actors : CallKnows(call[d])'
<1> SUFFICES ASSUME NEW d \in Actors PROVE CallKnows(call[d])'
  OBVIOUS
<1>1. call'[c] = k /\ (d # c => call'[d] = call[d])
  BY UptimeTypes
<1>2. CASE d = c
  BY <1>1, <1>2 DEF CallKnows, Known
<1>3. CASE d # c
  <2>1. PICK q : q = call[d]
    OBVIOUS
  <2>2. CallKnows(q) /\ call'[d] = q
    BY <1>1, <1>3, <2>1 DEF UptimeOwnInv
  <2>3. Known(q.read.active) => Known(q.read.active)'
    BY DEF Known
  <2>4. Known(q.id) => Known(q.id)'
    BY DEF Known
  <2>5. CallKnows(q)'
    BY <2>2, <2>3, <2>4 DEF CallKnows, Uptime!Tracks
  <2> QED
    BY <2>2, <2>5 DEF CallKnows, Known
<1> QED
  BY <1>2, <1>3

\* A step of a call that is under way.
LEMMA UptimeGoesOn ==
    ASSUME UptimeOwnInv, NEW c \in Actors, NEW k \in UptimeCall, call[c].at # "idle",
           call' = [call EXCEPT ![c] = k], UNCHANGED <<calls, overlapped, window, entitled, purged>>,
           changes' \in 0 .. MaxUptimeChanges, monitor' \in Uptime!Monitor,
           incidents' \in [Uptime!Incidents -> Uptime!Incident], observed' \in [Uptime!Events -> ObservedAs],
           tlsAlerts' \in [Uptime!Alerts -> {"absent", "open", "resolved"}], queued' \subseteq Messages,
           interrupted' \in BOOLEAN, interrupted => interrupted',
           UptimeRowsInOrder', RowsWereAlerted', MonitorKnows',
           \A i \in Uptime!Incidents : incidents[i].status # "absent" => incidents'[i].status # "absent",
           \A a \in Uptime!Alerts : tlsAlerts[a] # "absent" => tlsAlerts'[a] # "absent",
           queued \subseteq queued', CallKnows(k)',
           monitor'.failures <= monitor.failures \/ (k.at = "idle" /\ monitor'.failures <= call[c].read.failures + 1),
           k.at # "idle" => k.read = call[c].read \/ k.read = monitor,
           ~overlapped => IsCurrent(k)',
           ~overlapped /\ ~interrupted' => MonitorAgrees' /\ EventIsNew(k)'
    PROVE  UptimeOwnInv'
<1>1. /\ call' \in [Actors -> UptimeCall] /\ call'[c] = k
      /\ \A d \in Actors \ {c} : call'[d] = call[d]
  BY UptimeTypes
<1>2. Uptime!UptimeTypeOK'
  <2>1. /\ window' \in BOOLEAN /\ entitled' \in BOOLEAN /\ overlapped' \in BOOLEAN
        /\ purged' \subseteq Uptime!Events /\ calls' \in 0 .. MaxUptimeCalls
    BY UptimeTypes
  <2> QED
    BY <1>1, <2>1 DEF Uptime!UptimeTypeOK, UptimeCall, ObservedAs, Messages
<1>3. \A d \in Actors : CallKnows(call[d])'
  BY OthersKnow
<1>4. CallsWereCounted'
  BY CallsStayCounted
<1>5. ASSUME ~overlapped
      PROVE  /\ \A d \in Actors \ {c} : call'[d].at = "idle"
             /\ \A d, e \in Busy' : d = e
  <2>1. \A d, e \in Busy : d = e
    BY <1>5 DEF UptimeOwnInv, CallsAreAlone
  <2>2. c \in Busy
    BY DEF Busy
  <2> QED
    BY <1>1, <2>1, <2>2 DEF Busy
<1>6. CallsAreAlone'
  <2> SUFFICES ASSUME ~overlapped, NEW d \in Actors PROVE IsCurrent(call[d])'
    BY <1>5 DEF CallsAreAlone
  <2>1. CASE d = c
    BY <1>1, <2>1 DEF IsCurrent
  <2>2. CASE d # c
    BY <1>5, <2>2 DEF IsCurrent, HasMonitor, HasIncident
  <2> QED
    BY <2>1, <2>2
<1>7. MonitorIsRight'
  <2> SUFFICES ASSUME ~overlapped, ~interrupted', NEW d \in Actors PROVE EventIsNew(call[d])'
    BY DEF MonitorIsRight
  <2>1. CASE d = c
    BY <1>1, <2>1 DEF EventIsNew
  <2>2. CASE d # c
    BY <1>5, <2>2 DEF EventIsNew
  <2> QED
    BY <2>1, <2>2
<1> QED
  BY <1>2, <1>3, <1>4, <1>6, <1>7 DEF UptimeOwnInv

\* A call that reads or gives up changes no row.
LEMMA UptimeQuietly ==
    ASSUME UptimeOwnInv, NEW c \in Actors, NEW k \in UptimeCall, call[c].at # "idle",
           call' = [call EXCEPT ![c] = k],
           UNCHANGED <<monitor, incidents, observed, tlsAlerts, queued, window, entitled, overlapped,
                       interrupted, purged, calls>>,
           changes' \in 0 .. MaxUptimeChanges, CallKnows(k),
           k.at # "idle" => k.read = call[c].read \/ k.read = monitor,
           ~overlapped => IsCurrent(k), ~overlapped /\ ~interrupted => EventIsNew(k)
    PROVE  UptimeOwnInv'
<1>1. UNCHANGED <<calls, overlapped, window, entitled, purged>>
  OBVIOUS
<1>2. /\ monitor' \in Uptime!Monitor /\ incidents' \in [Uptime!Incidents -> Uptime!Incident]
      /\ observed' \in [Uptime!Events -> ObservedAs] /\ tlsAlerts' \in [Uptime!Alerts -> {"absent", "open", "resolved"}]
      /\ queued' \subseteq Messages /\ interrupted' \in BOOLEAN
  BY UptimeTypes
<1>3. UptimeRowsInOrder'
  BY DEF UptimeOwnInv, UptimeRowsInOrder, Uptime!OpenIncidents, Uptime!OpenAlerts
<1>4. RowsWereAlerted' /\ MonitorKnows'
  BY DEF UptimeOwnInv, RowsWereAlerted, MonitorKnows, Uptime!OnlyDowntimeCounts, Known
<1>5. CallKnows(k)'
  BY DEF CallKnows, Known, Uptime!Tracks
<1>6. /\ \A i \in Uptime!Incidents : incidents[i].status # "absent" => incidents'[i].status # "absent"
      /\ \A a \in Uptime!Alerts : tlsAlerts[a] # "absent" => tlsAlerts'[a] # "absent"
      /\ queued \subseteq queued' /\ (interrupted => interrupted')
  OBVIOUS
<1>7. monitor'.failures <= monitor.failures
  BY UptimeTypes DEF Uptime!Monitor
<1>8. ~overlapped => IsCurrent(k)'
  BY DEF IsCurrent
<1>9. ~overlapped /\ ~interrupted' => MonitorAgrees' /\ EventIsNew(k)'
  <2> SUFFICES ASSUME ~overlapped, ~interrupted PROVE MonitorAgrees' /\ EventIsNew(k)'
    OBVIOUS
  <2>1. MonitorAgrees
    BY DEF UptimeOwnInv, MonitorIsRight
  <2>2. MonitorAgrees'
    BY <2>1 DEF MonitorAgrees, NothingCounted, FirstCounted, IncidentCounted
  <2>3. EventIsNew(k)'
    BY DEF EventIsNew
  <2> QED
    BY <2>2, <2>3
<1> QED
  BY <1>1, <1>2, <1>3, <1>4, <1>5, <1>6, <1>7, <1>8, <1>9, UptimeGoesOn

\* Storing an observation that is not the first failure changes nothing that counts.
LEMMA StoringKeeps ==
    ASSUME UptimeOwnInv, MonitorAgrees, NEW e \in Uptime!Events, NEW s \in ObservedAs,
           observed' = Uptime!Store(observed, e, s), monitor.status = "first-failure" => monitor.first # {e},
           UNCHANGED <<monitor, incidents, purged>>
    PROVE  MonitorAgrees'
<1>1. \A x \in Uptime!Events : observed[x] # "none" \/ x # e => observed'[x] = observed[x]
  BY UptimeTypes DEF Uptime!Store
<1>2. FirstCounted(monitor) => FirstCounted(monitor)'
  BY <1>1, UptimeFacts DEF FirstCounted
<1>3. IncidentCounted(monitor) => IncidentCounted(monitor)'
  <2> SUFFICES ASSUME IncidentCounted(monitor), NEW x \in monitor.counted \ purged
               PROVE  observed'[x] \notin {"none", "maintenance"}
    BY DEF IncidentCounted
  <2>1. x \in Uptime!Events
    BY UptimeTypes DEF Uptime!Monitor
  <2> QED
    BY <1>1, <2>1 DEF IncidentCounted
<1>4. NothingCounted(monitor) => NothingCounted(monitor)'
  BY DEF NothingCounted
<1> QED
  BY <1>2, <1>3, <1>4 DEF MonitorAgrees

LEMMA StoreTypes ==
    ASSUME UptimeOwnInv, NEW e \in Uptime!Events, NEW s \in ObservedAs
    PROVE  /\ Uptime!Store(observed, e, s) \in [Uptime!Events -> ObservedAs]
           /\ \A x \in Uptime!Events \ {e} : Uptime!Store(observed, e, s)[x] = observed[x]
           /\ observed[e] # "none" => Uptime!Store(observed, e, s) = observed
           /\ observed[e] = "none" => Uptime!Store(observed, e, s)[e] = s
BY UptimeTypes DEF Uptime!Store

\* A call stores an observation, and goes on or ends.
LEMMA UptimeStores ==
    ASSUME UptimeOwnInv, NEW c \in Actors, NEW k \in UptimeCall, call[c].at # "idle",
           call' = [call EXCEPT ![c] = k], NEW e \in Uptime!Events, NEW s \in ObservedAs,
           observed' = Uptime!Store(observed, e, s),
           UNCHANGED <<monitor, incidents, tlsAlerts, queued, window, entitled, overlapped,
                       interrupted, purged, calls, changes>>,
           CallKnows(k), k.at # "idle" => k.read = call[c].read,
           ~overlapped => IsCurrent(k),
           ~overlapped /\ ~interrupted => (monitor.status = "first-failure" => monitor.first # {e}),
           k.at \in {"idle", "maintain", "stored"}
    PROVE  UptimeOwnInv'
<1>1. UNCHANGED <<calls, overlapped, window, entitled, purged>> /\ changes' \in 0 .. MaxUptimeChanges
  BY UptimeTypes
<1>2. /\ monitor' \in Uptime!Monitor /\ incidents' \in [Uptime!Incidents -> Uptime!Incident]
      /\ observed' \in [Uptime!Events -> ObservedAs] /\ tlsAlerts' \in [Uptime!Alerts -> {"absent", "open", "resolved"}]
      /\ queued' \subseteq Messages /\ interrupted' \in BOOLEAN
  BY UptimeTypes, StoreTypes
<1>3. UptimeRowsInOrder'
  BY DEF UptimeOwnInv, UptimeRowsInOrder, Uptime!OpenIncidents, Uptime!OpenAlerts
<1>4. RowsWereAlerted' /\ MonitorKnows'
  BY DEF UptimeOwnInv, RowsWereAlerted, MonitorKnows, Uptime!OnlyDowntimeCounts, Known
<1>5. CallKnows(k)'
  BY DEF CallKnows, Known, Uptime!Tracks
<1>6. /\ \A i \in Uptime!Incidents : incidents[i].status # "absent" => incidents'[i].status # "absent"
      /\ \A a \in Uptime!Alerts : tlsAlerts[a] # "absent" => tlsAlerts'[a] # "absent"
      /\ queued \subseteq queued' /\ (interrupted => interrupted')
  OBVIOUS
<1>7. monitor'.failures <= monitor.failures
  BY UptimeTypes DEF Uptime!Monitor
<1>8. ~overlapped => IsCurrent(k)'
  BY DEF IsCurrent
<1>9. ~overlapped /\ ~interrupted' => MonitorAgrees' /\ EventIsNew(k)'
  <2> SUFFICES ASSUME ~overlapped, ~interrupted PROVE MonitorAgrees' /\ EventIsNew(k)'
    OBVIOUS
  <2>1. MonitorAgrees
    BY DEF UptimeOwnInv, MonitorIsRight
  <2>2. MonitorAgrees'
    BY <2>1, StoringKeeps
  <2>3. EventIsNew(k)'
    BY DEF EventIsNew
  <2> QED
    BY <2>2, <2>3
<1>10. k.at # "idle" => k.read = call[c].read \/ k.read = monitor
  OBVIOUS
<1> QED
  BY <1>1, <1>2, <1>3, <1>4, <1>5, <1>6, <1>7, <1>8, <1>9, <1>10, UptimeGoesOn

\* A call writes the monitor row and ends.
LEMMA UptimeSaves ==
    ASSUME UptimeOwnInv, NEW c \in Actors, call[c].at # "idle", Uptime!Finish(c),
           NEW m \in Uptime!Monitor, Uptime!Save(m),
           UNCHANGED <<incidents, observed, tlsAlerts, queued, window, entitled, overlapped, purged, calls, changes>>,
           m.counted \subseteq {down1, down2, down3}, m.active # Uptime!None => Known(m.active),
           m.failures <= monitor.failures \/ m.failures <= call[c].read.failures + 1,
           ~overlapped /\ ~interrupted' => MonitorAgrees'
    PROVE  UptimeOwnInv'
<1> DEFINE k == Uptime!IdleCall
<1>1. k \in UptimeCall /\ call' = [call EXCEPT ![c] = k] /\ k.at = "idle"
  BY UptimeFacts DEF Uptime!Finish
<1>2. UNCHANGED <<calls, overlapped, window, entitled, purged>> /\ changes' \in 0 .. MaxUptimeChanges
  BY UptimeTypes
<1>3. monitor' = m /\ interrupted' = (interrupted \/ Uptime!LetsGo(m))
  BY DEF Uptime!Save
<1>4. /\ monitor' \in Uptime!Monitor /\ incidents' \in [Uptime!Incidents -> Uptime!Incident]
      /\ observed' \in [Uptime!Events -> ObservedAs] /\ tlsAlerts' \in [Uptime!Alerts -> {"absent", "open", "resolved"}]
      /\ queued' \subseteq Messages
  BY <1>3, UptimeTypes
<1>5. interrupted' \in BOOLEAN /\ (interrupted => interrupted')
  BY <1>3, UptimeTypes
<1>6. UptimeRowsInOrder'
  BY DEF UptimeOwnInv, UptimeRowsInOrder, Uptime!OpenIncidents, Uptime!OpenAlerts
<1>7. RowsWereAlerted'
  BY DEF UptimeOwnInv, RowsWereAlerted
<1>8. MonitorKnows'
  BY <1>3 DEF UptimeOwnInv, MonitorKnows, Uptime!OnlyDowntimeCounts, Known
<1>9. /\ \A i \in Uptime!Incidents : incidents[i].status # "absent" => incidents'[i].status # "absent"
      /\ \A a \in Uptime!Alerts : tlsAlerts[a] # "absent" => tlsAlerts'[a] # "absent"
      /\ queued \subseteq queued'
  OBVIOUS
<1>10. monitor'.failures <= monitor.failures \/ (k.at = "idle" /\ monitor'.failures <= call[c].read.failures + 1)
  BY <1>1, <1>3
<1>11. CallKnows(k)' /\ IsCurrent(k)' /\ EventIsNew(k)'
  BY IdleKnows
<1> HIDE DEF k
<1> QED
  BY <1>1, <1>2, <1>4, <1>5, <1>6, <1>7, <1>8, <1>9, <1>10, <1>11, UptimeGoesOn

\* A row that takes nothing from an incident or a first failure keeps them in step.
LEMMA LettingNothingGo ==
    ASSUME UptimeOwnInv, MonitorAgrees, NEW m \in Uptime!Monitor, monitor' = m, ~Uptime!LetsGo(m),
           UNCHANGED <<incidents, observed, purged>>,
           m.status \notin {"first-failure", "incident"},
           \/ m.failures = 0 /\ m.first = {} /\ m.counted = {} /\ m.active = Uptime!None
           \/ m = [monitor EXCEPT !.status = m.status]
    PROVE  MonitorAgrees'
<1>1. ~IncidentCounted(monitor)
  <2> SUFFICES ASSUME IncidentCounted(monitor) PROVE FALSE
    OBVIOUS
  <2>1. monitor.active \in Uptime!OpenIncidents
    BY DEF IncidentCounted, MonitorAgrees, Uptime!OpenIncidents
  <2> QED
    BY <2>1 DEF Uptime!LetsGo
<1>2. NothingCounted(m)
  <2>1. CASE m.failures = 0 /\ m.first = {} /\ m.counted = {} /\ m.active = Uptime!None
    BY <2>1 DEF NothingCounted
  <2>2. CASE m = [monitor EXCEPT !.status = m.status]
    <3>1. /\ m.failures = monitor.failures /\ m.first = monitor.first
          /\ m.counted = monitor.counted /\ m.active = monitor.active
      BY <2>2, UptimeTypes DEF Uptime!Monitor
    <3>2. ~FirstCounted(monitor)
      BY <3>1 DEF FirstCounted, Uptime!LetsGo
    <3>3. NothingCounted(monitor)
      BY <1>1, <3>2 DEF MonitorAgrees
    <3> QED
      BY <3>1, <3>3 DEF NothingCounted
  <2> QED
    BY <2>1, <2>2
<1>3. monitor.status # "incident"
  BY <1>1 DEF MonitorAgrees, NothingCounted, FirstCounted
<1>4. NothingCounted(monitor)'
  BY <1>2 DEF NothingCounted
<1>5. \A i \in Uptime!Incidents :
         /\ incidents'[i].status = "open" <=> m.status = "incident" /\ m.active = i
         /\ incidents'[i].status # "absent" => Cardinality(incidents'[i].counted) >= 2
  BY <1>3 DEF MonitorAgrees
<1> QED
  BY <1>4, <1>5 DEF MonitorAgrees

LEMMA EventOfCall ==
    ASSUME UptimeOwnInv, NEW c \in Actors, call[c].at \in WithEvent
    PROVE  Uptime!Event(c) \in Uptime!Events /\ call[c].events = {Uptime!Event(c)}
<1>1. PICK e \in Uptime!Events : call[c].events = {e}
  BY DEF UptimeOwnInv, CallKnows
<1> QED
  BY <1>1 DEF Uptime!Event

LEMMA CallsKnow ==
    ASSUME UptimeOwnInv, NEW c \in Actors
    PROVE  /\ call[c] \in UptimeCall /\ CallKnows(call[c]) /\ (~overlapped => IsCurrent(call[c]))
           /\ ~overlapped /\ ~interrupted => EventIsNew(call[c]) /\ MonitorAgrees
           /\ monitor.counted \subseteq {down1, down2, down3}
           /\ \A i \in Uptime!Incidents : incidents[i].counted \subseteq {down1, down2, down3}
           /\ monitor.active # Uptime!None => Known(monitor.active)
BY UptimeTypes DEF UptimeOwnInv, CallsAreAlone, MonitorIsRight, MonitorKnows, Uptime!OnlyDowntimeCounts

\* A call that ends without a write.
LEMMA UptimeEnds ==
    ASSUME UptimeOwnInv, NEW c \in Actors, call[c].at # "idle", Uptime!Finish(c),
           UNCHANGED <<monitor, incidents, observed, tlsAlerts, queued, window, entitled, overlapped,
                       interrupted, purged, calls>>,
           changes' \in 0 .. MaxUptimeChanges
    PROVE  UptimeOwnInv'
<1> DEFINE k == Uptime!IdleCall
<1>1. k \in UptimeCall /\ call' = [call EXCEPT ![c] = k] /\ k.at = "idle"
  BY UptimeFacts DEF Uptime!Finish
<1>2. CallKnows(k) /\ IsCurrent(k) /\ EventIsNew(k)
  BY IdleKnows
<1> HIDE DEF k
<1> QED
  BY <1>1, <1>2, UptimeQuietly

LEMMA ClassifyKeeps ==
    ASSUME UptimeOwnInv, NEW c \in Actors, Uptime!Classify(c)
    PROVE  UptimeOwnInv'
<1>1. PICK e : e = Uptime!Event(c)
  OBVIOUS
<1>2. /\ call[c].at = "classify" /\ e \in Uptime!Events /\ call[c].events = {e}
  BY <1>1, EventOfCall DEF Uptime!Classify, Uptime!At, WithEvent
<1>3. /\ UNCHANGED <<calls, overlapped, monitor, incidents, tlsAlerts, queued, window, entitled, interrupted, purged, changes>>
      /\ changes' \in 0 .. MaxUptimeChanges
  BY UptimeTypes DEF Uptime!Classify, Uptime!Unbegun
<1>4. /\ call[c] \in UptimeCall /\ CallKnows(call[c])
      /\ ~overlapped /\ ~interrupted => EventIsNew(call[c])
  BY CallsKnow
<1>5. ~Uptime!RepeatedFirst(c) => (monitor.status = "first-failure" => monitor.first # {e})
  BY <1>2 DEF Uptime!RepeatedFirst
<1>6. ASSUME NEW s \in Uptime!Step, Uptime!Goto(c, s)
      PROVE  \E k \in UptimeCall : /\ k = [call[c] EXCEPT !.at = s]
                                   /\ call' = [call EXCEPT ![c] = k]
                                   /\ k.at = s /\ k.events = {e} /\ k.read = call[c].read /\ k.row = call[c].row
                                   /\ k.id = call[c].id
  <2>1. PICK k : k = [call[c] EXCEPT !.at = s]
    OBVIOUS
  <2>2. /\ k \in UptimeCall /\ k.at = s /\ k.events = {e} /\ k.read = call[c].read /\ k.row = call[c].row
        /\ k.id = call[c].id
    BY <1>2, <1>4, <2>1 DEF UptimeCall
  <2>3. call' = [call EXCEPT ![c] = k]
    BY <1>6, <2>1, UptimeTypes DEF Uptime!Goto
  <2> QED
    BY <2>1, <2>2, <2>3
<1>7. CASE Uptime!Finish(c) /\ UNCHANGED observed
  BY <1>2, <1>3, <1>7, UptimeEnds
<1>8. CASE ~Uptime!RepeatedFirst(c) /\ observed' = Uptime!Store(observed, e, "unknown") /\ Uptime!Finish(c)
  <2> DEFINE k == Uptime!IdleCall
  <2>1. k \in UptimeCall /\ call' = [call EXCEPT ![c] = k] /\ k.at = "idle"
    BY <1>8, UptimeFacts DEF Uptime!Finish
  <2>2. CallKnows(k) /\ IsCurrent(k)
    BY IdleKnows
  <2>3. "unknown" \in ObservedAs /\ call[c].at # "idle"
    BY <1>2 DEF ObservedAs
  <2> HIDE DEF k
  <2> QED
    BY <1>2, <1>3, <1>5, <1>8, <2>1, <2>2, <2>3, UptimeStores
<1>9. CASE ~Uptime!RepeatedFirst(c) /\ UNCHANGED observed /\ (Uptime!Goto(c, "tls") \/ Uptime!Goto(c, "succeed"))
  <2>1. PICK s \in {"tls", "succeed"} : Uptime!Goto(c, s)
    BY <1>9
  <2>2. s \in Uptime!Step
    BY DEF Uptime!Step
  <2>3. PICK k \in UptimeCall : /\ call' = [call EXCEPT ![c] = k]
                                /\ k.at = s /\ k.events = {e} /\ k.read = call[c].read /\ k.row = call[c].row
    BY <1>6, <2>1, <2>2
  <2>4. CallKnows(k)
    BY <1>2, <1>4, <2>3 DEF CallKnows, HasIncident, WithEvent
  <2>5. IsCurrent(k)
    BY <2>3 DEF IsCurrent, HasIncident, HasMonitor
  <2>6. ~overlapped /\ ~interrupted => EventIsNew(k)
    BY <1>2, <1>4, <1>5, <1>9, <2>3 DEF EventIsNew
  <2> QED
    BY <1>2, <1>3, <1>9, <2>3, <2>4, <2>5, <2>6, UptimeQuietly
<1>10. CASE /\ ~Uptime!RepeatedFirst(c) /\ e \in {down1, down2, down3} /\ UNCHANGED observed
            /\ Uptime!Goto(c, "fail")
  <2>1. "fail" \in Uptime!Step
    BY DEF Uptime!Step
  <2>2. PICK k \in UptimeCall : /\ call' = [call EXCEPT ![c] = k]
                                /\ k.at = "fail" /\ k.events = {e} /\ k.read = call[c].read /\ k.row = call[c].row
    BY <1>6, <1>10, <2>1
  <2>3. CallKnows(k)
    BY <1>2, <1>4, <1>10, <2>2 DEF CallKnows, HasIncident, WithEvent
  <2>4. IsCurrent(k)
    BY <2>2 DEF IsCurrent, HasIncident, HasMonitor
  <2>5. ~overlapped /\ ~interrupted => EventIsNew(k)
    BY <1>2, <1>4, <1>5, <1>10, <2>2 DEF EventIsNew
  <2> QED
    BY <1>2, <1>3, <1>10, <2>2, <2>3, <2>4, <2>5, UptimeQuietly
<1>11. CASE /\ ~Uptime!RepeatedFirst(c) /\ e \in {down1, down2, down3}
            /\ observed' = Uptime!Store(observed, e, "maintenance") /\ Uptime!Goto(c, "maintain")
  <2>1. "maintain" \in Uptime!Step /\ "maintenance" \in ObservedAs /\ call[c].at # "idle"
    BY <1>2 DEF Uptime!Step, ObservedAs
  <2>2. PICK k \in UptimeCall : /\ call' = [call EXCEPT ![c] = k]
                                /\ k.at = "maintain" /\ k.events = {e} /\ k.read = call[c].read /\ k.row = call[c].row
    BY <1>6, <1>11, <2>1
  <2>3. CallKnows(k)
    BY <1>2, <1>4, <1>11, <2>2 DEF CallKnows, HasIncident, WithEvent
  <2>4. IsCurrent(k)
    BY <2>2 DEF IsCurrent, HasIncident, HasMonitor
  <2> QED
    BY <1>2, <1>3, <1>5, <1>11, <2>1, <2>2, <2>3, <2>4, UptimeStores
<1>12. e \in {down1, down2, down3} \cup {tls} /\ ~Uptime!IsTlsFailure(e) => e \in {down1, down2, down3}
  BY DEF Uptime!IsTlsFailure
<1> QED
  BY <1>1, <1>7, <1>8, <1>9, <1>10, <1>11, <1>12 DEF Uptime!Classify

\* A call that reads the monitor row, and an incident or an alert by it.
LEMMA ReadingKeeps ==
    ASSUME UptimeOwnInv, NEW c \in Actors,
           \/ Uptime!ReadMaintained(c) \/ Uptime!ReadFailing(c) \/ Uptime!ReadSucceeding(c)
    PROVE  UptimeOwnInv'
<1>1. /\ call[c] \in UptimeCall /\ CallKnows(call[c])
      /\ ~overlapped /\ ~interrupted => EventIsNew(call[c])
      /\ monitor.counted \subseteq {down1, down2, down3}
      /\ monitor.active # Uptime!None => Known(monitor.active)
  BY CallsKnow
<1>2. /\ UNCHANGED <<monitor, incidents, observed, tlsAlerts, queued, window, entitled, overlapped,
                     interrupted, purged, calls>>
      /\ changes' \in 0 .. MaxUptimeChanges
  BY UptimeTypes DEF Uptime!ReadMaintained, Uptime!ReadFailing, Uptime!ReadSucceeding
<1>3. monitor \in Uptime!Monitor
  BY UptimeTypes
<1>4. CASE Uptime!ReadMaintained(c) \/ Uptime!ReadFailing(c)
  <2>1. PICK s \in {"mark", "count"} :
          /\ call' = [call EXCEPT ![c] = [call[c] EXCEPT !.at = s, !.read = monitor]]
          /\ call[c].at = IF s = "mark" THEN "maintain" ELSE "fail"
    BY <1>4, UptimeTypes DEF Uptime!ReadMaintained, Uptime!ReadFailing, Uptime!ReadMonitor, Uptime!At
  <2>2. PICK k : k = [call[c] EXCEPT !.at = s, !.read = monitor]
    OBVIOUS
  <2>3. /\ k \in UptimeCall /\ k.at = s /\ k.events = call[c].events /\ k.read = monitor /\ k.row = call[c].row
    BY <1>1, <1>3, <2>2 DEF UptimeCall, Uptime!Step
  <2>4. CallKnows(k)
    BY <1>1, <2>1, <2>3 DEF CallKnows, HasIncident, WithEvent
  <2>5. IsCurrent(k)
    BY <2>3 DEF IsCurrent, HasIncident
  <2>6. ~overlapped /\ ~interrupted => EventIsNew(k)
    BY <1>1, <2>1, <2>3 DEF EventIsNew
  <2> QED
    BY <1>2, <2>1, <2>2, <2>3, <2>4, <2>5, <2>6, UptimeQuietly
<1>5. CASE Uptime!ReadSucceeding(c)
  <2>1. PICK s \in {"restore", "resolve"}, a \in Uptime!Alerts \cup {Uptime!None} :
          /\ call' = [call EXCEPT ![c] = [call[c] EXCEPT !.at = s, !.read = monitor, !.id = a]]
          /\ s = "resolve" => a \in Uptime!OpenAlerts
    <3>1. CASE Uptime!OpenAlerts = {}
      BY <1>5, <3>1, UptimeTypes DEF Uptime!ReadSucceeding
    <3>2. CASE Uptime!OpenAlerts # {}
      <4>1. (CHOOSE a \in Uptime!OpenAlerts : TRUE) \in Uptime!OpenAlerts
        BY <3>2
      <4>2. Uptime!OpenAlerts \subseteq Uptime!Alerts
        BY DEF Uptime!OpenAlerts
      <4> QED
        BY <1>5, <3>2, <4>1, <4>2, UptimeTypes DEF Uptime!ReadSucceeding
    <3> QED
      BY <3>1, <3>2
  <2>2. PICK k : k = [call[c] EXCEPT !.at = s, !.read = monitor, !.id = a]
    OBVIOUS
  <2>3. /\ k \in UptimeCall /\ k.at = s /\ k.events = call[c].events /\ k.read = monitor /\ k.row = call[c].row
        /\ k.id = a
    BY <1>1, <1>3, <2>2 DEF UptimeCall, Uptime!Step
  <2>4. call[c].at = "succeed"
    BY <1>5 DEF Uptime!ReadSucceeding, Uptime!At
  <2>5. s = "resolve" => a \in Uptime!Alerts /\ tlsAlerts[a] # "absent"
    BY <2>1 DEF Uptime!OpenAlerts
  <2>6. CallKnows(k)
    BY <1>1, <2>3, <2>4, <2>5 DEF CallKnows, HasIncident, WithEvent
  <2>7. IsCurrent(k)
    BY <2>3 DEF IsCurrent, HasIncident
  <2>8. EventIsNew(k)
    BY <2>3 DEF EventIsNew
  <2> QED
    BY <1>2, <2>1, <2>2, <2>3, <2>4, <2>6, <2>7, <2>8, UptimeQuietly
<1> QED
  BY <1>4, <1>5

LEMMA IncidentReadKeeps ==
    ASSUME UptimeOwnInv, NEW c \in Actors, Uptime!ReadTouched(c) \/ Uptime!ReadRecovering(c)
    PROVE  UptimeOwnInv'
<1>1. /\ call[c] \in UptimeCall /\ CallKnows(call[c])
      /\ ~overlapped => IsCurrent(call[c])
      /\ ~overlapped /\ ~interrupted => EventIsNew(call[c])
      /\ \A i \in Uptime!Incidents : incidents[i].counted \subseteq {down1, down2, down3}
  BY CallsKnow
<1>2. /\ UNCHANGED <<monitor, incidents, observed, tlsAlerts, queued, window, entitled, overlapped,
                     interrupted, purged, calls>>
      /\ changes' \in 0 .. MaxUptimeChanges
  BY UptimeTypes DEF Uptime!ReadTouched, Uptime!ReadRecovering
<1>3. PICK i : i = call[c].read.active
  OBVIOUS
<1>4. Uptime!Tracks(call[c].read) /\ Known(i) /\ incidents[i] \in Uptime!Incident
  BY <1>1, <1>3, UptimeTypes DEF Uptime!ReadTouched, Uptime!ReadRecovering, Uptime!Tracks, CallKnows, Known
<1>5. PICK s \in {"touch", "recover"} :
        /\ call' = [call EXCEPT ![c] = [call[c] EXCEPT !.at = s, !.id = i, !.row = incidents[i]]]
        /\ call[c].at = IF s = "touch" THEN "count" ELSE "restore"
  BY <1>3, UptimeTypes DEF Uptime!ReadTouched, Uptime!ReadRecovering, Uptime!ReadIncident, Uptime!At
<1>6. PICK k : k = [call[c] EXCEPT !.at = s, !.id = i, !.row = incidents[i]]
  OBVIOUS
<1>7. /\ k \in UptimeCall /\ k.at = s /\ k.events = call[c].events /\ k.read = call[c].read /\ k.row = incidents[i]
      /\ k.id = i
  BY <1>1, <1>4, <1>6 DEF UptimeCall, Uptime!Step, Known
<1>8. incidents[i].status = "recovered" => <<"recovery", i>> \in queued
  BY <1>4 DEF UptimeOwnInv, RowsWereAlerted, Known
<1>9. CallKnows(k)
  BY <1>1, <1>3, <1>4, <1>5, <1>7, <1>8 DEF CallKnows, HasIncident, WithEvent, Known
<1>10. ~overlapped => IsCurrent(k)
  BY <1>1, <1>5, <1>7 DEF IsCurrent, HasIncident, HasMonitor
<1>11. ~overlapped /\ ~interrupted => EventIsNew(k)
  BY <1>1, <1>5, <1>7 DEF EventIsNew
<1> QED
  BY <1>2, <1>5, <1>6, <1>7, <1>9, <1>10, <1>11, UptimeQuietly

\* Saves of a healthy, disabled, maintained or provisioned monitor.
LEMMA MonitorSaveKeeps ==
    ASSUME UptimeOwnInv, NEW c \in Actors,
           \/ Uptime!MarkMaintained(c) \/ Uptime!DiscardTransient(c) \/ Uptime!SaveHealthy(c)
           \/ Uptime!DisableUptime(c) \/ Uptime!SaveProvisioned(c)
    PROVE  UptimeOwnInv'
<1>1. PICK m0 : m0 = call[c].read
  OBVIOUS
<1>2. /\ call[c] \in UptimeCall /\ CallKnows(call[c])
      /\ ~overlapped => IsCurrent(call[c])
      /\ ~overlapped /\ ~interrupted => MonitorAgrees
  BY CallsKnow
<1>3. /\ m0 \in Uptime!Monitor /\ m0.counted \subseteq {down1, down2, down3}
      /\ m0.active # Uptime!None => Known(m0.active)
  BY <1>1, <1>2 DEF CallKnows, UptimeCall
<1>4. call[c].at \in HasMonitor \ {"count", "touch", "recover"} /\ call[c].at # "idle"
  BY DEF Uptime!MarkMaintained, Uptime!DiscardTransient, Uptime!SaveHealthy, Uptime!DisableUptime,
         Uptime!SaveProvisioned, Uptime!At, HasMonitor
<1>5. ~overlapped => m0 = monitor
  BY <1>1, <1>2, <1>4 DEF IsCurrent
<1>6. /\ UNCHANGED <<incidents, observed, tlsAlerts, queued, window, entitled, overlapped, purged, calls, changes>>
      /\ Uptime!Finish(c)
  BY DEF Uptime!MarkMaintained, Uptime!DiscardTransient, Uptime!SaveHealthy, Uptime!DisableUptime,
         Uptime!SaveProvisioned, Uptime!Unbegun
<1>7. ASSUME NEW m \in Uptime!Monitor, Uptime!Save(m), m.counted \subseteq m0.counted,
             m.active \in {m0.active, Uptime!None}, m.failures <= m0.failures,
             \/ m = m0
             \/ /\ m.status \notin {"first-failure", "incident"}
                /\ \/ m.failures = 0 /\ m.first = {} /\ m.counted = {} /\ m.active = Uptime!None
                   \/ m = [m0 EXCEPT !.status = m.status]
      PROVE  UptimeOwnInv'
  <2>1. m.counted \subseteq {down1, down2, down3} /\ (m.active # Uptime!None => Known(m.active))
    BY <1>3, <1>7
  <2>2. m.failures <= call[c].read.failures + 1
    BY <1>1, <1>3, <1>7 DEF Uptime!Monitor
  <2>3. monitor' = m /\ interrupted' = (interrupted \/ Uptime!LetsGo(m))
    BY <1>7 DEF Uptime!Save
  <2>4. ASSUME ~overlapped, ~interrupted' PROVE MonitorAgrees'
    <3>1. ~interrupted /\ ~Uptime!LetsGo(m) /\ m0 = monitor /\ MonitorAgrees
      BY <1>2, <1>5, <2>3, <2>4, UptimeTypes
    <3>2. CASE m = m0
      <4>1. UNCHANGED <<monitor, incidents, observed, purged>>
        BY <1>6, <2>3, <3>1, <3>2
      <4> QED
        BY <3>1, <4>1 DEF MonitorAgrees, NothingCounted, FirstCounted, IncidentCounted
    <3>3. CASE /\ m.status \notin {"first-failure", "incident"}
               /\ \/ m.failures = 0 /\ m.first = {} /\ m.counted = {} /\ m.active = Uptime!None
                  \/ m = [m0 EXCEPT !.status = m.status]
      BY <1>6, <1>7, <2>3, <3>1, <3>3, LettingNothingGo
    <3> QED
      BY <1>7, <3>2, <3>3
  <2> QED
    BY <1>4, <1>6, <1>7, <2>1, <2>2, <2>4, UptimeSaves
<1>8. CASE Uptime!MarkMaintained(c)
  <2>1. PICK m : m = [m0 EXCEPT !.status = "maintenance"]
    OBVIOUS
  <2>2. /\ m \in Uptime!Monitor /\ m.counted = m0.counted /\ m.active = m0.active /\ m.failures = m0.failures
        /\ m.status = "maintenance" /\ m = [m0 EXCEPT !.status = m.status]
    BY <1>3, <2>1 DEF Uptime!Monitor, Uptime!MonitorStatus
  <2>3. Uptime!Save(m) /\ m.failures <= m0.failures
    BY <1>1, <1>3, <1>8, <2>1, <2>2 DEF Uptime!MarkMaintained, Uptime!Monitor
  <2> QED
    BY <1>7, <2>2, <2>3
<1>9. CASE Uptime!SaveProvisioned(c)
  <2>1. PICK s \in {"healthy", m0.status} : Uptime!Save([m0 EXCEPT !.status = s])
    BY <1>1, <1>9 DEF Uptime!SaveProvisioned
  <2>2. PICK m : m = [m0 EXCEPT !.status = s]
    OBVIOUS
  <2>3. /\ m \in Uptime!Monitor /\ m.counted = m0.counted /\ m.active = m0.active /\ m.failures = m0.failures
        /\ m.status = s /\ m = [m0 EXCEPT !.status = m.status]
    BY <1>3, <2>1, <2>2 DEF Uptime!Monitor, Uptime!MonitorStatus
  <2>4. m.failures <= m0.failures
    BY <1>3, <2>3 DEF Uptime!Monitor
  <2>5. s = m0.status => m = m0
    BY <1>3, <2>2 DEF Uptime!Monitor
  <2> QED
    BY <1>7, <2>1, <2>2, <2>3, <2>4, <2>5
<1>10. CASE Uptime!DiscardTransient(c) \/ Uptime!SaveHealthy(c) \/ Uptime!DisableUptime(c)
  <2>1. PICK s \in {"healthy", "disabled"} :
          Uptime!Save([m0 EXCEPT !.status = s, !.failures = 0, !.first = {}, !.active = Uptime!None, !.counted = {}])
    BY <1>1, <1>10 DEF Uptime!DiscardTransient, Uptime!SaveHealthy, Uptime!DisableUptime, Uptime!Reset, Uptime!Disabled
  <2>2. PICK m : m = [m0 EXCEPT !.status = s, !.failures = 0, !.first = {}, !.active = Uptime!None, !.counted = {}]
    OBVIOUS
  <2>3. /\ m \in Uptime!Monitor /\ m.counted = {} /\ m.active = Uptime!None /\ m.failures = 0 /\ m.first = {}
        /\ m.status = s
    <3>1. s \in Uptime!MonitorStatus /\ 0 \in 0 .. MaxUptimeCalls
      BY UptimeTypes DEF Uptime!MonitorStatus
    <3>2. m = [status |-> s, failures |-> 0, first |-> {}, active |-> Uptime!None, counted |-> {}]
      BY <1>3, <2>2 DEF Uptime!Monitor
    <3> QED
      BY <3>1, <3>2 DEF Uptime!Monitor
  <2>4. m.failures <= m0.failures
    BY <1>3, <2>3 DEF Uptime!Monitor
  <2> QED
    BY <1>7, <2>1, <2>2, <2>3, <2>4
<1> QED
  BY <1>8, <1>9, <1>10

\* A first failure is counted of a monitor that has counted nothing.
LEMMA CountKeeps ==
    ASSUME UptimeOwnInv, NEW c \in Actors, Uptime!CountFailure(c)
    PROVE  UptimeOwnInv'
<1>1. PICK m0, e : m0 = call[c].read /\ e = Uptime!Event(c)
  OBVIOUS
<1>2. call[c].at = "count" /\ ~Uptime!Tracks(m0) /\ m0.failures + 1 < 2
  BY <1>1 DEF Uptime!CountFailure, Uptime!At
<1>3. /\ call[c] \in UptimeCall /\ CallKnows(call[c])
      /\ ~overlapped => IsCurrent(call[c])
      /\ ~overlapped /\ ~interrupted => EventIsNew(call[c]) /\ MonitorAgrees
  BY CallsKnow
<1>4. e \in Uptime!Events /\ call[c].events = {e} /\ e \in {down1, down2, down3}
  <2>1. e \in Uptime!Events /\ call[c].events = {e}
    BY <1>1, <1>2, EventOfCall DEF WithEvent
  <2> QED
    BY <1>2, <1>3, <2>1 DEF CallKnows
<1>5. /\ m0 \in Uptime!Monitor /\ m0.counted \subseteq {down1, down2, down3}
      /\ m0.active # Uptime!None => Known(m0.active)
  BY <1>1, <1>3 DEF CallKnows, UptimeCall
<1>6. m0.failures = 0 /\ MaxUptimeCalls \in Nat \ {0}
  <2>1. m0.failures \in 0 .. MaxUptimeCalls /\ MaxUptimeCalls \in Nat /\ MaxUptimeCalls - 1 \in Nat
    BY <1>5, UptimeFacts DEF Uptime!Monitor
  <2> QED
    BY <1>2, <2>1
<1>7. PICK m : m = Uptime!FirstFailure(m0, e)
  OBVIOUS
<1>8. /\ m.status = "first-failure" /\ m.failures = 1 /\ m.active = m0.active /\ m.counted = m0.counted \cup {e}
      /\ m.first = IF m0.first = {} THEN {e} ELSE m0.first
  BY <1>5, <1>6, <1>7 DEF Uptime!FirstFailure, Uptime!Monitor
<1>9. m \in Uptime!Monitor
  <2>1. 1 \in 0 .. MaxUptimeCalls /\ "first-failure" \in Uptime!MonitorStatus
    BY <1>6 DEF Uptime!MonitorStatus
  <2>2. m = [status |-> m.status, failures |-> m.failures, first |-> m.first, active |-> m.active, counted |-> m.counted]
    BY <1>5, <1>7 DEF Uptime!FirstFailure, Uptime!Monitor
  <2>3. /\ m.status \in Uptime!MonitorStatus /\ m.failures \in 0 .. MaxUptimeCalls
        /\ m.active \in Uptime!Incidents \cup {Uptime!None}
    BY <1>5, <1>8, <2>1 DEF Uptime!Monitor
  <2>4. m.first \in SUBSET Uptime!Events /\ m.counted \in SUBSET Uptime!Events
    BY <1>4, <1>5, <1>8 DEF Uptime!Monitor
  <2> QED
    BY <2>2, <2>3, <2>4 DEF Uptime!Monitor
<1>10. /\ UNCHANGED <<incidents, observed, tlsAlerts, queued, window, entitled, overlapped, purged, calls, changes>>
       /\ Uptime!Finish(c) /\ Uptime!Save(m) /\ call[c].at # "idle"
  BY <1>1, <1>2, <1>7 DEF Uptime!CountFailure, Uptime!Unbegun
<1>11. m.counted \subseteq {down1, down2, down3} /\ (m.active # Uptime!None => Known(m.active))
  BY <1>4, <1>5, <1>8
<1>12. m.failures <= call[c].read.failures + 1
  BY <1>1, <1>6, <1>8
<1>13. ASSUME ~overlapped, ~interrupted' PROVE MonitorAgrees'
  <2>1. ~interrupted /\ monitor' = m
    BY <1>10, <1>13, UptimeTypes DEF Uptime!Save
  <2>2. MonitorAgrees /\ EventIsNew(call[c]) /\ m0 = monitor
    BY <1>1, <1>2, <1>3, <1>13, <2>1 DEF IsCurrent, HasMonitor
  <2>3. NothingCounted(monitor)
    <3>1. ~FirstCounted(monitor)
      BY <1>6, <2>2 DEF FirstCounted
    <3>2. ~IncidentCounted(monitor)
      BY <1>2, <2>2, UptimeFacts DEF IncidentCounted, Uptime!Tracks
    <3> QED
      BY <2>2, <3>1, <3>2 DEF MonitorAgrees
  <2>4. observed[e] = "none"
    BY <1>2, <1>4, <2>2 DEF EventIsNew
  <2>5. m.first = {e} /\ m.counted = {e} /\ m.active = Uptime!None
    BY <1>8, <2>2, <2>3 DEF NothingCounted
  <2>6. FirstCounted(monitor)'
    BY <1>4, <1>8, <1>10, <2>1, <2>4, <2>5 DEF FirstCounted
  <2>7. \A i \in Uptime!Incidents :
           /\ incidents'[i].status = "open" <=> m.status = "incident" /\ m.active = i
           /\ incidents'[i].status # "absent" => Cardinality(incidents'[i].counted) >= 2
    BY <1>8, <1>10, <2>2, <2>3 DEF MonitorAgrees, NothingCounted
  <2> QED
    BY <2>1, <2>6, <2>7 DEF MonitorAgrees
<1> QED
  BY <1>9, <1>10, <1>11, <1>12, <1>13, UptimeSaves

LEMMA StoreHealthyKeeps ==
    ASSUME UptimeOwnInv, NEW c \in Actors, Uptime!StoreHealthy(c)
    PROVE  UptimeOwnInv'
<1>1. PICK e : e = Uptime!Event(c)
  OBVIOUS
<1>2. call[c].at = "restore" /\ call[c].read.status \notin {"first-failure", "maintenance"} /\ call[c].at # "idle"
  BY DEF Uptime!StoreHealthy, Uptime!At
<1>3. e \in Uptime!Events /\ call[c].events = {e}
  BY <1>1, <1>2, EventOfCall DEF WithEvent
<1>4. /\ call[c] \in UptimeCall /\ CallKnows(call[c])
      /\ ~overlapped => IsCurrent(call[c])
  BY CallsKnow
<1>5. PICK k : k = [call[c] EXCEPT !.at = "stored"]
  OBVIOUS
<1>6. /\ k \in UptimeCall /\ k.at = "stored" /\ k.events = {e} /\ k.read = call[c].read /\ k.row = call[c].row
  BY <1>3, <1>4, <1>5 DEF UptimeCall, Uptime!Step
<1>7. /\ UNCHANGED <<monitor, incidents, tlsAlerts, queued, window, entitled, overlapped,
                     interrupted, purged, calls, changes>>
      /\ observed' = Uptime!Store(observed, e, "healthy") /\ "healthy" \in ObservedAs
      /\ call' = [call EXCEPT ![c] = k]
  BY <1>1, <1>5, UptimeTypes DEF Uptime!StoreHealthy, Uptime!Unbegun, Uptime!Goto, ObservedAs
<1>8. CallKnows(k)
  BY <1>2, <1>3, <1>4, <1>6 DEF CallKnows, HasIncident, WithEvent
<1>9. ~overlapped => IsCurrent(k)
  BY <1>2, <1>4, <1>6 DEF IsCurrent, HasIncident, HasMonitor
<1>10. ~overlapped => monitor.status # "first-failure"
  BY <1>2, <1>4 DEF IsCurrent, HasMonitor
<1> QED
  BY <1>2, <1>3, <1>6, <1>7, <1>8, <1>9, <1>10, UptimeStores

LEMMA LeastNatural ==
    ASSUME NEW S \in SUBSET Nat, S # {}
    PROVE  \E n \in S : \A m \in S : n <= m
<1>1. PICK R : R = {ss \in Nat \X Nat : ss[1] < ss[2]}
  OBVIOUS
<1>2. IsWellFoundedOn(R, Nat)
  BY <1>1, NatLessThanWellFounded DEF OpToRel
<1>3. PICK n \in S : \A m \in S : ~ (<<m, n>> \in R)
  BY <1>2, WFMin
<1>4. ASSUME NEW m \in S PROVE n <= m
  <2>1. m \in Nat /\ n \in Nat /\ ~ (<<m, n>> \in R)
    BY <1>3
  <2>2. <<m, n>> \in Nat \X Nat /\ <<m, n>>[1] = m /\ <<m, n>>[2] = n
    BY <2>1
  <2>3. ~ (m < n)
    BY <1>1, <2>1, <2>2
  <2> QED
    BY <2>1, <2>3
<1> QED
  BY <1>4

\* Rows numbered from 1 without a gap are as many as the last number.
LEMMA NumberedInOrder ==
    ASSUME NEW N \in Nat, NEW S \in SUBSET (1 .. N), \A i \in S : 1 .. i \subseteq S
    PROVE  Cardinality(S) \in Nat /\ S = 1 .. Cardinality(S)
<1>1. PICK R \in SUBSET Nat : R = {n \in Nat : n + 1 \notin S}
  OBVIOUS
<1>2. N \in R
  BY <1>1
<1>3. PICK n \in R : \A m \in R : n <= m
  BY <1>2, LeastNatural
<1>4. n \in Nat /\ n + 1 \notin S
  BY <1>1, <1>3
<1>5. ASSUME NEW i \in 1 .. n PROVE i \in S
  <2>1. i - 1 \in Nat /\ ~ (n <= i - 1)
    BY <1>4
  <2>2. i - 1 \notin R
    BY <1>3, <2>1
  <2> QED
    BY <1>1, <2>1, <2>2
<1>6. ASSUME NEW i \in S PROVE i \in 1 .. n
  <2>1. i \in Nat /\ i >= 1 /\ 1 .. i \subseteq S
    OBVIOUS
  <2>2. n + 1 \notin 1 .. i
    BY <1>4, <2>1
  <2> QED
    BY <1>4, <2>1, <2>2
<1>7. S = 1 .. n
  BY <1>5, <1>6
<1>8. Cardinality(1 .. n) = n
  BY <1>4, FS_Interval
<1> QED
  BY <1>4, <1>7, <1>8

LEMMA NextRows ==
    ASSUME UptimeOwnInv
    PROVE  /\ Uptime!NextIncident \in Nat /\ Uptime!NextAlert \in Nat
           /\ \A i \in Uptime!Incidents : incidents[i].status # "absent" <=> i < Uptime!NextIncident
           /\ \A a \in Uptime!Alerts : tlsAlerts[a] # "absent" <=> a < Uptime!NextAlert
<1>1. MaxIncidents \in Nat /\ MaxAlerts \in Nat
  BY UptimeFacts
<1>2. UptimeRowsInOrder
  BY DEF UptimeOwnInv
<1>3. PICK I : I = {i \in Uptime!Incidents : incidents[i].status # "absent"}
  OBVIOUS
<1>4. PICK A : A = {a \in Uptime!Alerts : tlsAlerts[a] # "absent"}
  OBVIOUS
<1>5. Cardinality(I) \in Nat /\ I = 1 .. Cardinality(I)
  <2>1. I \in SUBSET (1 .. MaxIncidents)
    BY <1>3 DEF Uptime!Incidents
  <2>2. ASSUME NEW i \in I PROVE 1 .. i \subseteq I
    BY <1>1, <1>2, <1>3, <2>2 DEF UptimeRowsInOrder, Uptime!Incidents
  <2> QED
    BY <1>1, <2>1, <2>2, NumberedInOrder
<1>6. Cardinality(A) \in Nat /\ A = 1 .. Cardinality(A)
  <2>1. A \in SUBSET (1 .. MaxAlerts)
    BY <1>4 DEF Uptime!Alerts
  <2>2. ASSUME NEW a \in A PROVE 1 .. a \subseteq A
    BY <1>1, <1>2, <1>4, <2>2 DEF UptimeRowsInOrder, Uptime!Alerts
  <2> QED
    BY <1>1, <2>1, <2>2, NumberedInOrder
<1>7. Uptime!NextIncident = Cardinality(I) + 1 /\ Uptime!NextAlert = Cardinality(A) + 1
  <2>1. \A S : Uptime!Cardinality(S) = Cardinality(S)
    BY DEF Uptime!Cardinality, Cardinality
  <2> QED
    BY <1>3, <1>4, <2>1 DEF Uptime!NextIncident, Uptime!NextAlert
<1>8. ASSUME NEW i \in Uptime!Incidents PROVE incidents[i].status # "absent" <=> i < Uptime!NextIncident
  <2>1. incidents[i].status # "absent" <=> i \in 1 .. Cardinality(I)
    BY <1>3, <1>5
  <2>2. i \in Nat /\ i >= 1
    BY <1>1 DEF Uptime!Incidents
  <2> QED
    BY <1>5, <1>7, <2>1, <2>2
<1>9. ASSUME NEW a \in Uptime!Alerts PROVE tlsAlerts[a] # "absent" <=> a < Uptime!NextAlert
  <2>1. tlsAlerts[a] # "absent" <=> a \in 1 .. Cardinality(A)
    BY <1>4, <1>6
  <2>2. a \in Nat /\ a >= 1
    BY <1>1 DEF Uptime!Alerts
  <2> QED
    BY <1>6, <1>7, <2>1, <2>2
<1> QED
  BY <1>5, <1>6, <1>7, <1>8, <1>9

\* A TLS failure is stored, and opens an alert when none is open.
LEMMA TlsKeeps ==
    ASSUME UptimeOwnInv, NEW c \in Actors, Uptime!ProcessTlsFailure(c)
    PROVE  UptimeOwnInv'
<1>1. PICK e : e = Uptime!Event(c)
  OBVIOUS
<1> DEFINE k == Uptime!IdleCall
<1>2. call[c].at = "tls" /\ call[c].at # "idle"
  BY DEF Uptime!ProcessTlsFailure, Uptime!At
<1>3. e \in Uptime!Events /\ call[c].events = {e}
  BY <1>1, <1>2, EventOfCall DEF WithEvent
<1>4. ~overlapped /\ ~interrupted => EventIsNew(call[c]) /\ MonitorAgrees
  BY CallsKnow
<1>5. ~overlapped /\ ~interrupted => (monitor.status = "first-failure" => monitor.first # {e})
  BY <1>2, <1>3, <1>4 DEF EventIsNew
<1>6. /\ UNCHANGED <<monitor, incidents, window, entitled, overlapped, interrupted, purged, calls, changes>>
      /\ observed' = Uptime!Store(observed, e, "tls-error") /\ "tls-error" \in ObservedAs
      /\ Uptime!Finish(c)
  BY <1>1 DEF Uptime!ProcessTlsFailure, Uptime!Unbegun, ObservedAs
<1>7. k \in UptimeCall /\ call' = [call EXCEPT ![c] = k] /\ k.at = "idle"
  BY <1>6, UptimeFacts DEF Uptime!Finish
<1>8. CallKnows(k) /\ IsCurrent(k) /\ CallKnows(k)' /\ IsCurrent(k)' /\ EventIsNew(k)'
  BY IdleKnows
<1> HIDE DEF k
<1>9. CASE UNCHANGED <<tlsAlerts, queued>>
  BY <1>2, <1>3, <1>5, <1>6, <1>7, <1>8, <1>9, UptimeStores
<1>10. CASE Uptime!OpenAlerts = {} /\ Uptime!CreateTlsAlert /\ queued' = queued \cup {<<"tls-open", Uptime!NextAlert>>}
  <2>1. PICK a : a = Uptime!NextAlert
    OBVIOUS
  <2>2. a \in Uptime!Alerts /\ tlsAlerts' = [tlsAlerts EXCEPT ![a] = "open"] /\ queued' = queued \cup {<<"tls-open", a>>}
    BY <1>10, <2>1 DEF Uptime!CreateTlsAlert
  <2>3. tlsAlerts[a] = "absent" /\ a \in Nat /\ \A b \in Uptime!Alerts : b < a => tlsAlerts[b] # "absent"
    BY <2>1, <2>2, NextRows
  <2>4. tlsAlerts'[a] = "open" /\ \A b \in Uptime!Alerts \ {a} : tlsAlerts'[b] = tlsAlerts[b]
    BY <2>2, UptimeTypes
  <2>5. UptimeRowsInOrder /\ RowsWereAlerted
    BY DEF UptimeOwnInv
  <2>6. UptimeRowsInOrder'
    <3>1. ASSUME NEW b \in Uptime!Alerts, tlsAlerts'[b] # "absent", NEW d \in 1 .. b PROVE tlsAlerts'[d] # "absent"
      <4>1. d \in Uptime!Alerts /\ b \in Nat /\ d \in Nat /\ d <= b
        BY <3>1, UptimeFacts DEF Uptime!Alerts
      <4>2. CASE b = a
        BY <2>3, <2>4, <4>1, <4>2
      <4>3. CASE b # a
        BY <2>4, <2>5, <3>1, <4>1, <4>3 DEF UptimeRowsInOrder
      <4> QED
        BY <4>2, <4>3
    <3>2. Uptime!OpenAlerts' = {a}
      BY <1>10, <2>2, <2>4 DEF Uptime!OpenAlerts
    <3>3. Uptime!OpenIncidents' = Uptime!OpenIncidents
      BY <1>6 DEF Uptime!OpenIncidents
    <3> QED
      BY <1>6, <2>5, <3>1, <3>2, <3>3 DEF UptimeRowsInOrder
  <2>7. RowsWereAlerted'
    <3>1. \A x : <<"confirmed", x>> \in queued' <=> <<"confirmed", x>> \in queued
      BY <2>2
    <3>2. \A x : <<"recovery", x>> \in queued' <=> <<"recovery", x>> \in queued
      BY <2>2
    <3>3. \A x : <<"tls-resolved", x>> \in queued' <=> <<"tls-resolved", x>> \in queued
      BY <2>2
    <3>4. \A x : <<"tls-open", x>> \in queued' <=> x = a \/ <<"tls-open", x>> \in queued
      BY <2>2
    <3> QED
      BY <1>6, <2>3, <2>4, <2>5, <3>1, <3>2, <3>3, <3>4 DEF RowsWereAlerted
  <2>8. MonitorKnows'
    BY <1>6 DEF UptimeOwnInv, MonitorKnows, Uptime!OnlyDowntimeCounts, Known
  <2>9. /\ tlsAlerts' \in [Uptime!Alerts -> {"absent", "open", "resolved"}]
        /\ queued' \subseteq Messages /\ queued \subseteq queued'
        /\ observed' \in [Uptime!Events -> ObservedAs]
        /\ monitor' \in Uptime!Monitor /\ incidents' \in [Uptime!Incidents -> Uptime!Incident]
        /\ interrupted' \in BOOLEAN /\ changes' \in 0 .. MaxUptimeChanges
    BY <1>3, <1>6, <2>2, StoreTypes, UptimeTypes DEF Messages
  <2>10. \A b \in Uptime!Alerts : tlsAlerts[b] # "absent" => tlsAlerts'[b] # "absent"
    BY <2>4
  <2>11. /\ UNCHANGED <<calls, overlapped, window, entitled, purged>> /\ (interrupted => interrupted')
         /\ \A i \in Uptime!Incidents : incidents[i].status # "absent" => incidents'[i].status # "absent"
         /\ monitor'.failures <= monitor.failures
    BY <1>6, UptimeTypes DEF Uptime!Monitor
  <2>12. ~overlapped /\ ~interrupted' => MonitorAgrees' /\ EventIsNew(k)'
    BY <1>3, <1>4, <1>5, <1>6, <1>8, StoringKeeps
  <2> QED
    BY <1>2, <1>7, <1>8, <2>6, <2>7, <2>8, <2>9, <2>10, <2>11, <2>12, UptimeGoesOn
<1> QED
  BY <1>9, <1>10 DEF Uptime!ProcessTlsFailure

LEMMA ResolveKeeps ==
    ASSUME UptimeOwnInv, NEW c \in Actors, Uptime!ResolveTls(c)
    PROVE  UptimeOwnInv'
<1>1. /\ call[c] \in UptimeCall /\ CallKnows(call[c]) /\ (~overlapped => IsCurrent(call[c]))
      /\ ~overlapped /\ ~interrupted => MonitorAgrees
  BY CallsKnow
<1>2. PICK a : a = call[c].id
  OBVIOUS
<1>3. call[c].at = "resolve" /\ a \in Uptime!Alerts /\ tlsAlerts[a] # "absent"
  BY <1>1, <1>2 DEF Uptime!ResolveTls, Uptime!At, CallKnows
<1>4. /\ tlsAlerts' = [tlsAlerts EXCEPT ![a] = "resolved"] /\ queued' = queued \cup {<<"tls-resolved", a>>}
      /\ UNCHANGED <<monitor, incidents, observed, window, entitled, overlapped, interrupted, purged, calls, changes>>
  BY <1>2 DEF Uptime!ResolveTls, Uptime!Unbegun
<1>5. PICK k : k = [call[c] EXCEPT !.at = "restore"]
  OBVIOUS
<1>6. /\ k \in UptimeCall /\ k.at = "restore" /\ k.events = call[c].events /\ k.read = call[c].read
      /\ k.row = call[c].row
  BY <1>1, <1>5 DEF UptimeCall, Uptime!Step
<1>7. call' = [call EXCEPT ![c] = k] /\ call[c].at # "idle"
  BY <1>3, <1>5, UptimeTypes DEF Uptime!ResolveTls, Uptime!Goto
<1>8. tlsAlerts'[a] = "resolved" /\ \A b \in Uptime!Alerts \ {a} : tlsAlerts'[b] = tlsAlerts[b]
  BY <1>3, <1>4, UptimeTypes
<1>9. UptimeRowsInOrder /\ RowsWereAlerted
  BY DEF UptimeOwnInv
<1>10. UptimeRowsInOrder'
  <2>1. \A b \in Uptime!Alerts : tlsAlerts'[b] # "absent" <=> tlsAlerts[b] # "absent"
    BY <1>3, <1>8
  <2>2. ASSUME NEW b \in Uptime!Alerts, tlsAlerts'[b] # "absent", NEW d \in 1 .. b PROVE tlsAlerts'[d] # "absent"
    <3>1. d \in Uptime!Alerts
      BY <2>2, UptimeFacts DEF Uptime!Alerts
    <3> QED
      BY <1>9, <2>1, <2>2, <3>1 DEF UptimeRowsInOrder
  <2>3. Uptime!OpenAlerts' \subseteq Uptime!OpenAlerts
    BY <1>3, <1>8 DEF Uptime!OpenAlerts
  <2>4. Uptime!OpenIncidents' = Uptime!OpenIncidents
    BY <1>4 DEF Uptime!OpenIncidents
  <2> QED
    BY <1>4, <1>9, <2>2, <2>3, <2>4 DEF UptimeRowsInOrder
<1>11. RowsWereAlerted'
  <2>1. \A x : <<"confirmed", x>> \in queued' <=> <<"confirmed", x>> \in queued
    BY <1>4
  <2>2. \A x : <<"recovery", x>> \in queued' <=> <<"recovery", x>> \in queued
    BY <1>4
  <2>3. \A x : <<"tls-resolved", x>> \in queued' <=> x = a \/ <<"tls-resolved", x>> \in queued
    BY <1>4
  <2>4. \A x : <<"tls-open", x>> \in queued' <=> <<"tls-open", x>> \in queued
    BY <1>4
  <2> QED
    BY <1>3, <1>4, <1>8, <1>9, <2>1, <2>2, <2>3, <2>4 DEF RowsWereAlerted
<1>12. MonitorKnows'
  BY <1>4 DEF UptimeOwnInv, MonitorKnows, Uptime!OnlyDowntimeCounts, Known
<1>13. /\ tlsAlerts' \in [Uptime!Alerts -> {"absent", "open", "resolved"}]
       /\ queued' \subseteq Messages /\ queued \subseteq queued'
       /\ observed' \in [Uptime!Events -> ObservedAs]
       /\ monitor' \in Uptime!Monitor /\ incidents' \in [Uptime!Incidents -> Uptime!Incident]
       /\ interrupted' \in BOOLEAN /\ changes' \in 0 .. MaxUptimeChanges
  BY <1>3, <1>4, UptimeTypes DEF Messages
<1>14. \A b \in Uptime!Alerts : tlsAlerts[b] # "absent" => tlsAlerts'[b] # "absent"
  BY <1>8
<1>15. /\ UNCHANGED <<calls, overlapped, window, entitled, purged>> /\ (interrupted => interrupted')
       /\ \A i \in Uptime!Incidents : incidents[i].status # "absent" => incidents'[i].status # "absent"
       /\ monitor'.failures <= monitor.failures
  BY <1>4, UptimeTypes DEF Uptime!Monitor
<1>16. CallKnows(k)'
  BY <1>1, <1>3, <1>4, <1>6 DEF CallKnows, HasIncident, WithEvent, Known, Uptime!Tracks
<1>17. ~overlapped => IsCurrent(k)'
  BY <1>1, <1>3, <1>4, <1>6 DEF IsCurrent, HasIncident, HasMonitor
<1>18. ~overlapped /\ ~interrupted' => MonitorAgrees' /\ EventIsNew(k)'
  <2> SUFFICES ASSUME ~overlapped, ~interrupted PROVE MonitorAgrees' /\ EventIsNew(k)'
    BY <1>4
  <2>1. MonitorAgrees'
    BY <1>1, <1>4 DEF MonitorAgrees, NothingCounted, FirstCounted, IncidentCounted
  <2>2. EventIsNew(k)'
    BY <1>6 DEF EventIsNew
  <2> QED
    BY <2>1, <2>2
<1>19. k.read = call[c].read \/ k.read = monitor
  BY <1>6
<1> QED
  BY <1>6, <1>7, <1>10, <1>11, <1>12, <1>13, <1>14, <1>15, <1>16, <1>17, <1>18, <1>19, UptimeGoesOn

LEMMA TwoElements ==
    ASSUME NEW x, NEW y, x # y
    PROVE  Cardinality({x, y}) = 2
<1>1. IsFiniteSet({x}) /\ Cardinality({x}) = 1
  BY FS_Singleton
<1>2. Cardinality({x} \cup {y}) = 1 + 1
  BY <1>1, FS_AddElement
<1>3. {x} \cup {y} = {x, y}
  OBVIOUS
<1> QED
  BY <1>2, <1>3

\* The row that a call under way has read has counted fewer failures than were called.
LEMMA RoomToCount ==
    ASSUME UptimeOwnInv, NEW c \in Actors, call[c].at # "idle"
    PROVE  /\ call[c].read.failures \in Nat /\ call[c].read.failures + 1 \in 0 .. MaxUptimeCalls
<1>1. c \in Busy /\ IsFiniteSet(Busy) /\ call[c].read.failures + Cardinality(Busy) <= calls
  BY DEF UptimeOwnInv, CallsWereCounted, Busy
<1>2. PICK n : n = Cardinality(Busy)
  OBVIOUS
<1>3. n \in Nat
  BY <1>1, <1>2, FS_CardinalityType
<1>4. n # 0
  BY <1>1, <1>2, FS_EmptySet
<1>5. call[c].read.failures \in Nat
  BY UptimeTypes DEF UptimeCall, Uptime!Monitor
<1>6. calls \in Nat /\ MaxUptimeCalls \in Nat /\ calls <= MaxUptimeCalls
  BY UptimeTypes
<1>7. call[c].read.failures + n <= calls
  BY <1>1, <1>2
<1>8. call[c].read.failures + 1 <= MaxUptimeCalls
  BY <1>3, <1>4, <1>5, <1>6, <1>7
<1> QED
  BY <1>5, <1>6, <1>8

\* An incident that is there, or the next one, is written over: rows stay in order and
\* one is open, as the unique index admits no second.
LEMMA IncidentWritten ==
    ASSUME UptimeOwnInv, NEW i \in Uptime!Incidents, NEW r \in Uptime!Incident, r.status # "absent",
           Uptime!SaveIncident(i, r), UNCHANGED tlsAlerts,
           Known(i) \/ i = Uptime!NextIncident,
           queued' \in {queued, queued \cup {<<"confirmed", i>>}, queued \cup {<<"recovery", i>>}},
           <<"confirmed", i>> \in queued', r.status = "recovered" => <<"recovery", i>> \in queued'
    PROVE  /\ UptimeRowsInOrder' /\ RowsWereAlerted'
           /\ incidents' \in [Uptime!Incidents -> Uptime!Incident]
           /\ queued' \subseteq Messages /\ queued \subseteq queued'
           /\ incidents'[i] = r /\ \A j \in Uptime!Incidents \ {i} : incidents'[j] = incidents[j]
           /\ \A j \in Uptime!Incidents : incidents[j].status # "absent" => incidents'[j].status # "absent"
           /\ \A a \in Uptime!Alerts : tlsAlerts[a] # "absent" => tlsAlerts'[a] # "absent"
           /\ Known(i)'
<1>1. /\ incidents' \in [Uptime!Incidents -> Uptime!Incident]
      /\ incidents'[i] = r /\ \A j \in Uptime!Incidents \ {i} : incidents'[j] = incidents[j]
  BY UptimeTypes DEF Uptime!SaveIncident
<1>2. queued' \subseteq Messages /\ queued \subseteq queued'
  BY UptimeTypes DEF Messages
<1>3. \A j \in Uptime!Incidents : incidents[j].status # "absent" => incidents'[j].status # "absent"
  BY <1>1
<1>4. UptimeRowsInOrder /\ RowsWereAlerted
  BY DEF UptimeOwnInv
<1>5. ASSUME NEW j \in Uptime!Incidents, j < i PROVE incidents[j].status # "absent"
  <2>1. CASE i = Uptime!NextIncident
    BY <1>5, <2>1, NextRows
  <2>2. CASE Known(i)
    <3>1. j \in 1 .. i
      BY <1>5, UptimeFacts DEF Uptime!Incidents
    <3> QED
      BY <1>4, <2>2, <3>1 DEF UptimeRowsInOrder, Known
  <2> QED
    BY <2>1, <2>2
<1>6. UptimeRowsInOrder'
  <2>1. ASSUME NEW b \in Uptime!Incidents, incidents'[b].status # "absent", NEW d \in 1 .. b
        PROVE  incidents'[d].status # "absent"
    <3>1. d \in Uptime!Incidents /\ b \in Nat /\ d \in Nat /\ i \in Nat /\ d <= b
      BY <2>1, UptimeFacts DEF Uptime!Incidents
    <3>2. CASE d = i
      BY <1>1, <3>2
    <3>3. CASE d # i /\ b = i
      <4>1. d < i
        BY <3>1, <3>3
      <4> QED
        BY <1>3, <1>5, <3>1, <4>1
    <3>4. CASE d # i /\ b # i
      <4>1. incidents[b].status # "absent"
        BY <1>1, <2>1, <3>4
      <4> QED
        BY <1>3, <1>4, <2>1, <3>1, <4>1 DEF UptimeRowsInOrder
    <3> QED
      BY <3>2, <3>3, <3>4
  <2>2. ASSUME NEW b \in Uptime!OpenIncidents', NEW d \in Uptime!OpenIncidents' PROVE b = d
    <3>1. b \in Uptime!Incidents /\ d \in Uptime!Incidents /\ incidents'[b].status = "open" /\ incidents'[d].status = "open"
      BY <2>2 DEF Uptime!OpenIncidents
    <3>2. CASE r.status = "open"
      <4>1. Uptime!OpenIncidents \subseteq {i}
        BY <3>2 DEF Uptime!SaveIncident, Uptime!Admitted
      <4> QED
        BY <1>1, <3>1, <4>1 DEF Uptime!OpenIncidents
    <3>3. CASE r.status # "open"
      <4>1. b \in Uptime!OpenIncidents /\ d \in Uptime!OpenIncidents
        BY <1>1, <3>1, <3>3 DEF Uptime!OpenIncidents
      <4> QED
        BY <1>4, <4>1 DEF UptimeRowsInOrder
    <3> QED
      BY <3>2, <3>3
  <2>3. Uptime!OpenAlerts' = Uptime!OpenAlerts
    BY DEF Uptime!OpenAlerts
  <2> QED
    BY <1>4, <2>1, <2>2, <2>3 DEF UptimeRowsInOrder
<1>7. RowsWereAlerted'
  <2>1. \A x : x # i => (<<"confirmed", x>> \in queued' <=> <<"confirmed", x>> \in queued)
    OBVIOUS
  <2>2. \A x : <<"recovery", x>> \in queued => <<"recovery", x>> \in queued'
    BY <1>2
  <2>3. \A x : <<"tls-resolved", x>> \in queued' <=> <<"tls-resolved", x>> \in queued
    OBVIOUS
  <2>4. \A x : <<"tls-open", x>> \in queued' <=> <<"tls-open", x>> \in queued
    OBVIOUS
  <2>5. ASSUME NEW j \in Uptime!Incidents
        PROVE  /\ incidents'[j].status # "absent" <=> <<"confirmed", j>> \in queued'
               /\ incidents'[j].status = "recovered" => <<"recovery", j>> \in queued'
    <3>1. CASE j = i
      BY <1>1, <3>1
    <3>2. CASE j # i
      BY <1>1, <1>4, <2>1, <2>2, <3>2 DEF RowsWereAlerted
    <3> QED
      BY <3>1, <3>2
  <2>6. ASSUME NEW a \in Uptime!Alerts
        PROVE  /\ tlsAlerts'[a] # "absent" <=> <<"tls-open", a>> \in queued'
               /\ tlsAlerts'[a] = "resolved" <=> <<"tls-resolved", a>> \in queued'
    BY <1>4, <2>3, <2>4 DEF RowsWereAlerted
  <2> QED
    BY <2>5, <2>6 DEF RowsWereAlerted
<1>8. Known(i)'
  BY <1>1 DEF Known
<1> QED
  BY <1>1, <1>2, <1>3, <1>6, <1>7, <1>8

\* A second failure that is counted opens an incident.
LEMMA ConfirmKeeps ==
    ASSUME UptimeOwnInv, NEW c \in Actors, Uptime!ConfirmIncident(c)
    PROVE  UptimeOwnInv'
<1>1. PICK m0 : m0 = call[c].read
  OBVIOUS
<1>2. PICK e : e = Uptime!Event(c)
  OBVIOUS
<1>3. PICK i : i = Uptime!NextIncident
  OBVIOUS
<1> DEFINE k == Uptime!IdleCall
<1>4. /\ call[c].at = "count" /\ call[c].at # "idle" /\ ~Uptime!Tracks(m0) /\ m0.failures + 1 >= 2
      /\ i \in Uptime!Incidents
  BY <1>1, <1>3 DEF Uptime!ConfirmIncident, Uptime!Confirms, Uptime!At
<1>5. e \in Uptime!Events /\ call[c].events = {e}
  BY <1>2, <1>4, EventOfCall DEF WithEvent
<1>6. /\ call[c] \in UptimeCall /\ CallKnows(call[c]) /\ (~overlapped => IsCurrent(call[c]))
      /\ ~overlapped /\ ~interrupted => EventIsNew(call[c]) /\ MonitorAgrees
      /\ \A j \in Uptime!Incidents : incidents[j].counted \subseteq {down1, down2, down3}
  BY CallsKnow
<1>7. /\ m0 \in Uptime!Monitor /\ m0.counted \subseteq {down1, down2, down3} /\ e \in {down1, down2, down3}
  BY <1>1, <1>4, <1>5, <1>6 DEF CallKnows, UptimeCall
<1>8. m0.failures \in Nat /\ m0.failures + 1 \in 0 .. MaxUptimeCalls
  BY <1>1, <1>4, RoomToCount
<1>9. PICK m : m = Uptime!Confirmed(m0, e, i)
  OBVIOUS
<1>10. /\ m \in Uptime!Monitor /\ m.status = "incident" /\ m.failures = m0.failures + 1 /\ m.active = i
       /\ m.counted = m0.counted \cup {e}
  BY <1>4, <1>5, <1>7, <1>8, <1>9 DEF Uptime!Confirmed, Uptime!Monitor, Uptime!MonitorStatus
<1>11. PICK r : r = Uptime!Opened(c)
  OBVIOUS
<1>12. r = [status |-> "open", counted |-> m.counted]
  BY <1>1, <1>2, <1>3, <1>9, <1>11 DEF Uptime!Opened
<1>13. r \in Uptime!Incident /\ r.status = "open" /\ r.counted = m0.counted \cup {e}
  BY <1>10, <1>12 DEF Uptime!Incident, Uptime!Monitor
<1>14. /\ monitor' = m /\ interrupted' = (interrupted \/ Uptime!LetsGo(m))
       /\ Uptime!SaveIncident(i, r) /\ queued' = queued \cup {<<"confirmed", i>>}
       /\ observed' = [x \in Uptime!Events |-> IF x \in call[c].read.first \cup call[c].events /\ observed[x] = "none"
                                               THEN "unhealthy" ELSE observed[x]]
       /\ UNCHANGED <<tlsAlerts, window, entitled, overlapped, purged, calls, changes>> /\ Uptime!Finish(c)
  BY <1>1, <1>2, <1>3, <1>9, <1>11 DEF Uptime!ConfirmIncident, Uptime!Save, Uptime!Unbegun
<1>15. k \in UptimeCall /\ call' = [call EXCEPT ![c] = k] /\ k.at = "idle"
  BY <1>14, UptimeFacts DEF Uptime!Finish
<1>16. CallKnows(k)' /\ IsCurrent(k)' /\ EventIsNew(k)'
  BY IdleKnows
<1> HIDE DEF k
<1>17. <<"confirmed", i>> \in queued' /\ (r.status = "recovered" => <<"recovery", i>> \in queued')
  BY <1>13, <1>14
<1>18. /\ UptimeRowsInOrder' /\ RowsWereAlerted'
       /\ incidents' \in [Uptime!Incidents -> Uptime!Incident]
       /\ queued' \subseteq Messages /\ queued \subseteq queued'
       /\ incidents'[i] = r /\ \A j \in Uptime!Incidents \ {i} : incidents'[j] = incidents[j]
       /\ \A j \in Uptime!Incidents : incidents[j].status # "absent" => incidents'[j].status # "absent"
       /\ \A a \in Uptime!Alerts : tlsAlerts[a] # "absent" => tlsAlerts'[a] # "absent"
       /\ Known(i)'
  BY <1>3, <1>4, <1>13, <1>14, <1>17, IncidentWritten
<1>19. MonitorKnows'
  BY <1>6, <1>7, <1>10, <1>13, <1>14, <1>18 DEF MonitorKnows, Uptime!OnlyDowntimeCounts, Known
<1>20. /\ observed' \in [Uptime!Events -> ObservedAs] /\ monitor' \in Uptime!Monitor
       /\ tlsAlerts' \in [Uptime!Alerts -> {"absent", "open", "resolved"}]
       /\ interrupted' \in BOOLEAN /\ changes' \in 0 .. MaxUptimeChanges
  BY <1>10, <1>14, UptimeTypes DEF ObservedAs
<1>21. UNCHANGED <<calls, overlapped, window, entitled, purged>> /\ (interrupted => interrupted')
  BY <1>14
<1>22. k.at = "idle" /\ monitor'.failures <= call[c].read.failures + 1
  BY <1>1, <1>8, <1>10, <1>14, <1>15
<1>23. ASSUME ~overlapped, ~interrupted' PROVE MonitorAgrees'
  <2>1. ~interrupted
    BY <1>21, <1>23
  <2>2. MonitorAgrees /\ EventIsNew(call[c]) /\ m0 = monitor
    BY <1>1, <1>4, <1>6, <1>23, <2>1 DEF IsCurrent, HasMonitor
  <2>3. FirstCounted(monitor)
    <3>1. ~NothingCounted(monitor)
      BY <1>4, <2>2 DEF NothingCounted
    <3>2. ~IncidentCounted(monitor)
      BY <1>4, <2>2, UptimeFacts DEF IncidentCounted, Uptime!Tracks
    <3> QED
      BY <2>2, <3>1, <3>2 DEF MonitorAgrees
  <2>4. PICK x \in {down1, down2, down3} : monitor.first = {x} /\ monitor.counted = {x} /\ observed[x] = "none"
    BY <2>3 DEF FirstCounted
  <2>5. observed[e] = "none" /\ x # e /\ x \in Uptime!Events
    BY <1>4, <1>5, <2>2, <2>3, <2>4, UptimeFacts DEF EventIsNew, FirstCounted
  <2>6. m.counted = {x, e}
    BY <1>10, <2>2, <2>4
  <2>7. observed'[x] = "unhealthy" /\ observed'[e] = "unhealthy"
    BY <1>1, <1>5, <1>14, <2>2, <2>4, <2>5
  <2>8. IncidentCounted(monitor)'
    BY <1>4, <1>10, <1>13, <1>14, <1>18, <2>6, <2>7 DEF IncidentCounted
  <2>9. Cardinality({x, e}) = 2
    BY <2>5, FS_EmptySet, FS_AddElement, FS_Singleton, TwoElements
  <2>10. r.counted = {x, e}
    BY <1>10, <1>13, <2>6
  <2>11. ASSUME NEW j \in Uptime!Incidents
         PROVE  /\ incidents'[j].status = "open" <=> m.status = "incident" /\ m.active = j
                /\ incidents'[j].status # "absent" => Cardinality(incidents'[j].counted) >= 2
    <3>1. CASE j = i
      <4>1. incidents'[j].status = "open" /\ m.status = "incident" /\ m.active = j
        BY <1>10, <1>13, <1>18, <3>1
      <4>2. Cardinality(incidents'[j].counted) = 2
        BY <1>18, <2>9, <2>10, <3>1
      <4> QED
        BY <4>1, <4>2
    <3>2. CASE j # i
      BY <1>10, <1>18, <2>2, <2>3, <3>2 DEF MonitorAgrees, FirstCounted
    <3> QED
      BY <3>1, <3>2
  <2> QED
    BY <1>14, <2>8, <2>11 DEF MonitorAgrees
<1>24. k.at # "idle" => k.read = call[c].read \/ k.read = monitor
  BY <1>15
<1>25. ~overlapped => IsCurrent(k)'
  BY <1>16
<1>26. ~overlapped /\ ~interrupted' => MonitorAgrees' /\ EventIsNew(k)'
  BY <1>16, <1>23
<1> QED
  BY <1>4, <1>15, <1>16, <1>18, <1>19, <1>20, <1>21, <1>22, <1>24, <1>25, <1>26, UptimeGoesOn

LEMMA DowntimeIsFinite ==
    ASSUME NEW S \in SUBSET {down1, down2, down3}, NEW x, Cardinality(S) >= 2
    PROVE  Cardinality(S \cup {x}) >= 2
<1>1. IsFiniteSet({down1, down2, down3})
  <2>1. IsFiniteSet({down1}) /\ IsFiniteSet({down2, down3})
    <3>1. IsFiniteSet({down1}) /\ IsFiniteSet({down2}) /\ IsFiniteSet({down3})
      BY FS_Singleton
    <3>2. {down2} \cup {down3} = {down2, down3}
      OBVIOUS
    <3> QED
      BY <3>1, <3>2, FS_AddElement
  <2>2. {down2, down3} \cup {down1} = {down1, down2, down3}
    OBVIOUS
  <2> QED
    BY <2>1, <2>2, FS_AddElement
<1>2. IsFiniteSet(S)
  BY <1>1, FS_Subset
<1>3. Cardinality(S) \in Nat
  BY <1>2, FS_CardinalityType
<1>4. CASE x \in S
  <2>1. S \cup {x} = S
    BY <1>4
  <2> QED
    BY <2>1
<1>5. CASE x \notin S
  <2>1. Cardinality(S \cup {x}) = Cardinality(S) + 1
    BY <1>2, <1>5, FS_AddElement
  <2> QED
    BY <1>3, <2>1
<1> QED
  BY <1>4, <1>5

\* A failure within an incident writes both rows back as they were read, with it counted.
LEMMA TouchKeeps ==
    ASSUME UptimeOwnInv, NEW c \in Actors, Uptime!TouchIncident(c)
    PROVE  UptimeOwnInv'
<1>1. PICK m0 : m0 = call[c].read
  OBVIOUS
<1>2. PICK e : e = Uptime!Event(c)
  OBVIOUS
<1>3. PICK i : i = call[c].id
  OBVIOUS
<1> DEFINE k == Uptime!IdleCall
<1>4. call[c].at = "touch" /\ call[c].at # "idle"
  BY DEF Uptime!TouchIncident, Uptime!At
<1>5. e \in Uptime!Events /\ call[c].events = {e}
  BY <1>2, <1>4, EventOfCall DEF WithEvent
<1>6. /\ call[c] \in UptimeCall /\ CallKnows(call[c]) /\ (~overlapped => IsCurrent(call[c]))
      /\ ~overlapped /\ ~interrupted => EventIsNew(call[c]) /\ MonitorAgrees
      /\ \A j \in Uptime!Incidents : incidents[j].counted \subseteq {down1, down2, down3}
  BY CallsKnow
<1>7. PICK r0 : r0 = call[c].row
  OBVIOUS
<1>8. /\ m0 \in Uptime!Monitor /\ m0.counted \subseteq {down1, down2, down3} /\ e \in {down1, down2, down3}
      /\ Uptime!Tracks(m0) /\ i = m0.active
  BY <1>1, <1>3, <1>4, <1>5, <1>6 DEF CallKnows, UptimeCall
<1>9. /\ Known(i) /\ i \in Uptime!Incidents
      /\ r0 \in Uptime!Incident /\ r0.status # "absent" /\ r0.counted \subseteq {down1, down2, down3}
      /\ r0.status = "recovered" => <<"recovery", i>> \in queued
  BY <1>3, <1>4, <1>6, <1>7 DEF CallKnows, UptimeCall, HasIncident, Known
<1>10. m0.failures \in Nat /\ m0.failures + 1 \in 0 .. MaxUptimeCalls
  BY <1>1, <1>4, RoomToCount
<1>11. PICK f : f = IF observed[e] = "none" THEN m0.failures + 1 ELSE m0.failures
  OBVIOUS
<1>12. f \in 0 .. MaxUptimeCalls /\ f <= m0.failures + 1
  BY <1>8, <1>10, <1>11 DEF Uptime!Monitor
<1>13. PICK m : m = [m0 EXCEPT !.failures = f, !.counted = m0.counted \cup {e}]
  OBVIOUS
<1>14. /\ m \in Uptime!Monitor /\ m.status = m0.status /\ m.failures = f /\ m.active = i
       /\ m.counted = m0.counted \cup {e}
  BY <1>5, <1>8, <1>12, <1>13 DEF Uptime!Monitor
<1>15. PICK r : r = [r0 EXCEPT !.counted = r0.counted \cup {e}]
  OBVIOUS
<1>16. r \in Uptime!Incident /\ r.status = r0.status /\ r.counted = r0.counted \cup {e}
  BY <1>5, <1>9, <1>15 DEF Uptime!Incident
<1>17. Uptime!SaveIncident(i, r)
  BY <1>2, <1>3, <1>7, <1>9, <1>15 DEF Uptime!TouchIncident, Uptime!Incident
<1>18. monitor' = m /\ interrupted' = (interrupted \/ Uptime!LetsGo(m))
  <2>1. m = [m0 EXCEPT !.failures = IF observed[e] = "none" THEN @ + 1 ELSE @, !.counted = @ \cup {e}]
    BY <1>8, <1>11, <1>13 DEF Uptime!Monitor
  <2> QED
    BY <1>1, <1>2, <2>1 DEF Uptime!TouchIncident, Uptime!Save
<1>19. /\ observed' = Uptime!Store(observed, e, "unhealthy") /\ "unhealthy" \in ObservedAs
       /\ UNCHANGED <<tlsAlerts, queued, window, entitled, overlapped, purged, calls, changes>> /\ Uptime!Finish(c)
  BY <1>2 DEF Uptime!TouchIncident, Uptime!Unbegun, ObservedAs
<1>20. k \in UptimeCall /\ call' = [call EXCEPT ![c] = k] /\ k.at = "idle"
  BY <1>19, UptimeFacts DEF Uptime!Finish
<1>21. CallKnows(k)' /\ IsCurrent(k)' /\ EventIsNew(k)'
  BY IdleKnows
<1> HIDE DEF k
<1>22. <<"confirmed", i>> \in queued' /\ (r.status = "recovered" => <<"recovery", i>> \in queued')
  BY <1>9, <1>16, <1>19 DEF UptimeOwnInv, RowsWereAlerted, Known
<1>23. /\ UptimeRowsInOrder' /\ RowsWereAlerted'
       /\ incidents' \in [Uptime!Incidents -> Uptime!Incident]
       /\ queued' \subseteq Messages /\ queued \subseteq queued'
       /\ incidents'[i] = r /\ \A j \in Uptime!Incidents \ {i} : incidents'[j] = incidents[j]
       /\ \A j \in Uptime!Incidents : incidents[j].status # "absent" => incidents'[j].status # "absent"
       /\ \A a \in Uptime!Alerts : tlsAlerts[a] # "absent" => tlsAlerts'[a] # "absent"
       /\ Known(i)'
  BY <1>9, <1>16, <1>17, <1>19, <1>22, IncidentWritten
<1>24. MonitorKnows'
  BY <1>6, <1>8, <1>9, <1>14, <1>16, <1>18, <1>23 DEF MonitorKnows, Uptime!OnlyDowntimeCounts, Known
<1>25. /\ observed' \in [Uptime!Events -> ObservedAs] /\ monitor' \in Uptime!Monitor
       /\ tlsAlerts' \in [Uptime!Alerts -> {"absent", "open", "resolved"}]
       /\ interrupted' \in BOOLEAN /\ changes' \in 0 .. MaxUptimeChanges
  BY <1>5, <1>14, <1>18, <1>19, StoreTypes, UptimeTypes
<1>26. UNCHANGED <<calls, overlapped, window, entitled, purged>> /\ (interrupted => interrupted')
  BY <1>18, <1>19
<1>27. k.at = "idle" /\ monitor'.failures <= call[c].read.failures + 1
  BY <1>1, <1>12, <1>14, <1>18, <1>20
<1>28. ASSUME ~overlapped, ~interrupted' PROVE MonitorAgrees'
  <2>1. ~interrupted
    BY <1>26, <1>28
  <2>2. MonitorAgrees /\ EventIsNew(call[c]) /\ m0 = monitor /\ r0 = incidents[i]
    BY <1>1, <1>3, <1>4, <1>6, <1>7, <1>28, <2>1 DEF IsCurrent, HasMonitor, HasIncident
  <2>3. IncidentCounted(monitor)
    BY <1>8, <2>2 DEF MonitorAgrees, NothingCounted, FirstCounted, Uptime!Tracks
  <2>4. observed[e] = "none"
    BY <1>4, <1>5, <2>2 DEF EventIsNew
  <2>5. observed'[e] = "unhealthy" /\ \A x \in Uptime!Events \ {e} : observed'[x] = observed[x]
    BY <1>5, <1>19, <2>4, StoreTypes
  <2>6. m.counted = incidents[i].counted \cup {e} /\ r.counted = m.counted /\ m.counted \subseteq Uptime!Events
    BY <1>8, <1>14, <1>16, <2>2, <2>3 DEF IncidentCounted, Uptime!Monitor
  <2>7. \A x \in m.counted \ purged : observed'[x] \notin {"none", "maintenance"}
    BY <1>14, <2>2, <2>3, <2>5, <2>6 DEF IncidentCounted
  <2>8. m.status = "incident" /\ m.active = i
    BY <1>8, <1>14 DEF Uptime!Tracks
  <2>9. IncidentCounted(monitor)'
    BY <1>9, <1>18, <1>19, <1>23, <2>6, <2>7, <2>8 DEF IncidentCounted
  <2>10. ASSUME NEW j \in Uptime!Incidents
         PROVE  /\ incidents'[j].status = "open" <=> m.status = "incident" /\ m.active = j
                /\ incidents'[j].status # "absent" => Cardinality(incidents'[j].counted) >= 2
    <3>1. CASE j = i
      <4>1. Cardinality(incidents[i].counted) >= 2
        BY <1>9, <2>2 DEF MonitorAgrees, Known
      <4>2. Cardinality(incidents[i].counted \cup {e}) >= 2
        BY <1>6, <1>9, <4>1, DowntimeIsFinite
      <4>3. incidents[i].status = "open"
        BY <1>8, <1>9, <2>2 DEF MonitorAgrees, Uptime!Tracks
      <4> QED
        BY <1>16, <1>23, <2>2, <2>6, <2>8, <3>1, <4>2, <4>3
    <3>2. CASE j # i
      BY <1>8, <1>23, <2>2, <2>8, <3>2 DEF MonitorAgrees, Uptime!Tracks
    <3> QED
      BY <3>1, <3>2
  <2> QED
    BY <1>18, <2>9, <2>10 DEF MonitorAgrees
<1>29. k.at # "idle" => k.read = call[c].read \/ k.read = monitor
  BY <1>20
<1>30. ~overlapped => IsCurrent(k)'
  BY <1>21
<1>31. ~overlapped /\ ~interrupted' => MonitorAgrees' /\ EventIsNew(k)'
  BY <1>21, <1>28
<1> QED
  BY <1>4, <1>20, <1>21, <1>23, <1>24, <1>25, <1>26, <1>27, <1>29, <1>30, <1>31, UptimeGoesOn

\* A success within an incident ends it.
LEMMA RecoverKeeps ==
    ASSUME UptimeOwnInv, NEW c \in Actors, Uptime!RecoverIncident(c)
    PROVE  UptimeOwnInv'
<1>1. PICK m0 : m0 = call[c].read
  OBVIOUS
<1>2. PICK e : e = Uptime!Event(c)
  OBVIOUS
<1>3. PICK i : i = call[c].id
  OBVIOUS
<1> DEFINE k == Uptime!IdleCall
<1>4. call[c].at = "recover" /\ call[c].at # "idle"
  BY DEF Uptime!RecoverIncident, Uptime!At
<1>5. e \in Uptime!Events /\ call[c].events = {e}
  BY <1>2, <1>4, EventOfCall DEF WithEvent
<1>6. /\ call[c] \in UptimeCall /\ CallKnows(call[c]) /\ (~overlapped => IsCurrent(call[c]))
      /\ ~overlapped /\ ~interrupted => MonitorAgrees
      /\ \A j \in Uptime!Incidents : incidents[j].counted \subseteq {down1, down2, down3}
  BY CallsKnow
<1>7. PICK r0 : r0 = call[c].row
  OBVIOUS
<1>8. m0 \in Uptime!Monitor /\ Uptime!Tracks(m0) /\ i = m0.active
  BY <1>1, <1>3, <1>4, <1>6 DEF CallKnows, UptimeCall
<1>9. /\ Known(i) /\ i \in Uptime!Incidents
      /\ r0 \in Uptime!Incident /\ r0.counted \subseteq {down1, down2, down3}
  BY <1>3, <1>4, <1>6, <1>7 DEF CallKnows, UptimeCall, HasIncident, Known
<1>10. PICK m : m = Uptime!Reset(m0)
  OBVIOUS
<1>11. /\ m \in Uptime!Monitor /\ m.status = "healthy" /\ m.failures = 0 /\ m.active = Uptime!None
       /\ m.counted = {} /\ m.first = {}
  BY <1>8, <1>10, UptimeFacts DEF Uptime!Reset, Uptime!Monitor, Uptime!MonitorStatus
<1>12. PICK r : r = [r0 EXCEPT !.status = "recovered"]
  OBVIOUS
<1>13. r \in Uptime!Incident /\ r.status = "recovered" /\ r.counted = r0.counted
  BY <1>9, <1>12 DEF Uptime!Incident
<1>14. /\ monitor' = m /\ UNCHANGED interrupted /\ Uptime!SaveIncident(i, r)
       /\ observed' = Uptime!Store(observed, e, "healthy") /\ "healthy" \in ObservedAs
       /\ queued' = queued \cup {<<"recovery", i>>}
       /\ UNCHANGED <<tlsAlerts, window, entitled, overlapped, purged, calls, changes>> /\ Uptime!Finish(c)
  BY <1>1, <1>2, <1>3, <1>7, <1>10, <1>12 DEF Uptime!RecoverIncident, Uptime!Unbegun, ObservedAs
<1>15. k \in UptimeCall /\ call' = [call EXCEPT ![c] = k] /\ k.at = "idle"
  BY <1>14, UptimeFacts DEF Uptime!Finish
<1>16. CallKnows(k)' /\ IsCurrent(k)' /\ EventIsNew(k)'
  BY IdleKnows
<1> HIDE DEF k
<1>17. <<"confirmed", i>> \in queued' /\ (r.status = "recovered" => <<"recovery", i>> \in queued')
  BY <1>9, <1>14 DEF UptimeOwnInv, RowsWereAlerted, Known
<1>18. r.status # "absent" /\ queued' \in {queued, queued \cup {<<"confirmed", i>>}, queued \cup {<<"recovery", i>>}}
  BY <1>13, <1>14
<1>19. /\ UptimeRowsInOrder' /\ RowsWereAlerted'
       /\ incidents' \in [Uptime!Incidents -> Uptime!Incident]
       /\ queued' \subseteq Messages /\ queued \subseteq queued'
       /\ incidents'[i] = r /\ \A j \in Uptime!Incidents \ {i} : incidents'[j] = incidents[j]
       /\ \A j \in Uptime!Incidents : incidents[j].status # "absent" => incidents'[j].status # "absent"
       /\ \A a \in Uptime!Alerts : tlsAlerts[a] # "absent" => tlsAlerts'[a] # "absent"
       /\ Known(i)'
  BY <1>9, <1>13, <1>14, <1>17, <1>18, IncidentWritten
<1>20. MonitorKnows'
  BY <1>6, <1>9, <1>11, <1>13, <1>14, <1>19 DEF MonitorKnows, Uptime!OnlyDowntimeCounts, Known
<1>21. /\ observed' \in [Uptime!Events -> ObservedAs] /\ monitor' \in Uptime!Monitor
       /\ tlsAlerts' \in [Uptime!Alerts -> {"absent", "open", "resolved"}]
       /\ interrupted' \in BOOLEAN /\ changes' \in 0 .. MaxUptimeChanges
  BY <1>5, <1>11, <1>14, StoreTypes, UptimeTypes
<1>22. UNCHANGED <<calls, overlapped, window, entitled, purged>> /\ (interrupted => interrupted')
  BY <1>14
<1>23. monitor'.failures <= monitor.failures
  BY <1>11, <1>14, UptimeTypes DEF Uptime!Monitor
<1>24. ASSUME ~overlapped, ~interrupted' PROVE MonitorAgrees'
  <2>1. MonitorAgrees /\ m0 = monitor /\ r0 = incidents[i]
    BY <1>1, <1>3, <1>4, <1>6, <1>7, <1>14, <1>24 DEF IsCurrent, HasMonitor, HasIncident
  <2>2. NothingCounted(monitor)'
    BY <1>11, <1>14 DEF NothingCounted
  <2>3. ASSUME NEW j \in Uptime!Incidents
        PROVE  /\ incidents'[j].status = "open" <=> m.status = "incident" /\ m.active = j
               /\ incidents'[j].status # "absent" => Cardinality(incidents'[j].counted) >= 2
    <3>1. CASE j = i
      BY <1>9, <1>11, <1>13, <1>19, <2>1, <3>1 DEF MonitorAgrees, Known
    <3>2. CASE j # i
      BY <1>8, <1>11, <1>19, <2>1, <3>2 DEF MonitorAgrees, Uptime!Tracks
    <3> QED
      BY <3>1, <3>2
  <2> QED
    BY <1>14, <2>2, <2>3 DEF MonitorAgrees
<1>25. k.at # "idle" => k.read = call[c].read \/ k.read = monitor
  BY <1>15
<1>26. ~overlapped => IsCurrent(k)'
  BY <1>16
<1>27. ~overlapped /\ ~interrupted' => MonitorAgrees' /\ EventIsNew(k)'
  BY <1>16, <1>24
<1> QED
  BY <1>4, <1>15, <1>16, <1>19, <1>20, <1>21, <1>22, <1>23, <1>25, <1>26, <1>27, UptimeGoesOn

\* A report writes an incident back as it was read.
LEMMA ReportKeeps ==
    ASSUME UptimeOwnInv, NEW c \in Actors, Uptime!SaveReport(c)
    PROVE  UptimeOwnInv'
<1>1. PICK i : i = call[c].id
  OBVIOUS
<1>2. PICK r : r = call[c].row
  OBVIOUS
<1> DEFINE k == Uptime!IdleCall
<1>3. call[c].at = "report" /\ call[c].at # "idle"
  BY DEF Uptime!SaveReport, Uptime!At
<1>4. /\ call[c] \in UptimeCall /\ CallKnows(call[c]) /\ (~overlapped => IsCurrent(call[c]))
      /\ ~overlapped /\ ~interrupted => MonitorAgrees
      /\ \A j \in Uptime!Incidents : incidents[j].counted \subseteq {down1, down2, down3}
      /\ monitor.counted \subseteq {down1, down2, down3}
      /\ monitor.active # Uptime!None => Known(monitor.active)
  BY CallsKnow
<1>5. /\ Known(i) /\ i \in Uptime!Incidents
      /\ r \in Uptime!Incident /\ r.status # "absent" /\ r.counted \subseteq {down1, down2, down3}
      /\ r.status = "recovered" => <<"recovery", i>> \in queued
  BY <1>1, <1>2, <1>3, <1>4 DEF CallKnows, UptimeCall, HasIncident, Known
<1>6. /\ Uptime!SaveIncident(i, r) /\ Uptime!Finish(c)
      /\ UNCHANGED <<monitor, observed, tlsAlerts, queued, window, entitled, overlapped, interrupted, purged, calls, changes>>
  BY <1>1, <1>2 DEF Uptime!SaveReport, Uptime!Unbegun
<1>7. k \in UptimeCall /\ call' = [call EXCEPT ![c] = k] /\ k.at = "idle"
  BY <1>6, UptimeFacts DEF Uptime!Finish
<1>8. CallKnows(k)' /\ IsCurrent(k)' /\ EventIsNew(k)'
  BY IdleKnows
<1> HIDE DEF k
<1>9. <<"confirmed", i>> \in queued' /\ (r.status = "recovered" => <<"recovery", i>> \in queued')
  BY <1>5, <1>6 DEF UptimeOwnInv, RowsWereAlerted, Known
<1>10. queued' \in {queued, queued \cup {<<"confirmed", i>>}, queued \cup {<<"recovery", i>>}}
  BY <1>6
<1>11. /\ UptimeRowsInOrder' /\ RowsWereAlerted'
       /\ incidents' \in [Uptime!Incidents -> Uptime!Incident]
       /\ queued' \subseteq Messages /\ queued \subseteq queued'
       /\ incidents'[i] = r /\ \A j \in Uptime!Incidents \ {i} : incidents'[j] = incidents[j]
       /\ \A j \in Uptime!Incidents : incidents[j].status # "absent" => incidents'[j].status # "absent"
       /\ \A a \in Uptime!Alerts : tlsAlerts[a] # "absent" => tlsAlerts'[a] # "absent"
       /\ Known(i)'
  BY <1>5, <1>6, <1>9, <1>10, IncidentWritten
<1>12. MonitorKnows'
  BY <1>4, <1>5, <1>6, <1>11 DEF MonitorKnows, Uptime!OnlyDowntimeCounts, Known
<1>13. /\ observed' \in [Uptime!Events -> ObservedAs] /\ monitor' \in Uptime!Monitor
       /\ tlsAlerts' \in [Uptime!Alerts -> {"absent", "open", "resolved"}]
       /\ interrupted' \in BOOLEAN /\ changes' \in 0 .. MaxUptimeChanges
  BY <1>6, UptimeTypes
<1>14. UNCHANGED <<calls, overlapped, window, entitled, purged>> /\ (interrupted => interrupted')
  BY <1>6
<1>15. monitor'.failures <= monitor.failures
  BY <1>6, UptimeTypes DEF Uptime!Monitor
<1>16. ASSUME ~overlapped, ~interrupted' PROVE MonitorAgrees'
  <2>1. MonitorAgrees /\ r = incidents[i]
    BY <1>1, <1>2, <1>3, <1>4, <1>6, <1>16 DEF IsCurrent, HasIncident
  <2>2. incidents' = incidents
    BY <1>6, <2>1, UptimeTypes DEF Uptime!SaveIncident
  <2> QED
    BY <1>6, <2>1, <2>2 DEF MonitorAgrees, NothingCounted, FirstCounted, IncidentCounted
<1>17. k.at # "idle" => k.read = call[c].read \/ k.read = monitor
  BY <1>7
<1>18. ~overlapped => IsCurrent(k)'
  BY <1>8
<1>19. ~overlapped /\ ~interrupted' => MonitorAgrees' /\ EventIsNew(k)'
  BY <1>8, <1>16
<1> QED
  BY <1>3, <1>7, <1>8, <1>11, <1>12, <1>13, <1>14, <1>15, <1>17, <1>18, <1>19, UptimeGoesOn

\* A call begins with rows as it has just read them.
LEMMA UptimeBegins ==
    ASSUME UptimeOwnInv, NEW c \in Actors, NEW k \in UptimeCall, k.at # "idle", Uptime!Begin(c, k),
           UNCHANGED <<monitor, incidents, observed, tlsAlerts, queued, window, entitled, interrupted, purged, changes>>,
           CallKnows(k), k.read \in {monitor, Uptime!NewMonitor}, IsCurrent(k),
           ~overlapped /\ ~interrupted => EventIsNew(k)
    PROVE  UptimeOwnInv'
<1>1. /\ call[c].at = "idle" /\ calls' = calls + 1 /\ call' = [call EXCEPT ![c] = k]
      /\ overlapped' = (overlapped \/ \E d \in Actors \ {c} : ~(call[d].at = "idle"))
      /\ calls < (IF overlapped' THEN MaxUptimeCalls - 1 ELSE MaxUptimeCalls)
  BY DEF Uptime!Begin, Uptime!At
<1>2. /\ call' \in [Actors -> UptimeCall] /\ call'[c] = k
      /\ \A d \in Actors \ {c} : call'[d] = call[d]
  BY <1>1, UptimeTypes
<1>3. calls \in Nat /\ MaxUptimeCalls \in Nat /\ calls < MaxUptimeCalls
  BY <1>1, UptimeTypes
<1>4. calls' \in 0 .. MaxUptimeCalls
  BY <1>1, <1>3
<1>5. Uptime!UptimeTypeOK'
  <2>1. /\ window' \in BOOLEAN /\ entitled' \in BOOLEAN /\ overlapped' \in BOOLEAN /\ interrupted' \in BOOLEAN
        /\ purged' \subseteq Uptime!Events /\ changes' \in 0 .. MaxUptimeChanges
    BY <1>1, UptimeTypes
  <2>2. /\ monitor' \in Uptime!Monitor /\ incidents' \in [Uptime!Incidents -> Uptime!Incident]
        /\ observed' \in [Uptime!Events -> ObservedAs] /\ tlsAlerts' \in [Uptime!Alerts -> {"absent", "open", "resolved"}]
        /\ queued' \subseteq Messages
    BY UptimeTypes
  <2> QED
    BY <1>2, <1>4, <2>1, <2>2 DEF Uptime!UptimeTypeOK, UptimeCall, ObservedAs, Messages
<1>6. UptimeRowsInOrder' /\ RowsWereAlerted' /\ MonitorKnows'
  BY DEF UptimeOwnInv, UptimeRowsInOrder, RowsWereAlerted, MonitorKnows, Uptime!OpenIncidents, Uptime!OpenAlerts,
         Uptime!OnlyDowntimeCounts, Known
<1>7. \A d \in Actors : CallKnows(call[d])'
  <2>1. CallKnows(k)'
    BY DEF CallKnows, Known, Uptime!Tracks
  <2> QED
    BY <1>1, <2>1, OthersKnow
<1>8. CallsWereCounted'
  <2>1. PICK n : n = Cardinality(Busy)
    OBVIOUS
  <2>2. IsFiniteSet(Busy) /\ n \in Nat /\ c \notin Busy /\ monitor.failures + n <= calls
    BY <1>1, <2>1, FS_CardinalityType DEF UptimeOwnInv, CallsWereCounted, Busy
  <2>3. \A d \in Busy : call[d].read.failures + n <= calls
    BY <2>1 DEF UptimeOwnInv, CallsWereCounted
  <2>4. Busy' = Busy \cup {c}
    BY <1>2 DEF Busy
  <2>5. IsFiniteSet(Busy') /\ Cardinality(Busy') = n + 1
    BY <2>1, <2>2, <2>4, FS_AddElement
  <2>6. monitor.failures \in Nat /\ Uptime!NewMonitor.failures = 0 /\ \A d \in Actors : call[d].read.failures \in Nat
    BY UptimeTypes, UptimeFacts DEF Uptime!Monitor, UptimeCall
  <2>7. monitor'.failures + (n + 1) <= calls'
    BY <1>1, <1>3, <2>2, <2>6
  <2>8. ASSUME NEW d \in Busy' PROVE call'[d].read.failures + (n + 1) <= calls'
    <3>1. CASE d = c
      <4>1. k.read.failures \in {monitor.failures, 0}
        BY <2>6
      <4> QED
        BY <1>1, <1>2, <1>3, <2>2, <2>6, <3>1, <4>1
    <3>2. CASE d # c
      <4>1. d \in Busy /\ d \in Actors /\ call'[d] = call[d]
        BY <1>2, <2>4, <3>2 DEF Busy
      <4>2. call[d].read.failures + n <= calls /\ call[d].read.failures \in Nat
        BY <2>3, <2>6, <4>1
      <4> QED
        BY <1>1, <1>3, <2>2, <4>1, <4>2
    <3> QED
      BY <3>1, <3>2
  <2> QED
    BY <2>5, <2>7, <2>8 DEF CallsWereCounted
<1>9. ~overlapped' => ~overlapped /\ \A d \in Actors \ {c} : call'[d].at = "idle"
  BY <1>1, <1>2
<1>10. CallsAreAlone'
  <2> SUFFICES ASSUME ~overlapped' PROVE (\A b, d \in Busy' : b = d) /\ \A d \in Actors : IsCurrent(call[d])'
    BY DEF CallsAreAlone
  <2>1. \A b, d \in Busy' : b = d
    BY <1>9 DEF Busy
  <2>2. ASSUME NEW d \in Actors PROVE IsCurrent(call[d])'
    <3>1. CASE d = c
      BY <1>2, <3>1 DEF IsCurrent
    <3>2. CASE d # c
      BY <1>9, <3>2 DEF IsCurrent, HasMonitor, HasIncident
    <3> QED
      BY <3>1, <3>2
  <2> QED
    BY <2>1, <2>2
<1>11. MonitorIsRight'
  <2> SUFFICES ASSUME ~overlapped', ~interrupted' PROVE MonitorAgrees' /\ \A d \in Actors : EventIsNew(call[d])'
    BY DEF MonitorIsRight
  <2>1. MonitorAgrees /\ EventIsNew(k)
    BY <1>9 DEF UptimeOwnInv, MonitorIsRight
  <2>2. MonitorAgrees'
    BY <2>1 DEF MonitorAgrees, NothingCounted, FirstCounted, IncidentCounted
  <2>3. ASSUME NEW d \in Actors PROVE EventIsNew(call[d])'
    <3>1. CASE d = c
      BY <1>2, <2>1, <3>1 DEF EventIsNew
    <3>2. CASE d # c
      BY <1>9, <3>2 DEF EventIsNew
    <3> QED
      BY <3>1, <3>2
  <2> QED
    BY <2>2, <2>3
<1> QED
  BY <1>5, <1>6, <1>7, <1>8, <1>10, <1>11 DEF UptimeOwnInv

LEMMA BeginKeeps ==
    ASSUME UptimeOwnInv, NEW c \in Actors,
           \/ Uptime!ProcessWebhook(c) \/ Uptime!ReconcileUptime(c) \/ Uptime!ProvisionUptime(c) \/ Uptime!ReadReport(c)
    PROVE  UptimeOwnInv'
<1>1. UNCHANGED <<monitor, incidents, observed, tlsAlerts, queued, window, entitled, interrupted, purged, changes>>
  BY DEF Uptime!ProcessWebhook, Uptime!ReconcileUptime, Uptime!ProvisionUptime, Uptime!ReadReport,
         Uptime!Receive, Uptime!ReadToDisable
<1>2. ASSUME NEW e \in Uptime!Events, Uptime!Receive(c, e) PROVE UptimeOwnInv'
  <2>1. PICK k : k = [Uptime!IdleCall EXCEPT !.at = "classify", !.events = {e}]
    OBVIOUS
  <2>2. /\ k \in UptimeCall /\ k.at = "classify" /\ k.events = {e} /\ k.read = Uptime!NewMonitor
        /\ k.row = Uptime!AbsentIncident
    BY <2>1, UptimeFacts DEF UptimeCall, Uptime!Step
  <2>3. Uptime!Begin(c, k) /\ observed[e] = "none"
    BY <1>2, <2>1 DEF Uptime!Receive
  <2>4. CallKnows(k)
    BY <2>2, UptimeFacts DEF CallKnows, HasIncident, WithEvent
  <2>5. IsCurrent(k)
    BY <2>2 DEF IsCurrent, HasMonitor, HasIncident
  <2>6. EventIsNew(k)
    BY <2>2, <2>3 DEF EventIsNew
  <2> QED
    BY <1>1, <2>2, <2>3, <2>4, <2>5, <2>6, UptimeBegins
<1>3. ASSUME NEW s \in {"disable", "provision"}, Uptime!Begin(c, [Uptime!IdleCall EXCEPT !.at = s, !.read = monitor])
      PROVE  UptimeOwnInv'
  <2>1. PICK k : k = [Uptime!IdleCall EXCEPT !.at = s, !.read = monitor]
    OBVIOUS
  <2>2. /\ k \in UptimeCall /\ k.at = s /\ k.read = monitor /\ k.row = Uptime!AbsentIncident
    BY <2>1, UptimeFacts, UptimeTypes DEF UptimeCall, Uptime!Step
  <2>3. /\ monitor.counted \subseteq {down1, down2, down3}
        /\ monitor.active # Uptime!None => Known(monitor.active)
    BY DEF UptimeOwnInv, MonitorKnows, Uptime!OnlyDowntimeCounts
  <2>4. CallKnows(k)
    BY <2>2, <2>3, UptimeFacts DEF CallKnows, HasIncident, WithEvent
  <2>5. IsCurrent(k)
    BY <2>2 DEF IsCurrent, HasMonitor, HasIncident
  <2>6. EventIsNew(k)
    BY <2>2 DEF EventIsNew
  <2>7. Uptime!Begin(c, k)
    BY <1>3, <2>1
  <2> QED
    BY <1>1, <2>2, <2>4, <2>5, <2>6, <2>7, UptimeBegins
<1>4. CASE Uptime!ReadReport(c)
  <2>1. PICK i \in Uptime!Incidents :
          /\ incidents[i].status # "absent"
          /\ Uptime!Begin(c, [Uptime!IdleCall EXCEPT !.at = "report", !.id = i, !.row = incidents[i]])
    BY <1>4 DEF Uptime!ReadReport
  <2>2. PICK k : k = [Uptime!IdleCall EXCEPT !.at = "report", !.id = i, !.row = incidents[i]]
    OBVIOUS
  <2>3. k \in UptimeCall /\ k.at = "report" /\ k.read = Uptime!NewMonitor /\ k.row = incidents[i] /\ k.id = i
    BY <2>1, <2>2, UptimeFacts, UptimeTypes DEF UptimeCall, Uptime!Step
  <2>4. /\ incidents[i].counted \subseteq {down1, down2, down3}
        /\ incidents[i].status = "recovered" => <<"recovery", i>> \in queued
    BY DEF UptimeOwnInv, MonitorKnows, Uptime!OnlyDowntimeCounts, RowsWereAlerted
  <2>5. CallKnows(k)
    BY <2>1, <2>3, <2>4, UptimeFacts DEF CallKnows, HasIncident, WithEvent, Known
  <2>6. IsCurrent(k)
    BY <2>3 DEF IsCurrent, HasMonitor, HasIncident
  <2>7. EventIsNew(k)
    BY <2>3 DEF EventIsNew
  <2>8. Uptime!Begin(c, k) /\ k.at # "idle" /\ k.read \in {monitor, Uptime!NewMonitor}
    BY <2>1, <2>2, <2>3
  <2> QED
    BY <1>1, <2>3, <2>5, <2>6, <2>7, <2>8, UptimeBegins
<1>5. CASE Uptime!ProvisionUptime(c) \/ Uptime!ReadToDisable(c)
  BY <1>3, <1>5 DEF Uptime!ProvisionUptime, Uptime!ReadToDisable
<1>6. CASE \E e \in Uptime!Events : Uptime!Receive(c, e)
  BY <1>2, <1>6
<1>7. {down2} \subseteq Uptime!Events
  BY UptimeFacts
<1> QED
  BY <1>4, <1>5, <1>6, <1>7 DEF Uptime!ProcessWebhook, Uptime!ReconcileUptime

\* Windows, plans and retention touch no row of a call.
LEMMA UptimeElsewhere ==
    ASSUME UptimeOwnInv,
           UNCHANGED <<monitor, incidents, tlsAlerts, queued, call, overlapped, interrupted, calls>>,
           observed' \in [Uptime!Events -> ObservedAs], purged' \subseteq Uptime!Events, purged \subseteq purged',
           \A e \in Uptime!Events : observed'[e] = observed[e] \/ (observed'[e] = "none" /\ e \in purged'),
           window' \in BOOLEAN, entitled' \in BOOLEAN, changes' \in 0 .. MaxUptimeChanges
    PROVE  UptimeOwnInv'
<1>1. Uptime!UptimeTypeOK'
  BY UptimeTypes DEF Uptime!UptimeTypeOK, UptimeCall, ObservedAs, Messages
<1>2. UptimeRowsInOrder' /\ RowsWereAlerted' /\ MonitorKnows'
  BY DEF UptimeOwnInv, UptimeRowsInOrder, RowsWereAlerted, MonitorKnows, Uptime!OpenIncidents, Uptime!OpenAlerts,
         Uptime!OnlyDowntimeCounts, Known
<1>3. \A d \in Actors : CallKnows(call[d])'
  BY DEF UptimeOwnInv, CallKnows, Known, Uptime!Tracks
<1>4. CallsWereCounted'
  BY DEF UptimeOwnInv, CallsWereCounted, Busy
<1>5. CallsAreAlone'
  BY DEF UptimeOwnInv, CallsAreAlone, Busy, IsCurrent
<1>6. MonitorIsRight'
  <2> SUFFICES ASSUME ~overlapped, ~interrupted PROVE MonitorAgrees' /\ \A d \in Actors : EventIsNew(call[d])'
    BY DEF MonitorIsRight
  <2>1. MonitorAgrees /\ \A d \in Actors : EventIsNew(call[d])
    BY DEF UptimeOwnInv, MonitorIsRight
  <2>2. FirstCounted(monitor) => FirstCounted(monitor)'
    BY UptimeFacts DEF FirstCounted
  <2>3. IncidentCounted(monitor) => IncidentCounted(monitor)'
    <3> SUFFICES ASSUME IncidentCounted(monitor), NEW x \in monitor.counted \ purged'
                 PROVE  observed'[x] \notin {"none", "maintenance"}
      BY DEF IncidentCounted
    <3>1. x \in Uptime!Events /\ x \in monitor.counted \ purged
      BY UptimeTypes DEF Uptime!Monitor
    <3> QED
      BY <3>1 DEF IncidentCounted
  <2>4. NothingCounted(monitor) => NothingCounted(monitor)'
    BY DEF NothingCounted
  <2>5. MonitorAgrees'
    BY <2>1, <2>2, <2>3, <2>4 DEF MonitorAgrees
  <2>6. ASSUME NEW d \in Actors PROVE EventIsNew(call[d])'
    <3>1. call[d].events \subseteq Uptime!Events
      BY UptimeTypes DEF UptimeCall
    <3> QED
      BY <2>1, <3>1 DEF EventIsNew
  <2> QED
    BY <2>5, <2>6
<1> QED
  BY <1>1, <1>2, <1>3, <1>4, <1>5, <1>6 DEF UptimeOwnInv

LEMMA ElsewhereKeeps ==
    ASSUME UptimeOwnInv,
           \/ Uptime!CreateMaintenanceWindow \/ Uptime!CancelMaintenanceWindow \/ Uptime!ChangeEntitlement
           \/ Uptime!PurgeRawHistory \/ UNCHANGED Uptime!vars
    PROVE  UptimeOwnInv'
<1>1. UNCHANGED <<monitor, incidents, tlsAlerts, queued, call, overlapped, interrupted, calls>>
  BY DEF Uptime!CreateMaintenanceWindow, Uptime!CancelMaintenanceWindow, Uptime!ChangeEntitlement,
         Uptime!PurgeRawHistory, Uptime!Unbegun, Uptime!vars
<1>2. Uptime!Change => changes' \in 0 .. MaxUptimeChanges
  <2>1. changes \in 0 .. MaxUptimeChanges /\ MaxUptimeChanges \in Nat
    BY UptimeTypes, UptimeFacts
  <2> QED
    BY <2>1 DEF Uptime!Change
<1>3. window' \in BOOLEAN /\ entitled' \in BOOLEAN /\ changes' \in 0 .. MaxUptimeChanges
  BY <1>2, UptimeTypes DEF Uptime!CreateMaintenanceWindow, Uptime!CancelMaintenanceWindow, Uptime!ChangeEntitlement,
         Uptime!PurgeRawHistory, Uptime!vars
<1>4. CASE Uptime!PurgeRawHistory
  <2>1. PICK e \in Uptime!Events : observed' = [observed EXCEPT ![e] = "none"] /\ purged' = purged \cup {e}
    BY <1>4 DEF Uptime!PurgeRawHistory
  <2>2. observed' \in [Uptime!Events -> ObservedAs] /\ purged' \subseteq Uptime!Events /\ purged \subseteq purged'
    BY <2>1, UptimeTypes DEF ObservedAs
  <2>3. \A x \in Uptime!Events : observed'[x] = observed[x] \/ (observed'[x] = "none" /\ x \in purged')
    BY <2>1, UptimeTypes
  <2> QED
    BY <1>1, <1>3, <2>2, <2>3, UptimeElsewhere
<1>5. CASE UNCHANGED <<observed, purged>>
  <2>1. observed' \in [Uptime!Events -> ObservedAs] /\ purged' \subseteq Uptime!Events /\ purged \subseteq purged'
    BY <1>5, UptimeTypes
  <2>2. \A x \in Uptime!Events : observed'[x] = observed[x] \/ (observed'[x] = "none" /\ x \in purged')
    BY <1>5
  <2> QED
    BY <1>1, <1>3, <2>1, <2>2, UptimeElsewhere
<1> QED
  BY <1>4, <1>5 DEF Uptime!CreateMaintenanceWindow, Uptime!CancelMaintenanceWindow, Uptime!ChangeEntitlement, Uptime!vars

LEMMA StoppingKeeps ==
    ASSUME UptimeOwnInv, NEW c \in Actors, Uptime!SaveRejected(c) \/ Uptime!Crash(c)
    PROVE  UptimeOwnInv'
<1>1. call[c].at # "idle" /\ Uptime!Finish(c)
  BY DEF Uptime!SaveRejected, Uptime!MeetsIndex, Uptime!Crash, Uptime!Confirms, Uptime!At
<1>2. UNCHANGED <<monitor, incidents, observed, tlsAlerts, queued, window, entitled, overlapped, interrupted, purged, calls>>
  BY DEF Uptime!SaveRejected, Uptime!Crash, Uptime!Unbegun
<1>3. changes' \in 0 .. MaxUptimeChanges
  <2>1. changes \in 0 .. MaxUptimeChanges /\ MaxUptimeChanges \in Nat
    BY UptimeTypes, UptimeFacts
  <2>2. changes' = changes \/ (changes < MaxUptimeChanges /\ changes' = changes + 1)
    BY DEF Uptime!SaveRejected, Uptime!Crash, Uptime!Change
  <2> QED
    BY <2>1, <2>2
<1> QED
  BY <1>1, <1>2, <1>3, UptimeEnds

LEMMA UptimeInit ==
    ASSUME Uptime!Init
    PROVE  UptimeOwnInv
<1>1. /\ monitor = Uptime!NewMonitor /\ incidents = [i \in Uptime!Incidents |-> Uptime!AbsentIncident]
      /\ observed = [e \in Uptime!Events |-> "none"] /\ tlsAlerts = [a \in Uptime!Alerts |-> "absent"] /\ queued = {}
      /\ call = [c \in Actors |-> Uptime!IdleCall] /\ purged = {} /\ calls = 0 /\ changes = 0
      /\ window = FALSE /\ entitled = TRUE /\ overlapped = FALSE /\ interrupted = FALSE
  BY DEF Uptime!Init
<1>2. /\ Uptime!NewMonitor.status = "not-configured" /\ Uptime!NewMonitor.first = {}
      /\ Uptime!AbsentIncident.status = "absent"
  BY DEF Uptime!NewMonitor, Uptime!AbsentIncident
<1>3. Uptime!UptimeTypeOK
  <2>1. /\ monitor \in Uptime!Monitor /\ incidents \in [Uptime!Incidents -> Uptime!Incident]
        /\ call \in [Actors -> UptimeCall]
    BY <1>1, UptimeFacts
  <2>2. calls \in 0 .. MaxUptimeCalls /\ changes \in 0 .. MaxUptimeChanges
    BY <1>1, UptimeFacts
  <2> QED
    BY <1>1, <2>1, <2>2 DEF Uptime!UptimeTypeOK, UptimeCall
<1>4. UptimeRowsInOrder
  BY <1>1, <1>2 DEF UptimeRowsInOrder, Uptime!OpenIncidents, Uptime!OpenAlerts
<1>5. RowsWereAlerted
  BY <1>1, <1>2 DEF RowsWereAlerted
<1>6. MonitorKnows
  BY <1>1, UptimeFacts DEF MonitorKnows, Uptime!OnlyDowntimeCounts
<1>7. \A c \in Actors : CallKnows(call[c]) /\ IsCurrent(call[c]) /\ EventIsNew(call[c])
  BY <1>1, IdleKnows
<1>8. Busy = {}
  BY <1>1, UptimeFacts DEF Busy
<1>9. CallsWereCounted
  BY <1>1, <1>8, FS_EmptySet, UptimeFacts DEF CallsWereCounted
<1>10. CallsAreAlone
  BY <1>7, <1>8 DEF CallsAreAlone
<1>11. MonitorAgrees
  BY <1>1, <1>2, UptimeFacts DEF MonitorAgrees, NothingCounted
<1> QED
  BY <1>3, <1>4, <1>5, <1>6, <1>7, <1>9, <1>10, <1>11 DEF UptimeOwnInv, MonitorIsRight

LEMMA UptimeStepKeeps ==
    ASSUME UptimeOwnInv, [Uptime!Next]_(Uptime!vars)
    PROVE  UptimeOwnInv'
<1>1. ASSUME NEW c \in Actors, Uptime!ProcessObservation(c) PROVE UptimeOwnInv'
  <2>1. CASE Uptime!Classify(c)
    BY <2>1, ClassifyKeeps
  <2>2. CASE Uptime!ReadMaintained(c) \/ Uptime!ReadFailing(c) \/ Uptime!ReadSucceeding(c)
    BY <2>2, ReadingKeeps
  <2>3. CASE Uptime!ReadTouched(c) \/ Uptime!ReadRecovering(c)
    BY <2>3, IncidentReadKeeps
  <2>4. CASE Uptime!MarkMaintained(c) \/ Uptime!DiscardTransient(c) \/ Uptime!SaveHealthy(c)
    BY <2>4, MonitorSaveKeeps
  <2>5. CASE Uptime!ProcessTlsFailure(c)
    BY <2>5, TlsKeeps
  <2>6. CASE Uptime!ResolveTls(c)
    BY <2>6, ResolveKeeps
  <2>7. CASE Uptime!CountFailure(c)
    BY <2>7, CountKeeps
  <2>8. CASE Uptime!ConfirmIncident(c)
    BY <2>8, ConfirmKeeps
  <2>9. CASE Uptime!TouchIncident(c)
    BY <2>9, TouchKeeps
  <2>10. CASE Uptime!StoreHealthy(c)
    BY <2>10, StoreHealthyKeeps
  <2>11. CASE Uptime!RecoverIncident(c)
    BY <2>11, RecoverKeeps
  <2> QED
    BY <1>1, <2>1, <2>2, <2>3, <2>4, <2>5, <2>6, <2>7, <2>8, <2>9, <2>10, <2>11 DEF Uptime!ProcessObservation
<1>2. ASSUME NEW c \in Actors, Uptime!Work(c) PROVE UptimeOwnInv'
  <2>1. CASE Uptime!ProcessWebhook(c) \/ Uptime!ReconcileUptime(c) \/ Uptime!ProvisionUptime(c) \/ Uptime!ReadReport(c)
    BY <2>1, BeginKeeps
  <2>2. CASE Uptime!DisableUptime(c) \/ Uptime!SaveProvisioned(c)
    BY <2>2, MonitorSaveKeeps
  <2>3. CASE Uptime!ProcessObservation(c)
    BY <1>1, <2>3
  <2>4. CASE Uptime!SaveReport(c)
    BY <2>4, ReportKeeps
  <2>5. CASE Uptime!SaveRejected(c) \/ Uptime!Crash(c)
    BY <2>5, StoppingKeeps
  <2> QED
    BY <1>2, <2>1, <2>2, <2>3, <2>4, <2>5 DEF Uptime!Work
<1> QED
  BY <1>2, ElsewhereKeeps DEF Uptime!Next

LEMMA NextKeepsRecovered ==
    ASSUME UptimeOwnInv, [Uptime!Next]_(Uptime!vars)
    PROVE  Uptime!StaysRecovered
<1> SUFFICES ASSUME NEW i \in Uptime!Incidents, incidents[i].status = "recovered", ~overlapped',
                    incidents' # incidents
             PROVE  incidents'[i].status = "recovered"
  BY DEF Uptime!StaysRecovered
<1>1. \E c \in Actors : \/ Uptime!ConfirmIncident(c) \/ Uptime!TouchIncident(c)
                        \/ Uptime!RecoverIncident(c) \/ Uptime!SaveReport(c)
  <2>1. Uptime!Next
    BY DEF Uptime!vars
  <2>2. PICK c \in Actors : Uptime!Work(c)
    BY <2>1 DEF Uptime!Next, Uptime!CreateMaintenanceWindow, Uptime!CancelMaintenanceWindow,
                Uptime!ChangeEntitlement, Uptime!PurgeRawHistory
  <2>3. /\ ~Uptime!ProcessWebhook(c) /\ ~Uptime!ReconcileUptime(c) /\ ~Uptime!ProvisionUptime(c) /\ ~Uptime!ReadReport(c)
        /\ ~Uptime!DisableUptime(c) /\ ~Uptime!SaveProvisioned(c) /\ ~Uptime!SaveRejected(c) /\ ~Uptime!Crash(c)
    BY DEF Uptime!ProcessWebhook, Uptime!ReconcileUptime, Uptime!ProvisionUptime, Uptime!ReadReport, Uptime!Receive,
           Uptime!ReadToDisable, Uptime!DisableUptime, Uptime!SaveProvisioned, Uptime!SaveRejected, Uptime!Crash
  <2>4. /\ ~Uptime!Classify(c) /\ ~Uptime!ReadMaintained(c) /\ ~Uptime!MarkMaintained(c) /\ ~Uptime!ProcessTlsFailure(c)
        /\ ~Uptime!ReadFailing(c) /\ ~Uptime!CountFailure(c) /\ ~Uptime!ReadTouched(c) /\ ~Uptime!ReadSucceeding(c)
    BY DEF Uptime!Classify, Uptime!ReadMaintained, Uptime!MarkMaintained, Uptime!ProcessTlsFailure, Uptime!ReadFailing,
           Uptime!CountFailure, Uptime!ReadTouched, Uptime!ReadSucceeding
  <2>5. /\ ~Uptime!ResolveTls(c) /\ ~Uptime!DiscardTransient(c) /\ ~Uptime!StoreHealthy(c) /\ ~Uptime!SaveHealthy(c)
        /\ ~Uptime!ReadRecovering(c)
    BY DEF Uptime!ResolveTls, Uptime!DiscardTransient, Uptime!StoreHealthy, Uptime!SaveHealthy, Uptime!ReadRecovering
  <2> QED
    BY <2>2, <2>3, <2>4, <2>5 DEF Uptime!Work, Uptime!ProcessObservation
<1>2. PICK c \in Actors : \/ Uptime!ConfirmIncident(c) \/ Uptime!TouchIncident(c)
                          \/ Uptime!RecoverIncident(c) \/ Uptime!SaveReport(c)
  BY <1>1
<1>3. ~overlapped
  BY <1>2 DEF Uptime!ConfirmIncident, Uptime!TouchIncident, Uptime!RecoverIncident, Uptime!SaveReport, Uptime!Unbegun
<1>4. call[c] \in UptimeCall /\ CallKnows(call[c]) /\ IsCurrent(call[c])
  BY <1>3, CallsKnow
<1>5. incidents \in [Uptime!Incidents -> Uptime!Incident]
  BY UptimeTypes
<1>6. CASE Uptime!ConfirmIncident(c)
  <2>1. incidents[i].status # "absent" => i < Uptime!NextIncident
    BY NextRows
  <2>2. i # Uptime!NextIncident
    BY <2>1, NextRows, UptimeFacts DEF Uptime!Incidents
  <2>3. incidents' = [incidents EXCEPT ![Uptime!NextIncident] = Uptime!Opened(c)]
    BY <1>6 DEF Uptime!ConfirmIncident, Uptime!SaveIncident
  <2>4. incidents'[i] = incidents[i]
    BY <1>5, <2>2, <2>3
  <2> QED
    BY <2>4
<1>7. CASE Uptime!TouchIncident(c) \/ Uptime!SaveReport(c) \/ Uptime!RecoverIncident(c)
  <2>1. call[c].at \in HasIncident
    BY <1>7 DEF Uptime!TouchIncident, Uptime!SaveReport, Uptime!RecoverIncident, Uptime!At, HasIncident
  <2>2. call[c].row = incidents[call[c].id] /\ call[c].row \in Uptime!Incident
    BY <1>4, <2>1 DEF IsCurrent, UptimeCall
  <2>3. ASSUME NEW r, r.status \in {incidents[call[c].id].status, "recovered"},
               incidents' = [incidents EXCEPT ![call[c].id] = r]
        PROVE  incidents'[i].status = "recovered"
    <3>1. CASE i = call[c].id
      BY <1>5, <2>3, <3>1
    <3>2. CASE i # call[c].id
      BY <1>5, <2>3, <3>2
    <3> QED
      BY <3>1, <3>2
  <2>4. CASE Uptime!TouchIncident(c)
    <3>1. PICK e : e = Uptime!Event(c)
      OBVIOUS
    <3>2. PICK r : r = [call[c].row EXCEPT !.counted = @ \cup {e}]
      OBVIOUS
    <3>3. r.status = call[c].row.status
      BY <2>2, <3>2 DEF Uptime!Incident
    <3>4. incidents' = [incidents EXCEPT ![call[c].id] = r]
      BY <2>4, <3>1, <3>2 DEF Uptime!TouchIncident, Uptime!SaveIncident
    <3> QED
      BY <2>2, <2>3, <3>3, <3>4
  <2>5. CASE Uptime!SaveReport(c)
    <3>1. incidents' = [incidents EXCEPT ![call[c].id] = call[c].row]
      BY <2>5 DEF Uptime!SaveReport, Uptime!SaveIncident
    <3> QED
      BY <2>2, <2>3, <3>1
  <2>6. CASE Uptime!RecoverIncident(c)
    <3>1. PICK r : r = [call[c].row EXCEPT !.status = "recovered"]
      OBVIOUS
    <3>2. r.status = "recovered"
      BY <2>2, <3>1 DEF Uptime!Incident
    <3>3. incidents' = [incidents EXCEPT ![call[c].id] = r]
      BY <2>6, <3>1 DEF Uptime!RecoverIncident, Uptime!SaveIncident
    <3> QED
      BY <2>3, <3>2, <3>3
  <2> QED
    BY <1>7, <2>4, <2>5, <2>6
<1> QED
  BY <1>2, <1>6, <1>7

UptimeInv == part = "uptime" => UptimeOwnInv

LEMMA StepOfUptime ==
    ASSUME part = "uptime", [Next]_vars
    PROVE  part' = part /\ [Uptime!Next]_(Uptime!vars)
BY DEF Next, vars, uptime, Uptime!vars

LEMMA UptimeKept ==
    /\ Init => UptimeInv
    /\ UptimeInv /\ [Next]_vars => UptimeInv'
<1>1. Init => UptimeInv
  BY UptimeInit DEF Init, UptimeInv
<1>2. ASSUME UptimeInv, [Next]_vars PROVE UptimeInv'
  <2>1. part' = part
    BY <1>2 DEF Next, vars
  <2>2. CASE part = "uptime"
    BY <1>2, <2>1, <2>2, StepOfUptime, UptimeStepKeeps DEF UptimeInv
  <2> QED
    BY <2>1, <2>2 DEF UptimeInv
<1> QED
  BY <1>1, <1>2

LEMMA UptimeOfInv == UptimeInv => RowsAndAlertsAgree
<1> SUFFICES ASSUME UptimeOwnInv PROVE Uptime!RowsAndAlertsAgree
  BY DEF UptimeInv, RowsAndAlertsAgree
<1>1. \A S : Uptime!Cardinality(S) = Cardinality(S)
  BY DEF Uptime!Cardinality, Cardinality
<1>2. Uptime!AlertsMatchRows
  <2>1. \A x, y \in {i \in Uptime!Incidents : incidents[i].status = "open"} : x = y
    BY DEF UptimeOwnInv, UptimeRowsInOrder, Uptime!OpenIncidents
  <2>2. Cardinality({i \in Uptime!Incidents : incidents[i].status = "open"}) <= 1
    BY <2>1, AtMostOne
  <2>3. \A x, y \in Uptime!OpenAlerts : x = y
    BY DEF UptimeOwnInv, UptimeRowsInOrder
  <2>4. Cardinality(Uptime!OpenAlerts) <= 1
    BY <2>3, AtMostOne
  <2> QED
    BY <1>1, <2>2, <2>4 DEF UptimeOwnInv, RowsWereAlerted, Uptime!AlertsMatchRows
<1>3. Uptime!DistinctFailures
  <2>1. ASSUME ~overlapped, ~interrupted, NEW i \in Uptime!Incidents, incidents[i].status # "absent"
        PROVE  Cardinality(incidents[i].counted) >= 2
    BY <2>1 DEF UptimeOwnInv, MonitorIsRight, MonitorAgrees
  <2> QED
    BY <1>1, <2>1 DEF Uptime!DistinctFailures
<1>4. Uptime!ExcludedNotCounted
  <2> SUFFICES ASSUME ~overlapped, ~interrupted, NEW e \in Uptime!Events \ purged, observed[e] = "maintenance",
                      e \in monitor.counted \cup UNION {incidents[i].counted : i \in Uptime!OpenIncidents}
               PROVE  FALSE
    BY DEF Uptime!ExcludedNotCounted
  <2>1. MonitorAgrees
    BY DEF UptimeOwnInv, MonitorIsRight
  <2>2. e \in monitor.counted
    <3>1. CASE e \in UNION {incidents[i].counted : i \in Uptime!OpenIncidents}
      <4>1. PICK i \in Uptime!OpenIncidents : e \in incidents[i].counted
        BY <3>1
      <4>2. i \in Uptime!Incidents /\ monitor.status = "incident" /\ monitor.active = i
        BY <2>1, <4>1 DEF MonitorAgrees, Uptime!OpenIncidents
      <4> QED
        BY <2>1, <4>1, <4>2 DEF MonitorAgrees, NothingCounted, FirstCounted, IncidentCounted
    <3> QED
      BY <3>1
  <2> QED
    BY <2>1, <2>2 DEF MonitorAgrees, NothingCounted, FirstCounted, IncidentCounted
<1>5. Uptime!OpenIncidentTracked
  <2> SUFFICES ASSUME ~overlapped, ~interrupted, NEW i \in Uptime!Incidents
               PROVE  incidents[i].status = "open" <=> (Uptime!Tracks(monitor) /\ monitor.active = i)
    BY DEF Uptime!OpenIncidentTracked
  <2>1. MonitorAgrees
    BY DEF UptimeOwnInv, MonitorIsRight
  <2>2. i # Uptime!None
    BY UptimeFacts
  <2> QED
    BY <2>1, <2>2 DEF MonitorAgrees, Uptime!Tracks
<1>6. Uptime!UptimeTypeOK /\ Uptime!OnlyDowntimeCounts
  BY DEF UptimeOwnInv, MonitorKnows
<1> QED
  BY <1>2, <1>3, <1>4, <1>5, <1>6 DEF Uptime!RowsAndAlertsAgree, Uptime!CountedOnce

\* However the calls of webhooks, polls, technicians and retention interleave, a site has one
\* open incident and one open TLS alert at most, what was queued matches the rows and only
\* downtime is counted; while calls do not overlap, it is counted once, and the monitor
\* knows the incident that is open.
THEOREM IncidentsAreSound == Spec => []RowsAndAlertsAgree
BY UptimeKept, UptimeOfInv, PTL DEF Spec

\* While calls do not overlap, an incident that has recovered is never opened again.
THEOREM RecoveredStays == Spec => RecoveredIsFinal
<1>1. UptimeInv /\ [Next]_vars => [part = "uptime" => Uptime!StaysRecovered]_vars
  <2>1. ASSUME UptimeInv, [Next]_vars, part = "uptime" PROVE Uptime!StaysRecovered
    BY <2>1, StepOfUptime, NextKeepsRecovered DEF UptimeInv
  <2> QED
    BY <2>1
<1> QED
  BY <1>1, UptimeKept, PTL DEF Spec, RecoveredIsFinal
=============================================================================
