--------------------------- MODULE DashboardRequests ---------------------------
(* Signed requests of the dashboard to the plugin of one site: a refresh, or  *)
(* an update of one WordPress plugin.  The network may deliver a request      *)
(* twice or late and lose the answer; PHP requests overlap.  Each request is  *)
(* claimed by an option of its own, and a list of claims says which to delete *)
(* again: those older than Keep, and the oldest when there are too many.      *)
(* Claiming takes milliseconds, the rest of a request up to minutes: time     *)
(* does not pass while a claim is under way.                                  *)
EXTENDS Integers, FiniteSets

CONSTANTS
    Requests,       \* request ids, chosen at random by the dashboard
    Calls,          \* PHP requests under way at once
    Window,         \* how far a timestamp may be off (5 minutes)
    Keep,           \* how long a claim is kept (10 minutes)
    Limit,          \* claims that are listed (100)
    Skews,          \* how far the dashboard's clock may be ahead or behind
    MaxVersion,     \* bound: versions of the WordPress plugin
    MaxTime         \* bound: time

RequestsAssumption ==
    /\ Window \in Nat /\ Keep \in Nat /\ Keep >= 2 * Window
    /\ Limit \in Nat \ {0} /\ Skews \subseteq Int
    /\ MaxVersion \in Nat \ {0} /\ MaxTime \in Nat

Unsent == [kind |-> "unsent"]
Unlisted == -1
Versions == 1 .. MaxVersion

VARIABLES
    now,            \* the plugin's clock
    sent,           \* what the dashboard sent
    claims,         \* the options apsc_dashboard_request_...
    list,           \* the option that lists them with their times
    handler,        \* where each PHP request is
    version,        \* the installed version of the WordPress plugin
    ran,            \* ghost: the requests that were carried out
    repeated,       \* ghost: those that were carried out twice
    crowded,        \* ghost: the requests whose claim the limit removed
    crossed         \* ghost: a plugin was installed over one that had changed since it was checked

vars == <<now, sent, claims, list, handler, version, ran, repeated,
          crowded, crossed>>

Times == 0 .. MaxTime

Listing == [Requests -> Times \cup {Unlisted}]

Idle == [at |-> "idle"]

--------------------------------------------------------------------------------
(* The dashboard *)

Send(q, request) ==
    /\ sent[q] = Unsent
    /\ sent' = [sent EXCEPT ![q] = request]
    /\ UNCHANGED <<now, claims, list, handler, version, ran, repeated, crowded, crossed>>

RequestRefresh(q) == \E skew \in Skews : Send(q, [kind |-> "refresh", stamp |-> now + skew])

\* The rollout has seen the installed version and offers another one.
RequestPluginUpdate(q) ==
    \E skew \in Skews, target \in Versions :
        Send(q, [kind |-> "plugin-update", stamp |-> now + skew, from |-> version, to |-> target])

--------------------------------------------------------------------------------
(* authenticate and claim_dashboard_request *)

Fresh(q) == sent[q].stamp - now \in -Window .. Window

Goto(c, value) == handler' = [handler EXCEPT ![c] = value]

\* add_option fails when the option exists.
Receive(c, q) ==
    /\ handler[c] = Idle /\ sent[q] # Unsent
    /\ Fresh(q)
    /\ q \notin claims
    /\ claims' = claims \cup {q}
    /\ Goto(c, [at |-> "claimed", q |-> q])
    /\ UNCHANGED <<now, sent, list, version, ran, repeated, crowded, crossed>>

ReadList(c) ==
    /\ handler[c].at = "claimed"
    /\ Goto(c, [at |-> "listing", q |-> handler[c].q, copy |-> list])
    /\ UNCHANGED <<now, sent, claims, list, version, ran, repeated, crowded, crossed>>

\* Mutant: claims are kept for as long as a timestamp may be off.
KeptTooShort(time) == time < now - Window

Stale(time) == time < now - Keep

Listed(l) == {q \in Requests : l[q] # Unlisted}

\* Deletes what is stale and, the new claim included, what is over the limit,
\* oldest first; then the list is written, whatever others wrote in between.
ListClaim(c) ==
    LET q == handler[c].q
        copy == handler[c].copy
        stale == {s \in Listed(copy) : Stale(copy[s])}
        kept == [s \in Requests |-> IF s = q THEN now ELSE IF s \in stale THEN Unlisted ELSE copy[s]]
    IN  /\ handler[c].at = "listing"
        /\ \E dropped \in SUBSET Listed(kept) :
              /\ Cardinality(dropped) = IF Cardinality(Listed(kept)) > Limit
                                        THEN Cardinality(Listed(kept)) - Limit ELSE 0
              /\ \A d \in dropped, s \in Listed(kept) \ dropped : kept[d] <= kept[s] /\ d # q
              /\ claims' = (claims \ stale) \ dropped
              /\ list' = [s \in Requests |-> IF s \in dropped THEN Unlisted ELSE kept[s]]
              /\ crowded' = crowded \cup dropped
        /\ Goto(c, [at |-> "run", q |-> q])
        /\ UNCHANGED <<now, sent, version, ran, repeated, crossed>>

--------------------------------------------------------------------------------
(* refresh and plugin_update *)

CarryOut(q) ==
    /\ ran' = ran \cup {q}
    /\ repeated' = repeated \cup (ran \cap {q})

\* check_in; what becomes of the answer is the dashboard's affair.
Refresh(c) ==
    /\ handler[c].at = "run" /\ sent[handler[c].q].kind = "refresh"
    /\ CarryOut(handler[c].q)
    /\ Goto(c, Idle)
    /\ UNCHANGED <<now, sent, claims, list, version, crowded, crossed>>

\* Mutant: an older version is installed as well.
AnyOther(r) == r.to # r.from

Newer(r) == r.to > r.from

\* The version that was offered for is still there and older than the target.
CheckVersion(c) ==
    LET r == sent[handler[c].q] IN
    /\ handler[c].at = "run" /\ r.kind = "plugin-update"
    /\ CarryOut(handler[c].q)
    /\ Goto(c, IF version = r.from /\ Newer(r) THEN [at |-> "install", q |-> handler[c].q] ELSE Idle)
    /\ UNCHANGED <<now, sent, claims, list, version, crowded, crossed>>

\* The package is downloaded, compared with its checksum, installed and verified.
InstallPackage(c) ==
    LET r == sent[handler[c].q] IN
    /\ handler[c].at = "install"
    /\ version' = r.to
    /\ crossed' = (crossed \/ version # r.from)
    /\ Goto(c, Idle)
    /\ UNCHANGED <<now, sent, claims, list, ran, repeated, crowded>>

\* The PHP request fails or ends at any point, or its answer is lost.
Die(c) ==
    /\ handler[c] # Idle
    /\ Goto(c, Idle)
    /\ UNCHANGED <<now, sent, claims, list, version, ran, repeated, crowded, crossed>>

\* Somebody updates the plugin in WordPress.
UpdateLocally ==
    /\ version < MaxVersion
    /\ version' = version + 1
    /\ UNCHANGED <<now, sent, claims, list, handler, ran, repeated, crowded, crossed>>

TimePasses ==
    /\ now < MaxTime
    /\ \A c \in Calls : handler[c].at \notin {"claimed", "listing"}
    /\ now' = now + 1
    /\ UNCHANGED <<sent, claims, list, handler, version, ran, repeated, crowded, crossed>>

Init ==
    /\ now = 0
    /\ sent = [q \in Requests |-> Unsent]
    /\ claims = {}
    /\ list = [q \in Requests |-> Unlisted]
    /\ handler = [c \in Calls |-> Idle]
    /\ version = 1
    /\ ran = {} /\ repeated = {}
    /\ crowded = {} /\ crossed = FALSE

Next ==
    \/ TimePasses \/ UpdateLocally
    \/ \E q \in Requests : RequestRefresh(q) \/ RequestPluginUpdate(q)
    \/ \E c \in Calls, q \in Requests : Receive(c, q)
    \/ \E c \in Calls : \/ ReadList(c) \/ ListClaim(c) \/ Refresh(c) \/ CheckVersion(c)
                        \/ InstallPackage(c) \/ Die(c)

Spec == Init /\ [][Next]_vars

--------------------------------------------------------------------------------
(* What is promised of a request *)

Sent == {Unsent}
        \cup [kind : {"refresh"}, stamp : Int]
        \cup [kind : {"plugin-update"}, stamp : Int, from : Versions, to : Versions]

Call == {Idle}
        \cup [at : {"claimed", "run", "install"}, q : Requests]
        \cup [at : {"listing"}, q : Requests, copy : Listing]

\* Requests, options and calls have the shape the code gives them.
RequestsTypeOK ==
    /\ now \in Times /\ version \in Versions
    /\ sent \in [Requests -> Sent]
    /\ claims \subseteq Requests /\ list \in Listing
    /\ handler \in [Calls -> Call]
    /\ repeated \subseteq ran /\ ran \subseteq Requests
    /\ crowded \subseteq Requests /\ crossed \in BOOLEAN

\* However often and late a request is delivered, and however claims overwrite
\* each other's lists, it is carried out once, unless the limit removed its claim: one
\* is kept until no clock within the window lets its request pass again.
CarriedOutOnce == repeated \subseteq crowded

RequestsRunOnce == RequestsTypeOK /\ CarriedOutOnce

\* No request takes the plugin back to an older version, unless two installations
\* cross each other or an update made in WordPress.
NotDowngraded == crossed' \/ version' >= version

NeverDowngraded == [][NotDowngraded]_vars

================================================================================
