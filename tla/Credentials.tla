------------------------------ MODULE Credentials ------------------------------
(* The credentials of one site: issued and revoked by an administrator,       *)
(* rotated by check-ins of its WordPress plugin, confirmed by their first use. *)
(* The plugin sends several requests at once, answers are lost, and every     *)
(* handler reads the rows in one statement and writes them in a later one.    *)
EXTENDS Naturals, FiniteSets

CONSTANTS
    Calls,          \* requests of the plugin that may be in flight at once
    MaxCredentials, \* bound: credentials ever made
    MaxCalls        \* bound: requests the plugin sends between two fortnights

CredentialsAssumption == MaxCredentials \in Nat \ {0} /\ MaxCalls \in Nat

Ids == 1 .. MaxCredentials

None == 0

VARIABLES
    state,          \* site_credentials: the state of each credential
    expired,        \* the overlap credentials whose valid_until has passed
    connection,     \* site_plugin_connections: status, and whether rotation is due
    plugin,         \* the settings of the plugin: secret, previous, previous still valid
    call,           \* where each request is, and what its handler has read
    sent,           \* requests sent since the last fortnight (bound)
    admin,          \* what the administrator last did, is doing, and the secret at hand
    crossed         \* ghost: a request was in flight while the administrator acted, or held an
                    \* offer while the credential after it was made

vars == <<state, expired, connection, plugin, call, sent, admin, crossed>>

States == {"none", "active", "pending", "overlap", "revoked"}

Connection == [status : {"none", "awaiting-check-in", "connected", "revoked"}, due : BOOLEAN]

Plugin == [secret : Ids \cup {None}, previous : Ids \cup {None}, valid : BOOLEAN]

Steps == {"idle", "sent", "matched", "confirm", "read", "save", "checkin", "record",
          "rotate", "active", "due", "create", "answer"}

\* secret signs the request, fallback its repetition; pending, row and offer are
\* what the handler read or made.
Call == [at : Steps, checkIn : BOOLEAN, secret : Ids \cup {None}, fallback : Ids \cup {None},
         row : Connection, offer : Ids \cup {None}]

NoConnection == [status |-> "none", due |-> FALSE]

IdleCall == [at |-> "idle", checkIn |-> FALSE, secret |-> None, fallback |-> None,
             row |-> NoConnection, offer |-> None]

--------------------------------------------------------------------------------

\* listAcceptedCredentials.
Accepted ==
    {i \in Ids : state[i] \in {"active", "pending"} \/ (state[i] = "overlap" /\ i \notin expired)}

In(s) == {i \in Ids : state[i] = s}

Fresh == In("none")

\* The credential made next.
NextId == CHOOSE i \in Fresh : \A j \in Fresh : i <= j

Quiet == \A c \in Calls : call[c].at = "idle"

Goto(c, step) == call' = [call EXCEPT ![c].at = step]

End(c) == call' = [call EXCEPT ![c] = IdleCall]

\* A request carries the secret of the settings; previous is for its repetition.
Send(c, checkIn) ==
    /\ call[c].at = "idle"
    /\ sent < MaxCalls
    /\ plugin.secret # None
    /\ sent' = sent + 1
    /\ call' = [call EXCEPT ![c] = [IdleCall EXCEPT
                 !.at = "sent", !.checkIn = checkIn, !.secret = plugin.secret,
                 !.fallback = IF plugin.valid THEN plugin.previous ELSE None]]
    /\ UNCHANGED <<state, expired, connection, plugin, admin, crossed>>

\* getAcceptedCredentials revokes what has expired and lists what is accepted.
RevokeExpired == [i \in Ids |-> IF state[i] = "overlap" /\ i \in expired THEN "revoked" ELSE state[i]]

Authenticate(c) ==
    /\ call[c].at = "sent"
    /\ call[c].secret \in Accepted
    /\ state' = RevokeExpired
    /\ Goto(c, "matched")
    /\ UNCHANGED <<expired, connection, plugin, sent, admin, crossed>>

\* 401: the plugin repeats the request with its previous secret, if it has one.
Reject(c) ==
    /\ call[c].at = "sent"
    /\ call[c].secret \notin Accepted
    /\ state' = RevokeExpired
    /\ IF call[c].fallback = None
         THEN End(c)
         ELSE call' = [call EXCEPT ![c].secret = call[c].fallback, ![c].fallback = None]
    /\ UNCHANGED <<expired, connection, plugin, sent, admin, crossed>>

\* recordAuthenticated lists the credentials again and throws if the one matched
\* is gone; a pending one is to be confirmed.
RecordUse(c) ==
    /\ call[c].at = "matched"
    /\ IF call[c].secret \notin Accepted
         THEN End(c)
         ELSE Goto(c, IF state[call[c].secret] = "pending" THEN "confirm" ELSE "read")
    /\ UNCHANGED <<state, expired, connection, plugin, sent, admin, crossed>>

\* The row locked by confirmPendingCredential is still pending.
Confirmable(i) == state[i] = "pending"

\* Mutant: the credential confirmed leaves the other one active.
ConfirmedBeside(used) == [state EXCEPT ![used] = "active"]

\* The credential used first is the active one and the other overlaps.
Confirmed(used) ==
    [i \in Ids |-> CASE i = used -> "active"
                     [] i # used /\ state[i] = "active" -> "overlap"
                     [] OTHER -> state[i]]

\* confirmPendingCredential, one transaction: the active credential overlaps, the
\* pending one is active and the next rotation is half a year away.
Confirm(c) ==
    LET used == call[c].secret IN
    /\ call[c].at = "confirm"
    /\ IF Confirmable(used)
         THEN /\ state' = Confirmed(used)
              /\ connection' = [connection EXCEPT !.due = FALSE]
         ELSE UNCHANGED <<state, connection>>
    /\ Goto(c, "read")
    /\ UNCHANGED <<expired, plugin, sent, admin, crossed>>

\* The row is read for its rotation date ...
ReadConnection(c) ==
    /\ call[c].at \in {"read", "checkin"}
    /\ call' = [call EXCEPT ![c].at = IF call[c].at = "read" THEN "save" ELSE "record",
                            ![c].row = connection]
    /\ UNCHANGED <<state, expired, connection, plugin, sent, admin, crossed>>

\* ... and written as connected.
Connected(c) == connection' = [status |-> "connected", due |-> call[c].row.due]

\* End of recordAuthenticated; a connection test is answered here.
SaveAuthenticated(c) ==
    /\ call[c].at = "save"
    /\ Connected(c)
    /\ Goto(c, IF call[c].checkIn THEN "checkin" ELSE "answer")
    /\ UNCHANGED <<state, expired, plugin, sent, admin, crossed>>

RecordCheckIn(c) ==
    /\ call[c].at = "record"
    /\ Connected(c)
    /\ Goto(c, "rotate")
    /\ UNCHANGED <<state, expired, plugin, sent, admin, crossed>>

\* beginAutomaticRotation: a pending credential is offered again.
FindPending(c) ==
    /\ call[c].at = "rotate"
    /\ IF In("pending") = {}
         THEN Goto(c, "active")
         ELSE call' = [call EXCEPT ![c].at = "answer", ![c].offer = CHOOSE i \in In("pending") : TRUE]
    /\ UNCHANGED <<state, expired, connection, plugin, sent, admin, crossed>>

FindActive(c) ==
    /\ call[c].at = "active"
    /\ Goto(c, IF In("active") = {} THEN "answer" ELSE "due")
    /\ UNCHANGED <<state, expired, connection, plugin, sent, admin, crossed>>

ReadDue(c) ==
    /\ call[c].at = "due"
    /\ call' = [call EXCEPT ![c].at = IF connection.due THEN "create" ELSE "answer", ![c].row = connection]
    /\ UNCHANGED <<state, expired, connection, plugin, sent, admin, crossed>>

\* Mutant: the new credential replaces the active one before the plugin has it.
OfferedAtOnce == [i \in Ids |-> CASE i = NextId -> "active"
                                  [] i # NextId /\ state[i] = "active" -> "revoked"
                                  [] OTHER -> state[i]]

\* The new credential is pending beside the active one.
Offered == [state EXCEPT ![NextId] = "pending"]

\* One transaction, refused when another request has made a pending credential. The
\* answer to a request that holds the offer before would take the plugin back to it.
CreatePending(c) ==
    /\ call[c].at = "create"
    /\ Fresh # {}
    /\ IF In("pending") = {}
         THEN /\ state' = Offered
              /\ connection' = call[c].row
              /\ call' = [call EXCEPT ![c].at = "answer", ![c].offer = NextId]
              /\ crossed' = (crossed \/ \E d \in Calls \ {c} : call[d].offer # None)
         ELSE End(c) /\ UNCHANGED <<state, connection, crossed>>
    /\ UNCHANGED <<expired, plugin, sent, admin>>

\* Mutant: the secret in use is not kept.
KeptNothing(offer) == [secret |-> offer, previous |-> None, valid |-> FALSE]

\* apply_rotation: the offer is the secret, the secret in use the previous one.
Rotated(offer) == [secret |-> offer, previous |-> plugin.secret, valid |-> TRUE]

\* check_in receives the answer.
Answer(c) ==
    /\ call[c].at = "answer"
    /\ plugin' = IF call[c].offer \in {None, plugin.secret} THEN plugin ELSE Rotated(call[c].offer)
    /\ End(c)
    /\ UNCHANGED <<state, expired, connection, sent, admin, crossed>>

\* The handler throws, its process ends, a repeated signature is refused, or the
\* request or its answer is lost.
Lose(c) ==
    /\ call[c].at # "idle"
    /\ End(c)
    /\ UNCHANGED <<state, expired, connection, plugin, sent, admin, crossed>>

\* Mutant: revocation reaches the active credential only.
RevokedActive == [i \in Ids |-> IF state[i] = "active" THEN "revoked" ELSE state[i]]

\* revokeActiveCredential: every credential that is not revoked yet.
Revoked == [i \in Ids |-> IF state[i] = "none" THEN "none" ELSE "revoked"]

\* issue: everything is revoked, one credential is active, the administrator has
\* its secret to paste into the plugin.
Issue ==
    /\ admin.at = "idle"
    /\ Fresh # {}
    /\ state' = [Revoked EXCEPT ![NextId] = "active"]
    /\ connection' = [status |-> "awaiting-check-in", due |-> FALSE]
    /\ admin' = [admin EXCEPT !.did = "issued", !.shown = NextId]
    /\ crossed' = ~Quiet
    /\ UNCHANGED <<expired, plugin, call, sent>>

\* The administrator saves the secret in the settings of the plugin.
Paste ==
    /\ admin.at = "idle" /\ admin.did = "issued"
    /\ plugin' = [secret |-> admin.shown, previous |-> None, valid |-> FALSE]
    /\ admin' = [admin EXCEPT !.did = "pasted"]
    /\ crossed' = (crossed \/ ~Quiet)
    /\ UNCHANGED <<state, expired, connection, call, sent>>

\* revokeAll reads the connection for its rotation date ...
ReadToRevoke ==
    /\ admin.at = "idle" /\ admin.did # "revoked"
    /\ admin' = [admin EXCEPT !.at = "revoking", !.due = connection.due]
    /\ UNCHANGED <<state, expired, connection, plugin, call, sent, crossed>>

\* ... and revokes every credential in the transaction that writes the row.
RevokeAll ==
    /\ admin.at = "revoking"
    /\ state' = Revoked
    /\ connection' = [status |-> "revoked", due |-> admin.due]
    /\ admin' = [at |-> "idle", did |-> "revoked", shown |-> None, due |-> FALSE]
    /\ crossed' = ~Quiet
    /\ UNCHANGED <<expired, plugin, call, sent>>

\* Overlaps last a fortnight, on both sides, and no request lasts that long.
FortnightPasses ==
    /\ Quiet /\ admin.at = "idle"
    /\ \/ In("overlap") \ expired # {}
       \/ plugin.valid
       \/ sent > 0
    /\ expired' = expired \cup In("overlap")
    /\ plugin' = [plugin EXCEPT !.valid = FALSE]
    /\ sent' = 0
    /\ UNCHANGED <<state, connection, call, admin, crossed>>

\* Half a year after the last confirmation or issue; the overlap is long over.
RotationFallsDue ==
    /\ Quiet /\ admin.at = "idle"
    /\ connection.status # "none" /\ ~connection.due
    /\ connection' = [connection EXCEPT !.due = TRUE]
    /\ expired' = expired \cup In("overlap")
    /\ plugin' = [plugin EXCEPT !.valid = FALSE]
    /\ sent' = 0
    /\ UNCHANGED <<state, call, admin, crossed>>

Init ==
    /\ state = [i \in Ids |-> "none"]
    /\ expired = {}
    /\ connection = NoConnection
    /\ plugin = [secret |-> None, previous |-> None, valid |-> FALSE]
    /\ call = [c \in Calls |-> IdleCall]
    /\ sent = 0
    /\ admin = [at |-> "idle", did |-> "revoked", shown |-> None, due |-> FALSE]
    /\ crossed = FALSE

\* A request of the plugin: authentication, then for check-ins the rotation.
Request(c) ==
    \/ \E checkIn \in BOOLEAN : Send(c, checkIn)
    \/ Authenticate(c) \/ Reject(c) \/ RecordUse(c) \/ Confirm(c)
    \/ ReadConnection(c) \/ SaveAuthenticated(c) \/ RecordCheckIn(c)
    \/ FindPending(c) \/ FindActive(c) \/ ReadDue(c) \/ CreatePending(c)
    \/ Answer(c) \/ Lose(c)

Administer == Issue \/ Paste \/ ReadToRevoke \/ RevokeAll

Next == (\E c \in Calls : Request(c)) \/ Administer \/ FortnightPasses \/ RotationFallsDue

Spec == Init /\ [][Next]_vars

--------------------------------------------------------------------------------
(* What the credentials of a site promise *)

\* Rows, settings and requests have the shape of their tables and options.
CredentialsTypeOK ==
    /\ state \in [Ids -> States]
    /\ expired \subseteq Ids
    /\ connection \in Connection
    /\ plugin \in Plugin
    /\ call \in [Calls -> Call]
    /\ sent \in 0 .. MaxCalls
    /\ admin \in [at : {"idle", "revoking"}, did : {"revoked", "issued", "pasted"},
                  shown : Ids \cup {None}, due : BOOLEAN]
    /\ crossed \in BOOLEAN
    /\ Cardinality(In("active")) <= 1 /\ Cardinality(In("pending")) <= 1

\* Rotation never locks a plugin out: once it was given a secret, one it can sign
\* with is accepted, whichever answers are lost and however long it is away, unless an
\* answer is held back until the rotation after it.
PluginCanAuthenticate ==
    admin.did = "pasted" /\ ~crossed =>
        plugin.secret \in Accepted \/ (plugin.valid /\ plugin.previous \in Accepted)

\* The secret the dashboard signs its own requests with is one the plugin knows.
ActiveIsHeld ==
    admin.did = "pasted" /\ ~crossed => In("active") \subseteq {plugin.secret, plugin.previous}

\* Rotation keeps both sides able to sign for each other.
RotationKeepsAccess == CredentialsTypeOK /\ PluginCanAuthenticate /\ ActiveIsHeld

\* After a revocation that no request crossed nothing is accepted and the site is
\* shown as revoked, until an administrator issues a credential.
RevocationIsComplete ==
    admin.did = "revoked" /\ ~crossed => Accepted = {} /\ connection.status \in {"none", "revoked"}

\* A revoked credential is never accepted again, whatever handlers have read.
RevokedIsFinal ==
    [][\A i \in Ids : state[i] = "revoked" => state'[i] = "revoked"]_vars

================================================================================
