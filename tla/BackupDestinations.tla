--------------------------- MODULE BackupDestinations --------------------------
(* The destinations of backups: one that administrators edit and connect to   *)
(* Dropbox by OAuth, beside the one of the environment; its connection tests; *)
(* and the choice of a site, which backups resolve.  A row is read with its   *)
(* credential in a query of its own and written as a whole, but for the       *)
(* result of its last test.                                                   *)
EXTENDS Naturals, FiniteSets

CONSTANTS
    Calls,              \* requests under way at once
    States,             \* OAuth states, drawn at random
    Main, Runtime,      \* the two destinations, in the order of their names
    None,               \* no destination, no credential, no result
    Life,               \* minutes that an OAuth state lasts (10)
    MaxErrands,         \* bound: calls that change or test the destination
    MaxMinutes          \* bound: time

Destinations == {Main, Runtime}

\* Google Drive and S3 are one mode here: neither is executable.
Modes == {"access-token", "oauth", "other"}

DestinationsAssumption ==
    /\ None \notin Destinations \cup Modes /\ Main # Runtime
    /\ Life \in Nat /\ MaxErrands \in Nat /\ MaxMinutes \in Nat

VARIABLES
    destination,    \* the row of Main in backup_destinations, but for:
    outcome,        \* its last_connection_status
    selection,      \* the rows site_backup_destination_settings and _assignments
    consents,       \* backup_destination_oauth_states
    errand,         \* what each call has read
    minute,         \* the time
    errands,        \* calls made so far
    used,           \* ghost: the OAuth states that were used
    reused,         \* ghost: those that were used twice or too late
    mixed,          \* ghost: a row was written over another than it was read from, or a
                    \* form kept the credential of another row or of another mode
    watched,        \* ghost: what was allowed since a resolution began, and the edits since
    strayed         \* ghost: a resolution found what was never allowed, in spite of one edit at most

rows == <<destination, outcome, selection>>
auth == <<consents, used, reused>>
ghosts == <<mixed, watched, strayed>>
vars == <<rows, auth, errand, minute, errands, ghosts>>

\* A credential is known by the mode it was made for.
Credential == Modes \cup {None}

Row == [mode : Modes, enabled : BOOLEAN, pool : BOOLEAN, credential : Credential]

Selection == [mode : {"master", "override"}, assigned : Destinations \cup {None}]

Consent == [at : {"absent", "pending", "consumed"}, expires : 0 .. MaxMinutes + Life]

Watched == [seen : SUBSET Destinations, edits : 0 .. 2]

\* The row and the credential that a call has read, the form it was given, and what
\* a resolution has read of the choice of the site.
Errand == [at : {"idle", "save", "store", "test", "probe", "authorized", "exchange", "resolve"},
           row : Row, form : Row, kept : BOOLEAN, got : SUBSET {"mode", "assigned"}, choice : Selection]

NewRow == [mode |-> "oauth", enabled |-> TRUE, pool |-> TRUE, credential |-> None]

Master == [mode |-> "master", assigned |-> None]

IdleErrand == [at |-> "idle", row |-> NewRow, form |-> NewRow, kept |-> FALSE, got |-> {}, choice |-> Master]

NoConsent == [at |-> "absent", expires |-> 0]

Unwatched == [seen |-> {}, edits |-> 0]

--------------------------------------------------------------------------------
(* Rows *)

Goto(c, value) == errand' = [errand EXCEPT ![c] = value]

Begin(c, value) ==
    /\ errand[c].at = "idle" /\ errands < MaxErrands
    /\ errands' = errands + 1
    /\ Goto(c, value)

\* Mutant: a destination that is disabled is resolved as well.
EnabledOrNot(row) == Destinations

Enabled(row) == IF row.enabled THEN Destinations ELSE {Runtime}

Pool(row) == IF row.pool THEN Destinations ELSE {Runtime}

\* resolveForSite: the assigned destination, or the first of the central pool.
Resolved(choice, row) ==
    LET selected == IF choice.mode = "override" THEN {choice.assigned} ELSE Pool(row)
        resolved == selected \cap Enabled(row)
    IN  CASE resolved = {} -> None
          [] Main \in resolved -> Main
          [] OTHER -> Runtime

\* What the choice and the row allow at a moment, for the property.
Allowed(choice, row) ==
    {d \in Destinations :
        /\ d = Main => row.enabled /\ (row.pool \/ choice.mode = "override")
        /\ choice.mode = "override" => d = choice.assigned}

Watch(choice, row) ==
    watched' = [c \in Calls |->
        IF errand[c].at # "resolve" THEN watched[c]
        ELSE [seen |-> watched[c].seen \cup Allowed(choice, row),
              edits |-> IF watched[c].edits = 0 THEN 1 ELSE 2]]

\* BackupDestinationRepository.save writes all but the result of the last test.
WriteRow(c, row, kept) ==
    /\ destination' = row
    /\ mixed' = \/ mixed \/ errand[c].row # destination
                \/ kept /\ (row.mode # errand[c].row.mode \/ row.credential # destination.credential)
    /\ Watch(selection, row)
    /\ Goto(c, IdleErrand)

--------------------------------------------------------------------------------
(* Editing and testing *)

\* A form gives a credential of its mode, or none to keep the one that is stored.
Save(c) ==
    /\ \E mode \in Modes, enabled, pool \in BOOLEAN, given \in Credential :
          /\ given \in {None, mode} /\ given # "oauth"
          /\ Begin(c, [IdleErrand EXCEPT !.at = IF given = None THEN "save" ELSE "store",
                           !.row = destination,
                           !.form = [mode |-> mode, enabled |-> enabled, pool |-> pool, credential |-> given]])
    /\ UNCHANGED <<rows, auth, minute, ghosts>>

\* The stored credential is read again to be kept.
KeepCredential(c) ==
    /\ errand[c].at = "save"
    /\ Goto(c, [errand[c] EXCEPT !.at = "store", !.form.credential = destination.credential,
                                 !.kept = TRUE])
    /\ UNCHANGED <<rows, auth, minute, errands, ghosts>>

Store(c) ==
    /\ errand[c].at = "store"
    /\ WriteRow(c, errand[c].form, errand[c].kept)
    /\ UNCHANGED <<outcome, selection, auth, minute, errands, strayed>>

Test(c) ==
    /\ Begin(c, [IdleErrand EXCEPT !.at = "test", !.row = destination])
    /\ UNCHANGED <<rows, auth, minute, ghosts>>

\* Only Dropbox needs the credential; a destination without one cannot be tested.
ReadCredential(c) ==
    LET row == errand[c].row IN
    /\ errand[c].at = "test" /\ (row.mode = "other" \/ destination.credential # None)
    /\ Goto(c, [errand[c] EXCEPT !.at = "probe", !.form = [row EXCEPT !.credential = destination.credential]])
    /\ UNCHANGED <<rows, auth, minute, errands, ghosts>>

\* recordConnectionResult: Dropbox accepts a token that fits the mode, or is out of reach.
Probe(c) ==
    LET form == errand[c].form
        works == form.mode # "other" /\ form.credential = form.mode
    IN
    /\ errand[c].at = "probe"
    /\ outcome' \in {"failed"} \cup (IF works THEN {"connected"} ELSE {})
    /\ Goto(c, IdleErrand)
    /\ UNCHANGED <<destination, selection, auth, minute, errands, ghosts>>

--------------------------------------------------------------------------------
(* Dropbox OAuth *)

\* Purges the states that are over and adds one.
BeginOAuth(s) ==
    LET over == {t \in States : consents[t].at = "consumed" \/ consents[t].expires <= minute} IN
    /\ destination.mode # "other"
    /\ consents[s].at = "absent" /\ s \notin used
    /\ consents' = [t \in States |-> IF t = s THEN [at |-> "pending", expires |-> minute + Life]
                                     ELSE IF t \in over THEN NoConsent ELSE consents[t]]
    /\ UNCHANGED <<rows, used, reused, errand, minute, errands, ghosts>>

\* Mutant: a state may be used again.
StillThere(s) == consents[s].at # "absent" /\ consents[s].expires > minute

Usable(s) == consents[s].at = "pending" /\ consents[s].expires > minute

\* The browser comes back with a state, perhaps twice: one UPDATE consumes it.
CompleteOAuth(c, s) ==
    /\ Usable(s)
    /\ Begin(c, [IdleErrand EXCEPT !.at = "authorized"])
    /\ consents' = [consents EXCEPT ![s].at = "consumed"]
    /\ used' = used \cup {s}
    /\ reused' = reused \cup (IF s \in used \/ minute >= consents[s].expires THEN {s} ELSE {})
    /\ UNCHANGED <<rows, minute, ghosts>>

ReadForOAuth(c) ==
    /\ errand[c].at = "authorized" /\ destination.mode # "other"
    /\ Goto(c, [errand[c] EXCEPT !.at = "exchange", !.row = destination])
    /\ UNCHANGED <<rows, auth, minute, errands, ghosts>>

\* Mutant: the mode of the destination stays as it was.
SameMode(row) == [row EXCEPT !.credential = "oauth"]

Connected(row) == [row EXCEPT !.mode = "oauth", !.credential = "oauth"]

\* The code is exchanged for a refresh token, which is saved with the mode.
ExchangeCode(c) ==
    /\ errand[c].at = "exchange"
    /\ WriteRow(c, Connected(errand[c].row), FALSE)
    /\ UNCHANGED <<outcome, selection, auth, minute, errands, strayed>>

--------------------------------------------------------------------------------
(* The choice of a site *)

\* One transaction writes the mode and replaces the assignment.
SaveSiteSettings ==
    /\ selection' \in {s \in Selection : s.mode = "master" <=> s.assigned = None}
    /\ selection' # selection /\ errands < MaxErrands
    /\ errands' = errands + 1
    /\ Watch(selection', destination)
    /\ UNCHANGED <<destination, outcome, auth, errand, minute, mixed, strayed>>

ResolveForSite(c) ==
    /\ errand[c].at = "idle"
    /\ Goto(c, [IdleErrand EXCEPT !.at = "resolve"])
    /\ watched' = [watched EXCEPT ![c] = [seen |-> Allowed(selection, destination), edits |-> 0]]
    /\ UNCHANGED <<rows, auth, minute, errands, mixed, strayed>>

\* getSiteSettings reads the two tables by two queries at once.
ReadSettings(c) ==
    /\ errand[c].at = "resolve"
    /\ \E what \in {"mode", "assigned"} \ errand[c].got :
          Goto(c, [errand[c] EXCEPT !.got = @ \cup {what}, !.choice[what] = selection[what]])
    /\ UNCHANGED <<rows, auth, minute, errands, ghosts>>

\* list follows.
ListDestinations(c) ==
    /\ errand[c].at = "resolve" /\ errand[c].got = {"mode", "assigned"}
    /\ strayed' = \/ strayed
                  \/ /\ watched[c].edits < 2
                     /\ Resolved(errand[c].choice, destination) \notin watched[c].seen \cup {None}
    /\ watched' = [watched EXCEPT ![c] = Unwatched]
    /\ Goto(c, IdleErrand)
    /\ UNCHANGED <<rows, auth, minute, errands, mixed>>

\* A call fails or its process ends.
End(c) ==
    /\ errand[c].at # "idle"
    /\ Goto(c, IdleErrand)
    /\ watched' = [watched EXCEPT ![c] = Unwatched]
    /\ UNCHANGED <<rows, auth, minute, errands, mixed, strayed>>

TimePasses ==
    /\ minute < MaxMinutes
    /\ minute' = minute + 1
    /\ UNCHANGED <<rows, auth, errand, errands, ghosts>>

\* A destination has just been created: OAuth needs no credential yet.
Init ==
    /\ \E mode \in Modes :
          destination = [mode |-> mode, enabled |-> TRUE, pool |-> TRUE,
                         credential |-> IF mode = "oauth" THEN None ELSE mode]
    /\ outcome = "none"
    /\ selection = Master
    /\ consents = [s \in States |-> NoConsent]
    /\ errand = [c \in Calls |-> IdleErrand]
    /\ minute = 0 /\ errands = 0
    /\ used = {} /\ reused = {}
    /\ mixed = FALSE /\ strayed = FALSE
    /\ watched = [c \in Calls |-> Unwatched]

Next ==
    \/ SaveSiteSettings \/ TimePasses
    \/ \E s \in States : BeginOAuth(s)
    \/ \E c \in Calls :
          \/ Save(c) \/ KeepCredential(c) \/ Store(c) \/ Test(c) \/ ReadCredential(c) \/ Probe(c)
          \/ (\E s \in States : CompleteOAuth(c, s)) \/ ReadForOAuth(c) \/ ExchangeCode(c)
          \/ ResolveForSite(c) \/ ReadSettings(c) \/ ListDestinations(c) \/ End(c)

Spec == Init /\ [][Next]_vars

--------------------------------------------------------------------------------
(* What is promised of destinations *)

\* Rows, states and calls have the shape of their tables and of the code.
DestinationsTypeOK ==
    /\ destination \in Row /\ outcome \in {"none", "connected", "failed"} /\ selection \in Selection
    /\ consents \in [States -> Consent] /\ errand \in [Calls -> Errand]
    /\ minute \in 0 .. MaxMinutes /\ errands \in 0 .. MaxErrands
    /\ reused \subseteq used /\ used \subseteq States
    /\ mixed \in BOOLEAN /\ strayed \in BOOLEAN /\ watched \in [Calls -> Watched]

\* A destination is used with a credential of its kind, however editing and OAuth
\* follow each other, unless a form keeps the credential of another mode or of
\* another row, or a row is written over one it was not read from.
CredentialFitsMode ==
    ~mixed /\ destination.credential # None => destination.credential = destination.mode

\* However often the browser comes back, an authorization is used once and in time.
ConsentUsedOnce == reused = {}

\* What a backup resolves was enabled and chosen at some moment since it began to
\* look, although it reads mode, assignment and destinations one after the other;
\* one edit in between may leave it without a destination, never with a wrong one.
ResolvedWasEffective == ~strayed

\* Credentials fit, authorizations are used once, and backups go where they should.
DestinationsSound == DestinationsTypeOK /\ CredentialFitsMode /\ ConsentUsedOnce /\ ResolvedWasEffective

================================================================================
