------------------------------- MODULE Accounts --------------------------------
(* The account of one e-mail address: the invitations to it, its row, its     *)
(* password and reset links, the e-mail factor, the trusted devices and the   *)
(* sessions.  Requests read rows without a lock and write them in later       *)
(* statements; the writes of one transaction are one step, for those of two   *)
(* transactions on one account wait for each other at the first of them.      *)
EXTENDS Naturals, FiniteSets

CONSTANTS
    Calls,          \* requests under way at once
    Invitations, Links, Sessions,   \* rows ever made
    None,           \* there is no account
    MaxCalls        \* bound: requests begun

VARIABLES
    account,        \* users: status, mfa_required, and whether mfa_enrolled_at is set
    password,       \* user_password_credentials: numbers the passwords
    invitations,    \* the state of each
    links,          \* password_resets
    sessions,       \* auth_sessions: state and age; ghosts: what it was opened on
    devices,        \* mfa_trusted_devices that are not revoked or expired, likewise
    challenge,      \* the open login challenge, likewise
    enrolment,      \* an enrolment challenge is open
    factor,         \* user_mfa_factors: a verified one is active
    call,           \* what each request has read
    begun,          \* requests begun
    decided,        \* ghost: the status and the need of the factor decided last
    torn,           \* ghost: a row was written back that had changed since
    cut,            \* ghost: an enrolment ended between two statements
    uses            \* ghost: passwords set with each link by requests in time

vars == <<account, password, invitations, links, sessions, devices, challenge, enrolment,
          factor, call, begun, decided, torn, cut, uses>>

Account == [status : {"active", "disabled"}, required : BOOLEAN, enrolled : BOOLEAN]

\* What an administrator decides of an account.
Decision(row) == [status |-> row.status, required |-> row.required]

\* What a password proved: which one, and whether by a request that was overtaken.
Proof == [proof : Nat, late : BOOLEAN]

\* Ages: seen within a quarter of an hour; longer ago; more than idleHours ago.
Session ==
    [state : {"none", "open", "revoked"}, age : 0 .. 2, proof : Nat, late : BOOLEAN, lapsed : BOOLEAN]

NoSession == [state |-> "none", age |-> 0, proof |-> 0, late |-> FALSE, lapsed |-> FALSE]

AccountsAssumption == MaxCalls \in Nat /\ None \notin Account \cup Proof

Idle == [at |-> "idle"]

Goto(a, value) == call' = [call EXCEPT ![a] = value]

Begin(a) == call[a].at = "idle" /\ begun < MaxCalls /\ begun' = begun + 1

\* The other requests go on with what they read before a change.
Overtaking(a, value) ==
    call' = [b \in Calls |-> IF b = a THEN value
                             ELSE IF call[b].at = "idle" THEN Idle ELSE [call[b] EXCEPT !.late = TRUE]]

--------------------------------------------------------------------------------
(* Invitations *)

CreateInvitation(a) ==
    /\ Begin(a) /\ account = None
    /\ \E i \in Invitations : invitations[i] = "none" /\ invitations' = [invitations EXCEPT ![i] = "open"]
    /\ UNCHANGED <<account, password, links, sessions, devices, challenge, enrolment, factor,
                   call, decided, torn, cut, uses>>

ReadInvitation(a) ==
    /\ Begin(a) /\ account = None
    /\ \E i \in Invitations :
          invitations[i] = "open" /\ Goto(a, [at |-> "accept", invitation |-> i, late |-> FALSE])
    /\ UNCHANGED <<account, password, invitations, links, sessions, devices, challenge,
                   enrolment, factor, decided, torn, cut, uses>>

\* Mutant: the address may have another account.
AnyAddress == TRUE

\* users_email_unique: the transaction fails when the address has an account by now.
AddressIsFree == account = None

AcceptInvitation(a) ==
    /\ call[a].at = "accept"
    /\ IF AddressIsFree
       THEN /\ \E required \in BOOLEAN :
                  account' = [status |-> "active", required |-> required, enrolled |-> FALSE]
            /\ password' = 1
            /\ invitations' = [invitations EXCEPT ![call[a].invitation] = "accepted"]
            /\ decided' = Decision(account')
       ELSE UNCHANGED <<account, password, invitations, decided>>
    /\ Goto(a, Idle)
    /\ UNCHANGED <<links, sessions, devices, challenge, enrolment, factor, begun, torn, cut, uses>>

--------------------------------------------------------------------------------
(* Signing in *)

\* coded: a code was asked for and was right.
SignsIn(step, row, proof, late, coded) ==
    [at |-> step, row |-> row, proof |-> proof, late |-> late, coded |-> coded]

\* The password is the right one.
VerifyCredentials(a) ==
    /\ Begin(a) /\ account # None
    /\ account.status = "active"
    /\ Goto(a, SignsIn("verified", account, password, FALSE, FALSE))
    /\ UNCHANGED <<account, password, invitations, links, sessions, devices, challenge,
                   enrolment, factor, decided, torn, cut, uses>>

NeedsCode(row) == row.required /\ row.enrolled

\* A trusted device, or an account without the factor, needs no code.
TrustedSignIn(a) ==
    /\ call[a].at = "verified"
    /\ NeedsCode(call[a].row) => devices # {}
    /\ Goto(a, [call[a] EXCEPT !.at = "save"])
    /\ UNCHANGED <<account, password, invitations, links, sessions, devices, challenge,
                   enrolment, factor, begun, decided, torn, cut, uses>>

\* The challenge takes the place of the open one.
IssueLoginChallenge(a) ==
    /\ call[a].at = "verified"
    /\ NeedsCode(call[a].row) /\ factor
    /\ challenge' = [proof |-> call[a].proof, late |-> call[a].late]
    /\ Goto(a, Idle)
    /\ UNCHANGED <<account, password, invitations, links, sessions, devices, enrolment, factor,
                   begun, decided, torn, cut, uses>>

VerifyLoginChallenge(a) ==
    /\ Begin(a) /\ challenge # None
    /\ challenge' = None
    /\ Goto(a, [at |-> "passed", proof |-> challenge.proof, late |-> challenge.late])
    /\ UNCHANGED <<account, password, invitations, links, sessions, devices, enrolment, factor,
                   decided, torn, cut, uses>>

\* Mutant: the account is not looked at again.
Anyhow(row) == TRUE

\* findUserById, once the code was right.
Available(row) == row.status = "active"

FindUser(a) ==
    /\ call[a].at = "passed"
    /\ Available(account)
    /\ Goto(a, SignsIn("save", account, call[a].proof, call[a].late, TRUE))
    /\ UNCHANGED <<account, password, invitations, links, sessions, devices, challenge,
                   enrolment, factor, begun, decided, torn, cut, uses>>

\* "{ ...user, lastLoginAt }": the whole row, as it was read.
SaveUser(a) ==
    /\ call[a].at = "save"
    /\ account' = call[a].row
    /\ torn' = (torn \/ call[a].row # account)
    /\ Goto(a, [call[a] EXCEPT !.at = "open"])
    /\ UNCHANGED <<password, invitations, links, sessions, devices, challenge, enrolment, factor,
                   begun, decided, cut, uses>>

CreateSession(a) ==
    /\ call[a].at = "open"
    /\ \E s \in Sessions :
          /\ sessions[s].state = "none"
          /\ sessions' = [sessions EXCEPT ![s] = [NoSession EXCEPT
                             !.state = "open", !.proof = call[a].proof, !.late = call[a].late]]
    /\ Goto(a, IF call[a].coded THEN [call[a] EXCEPT !.at = "remember"] ELSE Idle)
    /\ UNCHANGED <<account, password, invitations, links, devices, challenge, enrolment, factor,
                   begun, decided, torn, cut, uses>>

\* After a code; a request that did not wish for it ends before.
CreateTrustedDevice(a) ==
    /\ call[a].at = "remember"
    /\ devices' = devices \cup {[proof |-> call[a].proof, late |-> call[a].late]}
    /\ Goto(a, Idle)
    /\ UNCHANGED <<account, password, invitations, links, sessions, challenge, enrolment, factor,
                   begun, decided, torn, cut, uses>>

--------------------------------------------------------------------------------
(* Sessions in use *)

ReadSession(a) ==
    /\ Begin(a)
    /\ \E s \in Sessions :
          /\ sessions[s].state = "open"
          /\ Goto(a, [at |-> "resolve", session |-> s, age |-> sessions[s].age, late |-> FALSE])
    /\ UNCHANGED <<account, password, invitations, links, sessions, devices, challenge,
                   enrolment, factor, decided, torn, cut, uses>>

\* Mutant: one that no request came with for long is used again.
NeverTooLong(age) == FALSE

\* idleHours have passed.
TooLong(age) == age = 2

Revoked(s) == IF s.state = "open" THEN [s EXCEPT !.state = "revoked"] ELSE s

\* SessionService.resolve: an idle session is revoked; one of an active account is good,
\* and touched unless it was seen of late.
RevokeIdle(a) ==
    /\ call[a].at = "resolve" /\ TooLong(call[a].age)
    /\ sessions' = [sessions EXCEPT ![call[a].session] = Revoked(@)]
    /\ Goto(a, Idle)
    /\ UNCHANGED <<account, password, invitations, links, devices, challenge, enrolment, factor,
                   begun, decided, torn, cut, uses>>

ResolveUser(a) ==
    /\ call[a].at = "resolve" /\ ~ TooLong(call[a].age)
    /\ account.status = "active"
    /\ Goto(a, IF call[a].age = 0 THEN Idle ELSE [call[a] EXCEPT !.at = "touch"])
    /\ UNCHANGED <<account, password, invitations, links, sessions, devices, challenge,
                   enrolment, factor, begun, decided, torn, cut, uses>>

TouchSession(a) ==
    LET row == sessions[call[a].session] IN
    /\ call[a].at = "touch"
    /\ sessions' = [sessions EXCEPT ![call[a].session] =
                       [row EXCEPT !.age = 0, !.late = row.late \/ row.age # call[a].age]]
    /\ Goto(a, Idle)
    /\ UNCHANGED <<account, password, invitations, links, devices, challenge, enrolment, factor,
                   begun, decided, torn, cut, uses>>

\* Logging out, or ending another session of one's own.
RevokeSession(a) ==
    /\ Begin(a)
    /\ \E s \in Sessions : sessions[s].state = "open" /\ sessions' = [sessions EXCEPT ![s] = Revoked(@)]
    /\ UNCHANGED <<account, password, invitations, links, devices, challenge, enrolment, factor,
                   call, decided, torn, cut, uses>>

RevokeTrustedDevice(a) ==
    /\ Begin(a)
    /\ \E d \in devices : devices' = devices \ {d}
    /\ UNCHANGED <<account, password, invitations, links, sessions, challenge, enrolment, factor,
                   call, decided, torn, cut, uses>>

--------------------------------------------------------------------------------
(* Passwords *)

RequestPasswordReset(a) ==
    /\ Begin(a) /\ account # None
    /\ account.status = "active"
    /\ \E l \in Links : links[l] = "none" /\ links' = [links EXCEPT ![l] = "open"]
    /\ UNCHANGED <<account, password, invitations, sessions, devices, challenge, enrolment,
                   factor, call, decided, torn, cut, uses>>

ReadLink(a) ==
    /\ Begin(a)
    /\ \E l \in Links : links[l] = "open" /\ Goto(a, [at |-> "reset", link |-> l, late |-> FALSE])
    /\ UNCHANGED <<account, password, invitations, links, sessions, devices, challenge,
                   enrolment, factor, decided, torn, cut, uses>>

\* Mutant: the sessions are left open.
LeftOpen == sessions

\* revokeUserSessions
AllRevoked == [s \in Sessions |-> Revoked(sessions[s])]

\* Mutant: the link is not marked as used.
Unmarked(l) == links

\* usePasswordReset
Marked(l) == [links EXCEPT ![l] = "used"]

CompletePasswordReset(a) ==
    /\ call[a].at = "reset"
    /\ password' = password + 1
    /\ links' = Marked(call[a].link)
    /\ sessions' = AllRevoked
    /\ devices' = {} /\ challenge' = None /\ enrolment' = FALSE
    /\ uses' = [uses EXCEPT ![call[a].link] = IF call[a].late THEN @ ELSE @ + 1]
    /\ Overtaking(a, Idle)
    /\ UNCHANGED <<account, invitations, factor, begun, decided, torn, cut>>

--------------------------------------------------------------------------------
(* Administration *)

ReadUser(a) ==
    /\ Begin(a) /\ account # None
    /\ Goto(a, [at |-> "update", row |-> account, late |-> FALSE])
    /\ UNCHANGED <<account, password, invitations, links, sessions, devices, challenge,
                   enrolment, factor, decided, torn, cut, uses>>

UpdateUser(a) ==
    /\ call[a].at = "update"
    /\ \E status \in {"active", "disabled"}, required \in BOOLEAN :
          /\ account' = [call[a].row EXCEPT !.status = status, !.required = required]
          /\ sessions' = IF status = "disabled" THEN AllRevoked ELSE sessions
    /\ decided' = Decision(account')
    /\ torn' = (torn \/ call[a].row # account)
    /\ Overtaking(a, Idle)
    /\ UNCHANGED <<password, invitations, links, devices, challenge, enrolment, factor, begun, cut, uses>>

--------------------------------------------------------------------------------
(* Enrolment in the e-mail factor *)

BeginEnrollment(a) ==
    /\ Begin(a) /\ account # None
    /\ ~ factor
    /\ enrolment' = TRUE
    /\ UNCHANGED <<account, password, invitations, links, sessions, devices, challenge, factor,
                   call, decided, torn, cut, uses>>

\* completeEnrollment: the challenge is consumed, and four statements follow.
ConsumeEnrolment(a) ==
    /\ Begin(a) /\ enrolment
    /\ enrolment' = FALSE
    /\ Goto(a, [at |-> "disable", proof |-> password, late |-> FALSE])
    /\ UNCHANGED <<account, password, invitations, links, sessions, devices, challenge, factor,
                   decided, torn, cut, uses>>

DisableFactor(a) ==
    /\ call[a].at = "disable"
    /\ factor' = FALSE
    /\ Goto(a, [call[a] EXCEPT !.at = "insert"])
    /\ UNCHANGED <<account, password, invitations, links, sessions, devices, challenge, enrolment,
                   begun, decided, torn, cut, uses>>

\* user_mfa_factors_active: there is no other by now.
InsertFactor(a) ==
    /\ call[a].at = "insert"
    /\ ~ factor
    /\ factor' = TRUE
    /\ Goto(a, [call[a] EXCEPT !.at = "flag"])
    /\ UNCHANGED <<account, password, invitations, links, sessions, devices, challenge, enrolment,
                   begun, decided, torn, cut, uses>>

FlagEnrolled(a) ==
    /\ call[a].at = "flag"
    /\ account' = [account EXCEPT !.enrolled = TRUE]
    /\ Overtaking(a, [call[a] EXCEPT !.at = "remember"])
    /\ UNCHANGED <<password, invitations, links, sessions, devices, challenge, enrolment, factor,
                   begun, decided, torn, cut, uses>>

--------------------------------------------------------------------------------
(* Time, and requests that end early *)

\* The request fails, or is refused, before its next statement.
Fail(a) ==
    /\ call[a].at # "idle"
    /\ cut' = (cut \/ call[a].at = "flag" \/ (call[a].at = "insert" /\ ~ factor))
    /\ Goto(a, Idle)
    /\ UNCHANGED <<account, password, invitations, links, sessions, devices, challenge, enrolment,
                   factor, begun, decided, torn, uses>>

Expire ==
    /\ \/ /\ \E i \in Invitations : /\ invitations[i] = "open"
                                    /\ invitations' = [invitations EXCEPT ![i] = "expired"]
          /\ UNCHANGED <<links, sessions, devices, challenge, enrolment>>
       \/ /\ \E l \in Links : links[l] = "open" /\ links' = [links EXCEPT ![l] = "expired"]
          /\ UNCHANGED <<invitations, sessions, devices, challenge, enrolment>>
       \/ /\ challenge' \in {challenge, None} /\ enrolment' \in {enrolment, FALSE} /\ devices' \in SUBSET devices
          /\ UNCHANGED <<invitations, links, sessions>>
    /\ UNCHANGED <<account, password, factor, call, begun, decided, torn, cut, uses>>

Age ==
    /\ \E s \in Sessions :
          /\ sessions[s].state = "open" /\ sessions[s].age < 2
          /\ sessions' = [sessions EXCEPT ![s].age = sessions[s].age + 1,
                                          ![s].lapsed = sessions[s].lapsed \/ sessions[s].age = 1]
    /\ UNCHANGED <<account, password, invitations, links, devices, challenge, enrolment, factor,
                   call, begun, decided, torn, cut, uses>>

--------------------------------------------------------------------------------

\* An account that bootstrapAdministrator has made, with or without the factor, or one
\* that is to come from an invitation.
Init ==
    /\ \/ account = None /\ password = 0 /\ factor = FALSE
       \/ \E enrolled \in BOOLEAN :
             /\ account = [status |-> "active", required |-> TRUE, enrolled |-> enrolled]
             /\ password = 1 /\ factor = enrolled
    /\ decided = [status |-> "active", required |-> TRUE]
    /\ invitations = [i \in Invitations |-> "none"]
    /\ links = [l \in Links |-> "none"]
    /\ sessions = [s \in Sessions |-> NoSession]
    /\ devices = {} /\ challenge = None /\ enrolment = FALSE
    /\ call = [a \in Calls |-> Idle] /\ begun = 0
    /\ torn = FALSE /\ cut = FALSE /\ uses = [l \in Links |-> 0]

Next ==
    \/ \E a \in Calls :
          \/ CreateInvitation(a) \/ ReadInvitation(a) \/ AcceptInvitation(a)
          \/ VerifyCredentials(a) \/ TrustedSignIn(a) \/ IssueLoginChallenge(a)
          \/ VerifyLoginChallenge(a) \/ FindUser(a) \/ SaveUser(a)
          \/ CreateSession(a) \/ CreateTrustedDevice(a)
          \/ ReadSession(a) \/ RevokeIdle(a) \/ ResolveUser(a) \/ TouchSession(a)
          \/ RevokeSession(a) \/ RevokeTrustedDevice(a)
          \/ RequestPasswordReset(a) \/ ReadLink(a) \/ CompletePasswordReset(a)
          \/ ReadUser(a) \/ UpdateUser(a)
          \/ BeginEnrollment(a) \/ ConsumeEnrolment(a)
          \/ DisableFactor(a) \/ InsertFactor(a) \/ FlagEnrolled(a)
          \/ Fail(a)
    \/ Expire \/ Age

Spec == Init /\ [][Next]_vars

--------------------------------------------------------------------------------
(* Properties *)

\* An address gets its account from one invitation, however many were sent and however
\* often they are followed.
OneInvitationAccepted == Cardinality({i \in Invitations : invitations[i] = "accepted"}) <= 1

\* Unless a row was written back over a change, an account is what was decided of it
\* last and, while no enrolment is under way or was cut off, says that it is
\* enrolled exactly if it has a factor.
RowAsDecided ==
    account # None /\ ~ torn =>
        /\ Decision(account) = decided
        /\ cut \/ (\E a \in Calls : call[a].at \in {"insert", "flag"}) \/ account.enrolled = factor

\* What was opened or trusted by a request that nothing overtook rests on the present
\* password, and none of it on an account that is disabled.
AccessIsCurrent ==
    /\ \A s \in Sessions : sessions[s].state = "open" /\ ~ sessions[s].late =>
          sessions[s].proof = password /\ account.status = "active"
    /\ \A d \in devices : d.late \/ d.proof = password

\* A session that was idle for too long is not used again.
IdleStaysIdle ==
    \A s \in Sessions :
        sessions[s].state = "open" /\ sessions[s].lapsed /\ ~ sessions[s].late => sessions[s].age = 2

\* A link sets one password, unless two requests with it overlap.
LinksUsedOnce == \A l \in Links : uses[l] <= 1

AccountsSound == OneInvitationAccepted /\ RowAsDecided /\ AccessIsCurrent /\ IdleStaysIdle /\ LinksUsedOnce

================================================================================
