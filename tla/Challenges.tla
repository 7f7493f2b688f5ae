------------------------------ MODULE Challenges -------------------------------
(* The one-time codes of one account: challenges that are issued, replaced,   *)
(* answered, failed and invalidated while requests overlap, and the recovery  *)
(* codes that answer any of them.                                             *)
EXTENDS Naturals, FiniteSets

CONSTANTS
    Calls,          \* requests under way at once
    ChallengeBound, \* bound: rows ever made
    Purposes,       \* enrollment, login, step-up
    RecoveryCodes,
    None,           \* a row that is not there
    MaximumAttempts,    \* maximum_attempts: 5
    IssueLimit          \* codes in a quarter of an hour: 5

VARIABLES
    challenges,     \* mfa_challenges
    recent,         \* challenges made in the last quarter of an hour
    codes,          \* recovery_codes_json of the active factor
    call,           \* what each request has read
    succeeded,      \* ghost: how often each challenge was answered
    spent,          \* ghost: how often each recovery code was taken, until revived
    crowded,        \* ghost: purposes of which two challenges were issued at once
    rushed,         \* ghost: two challenges of any purpose were
    revived         \* ghost: a list was written with a code that another had taken

Challenges == 1 .. ChallengeBound

vars == <<challenges, recent, codes, call, succeeded, spent, crowded, rushed, revived>>

\* expired: no answer is right any more, and the attempts at it are not followed.
Challenge ==
    [purpose : Purposes, state : {"open", "used", "invalid", "expired"}, attempts : 0 .. MaximumAttempts]

ChallengesAssumption ==
    /\ MaximumAttempts \in Nat \ {0} /\ IssueLimit \in Nat \ {0}
    /\ ChallengeBound \in Nat /\ None \notin Challenge /\ IsFiniteSet(RecoveryCodes)

Idle == [at |-> "idle"]

Goto(a, value) == call' = [call EXCEPT ![a] = value]

Made == {c \in Challenges : challenges[c] # None}

Open(p) == {c \in Made : challenges[c].state = "open" /\ challenges[c].purpose = p}

\* Mutant: the row is read without the lock.
Shared(c) == TRUE

\* SELECT ... FOR UPDATE: no other transaction has read the row and not ended.
Unlocked(c) == \A b \in Calls : call[b].at = "consume" => call[b].challenge # c

--------------------------------------------------------------------------------
(* issueEmailChallenge *)

\* The codes of late are counted, and the rows found that the UPDATE is to invalidate.
ReadChallenges(a, p) ==
    /\ call[a].at = "idle"
    /\ recent < IssueLimit
    /\ Goto(a, [at |-> "insert", purpose |-> p, found |-> Open(p)])
    /\ LET others == {call[b].purpose : b \in {b \in Calls : call[b].at = "insert"}} IN
       /\ crowded' = crowded \cup (others \cap {p})
       /\ rushed' = (rushed \/ others # {})
    /\ UNCHANGED <<challenges, recent, codes, succeeded, spent, revived>>

\* Mutant: what was issued before stays good.
Kept(found) == challenges

Replaced(found) ==
    [c \in Challenges |-> IF c \in found /\ challenges[c].state = "open"
                          THEN [challenges[c] EXCEPT !.state = "invalid"] ELSE challenges[c]]

\* It waits for the transactions that have locked one of the rows.
InsertChallenge(a) ==
    /\ call[a].at = "insert"
    /\ \A c \in call[a].found : Unlocked(c)
    /\ \E c \in Challenges \ Made :
          /\ \A d \in Challenges \ Made : c <= d
          /\ challenges' = [Replaced(call[a].found) EXCEPT ![c] =
                 [purpose |-> call[a].purpose, state |-> "open", attempts |-> 0]]
    /\ recent' = recent + 1
    /\ Goto(a, Idle)
    /\ UNCHANGED <<codes, succeeded, spent, crowded, rushed, revived>>

--------------------------------------------------------------------------------
(* consumeChallenge *)

\* Answers: the code that was sent, one of the recovery codes, or a wrong one, which
\* the answer to a challenge of another purpose is too.
Answers == {"sent", "wrong"} \cup RecoveryCodes

Usable(row) == row.state = "open" /\ row.attempts < MaximumAttempts

\* The row, and the recovery codes of the factor, which is not locked.
ReadChallenge(a) ==
    /\ call[a].at = "idle"
    /\ \E c \in Made, answer \in Answers :
          /\ Unlocked(c) /\ challenges[c].state = "open"
          /\ LET right == Usable(challenges[c]) /\ answer \in {"sent"} \cup codes IN
             Goto(a, [at |-> "consume", challenge |-> c, codes |-> codes,
                      answer |-> IF right THEN answer ELSE "wrong"])
    /\ UNCHANGED <<challenges, recent, codes, succeeded, spent, crowded, rushed, revived>>

Succeed(c) ==
    /\ challenges' = [challenges EXCEPT ![c].state = "used"]
    /\ succeeded' = [succeeded EXCEPT ![c] = @ + 1]

AnswerWithCode(a) ==
    /\ call[a].at = "consume" /\ call[a].answer = "sent"
    /\ Succeed(call[a].challenge)
    /\ Goto(a, Idle)
    /\ UNCHANGED <<recent, codes, spent, crowded, rushed, revived>>

\* Mutant: the code is not looked for again.
StillHas(r) == TRUE

\* "WHERE ... recovery_codes_json @> ...": another request may have taken it.
Has(r) == r \in codes

\* The list that is written is the one that was read, without the code.
AnswerWithRecoveryCode(a) ==
    LET r == call[a].answer IN
    /\ call[a].at = "consume" /\ r \in call[a].codes
    /\ IF Has(r)
       THEN /\ codes' = call[a].codes \ {r}
            /\ revived' = (revived \/ ~ call[a].codes \ {r} \subseteq codes)
            /\ spent' = IF revived' THEN spent ELSE [spent EXCEPT ![r] = @ + 1]
            /\ Succeed(call[a].challenge)
       ELSE UNCHANGED <<challenges, codes, succeeded, spent, revived>>
    /\ Goto(a, Idle)
    /\ UNCHANGED <<recent, crowded, rushed>>

\* Mutant: the last attempt leaves the challenge open.
CountedOnly(row) == [row EXCEPT !.attempts = @ + 1]

\* attempt_count + 1, and invalid with the last.
Counted(row) ==
    [row EXCEPT !.attempts = @ + 1, !.state = IF row.attempts + 1 >= MaximumAttempts THEN "invalid" ELSE @]

AnswerWrongly(a) ==
    /\ call[a].at = "consume" /\ call[a].answer = "wrong"
    /\ challenges' = [challenges EXCEPT ![call[a].challenge] = Counted(@)]
    /\ Goto(a, Idle)
    /\ UNCHANGED <<recent, codes, succeeded, spent, crowded, rushed, revived>>

--------------------------------------------------------------------------------
(* The rest *)

\* completePasswordReset: every open challenge, once nobody holds one of them.
InvalidateAll ==
    LET open == {c \in Made : challenges[c].state = "open"} IN
    /\ open # {} /\ \A c \in open : Unlocked(c)
    /\ challenges' = Replaced(open)
    /\ UNCHANGED <<recent, codes, call, succeeded, spent, crowded, rushed, revived>>

\* The transaction is rolled back.
Abort(a) ==
    /\ call[a].at # "idle"
    /\ Goto(a, Idle)
    /\ UNCHANGED <<challenges, recent, codes, succeeded, spent, crowded, rushed, revived>>

\* Ten minutes after it was issued, and fifteen.
Expire ==
    /\ \E c \in Made :
          /\ challenges[c].state = "open"
          /\ challenges' = [challenges EXCEPT ![c] = [@ EXCEPT !.state = "expired", !.attempts = 0]]
    /\ UNCHANGED <<recent, codes, call, succeeded, spent, crowded, rushed, revived>>

Forget ==
    /\ recent > Cardinality({c \in Made : challenges[c].state = "open"})
    /\ recent' = recent - 1
    /\ UNCHANGED <<challenges, codes, call, succeeded, spent, crowded, rushed, revived>>

Init ==
    /\ challenges = [c \in Challenges |-> None]
    /\ recent = 0 /\ codes = RecoveryCodes
    /\ call = [a \in Calls |-> Idle]
    /\ succeeded = [c \in Challenges |-> 0] /\ spent = [r \in RecoveryCodes |-> 0]
    /\ crowded = {} /\ rushed = FALSE /\ revived = FALSE

Next ==
    \/ \E a \in Calls, p \in Purposes : ReadChallenges(a, p)
    \/ \E a \in Calls : InsertChallenge(a) \/ ReadChallenge(a)
    \/ \E a \in Calls : AnswerWithCode(a) \/ AnswerWithRecoveryCode(a) \/ AnswerWrongly(a) \/ Abort(a)
    \/ InvalidateAll \/ Expire \/ Forget

Spec == Init /\ [][Next]_vars

--------------------------------------------------------------------------------
(* Properties *)

\* A challenge is answered once at most, never after it was replaced or has failed too
\* often, and every attempt counts, whoever else has the row.
AnsweredOnce ==
    \A c \in Made :
        /\ succeeded[c] = IF challenges[c].state = "used" THEN 1 ELSE 0
        /\ challenges[c].state = "open" => challenges[c].attempts < MaximumAttempts

\* Issues that do not overlap leave one open challenge of a purpose, and as many in a
\* quarter of an hour as the limit says.
OneOpen ==
    /\ \A p \in Purposes \ crowded : Cardinality(Open(p)) <= 1
    /\ rushed \/ recent <= IssueLimit

\* A recovery code is good once, unless two requests took different codes of one list.
CodesSpentOnce == revived \/ \A r \in RecoveryCodes : spent[r] = IF r \in codes THEN 0 ELSE 1

ChallengesSound == AnsweredOnce /\ OneOpen /\ CodesSpentOnce

================================================================================
