---------------------------- MODULE EmailOutbox ----------------------------
(***************************************************************************)
(* The transactional email outbox: the rows of email_outbox,               *)
(* email_suppressions and email_delivery_events, the statements            *)
(* EmailOutboxRepository runs on them, the worker processes that hand      *)
(* messages to the provider, and the provider's webhooks.                  *)
(*                                                                         *)
(* Time is reduced to what the statements read of it: whether a lease has  *)
(* run out and whether a message is due.  Either may become true at any    *)
(* moment, which also covers workers that captured `now' a while ago.      *)
(***************************************************************************)
EXTENDS Naturals, FiniteSets

CONSTANTS
  Workers,      \* email worker processes
  Messages,     \* idempotency keys
  Recipients,   \* lower-cased addresses
  RecipientOf,  \* the recipient of each message
  EventTypes,   \* webhook event types the provider reports
  MaxAttempts,  \* 20: the largest max_attempts
  CrashBound    \* bound: worker crashes in a behaviour

ASSUME EmailAssumption ==
  /\ RecipientOf \in [Messages -> Recipients]
  /\ MaxAttempts \in Nat \ {0} /\ CrashBound \in Nat
  /\ EventTypes \subseteq {"delivered", "soft_bounce", "hard_bounce", "complaint", "opened"}

VARIABLES
  message,     \* email_outbox, by idempotency key
  suppressed,  \* the recipients with a suppression that is not lifted
  events,      \* email_delivery_events, one per provider event id
  accepted,    \* the provider's own record: the requests it accepted
  worker,      \* what each worker process holds in memory
  crashes      \* worker crashes so far

vars == <<message, suppressed, events, accepted, worker, crashes>>

\* Mutant: a sent message whose receipt is missing is looked at again.
WaitingAndSent == {"pending", "failed", "sent"}

Waiting == {"pending", "failed"}
Status == {"absent", "sending", "sent", "delivered", "bounced", "suppressed"} \cup Waiting
Place == {"idle", "sweep", "claim", "send", "record", "failing"}

\* A lease token and a provider message id are values nothing else has: the
\* number of the attempt they belong to stands for both.  0 is NULL.
NoToken == 0

MessageRow ==
  [status : Status, attemptCount : 0..MaxAttempts, maxAttempts : 0..MaxAttempts,
   due : BOOLEAN, leaseToken : 0..MaxAttempts, leaseExpired : BOOLEAN,
   body : BOOLEAN, providerMessageId : 0..MaxAttempts]
\* Events about a message; some name no provider message id.
DeliveryEvent == [message : Messages, providerMessageId : 0..MaxAttempts, type : EventTypes]
\* `swept' are the rows an open claim transaction has suppressed and locked.
WorkerState ==
  [at : Place, message : SUBSET Messages, leaseToken : 0..MaxAttempts, swept : SUBSET Messages]

AbsentMessage ==
  [status |-> "absent", attemptCount |-> 0, maxAttempts |-> 0, due |-> FALSE,
   leaseToken |-> NoToken, leaseExpired |-> FALSE, body |-> FALSE,
   providerMessageId |-> NoToken]
IdleWorker == [at |-> "idle", message |-> {}, leaseToken |-> NoToken, swept |-> {}]

Exhausted(r) == r.attemptCount >= r.maxAttempts

\* Rows another worker's claim transaction has locked.
LockedFor(w) == UNION {worker[v].swept : v \in Workers \ {w}}

\* "WHERE id = $1 AND lease_token = $2 AND status = 'sending'"
Holds(w, m) ==
  /\ m \in worker[w].message
  /\ message[m].leaseToken = worker[w].leaseToken
  /\ message[m].status = "sending"

-----------------------------------------------------------------------------
(* The SET clauses of the statements on email_outbox *)

Enqueued(n) ==
  [AbsentMessage EXCEPT !.status = "pending", !.maxAttempts = n, !.due = TRUE, !.body = TRUE]

Recovered(r) ==
  [r EXCEPT !.status = "failed", !.leaseToken = NoToken, !.leaseExpired = FALSE, !.due = TRUE]

Suppressed(r) == [r EXCEPT !.status = "suppressed", !.body = FALSE]

\* Mutant: the lease of the previous claim is kept.
ClaimedWithoutToken(r) ==
  [r EXCEPT !.status = "sending", !.attemptCount = r.attemptCount + 1, !.leaseExpired = FALSE]

Claimed(r) ==
  [r EXCEPT !.status = "sending", !.attemptCount = r.attemptCount + 1,
            !.leaseToken = r.attemptCount + 1, !.leaseExpired = FALSE]

Sent(r, id) ==
  [r EXCEPT !.status = "sent", !.providerMessageId = id, !.body = FALSE,
            !.leaseToken = NoToken, !.leaseExpired = FALSE]

\* Mutant: the bodies are always purged.
FailedPurged(r) ==
  [r EXCEPT !.status = "failed", !.due = FALSE, !.body = FALSE,
            !.leaseToken = NoToken, !.leaseExpired = FALSE]

Failed(r) ==
  [r EXCEPT !.status = "failed", !.due = FALSE, !.body = r.body /\ ~Exhausted(r),
            !.leaseToken = NoToken, !.leaseExpired = FALSE]

Reported(r, status) == [r EXCEPT !.status = status, !.body = FALSE]

Goto(w, place) == worker' = [worker EXCEPT ![w].at = place]
Rest(w) == worker' = [worker EXCEPT ![w] = IdleWorker]

-----------------------------------------------------------------------------
(* Requests *)

\* enqueue: ON CONFLICT (idempotency_key) DO NOTHING.
Enqueue(m) ==
  /\ message[m].status = "absent"
  /\ \E n \in 1..MaxAttempts : message' = [message EXCEPT ![m] = Enqueued(n)]
  /\ UNCHANGED <<suppressed, events, accepted, worker, crashes>>

\* liftSuppression, by an administrator.
LiftSuppression(r) ==
  /\ r \in suppressed
  /\ suppressed' = suppressed \ {r}
  /\ UNCHANGED <<message, events, accepted, worker, crashes>>

-----------------------------------------------------------------------------
(* runOnce *)

\* Mutant: only leases of messages with attempts left are recovered.
StaleWithAttemptsLeft ==
  {m \in Messages : message[m].status = "sending" /\ message[m].leaseExpired
                      /\ ~Exhausted(message[m])}

Stale == {m \in Messages : message[m].status = "sending" /\ message[m].leaseExpired}

\* recoverStale: every message whose lease has run out fails and is due.
RecoverStale(w) ==
  /\ worker[w].at = "idle"
  /\ message' = [m \in Messages |-> IF m \in Stale THEN Recovered(message[m]) ELSE message[m]]
  /\ Goto(w, "sweep")
  /\ UNCHANGED <<suppressed, events, accepted, crashes>>

\* claim, first statement: suppress what waits for a suppressed recipient.
\* The rows stay locked until the transaction commits, and the statement
\* waits for rows another transaction has locked.
Sweep(w) ==
  LET blocked == {m \in Messages : message[m].status \in Waiting
                                     /\ RecipientOf[m] \in suppressed} IN
  /\ worker[w].at = "sweep"
  /\ blocked \cap LockedFor(w) = {}
  /\ worker' = [worker EXCEPT ![w].at = "claim", ![w].swept = blocked]
  /\ UNCHANGED <<message, suppressed, events, accepted, crashes>>

\* Mutant: the attempts are not counted.
CandidatesUncounted(w) ==
  {m \in Messages \ (LockedFor(w) \cup worker[w].swept) :
     message[m].status \in Waiting /\ message[m].due /\ message[m].attemptCount < MaxAttempts}

\* FOR UPDATE SKIP LOCKED; the transaction sees its own suppressions.
Candidates(w) ==
  {m \in Messages \ (LockedFor(w) \cup worker[w].swept) :
     message[m].status \in Waiting /\ message[m].due /\ ~Exhausted(message[m])}

\* The rows after the claim transaction of w, which takes the messages in c.
AfterClaim(w, c) ==
  [m \in Messages |-> CASE m \in c -> Claimed(message[m])
                        [] m \in worker[w].swept \ c -> Suppressed(message[m])
                        [] OTHER -> message[m]]

\* claim, a candidate and commit.
Claim(w, m) ==
  /\ worker[w].at = "claim"
  /\ m \in Candidates(w)
  /\ message' = AfterClaim(w, {m})
  /\ worker' = [worker EXCEPT ![w] =
       [at |-> "send", message |-> {m}, leaseToken |-> message[m].attemptCount + 1,
        swept |-> {}]]
  /\ UNCHANGED <<suppressed, events, accepted, crashes>>

\* claim, no candidate and commit.
NothingToClaim(w) ==
  /\ worker[w].at = "claim"
  /\ Candidates(w) = {}
  /\ message' = AfterClaim(w, {})
  /\ Rest(w)
  /\ UNCHANGED <<suppressed, events, accepted, crashes>>

\* provider.send: the provider accepts and answers, accepts and the answer is
\* lost, or does not accept (or no provider is configured).
Send(w) ==
  /\ worker[w].at = "send"
  /\ \/ /\ accepted' = [m \in Messages |->
             IF m \in worker[w].message THEN accepted[m] \cup {worker[w].leaseToken}
                                        ELSE accepted[m]]
        /\ \E place \in {"record", "failing"} : Goto(w, place)
     \/ Goto(w, "failing") /\ UNCHANGED accepted
  /\ UNCHANGED <<message, suppressed, events, crashes>>

\* markSent, which throws when the lease is no longer valid or the statement
\* fails; the catch block then takes over.
MarkSent(w) ==
  /\ worker[w].at = "record"
  /\ \/ \E m \in Messages :
          /\ Holds(w, m)
          /\ message' = [message EXCEPT ![m] = Sent(@, worker[w].leaseToken)]
          /\ Rest(w)
     \/ Goto(w, "failing") /\ UNCHANGED message
  /\ UNCHANGED <<suppressed, events, accepted, crashes>>

\* markFailed in the catch block.  When the lease is no longer valid its error
\* ends the process, which is restarted.
MarkFailed(w) ==
  /\ worker[w].at = "failing"
  /\ message' = [m \in Messages |-> IF Holds(w, m) THEN Failed(message[m]) ELSE message[m]]
  /\ Rest(w)
  /\ UNCHANGED <<suppressed, events, accepted, crashes>>

\* The process dies and is restarted; an open transaction is rolled back.
Crash(w) ==
  /\ crashes < CrashBound /\ worker[w].at # "idle"
  /\ crashes' = crashes + 1
  /\ Rest(w)
  /\ UNCHANGED <<message, suppressed, events, accepted>>

-----------------------------------------------------------------------------
(* Webhooks *)

\* Mutant: the event type is stored as the status.
DeliveryStatusRaw(type) == {type}

\* deliveryStatus: the status an event type gives its message, if any.
DeliveryStatus(type) ==
  CASE type = "delivered" -> {"delivered"}
    [] type \in {"soft_bounce", "hard_bounce"} -> {"bounced"}
    [] type = "complaint" -> {"suppressed"}
    [] OTHER -> {}

ShouldSuppress(type) == type \in {"hard_bounce", "complaint"}

\* Mutant: the provider message id is not compared.
ConcernsAnyAttempt(e, s) ==
  s = "delivered" => message[e.message].status \in {"sent", "delivered"}

\* applyProviderEvent: the message that was recorded under the event's
\* provider message id; `delivered' only follows `sent' or `delivered'.
Concerns(e, s) ==
  /\ e.providerMessageId # NoToken
  /\ message[e.message].providerMessageId = e.providerMessageId
  /\ s = "delivered" => message[e.message].status \in {"sent", "delivered"}

\* Mutant: every delivery of an event suppresses.
RecordBrevoAgain(e) ==
  LET statuses == {s \in DeliveryStatus(e.type) : Concerns(e, s)} IN
  /\ accepted[e.message] # {}
  /\ e.providerMessageId \in accepted[e.message] \cup {NoToken}
  /\ message' = IF statuses = {} THEN message
                ELSE [message EXCEPT ![e.message] = Reported(@, CHOOSE s \in statuses : TRUE)]
  /\ events' = events \cup {e}
  /\ suppressed' = IF ShouldSuppress(e.type)
                   THEN suppressed \cup {RecipientOf[e.message]} ELSE suppressed
  /\ UNCHANGED <<accepted, worker, crashes>>

\* recordBrevo: the event is applied, then recorded unless it is known; only a
\* new one suppresses.  The provider may report an event late, again, or in
\* any order, and before markSent has recorded the message id.
RecordBrevo(e) ==
  LET statuses == {s \in DeliveryStatus(e.type) : Concerns(e, s)} IN
  /\ accepted[e.message] # {}
  /\ e.providerMessageId \in accepted[e.message] \cup {NoToken}
  /\ message' = IF statuses = {} THEN message
                ELSE [message EXCEPT ![e.message] = Reported(@, CHOOSE s \in statuses : TRUE)]
  /\ events' = events \cup {e}
  /\ suppressed' = IF e \notin events /\ ShouldSuppress(e.type)
                   THEN suppressed \cup {RecipientOf[e.message]} ELSE suppressed
  /\ UNCHANGED <<accepted, worker, crashes>>

-----------------------------------------------------------------------------
(* Time *)

LeaseRunsOut(m) ==
  /\ message[m].status = "sending" /\ ~message[m].leaseExpired
  /\ message' = [message EXCEPT ![m].leaseExpired = TRUE]
  /\ UNCHANGED <<suppressed, events, accepted, worker, crashes>>

BackoffEnds(m) ==
  /\ message[m].status = "failed" /\ ~message[m].due
  /\ message' = [message EXCEPT ![m].due = TRUE]
  /\ UNCHANGED <<suppressed, events, accepted, worker, crashes>>

-----------------------------------------------------------------------------
Init ==
  /\ message = [m \in Messages |-> AbsentMessage]
  /\ suppressed = {} /\ events = {}
  /\ accepted = [m \in Messages |-> {}]
  /\ worker = [w \in Workers |-> IdleWorker]
  /\ crashes = 0

RunOnce(w) ==
  \/ RecoverStale(w) \/ Sweep(w) \/ NothingToClaim(w) \/ \E m \in Messages : Claim(w, m)
  \/ Send(w) \/ MarkSent(w) \/ MarkFailed(w)

Next ==
  \/ \E m \in Messages : Enqueue(m) \/ LeaseRunsOut(m) \/ BackoffEnds(m)
  \/ \E r \in Recipients : LiftSuppression(r)
  \/ \E w \in Workers : RunOnce(w) \/ Crash(w)
  \/ \E e \in DeliveryEvent : RecordBrevo(e)

Spec == Init /\ [][Next]_vars

\* Workers run, leases and delays end.  Nothing is asked of the provider's
\* webhooks, of administrators, or of crashes.
FairSpec ==
  /\ Spec
  /\ \A w \in Workers : WF_vars(RunOnce(w))
  /\ \A m \in Messages : WF_vars(LeaseRunsOut(m)) /\ WF_vars(BackoffEnds(m))
=============================================================================
