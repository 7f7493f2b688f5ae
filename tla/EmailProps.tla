---------------------------- MODULE EmailProps ----------------------------
(***************************************************************************)
(* What the email outbox promises about its messages, the provider and the *)
(* suppression list.                                                       *)
(***************************************************************************)
EXTENDS EmailOutbox

\* Every variable keeps its type.
TypeOK ==
  /\ message \in [Messages -> MessageRow]
  /\ suppressed \subseteq Recipients
  /\ events \subseteq DeliveryEvent
  /\ accepted \in [Messages -> SUBSET (1..MaxAttempts)]
  /\ worker \in [Workers -> WorkerState]
  /\ crashes \in 0..CrashBound

-----------------------------------------------------------------------------
(* Safety *)

\* A message carries a lease exactly while it is being sent, and it is that of
\* its newest claim; so at most one process can settle it, whatever processes
\* whose lease ran out still do.
LeaseOfSender ==
  /\ \A m \in Messages :
       IF message[m].status = "sending"
       THEN message[m].leaseToken = message[m].attemptCount /\ message[m].leaseToken # NoToken
       ELSE message[m].leaseToken = NoToken
  /\ \A v, w \in Workers : \A m \in Messages : Holds(v, m) /\ Holds(w, m) => v = w

\* Rows keep their types, and a message being sent has one sender that can settle it.
OneSender == TypeOK /\ LeaseOfSender

\* A message that can still be sent has its body: failures, recoveries and
\* suppressions never purge one that a later attempt would send empty.
BodyWhileNeeded ==
  \A m \in Messages :
    \/ message[m].status = "sending"
    \/ message[m].status \in Waiting /\ ~Exhausted(message[m])
    => message[m].body

\* The provider is asked at most max_attempts times for one message, counting
\* requests whose answer or record was lost.
AcceptedWithinAttempts ==
  \A m \in Messages :
    /\ Cardinality(accepted[m]) <= message[m].maxAttempts
    /\ message[m].attemptCount <= message[m].maxAttempts

\* Losses cost a message neither its body nor more requests than it may have.
AttemptsWithBody == BodyWhileNeeded /\ AcceptedWithinAttempts

\* A message is shown as sent only when the provider accepted the request it
\* is recorded under, and as delivered only when the provider reported that
\* request delivered, although webhooks come late, twice and out of order.
EvidenceForStatus ==
  \A m \in Messages :
    LET id == message[m].providerMessageId IN
    /\ message[m].status \in {"sent", "delivered", "bounced"} => id \in accepted[m]
    /\ message[m].status = "delivered" =>
         [message |-> m, providerMessageId |-> id, type |-> "delivered"] \in events

\* A message recorded as accepted is never sent again: no recovery, late
\* failure or webhook brings it back to the queue.
AcceptanceIsFinal ==
  [][\A m \in Messages :
       message[m].providerMessageId # NoToken =>
         /\ message'[m].providerMessageId = message[m].providerMessageId
         /\ message'[m].status \notin Waiting \cup {"sending"}]_vars

\* A suppression that an administrator lifted only returns with an event that
\* was not received before: the provider repeating one does not restore it.
LiftHolds ==
  [][\A r \in suppressed' \ suppressed :
       \E e \in events' \ events : RecipientOf[e.message] = r]_vars

\* Neither late nor repeated events undo what was decided: an acceptance that was
\* recorded, a suppression that an administrator lifted.
DecisionsHold == AcceptanceIsFinal /\ LiftHolds

-----------------------------------------------------------------------------
(* Liveness *)

Settled(m) ==
  \/ message[m].status \in {"sent", "delivered", "bounced", "suppressed"}
  \/ message[m].status = "failed" /\ Exhausted(message[m])

\* Every queued message is accepted, suppressed, or fails for good, through
\* crashes, expired leases and lost answers.
EveryMessageSettles ==
  \A m \in Messages : message[m].status = "pending" ~> Settled(m)

-----------------------------------------------------------------------------
(* What the documentation says *)

\* "Rendered text and HTML bodies are purged after provider acceptance,
\* suppression, or terminal failure."
BodiesPurged == \A m \in Messages : Settled(m) => ~message[m].body
=============================================================================
