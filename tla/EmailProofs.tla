---------------------------- MODULE EmailProofs ----------------------------
(***************************************************************************)
(* The safety properties of the email outbox, for any number of workers,   *)
(* messages and recipients and any limit on the attempts.                  *)
(***************************************************************************)
EXTENDS EmailProps, FiniteSetTheorems, TLAPS

(***************************************************************************)
(* The inductive invariant.  What the provider accepted and what processes *)
(* remember of earlier claims must be known to belong to attempts already  *)
(* counted, so that no later claim draws one of their tokens again; and    *)
(* rows a claim transaction has swept must still be waiting.               *)
(***************************************************************************)

\* Tokens, accepted requests and recorded ids belong to counted attempts.
Counted(m) ==
  /\ message[m].attemptCount <= message[m].maxAttempts
  /\ accepted[m] \subseteq 1..message[m].attemptCount
  /\ message[m].status = "absent" => message[m].attemptCount = 0
  /\ IF message[m].status = "sending"
     THEN message[m].leaseToken = message[m].attemptCount /\ message[m].leaseToken # NoToken
     ELSE message[m].leaseToken = NoToken

\* A recorded id is of an accepted request, and the status rests on it.
Recorded(m) ==
  LET id == message[m].providerMessageId IN
  /\ id # NoToken => id \in accepted[m]
                     /\ message[m].status \in {"sent", "delivered", "bounced", "suppressed"}
  /\ id = NoToken => message[m].status \notin {"sent", "delivered", "bounced"}
  /\ message[m].status = "delivered" =>
       [message |-> m, providerMessageId |-> id, type |-> "delivered"] \in events

HasBody(m) ==
  \/ message[m].status = "sending"
  \/ message[m].status \in Waiting /\ ~Exhausted(message[m])
  => message[m].body

\* What a process remembers of its claim.
Remembers(w) ==
  /\ \A m \in worker[w].message :
       /\ worker[w].leaseToken \in 1..message[m].attemptCount
       /\ worker[w].at = "record" => worker[w].leaseToken \in accepted[m]
  /\ worker[w].at \in {"idle", "sweep", "claim"} => worker[w].message = {}
  /\ worker[w].at # "claim" => worker[w].swept = {}
  /\ \A m \in worker[w].swept : message[m].status \in Waiting

\* Two processes never remember the same claim or sweep the same row.
Apart(v, w) ==
  /\ worker[v].swept \cap worker[w].swept = {}
  /\ worker[v].message \cap worker[w].message # {} => worker[v].leaseToken # worker[w].leaseToken

RowsSound == \A m \in Messages : Counted(m) /\ Recorded(m) /\ HasBody(m)
WorkersSound ==
  /\ \A w \in Workers : Remembers(w)
  /\ \A v, w \in Workers : v # w => Apart(v, w)

IInv == TypeOK /\ RowsSound /\ WorkersSound

-----------------------------------------------------------------------------
(* The SET clauses keep rows in their type and change what they name *)

LEMMA EnqueuedRow ==
  ASSUME NEW n \in 1..MaxAttempts
  PROVE  /\ Enqueued(n) \in MessageRow
         /\ Enqueued(n).status = "pending" /\ Enqueued(n).attemptCount = 0
         /\ Enqueued(n).maxAttempts = n /\ Enqueued(n).leaseToken = NoToken
         /\ Enqueued(n).body /\ Enqueued(n).providerMessageId = NoToken
<1>1. /\ n \in 0..MaxAttempts /\ 0 \in 0..MaxAttempts /\ NoToken \in 0..MaxAttempts
      /\ "pending" \in Status /\ "absent" \in Status
  BY EmailAssumption DEF NoToken, Status, Waiting
<1>2. AbsentMessage \in MessageRow
  BY <1>1 DEF AbsentMessage, MessageRow
<1>3. AbsentMessage.attemptCount = 0 /\ AbsentMessage.leaseToken = NoToken
      /\ AbsentMessage.providerMessageId = NoToken
  BY DEF AbsentMessage
<1>4. Enqueued(n) \in MessageRow
  BY <1>1, <1>2 DEF Enqueued, MessageRow
<1> QED
  BY <1>2, <1>3, <1>4 DEF Enqueued, MessageRow

LEMMA RecoveredRow ==
  ASSUME NEW r \in MessageRow
  PROVE  /\ Recovered(r) \in MessageRow
         /\ Recovered(r).status = "failed" /\ Recovered(r).leaseToken = NoToken
         /\ Recovered(r).attemptCount = r.attemptCount
         /\ Recovered(r).maxAttempts = r.maxAttempts
         /\ Recovered(r).providerMessageId = r.providerMessageId
         /\ Recovered(r).body = r.body
<1>1. NoToken \in 0..MaxAttempts /\ "failed" \in Status
  BY EmailAssumption DEF NoToken, Status, Waiting
<1>2. Recovered(r) \in MessageRow
  BY <1>1 DEF MessageRow, Recovered
<1> QED
  BY <1>2 DEF MessageRow, Recovered

LEMMA SuppressedRow ==
  ASSUME NEW r \in MessageRow
  PROVE  /\ Suppressed(r) \in MessageRow
         /\ Suppressed(r).status = "suppressed" /\ Suppressed(r).leaseToken = r.leaseToken
         /\ Suppressed(r).attemptCount = r.attemptCount
         /\ Suppressed(r).maxAttempts = r.maxAttempts
         /\ Suppressed(r).providerMessageId = r.providerMessageId
  BY EmailAssumption DEF MessageRow, Suppressed, Status, Waiting

LEMMA ClaimedRow ==
  ASSUME NEW r \in MessageRow, r.attemptCount < r.maxAttempts
  PROVE  /\ Claimed(r) \in MessageRow
         /\ Claimed(r).status = "sending" /\ Claimed(r).leaseToken = r.attemptCount + 1
         /\ Claimed(r).attemptCount = r.attemptCount + 1
         /\ Claimed(r).maxAttempts = r.maxAttempts
         /\ Claimed(r).providerMessageId = r.providerMessageId
         /\ Claimed(r).body = r.body
<1>1. r.attemptCount + 1 \in 0..MaxAttempts
  BY EmailAssumption DEF MessageRow
<1> QED
  BY <1>1 DEF MessageRow, Claimed, Status, Waiting

LEMMA SentRow ==
  ASSUME NEW r \in MessageRow, NEW id \in 0..MaxAttempts
  PROVE  /\ Sent(r, id) \in MessageRow
         /\ Sent(r, id).status = "sent" /\ Sent(r, id).leaseToken = NoToken
         /\ Sent(r, id).attemptCount = r.attemptCount
         /\ Sent(r, id).maxAttempts = r.maxAttempts
         /\ Sent(r, id).providerMessageId = id
<1>1. NoToken \in 0..MaxAttempts /\ "sent" \in Status
  BY EmailAssumption DEF NoToken, Status, Waiting
<1>2. Sent(r, id) \in MessageRow
  BY <1>1 DEF MessageRow, Sent
<1> QED
  BY <1>2 DEF MessageRow, Sent

LEMMA FailedRow ==
  ASSUME NEW r \in MessageRow
  PROVE  /\ Failed(r) \in MessageRow
         /\ Failed(r).status = "failed" /\ Failed(r).leaseToken = NoToken
         /\ Failed(r).attemptCount = r.attemptCount
         /\ Failed(r).maxAttempts = r.maxAttempts
         /\ Failed(r).providerMessageId = r.providerMessageId
         /\ Failed(r).body = (r.body /\ ~Exhausted(r))
<1>1. (r.body /\ ~Exhausted(r)) \in BOOLEAN
  OBVIOUS
<1> DEFINE b == r.body /\ ~Exhausted(r)
<1>2. /\ Failed(r) = [r EXCEPT !.status = "failed", !.due = FALSE, !.body = b,
                              !.leaseToken = NoToken, !.leaseExpired = FALSE]
      /\ b \in BOOLEAN
  BY <1>1 DEF Failed
<1> HIDE DEF b
<1>3. NoToken \in 0..MaxAttempts /\ "failed" \in Status
  BY EmailAssumption DEF NoToken, Status, Waiting
<1>4. Failed(r) \in MessageRow
  BY <1>2, <1>3 DEF MessageRow
<1>5. /\ Failed(r).status = "failed" /\ Failed(r).leaseToken = NoToken
      /\ Failed(r).attemptCount = r.attemptCount
      /\ Failed(r).maxAttempts = r.maxAttempts
      /\ Failed(r).providerMessageId = r.providerMessageId
      /\ Failed(r).body = b
  BY <1>2 DEF MessageRow
<1> QED
  BY <1>4, <1>5 DEF b

LEMMA ReportedRow ==
  ASSUME NEW r \in MessageRow, NEW s \in Status
  PROVE  /\ Reported(r, s) \in MessageRow
         /\ Reported(r, s).status = s /\ Reported(r, s).leaseToken = r.leaseToken
         /\ Reported(r, s).attemptCount = r.attemptCount
         /\ Reported(r, s).maxAttempts = r.maxAttempts
         /\ Reported(r, s).providerMessageId = r.providerMessageId
  BY EmailAssumption DEF MessageRow, Reported

LEMMA AfterClaimRows ==
  ASSUME NEW w \in Workers, NEW c, NEW m \in Messages
  PROVE  /\ m \in c => AfterClaim(w, c)[m] = Claimed(message[m])
         /\ m \in worker[w].swept \ c => AfterClaim(w, c)[m] = Suppressed(message[m])
         /\ m \notin worker[w].swept \cup c => AfterClaim(w, c)[m] = message[m]
  BY DEF AfterClaim

-----------------------------------------------------------------------------
(* What steps leave alone *)

KeepsRow(m) ==
  /\ message'[m].status = message[m].status
  /\ message'[m].attemptCount = message[m].attemptCount
  /\ message'[m].maxAttempts = message[m].maxAttempts
  /\ message'[m].leaseToken = message[m].leaseToken
  /\ message'[m].body = message[m].body
  /\ message'[m].providerMessageId = message[m].providerMessageId

\* A row that is not touched stays sound.
LEMMA KeptRow ==
  ASSUME IInv, TypeOK', NEW m \in Messages, KeepsRow(m), accepted'[m] = accepted[m],
         events \subseteq events'
  PROVE  (Counted(m) /\ Recorded(m) /\ HasBody(m))'
<1>1. Counted(m) /\ Recorded(m) /\ HasBody(m)
  BY DEF IInv, RowsSound
<1> QED
  BY <1>1 DEF KeepsRow, Counted, Recorded, HasBody, Exhausted

\* Processes that did nothing remember what they did, when no attempt is
\* uncounted and the rows they swept still wait.
LEMMA KeptWorker ==
  ASSUME IInv, TypeOK', NEW w \in Workers, worker'[w] = worker[w],
         \A m \in Messages : message'[m].attemptCount >= message[m].attemptCount
                               /\ accepted[m] \subseteq accepted'[m],
         \A m \in worker[w].swept : message'[m].status \in Waiting
  PROVE  Remembers(w)'
<1>1. Remembers(w)
  BY DEF IInv, WorkersSound
<1>2. \A m \in worker[w].message \cup worker[w].swept :
        m \in Messages /\ message[m] \in MessageRow /\ message'[m] \in MessageRow
  BY DEF IInv, TypeOK, WorkerState
<1>3. worker[w] \in WorkerState
  BY DEF IInv, TypeOK
<1> QED
  BY <1>1, <1>2, <1>3 DEF Remembers, WorkerState, MessageRow

\* A process that goes on from its claim, or gives it up, stays apart.
LEMMA StaysApart ==
  ASSUME IInv, NEW u \in Workers,
         \A w \in Workers \ {u} : worker'[w] = worker[w],
         worker'[u].swept \subseteq worker[u].swept,
         \/ worker'[u].message = {}
         \/ worker'[u].message = worker[u].message
            /\ worker'[u].leaseToken = worker[u].leaseToken
  PROVE  \A v, w \in Workers : v # w => Apart(v, w)'
<1> SUFFICES ASSUME NEW v \in Workers, NEW w \in Workers, v # w PROVE Apart(v, w)'
  OBVIOUS
<1>1. Apart(v, w)
  BY DEF IInv, WorkersSound
<1>2. CASE v # u /\ w # u
  BY <1>1, <1>2 DEF Apart
<1>3. CASE v = u
  BY <1>1, <1>3 DEF Apart
<1>4. CASE w = u
  BY <1>1, <1>4 DEF Apart
<1> QED
  BY <1>2, <1>3, <1>4

LEMMA TypedIdle == IdleWorker \in WorkerState /\ IdleWorker.at = "idle"
                   /\ IdleWorker.message = {} /\ IdleWorker.swept = {}
  BY EmailAssumption DEF IdleWorker, WorkerState, Place, NoToken

\* Going to another place keeps everything else a process holds.
LEMMA GotoKeeps ==
  ASSUME TypeOK, NEW w \in Workers, NEW place \in Place, Goto(w, place)
  PROVE  /\ worker' \in [Workers -> WorkerState]
         /\ worker'[w].at = place /\ worker'[w].message = worker[w].message
         /\ worker'[w].leaseToken = worker[w].leaseToken
         /\ worker'[w].swept = worker[w].swept
         /\ \A v \in Workers \ {w} : worker'[v] = worker[v]
  BY DEF TypeOK, Goto, WorkerState

LEMMA RestKeeps ==
  ASSUME TypeOK, NEW w \in Workers, Rest(w)
  PROVE  /\ worker' \in [Workers -> WorkerState]
         /\ worker'[w] = IdleWorker
         /\ \A v \in Workers \ {w} : worker'[v] = worker[v]
  BY TypedIdle DEF TypeOK, Rest

\* A process at rest remembers nothing.
LEMMA IdleRemembers ==
  ASSUME NEW w \in Workers, worker'[w] = IdleWorker
  PROVE  Remembers(w)'
  BY TypedIdle DEF Remembers

-----------------------------------------------------------------------------
(* Requests and time *)

\* One message whose row changes without its process: no worker moves.
LEMMA RowStep ==
  ASSUME IInv, TypeOK', NEW m \in Messages, worker' = worker, accepted' = accepted,
         events \subseteq events',
         \A n \in Messages \ {m} : message'[n] = message[n],
         message'[m].attemptCount = message[m].attemptCount,
         message[m].status \in Waiting => message'[m].status \in Waiting,
         (Counted(m) /\ Recorded(m) /\ HasBody(m))'
  PROVE  IInv'
<1>1. \A n \in Messages : (Counted(n) /\ Recorded(n) /\ HasBody(n))'
  BY KeptRow DEF KeepsRow
<1>2. \A w \in Workers : Remembers(w)'
  <2> SUFFICES ASSUME NEW w \in Workers PROVE Remembers(w)'
    OBVIOUS
  <2>1. \A n \in worker[w].swept : n \in Messages /\ message[n].status \in Waiting
    BY DEF IInv, TypeOK, WorkerState, WorkersSound, Remembers
  <2>2. \A n \in Messages : message'[n].attemptCount >= message[n].attemptCount
    BY DEF IInv, TypeOK, MessageRow
  <2> QED
    BY <2>1, <2>2, KeptWorker
<1>3. \A v, w \in Workers : v # w => Apart(v, w)'
  BY DEF IInv, WorkersSound, Apart
<1> QED
  BY <1>1, <1>2, <1>3 DEF IInv, RowsSound, WorkersSound

LEMMA EnqueueStep ==
  ASSUME IInv, NEW m \in Messages, Enqueue(m)
  PROVE  IInv'
<1>1. PICK n \in 1..MaxAttempts : message' = [message EXCEPT ![m] = Enqueued(n)]
  BY DEF Enqueue
<1>2. n \in Nat
  BY EmailAssumption
<1>3. message'[m] = Enqueued(n)
  BY <1>1 DEF IInv, TypeOK
<1>4. /\ message'[m] \in MessageRow
      /\ message'[m].status = "pending" /\ message'[m].attemptCount = 0
      /\ message'[m].maxAttempts = n /\ message'[m].leaseToken = NoToken
      /\ message'[m].body /\ message'[m].providerMessageId = NoToken
  BY <1>3, EnqueuedRow
<1>5. TypeOK'
  BY <1>1, <1>3, <1>4 DEF IInv, TypeOK, Enqueue
<1>6. message[m].attemptCount = 0 /\ accepted[m] = {} /\ message[m].status = "absent"
  BY DEF IInv, RowsSound, Counted, Enqueue, TypeOK, MessageRow
<1>7. (Counted(m) /\ Recorded(m) /\ HasBody(m))'
  BY <1>2, <1>4, <1>6 DEF Counted, Recorded, HasBody, NoToken, Enqueue
<1> QED
  BY <1>1, <1>4, <1>5, <1>6, <1>7, RowStep DEF Enqueue, Waiting

LEMMA TimeStep ==
  ASSUME IInv, NEW m \in Messages, LeaseRunsOut(m) \/ BackoffEnds(m)
  PROVE  IInv'
<1>1. message[m] \in MessageRow /\ message \in [Messages -> MessageRow]
  BY DEF IInv, TypeOK
<1>2. message' \in [Messages -> MessageRow]
  <2>1. CASE LeaseRunsOut(m)
    BY <1>1, <2>1 DEF LeaseRunsOut, MessageRow
  <2>2. CASE BackoffEnds(m)
    BY <1>1, <2>2 DEF BackoffEnds, MessageRow
  <2> QED
    BY <2>1, <2>2
<1>3. TypeOK'
  BY <1>2 DEF IInv, TypeOK, LeaseRunsOut, BackoffEnds
<1>4. KeepsRow(m) /\ \A n \in Messages \ {m} : message'[n] = message[n]
  BY <1>1 DEF LeaseRunsOut, BackoffEnds, KeepsRow, MessageRow
<1>5. worker' = worker /\ accepted' = accepted /\ events' = events
  BY DEF LeaseRunsOut, BackoffEnds
<1>6. (Counted(m) /\ Recorded(m) /\ HasBody(m))'
  BY <1>3, <1>4, <1>5, KeptRow
<1> QED
  BY <1>3, <1>4, <1>5, <1>6, RowStep DEF KeepsRow

LEMMA LiftStep ==
  ASSUME IInv, NEW r \in Recipients, LiftSuppression(r)
  PROVE  IInv'
<1>1. UNCHANGED <<message, events, accepted, worker, crashes>> /\ suppressed' \subseteq suppressed
  BY DEF LiftSuppression
<1> QED
  BY <1>1 DEF IInv, TypeOK, RowsSound, WorkersSound, Counted, Recorded, HasBody, Exhausted,
              Remembers, Apart

-----------------------------------------------------------------------------
(* runOnce *)

LEMMA RecoverStaleStep ==
  ASSUME IInv, NEW w \in Workers, RecoverStale(w)
  PROVE  IInv'
<1>1. Goto(w, "sweep") /\ worker[w].at = "idle" /\ UNCHANGED <<suppressed, events, accepted, crashes>>
  BY DEF RecoverStale
<1>2. \A m \in Messages : message'[m] = IF m \in Stale THEN Recovered(message[m]) ELSE message[m]
  BY DEF RecoverStale
<1>3. \A m \in Messages : message[m] \in MessageRow
  BY DEF IInv, TypeOK
<1>4. message' \in [Messages -> MessageRow]
  BY <1>3, RecoveredRow DEF RecoverStale
<1>5. /\ worker' \in [Workers -> WorkerState]
      /\ worker'[w].at = "sweep" /\ worker'[w].message = worker[w].message
      /\ worker'[w].leaseToken = worker[w].leaseToken /\ worker'[w].swept = worker[w].swept
      /\ \A v \in Workers \ {w} : worker'[v] = worker[v]
  BY <1>1, GotoKeeps DEF IInv, Place
<1>6. TypeOK'
  BY <1>1, <1>4, <1>5 DEF IInv, TypeOK
<1>7. \A m \in Messages : (Counted(m) /\ Recorded(m) /\ HasBody(m))'
  <2> SUFFICES ASSUME NEW m \in Messages PROVE (Counted(m) /\ Recorded(m) /\ HasBody(m))'
    OBVIOUS
  <2>1. CASE m \notin Stale
    BY <1>1, <1>2, <1>6, <2>1, KeptRow DEF KeepsRow
  <2>2. CASE m \in Stale
    <3>1. Counted(m) /\ Recorded(m) /\ HasBody(m) /\ message[m].status = "sending"
      BY <2>2 DEF IInv, RowsSound, Stale
    <3> DEFINE r == message'[m]
    <3>2. /\ r.status = "failed" /\ r.leaseToken = NoToken
          /\ r.attemptCount = message[m].attemptCount /\ r.maxAttempts = message[m].maxAttempts
          /\ r.providerMessageId = message[m].providerMessageId /\ r.body = message[m].body
      BY <1>2, <1>3, <2>2, RecoveredRow
    <3> QED
      BY <1>1, <3>1, <3>2 DEF Counted, Recorded, HasBody
  <2> QED
    BY <2>1, <2>2
<1>8. \A m \in Messages : /\ message'[m].attemptCount >= message[m].attemptCount
                          /\ message[m].status \in Waiting => message'[m].status \in Waiting
  BY <1>2, <1>3, RecoveredRow DEF MessageRow, Waiting
<1>9. \A v \in Workers : Remembers(v)'
  <2> SUFFICES ASSUME NEW v \in Workers PROVE Remembers(v)'
    OBVIOUS
  <2>1. \A m \in worker[v].swept : m \in Messages /\ message[m].status \in Waiting
    BY DEF IInv, TypeOK, WorkerState, WorkersSound, Remembers
  <2>2. CASE v # w
    BY <1>1, <1>5, <1>6, <1>8, <2>1, <2>2, KeptWorker
  <2>3. CASE v = w
    BY <1>1, <1>5, <2>3 DEF IInv, WorkersSound, Remembers
  <2> QED
    BY <2>2, <2>3
<1>10. \A u, v \in Workers : u # v => Apart(u, v)'
  BY <1>5, StaysApart
<1> QED
  BY <1>6, <1>7, <1>9, <1>10 DEF IInv, RowsSound, WorkersSound

LEMMA SweepStep ==
  ASSUME IInv, NEW w \in Workers, Sweep(w)
  PROVE  IInv'
<1> DEFINE blocked == {m \in Messages : message[m].status \in Waiting
                                          /\ RecipientOf[m] \in suppressed}
<1>1. /\ worker[w].at = "sweep" /\ blocked \cap LockedFor(w) = {}
      /\ worker' = [worker EXCEPT ![w].at = "claim", ![w].swept = blocked]
      /\ UNCHANGED <<message, suppressed, events, accepted, crashes>>
  BY DEF Sweep
<1>2. blocked \in SUBSET Messages /\ \A m \in blocked : message[m].status \in Waiting
  OBVIOUS
<1>3. \A v \in Workers \ {w} : blocked \cap worker[v].swept = {}
  BY <1>1 DEF LockedFor
<1> HIDE DEF blocked
<1>4. /\ worker' \in [Workers -> WorkerState]
      /\ worker'[w].at = "claim" /\ worker'[w].message = worker[w].message
      /\ worker'[w].swept = blocked
      /\ \A v \in Workers \ {w} : worker'[v] = worker[v]
  BY <1>1, <1>2 DEF IInv, TypeOK, WorkerState, Place
<1>5. TypeOK'
  BY <1>1, <1>4 DEF IInv, TypeOK
<1>6. worker[w].message = {}
  BY <1>1 DEF IInv, WorkersSound, Remembers
<1>7. \A m \in Messages : (Counted(m) /\ Recorded(m) /\ HasBody(m))'
  BY <1>1, <1>5, KeptRow DEF KeepsRow
<1>8. \A v \in Workers : Remembers(v)'
  <2> SUFFICES ASSUME NEW v \in Workers PROVE Remembers(v)'
    OBVIOUS
  <2>1. CASE v # w
    BY <1>1, <1>4, <2>1 DEF IInv, WorkersSound, Remembers
  <2>2. CASE v = w
    BY <1>1, <1>2, <1>4, <1>6, <2>2 DEF Remembers
  <2> QED
    BY <2>1, <2>2
<1>9. \A u, v \in Workers : u # v => Apart(u, v)'
  <2> SUFFICES ASSUME NEW u \in Workers, NEW v \in Workers, u # v PROVE Apart(u, v)'
    OBVIOUS
  <2>1. CASE u # w /\ v # w
    BY <1>4, <2>1 DEF IInv, WorkersSound, Apart
  <2>2. CASE u = w
    BY <1>3, <1>4, <1>6, <2>2 DEF Apart
  <2>3. CASE v = w
    BY <1>3, <1>4, <1>6, <2>3 DEF Apart
  <2> QED
    BY <2>1, <2>2, <2>3
<1> QED
  BY <1>5, <1>7, <1>8, <1>9 DEF IInv, RowsSound, WorkersSound

\* The commit of a claim transaction, with the candidate in c, if any.
LEMMA CommitRows ==
  ASSUME IInv, NEW w \in Workers, NEW c \in SUBSET Candidates(w),
         message' = AfterClaim(w, c), events' = events, accepted' = accepted
  PROVE  /\ message' \in [Messages -> MessageRow]
         /\ \A m \in Messages : (Counted(m) /\ Recorded(m) /\ HasBody(m))'
         /\ \A m \in Messages : message'[m].attemptCount >= message[m].attemptCount
         /\ \A m \in Messages \ (worker[w].swept \cup c) : message'[m] = message[m]
         /\ \A m \in c : /\ message'[m].attemptCount = message[m].attemptCount + 1
                         /\ message'[m].status = "sending"
<1>1. \A m \in Messages : message[m] \in MessageRow
  BY DEF IInv, TypeOK
<1>2. \A m \in c : /\ m \in Messages /\ message[m].status \in Waiting
                   /\ message[m].attemptCount < message[m].maxAttempts
                   /\ ~Exhausted(message[m])
  BY <1>1 DEF Candidates, Exhausted, MessageRow
<1>3. \A m \in Messages : message'[m] \in MessageRow
  BY <1>1, <1>2, AfterClaimRows, ClaimedRow, SuppressedRow
<1>4. message' \in [Messages -> MessageRow]
  BY <1>3 DEF AfterClaim
<1>5. \A m \in c : /\ message'[m].status = "sending"
                   /\ message'[m].leaseToken = message[m].attemptCount + 1
                   /\ message'[m].attemptCount = message[m].attemptCount + 1
                   /\ message'[m].maxAttempts = message[m].maxAttempts
                   /\ message'[m].providerMessageId = message[m].providerMessageId
                   /\ message'[m].body = message[m].body
  BY <1>1, <1>2, AfterClaimRows, ClaimedRow
<1>6. \A m \in worker[w].swept \ c :
        /\ m \in Messages /\ message[m].status \in Waiting
        /\ message'[m].status = "suppressed"
        /\ message'[m].leaseToken = message[m].leaseToken
        /\ message'[m].attemptCount = message[m].attemptCount
        /\ message'[m].maxAttempts = message[m].maxAttempts
        /\ message'[m].providerMessageId = message[m].providerMessageId
  <2>1. worker[w].swept \subseteq Messages /\ \A m \in worker[w].swept : message[m].status \in Waiting
    BY DEF IInv, TypeOK, WorkerState, WorkersSound, Remembers
  <2> QED
    BY <1>1, <2>1, AfterClaimRows, SuppressedRow
<1>7. \A m \in Messages \ (worker[w].swept \cup c) : message'[m] = message[m]
  BY AfterClaimRows
<1>8. \A m \in Messages : (Counted(m) /\ Recorded(m) /\ HasBody(m))'
  <2> SUFFICES ASSUME NEW m \in Messages PROVE (Counted(m) /\ Recorded(m) /\ HasBody(m))'
    OBVIOUS
  <2>1. Counted(m) /\ Recorded(m) /\ HasBody(m)
    BY DEF IInv, RowsSound
  <2>2. CASE m \in c
    <3>1. message[m].attemptCount \in Nat /\ message[m].maxAttempts \in Nat
      BY <1>1, EmailAssumption DEF MessageRow
    <3>2. Counted(m)'
      BY <1>2, <1>5, <2>1, <2>2, <3>1 DEF Counted, NoToken
    <3>3. Recorded(m)' /\ HasBody(m)'
      BY <1>2, <1>5, <2>1, <2>2 DEF Recorded, HasBody, Waiting
    <3> QED
      BY <3>2, <3>3
  <2>3. CASE m \in worker[w].swept \ c
    BY <1>6, <2>1, <2>3 DEF Counted, Recorded, HasBody, Waiting
  <2>4. CASE m \notin worker[w].swept \cup c
    BY <1>7, <2>1, <2>4 DEF Counted, Recorded, HasBody, Exhausted
  <2> QED
    BY <2>2, <2>3, <2>4
<1>9. \A m \in Messages : message'[m].attemptCount >= message[m].attemptCount
  BY <1>1, <1>5, <1>6, <1>7 DEF MessageRow
<1> QED
  BY <1>4, <1>5, <1>7, <1>8, <1>9

\* The rows of others' open transactions are not touched by a commit.
LEMMA CommitWorkers ==
  ASSUME IInv, TypeOK', NEW w \in Workers, NEW c \in SUBSET Candidates(w),
         message' = AfterClaim(w, c), events' = events, accepted' = accepted,
         NEW v \in Workers \ {w}, worker'[v] = worker[v]
  PROVE  Remembers(v)'
<1>1. \A m \in worker[v].swept : m \in Messages /\ message[m].status \in Waiting
  BY DEF IInv, TypeOK, WorkerState, WorkersSound, Remembers
<1>2. worker[v].swept \cap worker[w].swept = {}
  BY DEF IInv, WorkersSound, Apart
<1>3. worker[v].swept \cap c = {}
  BY DEF Candidates, LockedFor
<1>4. \A m \in worker[v].swept : message'[m].status \in Waiting
  BY <1>1, <1>2, <1>3, CommitRows
<1>5. \A m \in Messages : /\ message'[m].attemptCount >= message[m].attemptCount
                          /\ accepted[m] \subseteq accepted'[m]
  BY CommitRows
<1> QED
  BY <1>4, <1>5, KeptWorker

LEMMA ClaimStep ==
  ASSUME IInv, NEW w \in Workers, NEW m \in Messages, Claim(w, m)
  PROVE  IInv'
<1>1. /\ m \in Candidates(w) /\ message' = AfterClaim(w, {m})
      /\ UNCHANGED <<suppressed, events, accepted, crashes>>
  BY DEF Claim
<1>2. {m} \in SUBSET Candidates(w)
  BY <1>1
<1> DEFINE n == message[m].attemptCount + 1
           state == [at |-> "send", message |-> {m}, leaseToken |-> n, swept |-> {}]
<1>3. worker' = [worker EXCEPT ![w] = state]
  BY DEF Claim
<1>4. message[m].attemptCount \in Nat /\ n \in 1..MaxAttempts /\ n \in 0..MaxAttempts
  BY <1>1, EmailAssumption DEF IInv, TypeOK, MessageRow, Candidates, Exhausted
<1>5. /\ state \in WorkerState /\ state.at = "send" /\ state.message = {m}
      /\ state.leaseToken = n /\ state.swept = {}
  BY <1>4 DEF WorkerState, Place
<1> HIDE DEF state
<1>6. /\ worker' \in [Workers -> WorkerState] /\ worker'[w] = state
      /\ \A v \in Workers \ {w} : worker'[v] = worker[v]
  BY <1>3, <1>5 DEF IInv, TypeOK
<1>7. TypeOK'
  BY <1>1, <1>2, <1>6, CommitRows DEF IInv, TypeOK
<1>8. \A k \in Messages : (Counted(k) /\ Recorded(k) /\ HasBody(k))'
  BY <1>1, <1>2, CommitRows
<1>9. message'[m].attemptCount = n
  BY <1>1, <1>2, CommitRows
<1>10. \A v \in Workers : Remembers(v)'
  <2> SUFFICES ASSUME NEW v \in Workers PROVE Remembers(v)'
    OBVIOUS
  <2>1. CASE v # w
    BY <1>1, <1>2, <1>6, <1>7, <2>1, CommitWorkers
  <2>2. CASE v = w
    BY <1>4, <1>5, <1>6, <1>9, <2>2 DEF Remembers
  <2> QED
    BY <2>1, <2>2
<1>11. \A v \in Workers \ {w} : m \in worker[v].message => worker[v].leaseToken # n
  BY <1>4 DEF IInv, WorkersSound, Remembers
<1>12. \A u, v \in Workers : u # v => Apart(u, v)'
  <2> SUFFICES ASSUME NEW u \in Workers, NEW v \in Workers, u # v PROVE Apart(u, v)'
    OBVIOUS
  <2>1. CASE u # w /\ v # w
    BY <1>6, <2>1 DEF IInv, WorkersSound, Apart
  <2>2. CASE u = w
    BY <1>5, <1>6, <1>11, <2>2 DEF Apart
  <2>3. CASE v = w
    BY <1>5, <1>6, <1>11, <2>3 DEF Apart
  <2> QED
    BY <2>1, <2>2, <2>3
<1> QED
  BY <1>7, <1>8, <1>10, <1>12 DEF IInv, RowsSound, WorkersSound

LEMMA NothingToClaimStep ==
  ASSUME IInv, NEW w \in Workers, NothingToClaim(w)
  PROVE  IInv'
<1>1. /\ message' = AfterClaim(w, {}) /\ Rest(w)
      /\ UNCHANGED <<suppressed, events, accepted, crashes>>
  BY DEF NothingToClaim
<1>2. {} \in SUBSET Candidates(w)
  OBVIOUS
<1>3. /\ worker' \in [Workers -> WorkerState] /\ worker'[w] = IdleWorker
      /\ \A v \in Workers \ {w} : worker'[v] = worker[v]
  BY <1>1, RestKeeps DEF IInv
<1>4. TypeOK'
  BY <1>1, <1>2, <1>3, CommitRows DEF IInv, TypeOK
<1>5. \A k \in Messages : (Counted(k) /\ Recorded(k) /\ HasBody(k))'
  BY <1>1, <1>2, CommitRows
<1>6. \A v \in Workers : Remembers(v)'
  <2> SUFFICES ASSUME NEW v \in Workers PROVE Remembers(v)'
    OBVIOUS
  <2>1. CASE v # w
    BY <1>1, <1>2, <1>3, <1>4, <2>1, CommitWorkers
  <2>2. CASE v = w
    BY <1>3, <2>2, IdleRemembers
  <2> QED
    BY <2>1, <2>2
<1>7. \A u, v \in Workers : u # v => Apart(u, v)'
  BY <1>3, TypedIdle, StaysApart
<1> QED
  BY <1>4, <1>5, <1>6, <1>7 DEF IInv, RowsSound, WorkersSound

LEMMA SendStep ==
  ASSUME IInv, NEW w \in Workers, Send(w)
  PROVE  IInv'
<1>1. /\ worker[w].at = "send" /\ UNCHANGED <<message, suppressed, events, crashes>>
      /\ Remembers(w) /\ worker[w] \in WorkerState
  BY DEF Send, IInv, TypeOK, WorkersSound
<1>2. PICK place \in {"record", "failing"} : Goto(w, place) /\
        \/ accepted' = [m \in Messages |->
             IF m \in worker[w].message THEN accepted[m] \cup {worker[w].leaseToken}
                                        ELSE accepted[m]]
        \/ place = "failing" /\ UNCHANGED accepted
  BY DEF Send
<1>3. place \in Place /\ place # "claim" /\ place \notin {"idle", "sweep", "claim"}
  BY DEF Place
<1>4. /\ worker' \in [Workers -> WorkerState]
      /\ worker'[w].at = place /\ worker'[w].message = worker[w].message
      /\ worker'[w].leaseToken = worker[w].leaseToken /\ worker'[w].swept = worker[w].swept
      /\ \A v \in Workers \ {w} : worker'[v] = worker[v]
  BY <1>2, <1>3, GotoKeeps DEF IInv
<1>5. \A m \in worker[w].message : worker[w].leaseToken \in 1..message[m].attemptCount
  BY <1>1 DEF Remembers
<1>6. \A m \in Messages : accepted[m] \subseteq accepted'[m]
  BY <1>2 DEF IInv, TypeOK
<1>7. \A m \in Messages : accepted'[m] \subseteq 1..message[m].attemptCount
  BY <1>2, <1>5 DEF IInv, TypeOK, RowsSound, Counted
<1>8. place = "record" => \A m \in worker[w].message : worker[w].leaseToken \in accepted'[m]
  BY <1>1, <1>2 DEF WorkerState
<1>9. TypeOK'
  <2>1. \A m \in Messages : 1..message[m].attemptCount \subseteq 1..MaxAttempts
    BY EmailAssumption DEF IInv, TypeOK, MessageRow
  <2>2. accepted' \in [Messages -> SUBSET (1..MaxAttempts)]
    BY <1>2, <1>7, <2>1 DEF IInv, TypeOK
  <2> QED
    BY <1>1, <1>4, <2>2 DEF IInv, TypeOK
<1>10. \A m \in Messages : (Counted(m) /\ Recorded(m) /\ HasBody(m))'
  BY <1>1, <1>6, <1>7 DEF IInv, RowsSound, Counted, Recorded, HasBody, Exhausted
<1>11. \A v \in Workers : Remembers(v)'
  <2> SUFFICES ASSUME NEW v \in Workers PROVE Remembers(v)'
    OBVIOUS
  <2>1. CASE v # w
    <3>1. worker[v] \in WorkerState
      BY DEF IInv, TypeOK
    <3> QED
      BY <1>1, <1>4, <1>6, <2>1, <3>1 DEF IInv, WorkersSound, Remembers, WorkerState
  <2>2. CASE v = w
    BY <1>1, <1>3, <1>4, <1>5, <1>8, <2>2 DEF Remembers
  <2> QED
    BY <2>1, <2>2
<1>12. \A u, v \in Workers : u # v => Apart(u, v)'
  BY <1>4, StaysApart
<1> QED
  BY <1>9, <1>10, <1>11, <1>12 DEF IInv, RowsSound, WorkersSound

\* A process at the end of its claim, which settles one row it holds or none.
LEMMA SettleStep ==
  ASSUME IInv, TypeOK', NEW w \in Workers, NEW s \in SUBSET Messages,
         \A m \in s : message[m].status = "sending",
         \A m \in Messages \ s : message'[m] = message[m],
         \A m \in s : message'[m].attemptCount = message[m].attemptCount
                        /\ (Counted(m) /\ Recorded(m) /\ HasBody(m))',
         accepted' = accepted, events' = events,
         worker'[w].swept = {}, Remembers(w)',
         \A v \in Workers \ {w} : worker'[v] = worker[v],
         \/ worker'[w].message = {}
         \/ worker'[w].message = worker[w].message
            /\ worker'[w].leaseToken = worker[w].leaseToken
  PROVE  IInv'
<1>1. \A m \in Messages : (Counted(m) /\ Recorded(m) /\ HasBody(m))'
  BY KeptRow DEF KeepsRow
<1>2. \A v \in Workers : Remembers(v)'
  <2> SUFFICES ASSUME NEW v \in Workers PROVE Remembers(v)'
    OBVIOUS
  <2>1. CASE v # w
    <3>1. \A m \in worker[v].swept : m \in Messages /\ message[m].status \in Waiting
      BY DEF IInv, TypeOK, WorkerState, WorkersSound, Remembers
    <3>2. \A m \in worker[v].swept : message'[m].status \in Waiting
      BY <3>1 DEF Waiting
    <3>3. \A m \in Messages : message'[m].attemptCount >= message[m].attemptCount
      BY DEF IInv, TypeOK, MessageRow
    <3> QED
      BY <2>1, <3>2, <3>3, KeptWorker
  <2>2. CASE v = w
    BY <2>2
  <2> QED
    BY <2>1, <2>2
<1>3. \A u, v \in Workers : u # v => Apart(u, v)'
  BY StaysApart
<1> QED
  BY <1>1, <1>2, <1>3 DEF IInv, RowsSound, WorkersSound

LEMMA MarkSentStep ==
  ASSUME IInv, NEW w \in Workers, MarkSent(w)
  PROVE  IInv'
<1>1. /\ worker[w].at = "record" /\ UNCHANGED <<suppressed, events, accepted, crashes>>
      /\ Remembers(w) /\ worker[w] \in WorkerState
  BY DEF MarkSent, IInv, TypeOK, WorkersSound
<1>2. worker[w].swept = {}
  BY <1>1 DEF Remembers
<1>3. ASSUME NEW m \in Messages, Holds(w, m), Rest(w),
             message' = [message EXCEPT ![m] = Sent(@, worker[w].leaseToken)]
      PROVE  IInv'
  <2>1. /\ worker' \in [Workers -> WorkerState] /\ worker'[w] = IdleWorker
        /\ \A v \in Workers \ {w} : worker'[v] = worker[v]
    BY <1>3, RestKeeps DEF IInv
  <2>2. worker[w].leaseToken \in 0..MaxAttempts /\ worker[w].leaseToken \in accepted[m]
        /\ message[m] \in MessageRow /\ worker[w].leaseToken # NoToken
    BY <1>1, <1>3, EmailAssumption DEF Holds, Remembers, WorkerState, IInv, TypeOK, NoToken, MessageRow
  <2>3. message'[m] = Sent(message[m], worker[w].leaseToken)
    BY <1>3 DEF IInv, TypeOK
  <2>4. /\ message'[m] \in MessageRow
        /\ message'[m].status = "sent" /\ message'[m].leaseToken = NoToken
        /\ message'[m].attemptCount = message[m].attemptCount
        /\ message'[m].maxAttempts = message[m].maxAttempts
        /\ message'[m].providerMessageId = worker[w].leaseToken
    BY <2>2, <2>3, SentRow
  <2>5. TypeOK'
    BY <1>1, <1>3, <2>1, <2>3, <2>4 DEF IInv, TypeOK
  <2>6. (Counted(m) /\ Recorded(m) /\ HasBody(m))'
    BY <1>1, <2>2, <2>4 DEF IInv, RowsSound, Counted, Recorded, HasBody, Waiting
  <2>7. \A n \in Messages \ {m} : message'[n] = message[n]
    BY <1>3 DEF IInv, TypeOK
  <2>8. Remembers(w)' /\ worker'[w].message = {} /\ worker'[w].swept = {}
    BY <2>1, IdleRemembers, TypedIdle
  <2>9. message[m].status = "sending"
    BY <1>3 DEF Holds
  <2>10. /\ {m} \in SUBSET Messages /\ accepted' = accepted /\ events' = events
         /\ \A n \in {m} : message[n].status = "sending"
         /\ \A n \in {m} : message'[n].attemptCount = message[n].attemptCount
                            /\ (Counted(n) /\ Recorded(n) /\ HasBody(n))'
    BY <1>1, <2>4, <2>6, <2>9
  <2> QED
    BY <2>1, <2>5, <2>7, <2>8, <2>10, SettleStep
<1>4. ASSUME Goto(w, "failing"), UNCHANGED message
      PROVE  IInv'
  <2>1. /\ worker' \in [Workers -> WorkerState]
        /\ worker'[w].at = "failing" /\ worker'[w].message = worker[w].message
        /\ worker'[w].leaseToken = worker[w].leaseToken /\ worker'[w].swept = worker[w].swept
        /\ \A v \in Workers \ {w} : worker'[v] = worker[v]
    BY <1>4, GotoKeeps DEF IInv, Place
  <2>2. TypeOK'
    BY <1>1, <1>4, <2>1 DEF IInv, TypeOK
  <2>3. Remembers(w)'
    BY <1>1, <1>2, <1>4, <2>1 DEF Remembers
  <2> QED
    BY <1>1, <1>2, <1>4, <2>1, <2>2, <2>3, SettleStep
<1> QED
  BY <1>3, <1>4 DEF MarkSent

LEMMA MarkFailedStep ==
  ASSUME IInv, NEW w \in Workers, MarkFailed(w)
  PROVE  IInv'
<1> DEFINE held == {m \in Messages : Holds(w, m)}
<1>1. Rest(w) /\ UNCHANGED <<suppressed, events, accepted, crashes>>
  BY DEF MarkFailed
<1>2. \A m \in Messages : message'[m] = IF m \in held THEN Failed(message[m]) ELSE message[m]
  BY DEF MarkFailed
<1>3. /\ worker' \in [Workers -> WorkerState] /\ worker'[w] = IdleWorker
      /\ \A v \in Workers \ {w} : worker'[v] = worker[v]
  BY <1>1, RestKeeps DEF IInv
<1>4. \A m \in Messages : message[m] \in MessageRow
  BY DEF IInv, TypeOK
<1>5. message' \in [Messages -> MessageRow]
  BY <1>4, FailedRow DEF MarkFailed
<1>6. TypeOK'
  BY <1>1, <1>3, <1>5 DEF IInv, TypeOK
<1>7. \A m \in held : /\ message[m].status = "sending"
                      /\ message'[m].attemptCount = message[m].attemptCount
                      /\ (Counted(m) /\ Recorded(m) /\ HasBody(m))'
  <2> SUFFICES ASSUME NEW m \in held
               PROVE  /\ message[m].status = "sending"
                      /\ message'[m].attemptCount = message[m].attemptCount
                      /\ (Counted(m) /\ Recorded(m) /\ HasBody(m))'
    OBVIOUS
  <2>1. message[m].status = "sending" /\ m \in Messages
    BY DEF Holds
  <2>2. /\ message'[m].status = "failed" /\ message'[m].leaseToken = NoToken
        /\ message'[m].attemptCount = message[m].attemptCount
        /\ message'[m].maxAttempts = message[m].maxAttempts
        /\ message'[m].providerMessageId = message[m].providerMessageId
        /\ message'[m].body = (message[m].body /\ ~Exhausted(message[m]))
    BY <1>2, <1>4, <2>1, FailedRow
  <2>3. Counted(m) /\ Recorded(m) /\ HasBody(m)
    BY <2>1 DEF IInv, RowsSound
  <2>4. Counted(m)'
    BY <1>1, <2>1, <2>2, <2>3 DEF Counted
  <2>5. Recorded(m)'
    BY <1>1, <2>1, <2>2, <2>3 DEF Recorded
  <2>6. HasBody(m)'
    BY <2>1, <2>2, <2>3 DEF HasBody, Exhausted
  <2> QED
    BY <2>1, <2>2, <2>4, <2>5, <2>6
<1>8. held \in SUBSET Messages /\ \A m \in Messages \ held : message'[m] = message[m]
  BY <1>2
<1> HIDE DEF held
<1>9. Remembers(w)' /\ worker'[w].message = {} /\ worker'[w].swept = {}
  BY <1>3, IdleRemembers, TypedIdle
<1> QED
  BY <1>1, <1>3, <1>6, <1>7, <1>8, <1>9, SettleStep

LEMMA CrashStep ==
  ASSUME IInv, NEW w \in Workers, Crash(w)
  PROVE  IInv'
<1>1. Rest(w) /\ UNCHANGED <<message, suppressed, events, accepted>>
      /\ crashes' \in 0..CrashBound
  BY EmailAssumption DEF Crash, IInv, TypeOK
<1>2. /\ worker' \in [Workers -> WorkerState] /\ worker'[w] = IdleWorker
      /\ \A v \in Workers \ {w} : worker'[v] = worker[v]
  BY <1>1, RestKeeps DEF IInv
<1>3. TypeOK'
  BY <1>1, <1>2 DEF IInv, TypeOK
<1>4. Remembers(w)' /\ worker'[w].message = {} /\ worker'[w].swept = {}
  BY <1>2, IdleRemembers, TypedIdle
<1>5. {} \in SUBSET Messages
  OBVIOUS
<1> QED
  BY <1>1, <1>2, <1>3, <1>4, <1>5, SettleStep

-----------------------------------------------------------------------------
(* Webhooks *)

\* What a provider event makes of its message.
LEMMA EventRow ==
  ASSUME IInv, NEW e \in DeliveryEvent, RecordBrevo(e)
  PROVE  /\ TypeOK'
         /\ worker' = worker /\ accepted' = accepted /\ events' = events \cup {e}
         /\ \A n \in Messages \ {e.message} : message'[n] = message[n]
         /\ \/ message' = message
            \/ \E s \in DeliveryStatus(e.type) :
                 Concerns(e, s) /\ message'[e.message] = Reported(message[e.message], s)
<1> DEFINE statuses == {s \in DeliveryStatus(e.type) : Concerns(e, s)}
<1>1. e.message \in Messages /\ message[e.message] \in MessageRow
  BY DEF DeliveryEvent, IInv, TypeOK
<1>2. DeliveryStatus(e.type) \subseteq Status
  BY DEF DeliveryStatus, Status, Waiting
<1>3. ASSUME statuses # {}
      PROVE  \E s \in statuses : /\ message' = [message EXCEPT ![e.message] = Reported(@, s)]
  <2>1. (CHOOSE s \in statuses : TRUE) \in statuses
    BY <1>3
  <2> QED
    BY <1>3, <2>1 DEF RecordBrevo
<1>4. statuses = {} => message' = message
  BY DEF RecordBrevo
<1>5. /\ worker' = worker /\ accepted' = accepted /\ events' = events \cup {e}
      /\ crashes' = crashes
  BY DEF RecordBrevo
<1>6. RecipientOf[e.message] \in Recipients
  BY <1>1, EmailAssumption
<1>7. suppressed' \subseteq suppressed \cup {RecipientOf[e.message]}
  BY DEF RecordBrevo
<1>8. message' \in [Messages -> MessageRow]
  BY <1>1, <1>2, <1>3, <1>4, ReportedRow DEF IInv, TypeOK
<1>9. TypeOK'
  BY <1>5, <1>6, <1>7, <1>8 DEF IInv, TypeOK
<1>10. /\ \A n \in Messages \ {e.message} : message'[n] = message[n]
       /\ \/ message' = message
          \/ \E s \in DeliveryStatus(e.type) :
               Concerns(e, s) /\ message'[e.message] = Reported(message[e.message], s)
  BY <1>1, <1>3, <1>4 DEF IInv, TypeOK
<1> QED
  BY <1>5, <1>9, <1>10

LEMMA RecordBrevoStep ==
  ASSUME IInv, NEW e \in DeliveryEvent, RecordBrevo(e)
  PROVE  IInv'
<1> DEFINE m == e.message
<1>1. m \in Messages /\ message[m] \in MessageRow
  BY DEF DeliveryEvent, IInv, TypeOK
<1>2. /\ TypeOK' /\ worker' = worker /\ accepted' = accepted /\ events' = events \cup {e}
      /\ \A n \in Messages \ {m} : message'[n] = message[n]
  BY EventRow
<1>3. Counted(m) /\ Recorded(m) /\ HasBody(m)
  BY <1>1 DEF IInv, RowsSound
<1>4. CASE message' = message
  <2>1. (Counted(m) /\ Recorded(m) /\ HasBody(m))'
    BY <1>1, <1>2, <1>4, KeptRow DEF KeepsRow
  <2> QED
    BY <1>1, <1>2, <1>4, <2>1, RowStep
<1>5. ASSUME NEW s \in DeliveryStatus(e.type), Concerns(e, s),
             message'[m] = Reported(message[m], s)
      PROVE  IInv'
  <2>1. s \in Status /\ s \in {"delivered", "bounced", "suppressed"}
    BY DEF DeliveryStatus, Status, Waiting
  <2>2. /\ message'[m].status = s /\ message'[m].leaseToken = message[m].leaseToken
        /\ message'[m].attemptCount = message[m].attemptCount
        /\ message'[m].maxAttempts = message[m].maxAttempts
        /\ message'[m].providerMessageId = message[m].providerMessageId
    BY <1>1, <1>5, <2>1, ReportedRow
  <2>3. /\ message[m].providerMessageId # NoToken
        /\ message[m].providerMessageId = e.providerMessageId
        /\ message[m].providerMessageId \in accepted[m]
        /\ message[m].status \in {"sent", "delivered", "bounced", "suppressed"}
    BY <1>3, <1>5 DEF Concerns, Recorded
  <2>4. s = "delivered" => e = [message |-> m, providerMessageId |-> message[m].providerMessageId,
                                type |-> "delivered"]
    <3>1. s = "delivered" => e.type = "delivered"
      BY <1>5 DEF DeliveryStatus
    <3> QED
      BY <2>3, <3>1 DEF DeliveryEvent
  <2>5. Counted(m)'
    BY <1>2, <1>3, <2>1, <2>2, <2>3 DEF Counted
  <2>6. Recorded(m)'
    BY <1>2, <1>3, <2>1, <2>2, <2>3, <2>4 DEF Recorded
  <2>7. HasBody(m)'
    BY <2>1, <2>2 DEF HasBody, Waiting
  <2>8. message[m].status \notin Waiting
    BY <2>3 DEF Waiting
  <2> QED
    BY <1>1, <1>2, <2>2, <2>5, <2>6, <2>7, <2>8, RowStep
<1> QED
  BY <1>4, <1>5, EventRow

-----------------------------------------------------------------------------
(* The invariant *)

LEMMA InvInit == Init => IInv
<1> SUFFICES ASSUME Init PROVE IInv
  OBVIOUS
<1>1. NoToken \in 0..MaxAttempts /\ 0 \in 0..MaxAttempts /\ 0 \in 0..CrashBound
  BY EmailAssumption DEF NoToken
<1>2. AbsentMessage \in MessageRow
  BY <1>1 DEF AbsentMessage, MessageRow, Status
<1>3. TypeOK
  BY <1>1, <1>2, TypedIdle DEF Init, TypeOK
<1>4. RowsSound
  BY DEF Init, RowsSound, Counted, Recorded, HasBody, AbsentMessage, Waiting, NoToken
<1>5. WorkersSound
  BY TypedIdle DEF Init, WorkersSound, Remembers, Apart
<1> QED
  BY <1>3, <1>4, <1>5 DEF IInv

LEMMA InvStep == IInv /\ [Next]_vars => IInv'
<1> SUFFICES ASSUME IInv, [Next]_vars PROVE IInv'
  OBVIOUS
<1>1. CASE \E m \in Messages : Enqueue(m)
  BY <1>1, EnqueueStep
<1>2. CASE \E m \in Messages : LeaseRunsOut(m) \/ BackoffEnds(m)
  BY <1>2, TimeStep
<1>3. CASE \E r \in Recipients : LiftSuppression(r)
  BY <1>3, LiftStep
<1>4. CASE \E w \in Workers : RunOnce(w)
  BY <1>4, RecoverStaleStep, SweepStep, NothingToClaimStep, ClaimStep, SendStep,
     MarkSentStep, MarkFailedStep DEF RunOnce
<1>5. CASE \E w \in Workers : Crash(w)
  BY <1>5, CrashStep
<1>6. CASE \E e \in DeliveryEvent : RecordBrevo(e)
  BY <1>6, RecordBrevoStep
<1>7. CASE UNCHANGED vars
  BY <1>7 DEF vars, IInv, TypeOK, RowsSound, WorkersSound, Counted, Recorded, HasBody,
              Exhausted, Remembers, Apart
<1> QED
  BY <1>1, <1>2, <1>3, <1>4, <1>5, <1>6, <1>7 DEF Next

\* The invariant holds in every reachable state.
LEMMA InvAlways == Spec => []IInv
<1> QED
  BY InvInit, InvStep, PTL DEF Spec

\* No step changes the id a message is recorded under.
LEMMA RecordKept ==
  ASSUME IInv, [Next]_vars, NEW m \in Messages, message[m].providerMessageId # NoToken
  PROVE  message'[m].providerMessageId = message[m].providerMessageId
<1> DEFINE kept == message'[m].providerMessageId = message[m].providerMessageId
<1>1. /\ \A n \in Messages : message[n] \in MessageRow
      /\ message[m].status \in {"sent", "delivered", "bounced", "suppressed"}
  BY DEF IInv, TypeOK, RowsSound, Recorded
<1>2. ASSUME NEW n \in Messages, Enqueue(n) PROVE kept
  BY <1>1, <1>2 DEF Enqueue, IInv, TypeOK
<1>3. ASSUME NEW n \in Messages, LeaseRunsOut(n) PROVE kept
  BY <1>1, <1>3 DEF LeaseRunsOut, IInv, TypeOK
<1>4. ASSUME NEW n \in Messages, BackoffEnds(n) PROVE kept
  BY <1>1, <1>4 DEF BackoffEnds, IInv, TypeOK
<1>5. ASSUME NEW w \in Workers, RecoverStale(w) PROVE kept
  BY <1>1, <1>5 DEF RecoverStale, Stale
<1>6. ASSUME NEW w \in Workers, NEW n \in Messages, Claim(w, n) PROVE kept
  <2>1. m # n
    BY <1>1, <1>6 DEF Claim, Candidates, Waiting
  <2> QED
    BY <1>1, <1>6, <2>1, AfterClaimRows, SuppressedRow DEF Claim
<1>7. ASSUME NEW w \in Workers, NothingToClaim(w) PROVE kept
  BY <1>1, <1>7, AfterClaimRows, SuppressedRow DEF NothingToClaim
<1>8. ASSUME NEW w \in Workers, MarkSent(w) PROVE kept
  BY <1>1, <1>8 DEF MarkSent, Holds, IInv, TypeOK
<1>9. ASSUME NEW w \in Workers, MarkFailed(w) PROVE kept
  BY <1>1, <1>9 DEF MarkFailed, Holds
<1>10. ASSUME NEW e \in DeliveryEvent, RecordBrevo(e) PROVE kept
  <2>1. DeliveryStatus(e.type) \subseteq Status
    BY DEF DeliveryStatus, Status, Waiting
  <2> QED
    BY <1>1, <1>10, <2>1, EventRow, ReportedRow
<1>11. ASSUME message' = message PROVE kept
  BY <1>11
<1>12. ASSUME NEW w \in Workers, Sweep(w) \/ Send(w) \/ Crash(w) PROVE message' = message
  BY <1>12 DEF Sweep, Send, Crash
<1>13. ASSUME NEW r \in Recipients, LiftSuppression(r) PROVE message' = message
  BY <1>13 DEF LiftSuppression
<1> HIDE DEF kept
<1>14. kept
  BY <1>2, <1>3, <1>4, <1>5, <1>6, <1>7, <1>8, <1>9, <1>10, <1>11, <1>12, <1>13
     DEF Next, RunOnce, vars
<1> QED
  BY <1>14 DEF kept

-----------------------------------------------------------------------------
(* The theorems *)

\* Rows keep their types, and whatever processes whose lease ran out still
\* do, at most one can settle a message that is being sent.
THEOREM SendersAreExclusive == Spec => []OneSender
<1>1. IInv => OneSender
  <2> SUFFICES ASSUME IInv PROVE OneSender
    OBVIOUS
  <2>1. TypeOK
    BY DEF IInv
  <2>2. ASSUME NEW v \in Workers, NEW w \in Workers, NEW m \in Messages,
               Holds(v, m), Holds(w, m)
        PROVE  v = w
    BY <2>2 DEF IInv, WorkersSound, Apart, Holds
  <2>3. LeaseOfSender
    BY <2>2 DEF LeaseOfSender, IInv, RowsSound, Counted
  <2> QED
    BY <2>1, <2>3 DEF OneSender
<1> QED
  BY <1>1, InvAlways, PTL

\* A message that can still be sent has its body.
THEOREM BodiesStayWhileNeeded == Spec => []BodyWhileNeeded
<1>1. IInv => BodyWhileNeeded
  BY DEF IInv, RowsSound, HasBody, BodyWhileNeeded
<1> QED
  BY <1>1, InvAlways, PTL

\* The provider accepts no message more often than max_attempts allows.
THEOREM ProviderAskedWithinLimit == Spec => []AcceptedWithinAttempts
<1>1. IInv => AcceptedWithinAttempts
  <2> SUFFICES ASSUME IInv, NEW m \in Messages
               PROVE  /\ Cardinality(accepted[m]) <= message[m].maxAttempts
                      /\ message[m].attemptCount <= message[m].maxAttempts
    BY DEF AcceptedWithinAttempts
  <2>1. /\ accepted[m] \subseteq 1..message[m].attemptCount
        /\ message[m].attemptCount <= message[m].maxAttempts
        /\ message[m].attemptCount \in Nat /\ message[m].maxAttempts \in Nat
    BY EmailAssumption DEF IInv, TypeOK, RowsSound, Counted, MessageRow
  <2>2. IsFiniteSet(1..message[m].attemptCount)
        /\ Cardinality(1..message[m].attemptCount) = message[m].attemptCount
    <3> DEFINE n == message[m].attemptCount
    <3>1. n \in Nat
      BY <2>1
    <3> HIDE DEF n
    <3>2. IsFiniteSet(1..n) /\ Cardinality(1..n) = IF 1 > n THEN 0 ELSE n - 1 + 1
      BY <3>1, FS_Interval
    <3>3. Cardinality(1..n) = n
      BY <3>1, <3>2
    <3> QED
      BY <3>2, <3>3 DEF n
  <2>3. Cardinality(accepted[m]) <= message[m].attemptCount /\ Cardinality(accepted[m]) \in Nat
    BY <2>1, <2>2, FS_Subset, FS_CardinalityType
  <2> QED
    BY <2>1, <2>3
<1> QED
  BY <1>1, InvAlways, PTL

\* Whatever is lost, a message that can still be sent has its body, and the provider
\* is asked no more often than it may be.
THEOREM LossesAreBounded == Spec => []AttemptsWithBody
  BY BodiesStayWhileNeeded, ProviderAskedWithinLimit, PTL DEF AttemptsWithBody

\* What a message is shown as rests on what the provider accepted and reported.
THEOREM StatusRestsOnEvidence == Spec => []EvidenceForStatus
<1>1. IInv => EvidenceForStatus
  BY DEF IInv, RowsSound, Recorded, EvidenceForStatus
<1> QED
  BY <1>1, InvAlways, PTL

\* A message recorded as accepted keeps its record and is never queued again.
THEOREM AcceptedStaysAccepted == Spec => AcceptanceIsFinal
<1> DEFINE final == \A m \in Messages :
             message[m].providerMessageId # NoToken =>
               /\ message'[m].providerMessageId = message[m].providerMessageId
               /\ message'[m].status \notin Waiting \cup {"sending"}
<1>1. IInv /\ IInv' /\ [Next]_vars => final
  <2> SUFFICES ASSUME IInv, IInv', [Next]_vars, NEW m \in Messages,
                      message[m].providerMessageId # NoToken
               PROVE  /\ message'[m].providerMessageId = message[m].providerMessageId
                      /\ message'[m].status \notin Waiting \cup {"sending"}
    OBVIOUS
  <2>1. message'[m].providerMessageId = message[m].providerMessageId
    BY RecordKept
  <2>2. Recorded(m)'
    BY DEF IInv, RowsSound
  <2> QED
    BY <2>1, <2>2 DEF Recorded, Waiting
<1> QED
  BY <1>1, InvAlways, PTL DEF AcceptanceIsFinal, Spec

\* A lifted suppression only returns with an event not received before.
THEOREM LiftedStaysLifted == Spec => LiftHolds
<1> DEFINE holds == \A r \in suppressed' \ suppressed :
             \E e \in events' \ events : RecipientOf[e.message] = r
<1>1. [Next]_vars => holds
  <2> SUFFICES ASSUME [Next]_vars PROVE holds
    OBVIOUS
  <2>1. ASSUME NEW e \in DeliveryEvent, RecordBrevo(e) PROVE holds
    BY <2>1 DEF RecordBrevo
  <2>2. ASSUME NEW r \in Recipients, LiftSuppression(r) PROVE holds
    BY <2>2 DEF LiftSuppression
  <2>3. CASE suppressed' = suppressed
    BY <2>3
  <2>4. ASSUME NEW w \in Workers, RunOnce(w) \/ Crash(w) PROVE suppressed' = suppressed
    BY <2>4 DEF RunOnce, RecoverStale, Sweep, Claim, NothingToClaim, Send, MarkSent, MarkFailed,
                Crash
  <2>5. ASSUME NEW m \in Messages, Enqueue(m) \/ LeaseRunsOut(m) \/ BackoffEnds(m)
        PROVE  suppressed' = suppressed
    BY <2>5 DEF Enqueue, LeaseRunsOut, BackoffEnds
  <2> HIDE DEF holds
  <2> QED
    BY <2>1, <2>2, <2>3, <2>4, <2>5 DEF Next, vars
<1> QED
  BY <1>1, PTL DEF LiftHolds, Spec

\* What was decided stays so, whatever events come late or again.
THEOREM DecisionsStand == Spec => DecisionsHold
  BY AcceptedStaysAccepted, LiftedStaysLifted DEF DecisionsHold

=============================================================================
