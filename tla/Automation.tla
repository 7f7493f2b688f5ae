---------------------------- MODULE Automation ----------------------------
(***************************************************************************)
(* The durable automation engine: the rows of automation_jobs,             *)
(* automation_job_attempts and automation_operation_locks, the statements  *)
(* AutomationRepository runs on them, and the worker processes that drive  *)
(* a job through preflight, running and verifying.                         *)
(*                                                                         *)
(* Every timestamp is held relative to the current time, so that the state *)
(* space is finite without a horizon: 0 is now, a positive number lies in  *)
(* the future, and Tick makes every timestamp one older.  A timestamp      *)
(* older than MaxStall stays at -MaxStall; no worker compares it with an   *)
(* older `now' than that, so the saturation is exact.                      *)
(***************************************************************************)
EXTENDS Integers, Sequences, FiniteSets

CONSTANTS
  Workers,        \* worker processes sharing the database
  Jobs,           \* idempotency keys a request may be made under
  Operations,     \* (scope_key, operation_key) pairs
  OperationOf,    \* the operation of each job
  NoJob,          \* the job of a lock row that does not exist
  AttemptCap,     \* 20: the largest max_attempts
  MaxAdditional,  \* 10: the most attempts one manual retry adds
  LeaseSeconds,   \* length of a lease
  RetryBase,      \* first delay of the backoff
  RetryCap,       \* 3_600_000 ms: longest delay of the backoff
  MaxStall,       \* bound: age a captured `now' may reach before it is used
  AttemptBound,   \* bound: attempts after which no manual retry is made
  CrashBound      \* bound: worker crashes in a behaviour

ASSUME OperationAssumption ==
  /\ OperationOf \in [Jobs -> Operations]
  /\ NoJob \notin Jobs
ASSUME LimitAssumption ==
  /\ AttemptCap \in Nat \ {0} /\ MaxAdditional \in Nat \ {0}
  /\ LeaseSeconds \in Nat \ {0} /\ RetryBase \in Nat /\ RetryCap \in Nat
  /\ MaxStall \in Nat /\ AttemptBound \in Nat /\ CrashBound \in Nat

VARIABLES
  job,      \* automation_jobs, by idempotency key
  attempt,  \* automation_job_attempts: the statuses of a job's attempts
  lock,     \* automation_operation_locks, by operation
  worker,   \* what each worker process holds in memory
  beat,     \* the heartbeat transaction each worker has open
  crashes   \* worker crashes so far

vars == <<job, attempt, lock, worker, beat, crashes>>

ActiveStatus == {"preflight", "running", "verifying"}
TerminalStatus == {"succeeded", "failed", "needs-attention", "cancelled"}
JobStatus == {"absent", "queued"} \cup ActiveStatus \cup TerminalStatus
AttemptStatus == ActiveStatus \cup {"succeeded", "failed", "interrupted", "cancelled"}
Failure == {"none", "cancelled", "permanent", "needs-attention", "transient"}
Place == {"idle", "recover", "claim", "start", "handle", "check", "advance",
          "stamp", "succeeded", "failing"}

\* leaseToken: randomUUID() never repeats a value.  The number of the attempt
\* a claim opens is such a value among the claims of a job; 0 is NULL.
NoToken == 0

JobRow ==
  [status : JobStatus, attemptCount : Nat, maxAttempts : 0..AttemptCap, availableAt : Int,
   leaseToken : Nat, leaseExpiresAt : Int, cancellationRequested : BOOLEAN]
LockRow ==
  [job : Jobs \cup {NoJob}, leaseToken : Nat, leaseExpiresAt : Int]
\* The claimed snapshot a worker keeps: its token is also its attemptCount.
WorkerState ==
  [at : Place, now : Int, phase : ActiveStatus, job : Jobs \cup {NoJob},
   leaseToken : Nat, maxAttempts : Nat, failure : Failure]

AbsentJob ==
  [status |-> "absent", attemptCount |-> 0, maxAttempts |-> 0, availableAt |-> 0,
   leaseToken |-> NoToken, leaseExpiresAt |-> 0, cancellationRequested |-> FALSE]
NoLock == [job |-> NoJob, leaseToken |-> NoToken, leaseExpiresAt |-> 0]
IdleWorker ==
  [at |-> "idle", now |-> 0, phase |-> "preflight", job |-> NoJob,
   leaseToken |-> NoToken, maxAttempts |-> 0, failure |-> "none"]
NoBeat == [open |-> FALSE, leaseExpiresAt |-> 0]

Active(j) == job[j].status \in ActiveStatus
Terminal(j) == job[j].status \in TerminalStatus
LeastOf(a, b) == IF a <= b THEN a ELSE b

\* The job row j is locked by a heartbeat transaction that has not committed.
RowLocked(j) == \E w \in Workers : beat[w].open /\ worker[w].job = j

\* Mutant: the statements forget lease_token and accept any active claim.
HoldsAnyClaim(w) ==
  /\ worker[w].job \in Jobs
  /\ worker[w].leaseToken # NoToken
  /\ Active(worker[w].job)

\* "WHERE id = $1 AND lease_token = $2": the claim w made is the current one.
Holds(w) ==
  /\ worker[w].job \in Jobs
  /\ worker[w].leaseToken = job[worker[w].job].leaseToken
  /\ worker[w].leaseToken # NoToken

\* Mutant: completed_at IS NULL is missing.
NewestOverwritten(j, s) ==
  LET n == job[j].attemptCount IN
  IF n \in DOMAIN attempt[j] THEN [attempt[j] EXCEPT ![n] = s] ELSE attempt[j]

\* UPDATE automation_job_attempts ... WHERE attempt_number = attempt_count
\* AND completed_at IS NULL: only an open newest attempt is written.
NewestSetTo(j, s) ==
  LET n == job[j].attemptCount IN
  IF n \in DOMAIN attempt[j] /\ attempt[j][n] \in ActiveStatus
  THEN [attempt[j] EXCEPT ![n] = s]
  ELSE attempt[j]

-----------------------------------------------------------------------------
(* The SET clauses of the UPDATE statements on automation_jobs *)

Queued(r, m) == [r EXCEPT !.status = "queued", !.maxAttempts = m]

AskedToStop(r) ==
  [r EXCEPT !.status = IF r.status = "queued" THEN "cancelled" ELSE r.status,
            !.cancellationRequested = TRUE]

\* Mutant: LEAST(20, ...) is missing.
RetriedUncapped(r, k) ==
  [r EXCEPT !.status = "queued", !.maxAttempts = r.attemptCount + k,
            !.availableAt = 0, !.cancellationRequested = FALSE]

Retried(r, k) ==
  [r EXCEPT !.status = "queued",
            !.maxAttempts = LeastOf(AttemptCap, r.attemptCount + k),
            !.availableAt = 0,
            !.cancellationRequested = FALSE]

\* Mutant: the lease columns are not reset.
RecoveredWithLease(r, now) ==
  [r EXCEPT
     !.status = IF r.attemptCount < r.maxAttempts THEN "queued" ELSE "needs-attention",
     !.availableAt = now]
\* Mutant: one attempt too many.
RecoveredOnceMore(r, now) ==
  [r EXCEPT
     !.status = IF r.attemptCount <= r.maxAttempts THEN "queued" ELSE "needs-attention",
     !.availableAt = now, !.leaseToken = NoToken, !.leaseExpiresAt = 0]

Recovered(r, now) ==
  [r EXCEPT
     !.status = IF r.attemptCount < r.maxAttempts THEN "queued" ELSE "needs-attention",
     !.availableAt = now, !.leaseToken = NoToken, !.leaseExpiresAt = 0]

\* Mutant: the claim skips preflight.
ClaimedRunning(r, token, expiry) ==
  [r EXCEPT !.status = "running", !.attemptCount = token,
            !.leaseToken = token, !.leaseExpiresAt = expiry]

Claimed(r, token, expiry) ==
  [r EXCEPT !.status = "preflight", !.attemptCount = token,
            !.leaseToken = token, !.leaseExpiresAt = expiry]

Advanced(r, phase) == [r EXCEPT !.status = phase]

Finished(r, status, availableAt) ==
  [r EXCEPT !.status = status, !.availableAt = availableAt,
            !.leaseToken = NoToken, !.leaseExpiresAt = 0]

Renewed(r, expiry) == [r EXCEPT !.leaseExpiresAt = expiry]

(* What a worker keeps in memory *)

AtPlace(r, place) == [r EXCEPT !.at = place]
Throwing(r, kind) == [r EXCEPT !.at = "failing", !.failure = kind]
Stamping(r, phase) == [r EXCEPT !.at = "stamp", !.phase = phase]
Claimant(j, token, m) ==
  [IdleWorker EXCEPT !.at = "start", !.job = j, !.leaseToken = token, !.maxAttempts = m]

Goto(w, place) == worker' = [worker EXCEPT ![w] = AtPlace(worker[w], place)]
Throw(w, kind) == worker' = [worker EXCEPT ![w] = Throwing(worker[w], kind)]

-----------------------------------------------------------------------------
(* Requests from the dashboard and the scheduler *)

\* enqueue: ON CONFLICT (idempotency_key) DO NOTHING, so only a new key inserts.
Enqueue(j) ==
  /\ job[j].status = "absent"
  /\ \E m \in 1..AttemptCap :
       job' = [job EXCEPT ![j] = Queued(job[j], m)]
  /\ UNCHANGED <<attempt, lock, worker, beat, crashes>>

\* requestCancellation: a queued job ends at once, an active one is flagged.
RequestCancellation(j) ==
  /\ job[j].status = "queued" \/ Active(j)
  /\ ~RowLocked(j)
  /\ job' = [job EXCEPT ![j] = AskedToStop(job[j])]
  /\ UNCHANGED <<attempt, lock, worker, beat, crashes>>

\* Mutant: any terminal job may be retried.
RetryAnyTerminal(j) ==
  /\ Terminal(j)
  /\ job[j].attemptCount < AttemptBound
  /\ \E k \in 1..MaxAdditional : job' = [job EXCEPT ![j] = Retried(job[j], k)]
  /\ UNCHANGED <<attempt, lock, worker, beat, crashes>>

\* retry: an administrator requeues a failed or needs-attention job.
Retry(j) ==
  /\ job[j].status \in {"failed", "needs-attention"}
  /\ job[j].attemptCount < AttemptBound
  /\ \E k \in 1..MaxAdditional :
       job' = [job EXCEPT ![j] = Retried(job[j], k)]
  /\ UNCHANGED <<attempt, lock, worker, beat, crashes>>

-----------------------------------------------------------------------------
(* runNext up to the claim *)

RunNext(w) ==
  /\ worker[w].at = "idle"
  /\ worker' = [worker EXCEPT ![w] = AtPlace(IdleWorker, "recover")]
  /\ UNCHANGED <<job, attempt, lock, beat, crashes>>

\* Mutant: jobs in preflight are not looked for.
StaleAfterPreflight(t) ==
  {j \in Jobs : job[j].status \in {"running", "verifying"}
                  /\ job[j].leaseExpiresAt <= t /\ ~RowLocked(j)}

\* Active jobs whose lease has run out at time t and whose row SKIP LOCKED sees.
Stale(t) ==
  {j \in Jobs : Active(j) /\ job[j].leaseExpiresAt <= t /\ ~RowLocked(j)}

\* Mutant: the attempt row is left open.
RecoverStaleOnly(w) ==
  LET stale == Stale(worker[w].now) IN
  /\ worker[w].at = "recover"
  /\ job' = [j \in Jobs |-> IF j \in stale THEN Recovered(job[j], worker[w].now) ELSE job[j]]
  /\ lock' = [o \in Operations |-> IF lock[o].job \in stale THEN NoLock ELSE lock[o]]
  /\ Goto(w, "claim")
  /\ UNCHANGED <<attempt, beat, crashes>>

\* Mutant: the operation locks are not deleted.
RecoverStaleKeepingLocks(w) ==
  LET stale == Stale(worker[w].now) IN
  /\ worker[w].at = "recover"
  /\ job' = [j \in Jobs |-> IF j \in stale THEN Recovered(job[j], worker[w].now) ELSE job[j]]
  /\ attempt' = [j \in Jobs |->
       IF j \in stale THEN NewestSetTo(j, "interrupted") ELSE attempt[j]]
  /\ Goto(w, "claim")
  /\ UNCHANGED <<lock, beat, crashes>>

\* recoverStale: requeue or park every stale job and drop its operation locks.
RecoverStale(w) ==
  LET stale == Stale(worker[w].now) IN
  /\ worker[w].at = "recover"
  /\ job' = [j \in Jobs |-> IF j \in stale THEN Recovered(job[j], worker[w].now) ELSE job[j]]
  /\ attempt' = [j \in Jobs |->
       IF j \in stale THEN NewestSetTo(j, "interrupted") ELSE attempt[j]]
  /\ lock' = [o \in Operations |-> IF lock[o].job \in stale THEN NoLock ELSE lock[o]]
  /\ Goto(w, "claim")
  /\ UNCHANGED <<beat, crashes>>

\* Rows the claim's SELECT ... FOR UPDATE SKIP LOCKED returns at time t.
Candidate(j, t) ==
  /\ job[j].status = "queued"
  /\ job[j].availableAt <= t
  /\ ~job[j].cancellationRequested
  /\ ~RowLocked(j)

\* INSERT ... ON CONFLICT DO UPDATE ... WHERE lease_expires_at <= now
Obtainable(o, t) == lock[o].job = NoJob \/ lock[o].leaseExpiresAt <= t

Claimable(t) == {j \in Jobs : Candidate(j, t) /\ Obtainable(OperationOf[j], t)}

\* claimNext, a candidate whose operation lock could be taken.  The lease runs
\* from the `now' captured before recoverStale.
ClaimNext(w, j) ==
  LET now == worker[w].now
      token == job[j].attemptCount + 1
      expiry == now + LeaseSeconds IN
  /\ worker[w].at = "claim"
  /\ j \in Claimable(now)
  /\ lock' = [lock EXCEPT ![OperationOf[j]] =
       [job |-> j, leaseToken |-> token, leaseExpiresAt |-> expiry]]
  /\ job' = [job EXCEPT ![j] = Claimed(job[j], token, expiry)]
  /\ attempt' = [attempt EXCEPT ![j] = Append(@, "preflight")]
  /\ worker' = [worker EXCEPT ![w] = Claimant(j, token, job[j].maxAttempts)]
  /\ UNCHANGED <<beat, crashes>>

\* claimNext, nothing to claim.
NothingToClaim(w) ==
  /\ worker[w].at = "claim"
  /\ Claimable(worker[w].now) = {}
  /\ worker' = [worker EXCEPT ![w] = IdleWorker]
  /\ UNCHANGED <<job, attempt, lock, beat, crashes>>

-----------------------------------------------------------------------------
(* runNext under a claim *)

NextPhase(p) == IF p = "preflight" THEN "running" ELSE "verifying"

\* throwIfCancellationRequested, then on to `place'.  A claim that is no longer
\* current is an ordinary error.
CancellationCheck(w, place) ==
  /\ \/ Holds(w) /\ job[worker[w].job].cancellationRequested /\ Throw(w, "cancelled")
     \/ Holds(w) /\ ~job[worker[w].job].cancellationRequested /\ Goto(w, place)
     \/ ~Holds(w) /\ Throw(w, "transient")
  /\ UNCHANGED <<job, attempt, lock, beat, crashes>>

\* The check before preflight, after the handler was found.
Start(w) == worker[w].at = "start" /\ CancellationCheck(w, "handle")

\* The check after each of preflight, execute and verify.
Check(w) == worker[w].at = "check" /\ CancellationCheck(w, "advance")

\* No handler is registered for the job's type.
HandlerMissing(w) ==
  /\ worker[w].at = "start"
  /\ Throw(w, "needs-attention")
  /\ UNCHANGED <<job, attempt, lock, beat, crashes>>

\* The handler's preflight, execute or verify returns or throws.
Handle(w) ==
  /\ worker[w].at = "handle"
  /\ \/ Goto(w, "check")
     \/ \E kind \in {"permanent", "needs-attention", "transient"} : Throw(w, kind)
     \/ Holds(w) /\ job[worker[w].job].cancellationRequested /\ Throw(w, "cancelled")
  /\ UNCHANGED <<job, attempt, lock, beat, crashes>>

\* transitionActive, the statement on automation_jobs.
Transition(w) ==
  LET j == worker[w].job
      p == worker[w].phase IN
  /\ worker[w].at = "advance" /\ p # "verifying"
  /\ IF Holds(w) /\ job[j].status = p
     THEN /\ ~RowLocked(j)
          /\ job' = [job EXCEPT ![j] = Advanced(job[j], NextPhase(p))]
          /\ worker' = [worker EXCEPT ![w] = Stamping(worker[w], NextPhase(p))]
     ELSE Throw(w, "transient") /\ UNCHANGED job
  /\ UNCHANGED <<attempt, lock, beat, crashes>>

\* transitionActive, the statement on automation_job_attempts, which runs
\* outside a transaction and does not name the claim.
Stamp(w) ==
  LET j == worker[w].job IN
  /\ worker[w].at = "stamp"
  /\ attempt' = [attempt EXCEPT ![j] = NewestSetTo(j, worker[w].phase)]
  /\ Goto(w, "handle")
  /\ UNCHANGED <<job, lock, beat, crashes>>

\* Mutant: the operation lock is not deleted.
FinishClaimKeepingLock(w, status, attemptStatus, availableAt) ==
  LET j == worker[w].job IN
  /\ ~RowLocked(j)
  /\ job' = [job EXCEPT ![j] = Finished(job[j], status, availableAt)]
  /\ attempt' = [attempt EXCEPT ![j] = NewestSetTo(j, attemptStatus)]
  /\ UNCHANGED lock

\* finishClaim on a current claim: close the attempt, give up lease and lock.
FinishClaim(w, status, attemptStatus, availableAt) ==
  LET j == worker[w].job IN
  /\ ~RowLocked(j)
  /\ job' = [job EXCEPT ![j] = Finished(job[j], status, availableAt)]
  /\ attempt' = [attempt EXCEPT ![j] = NewestSetTo(j, attemptStatus)]
  /\ lock' = [o \in Operations |->
       IF lock[o].job = j /\ lock[o].leaseToken = worker[w].leaseToken
       THEN NoLock ELSE lock[o]]

\* finishSucceeded after the last check; the result is then read and audited.
Succeed(w) ==
  LET j == worker[w].job IN
  /\ worker[w].at = "advance" /\ worker[w].phase = "verifying"
  /\ IF Holds(w) /\ Active(j)
     THEN /\ FinishClaim(w, "succeeded", "succeeded", job[j].availableAt)
          /\ Goto(w, "succeeded")
     ELSE Throw(w, "transient") /\ UNCHANGED <<job, attempt, lock>>
  /\ UNCHANGED <<beat, crashes>>

\* The success was audited and runNext returns.
Audited(w) ==
  /\ worker[w].at = "succeeded"
  /\ worker' = [worker EXCEPT ![w] = IdleWorker]
  /\ UNCHANGED <<job, attempt, lock, beat, crashes>>

\* Any awaited statement inside the try block may throw.
StatementFails(w) ==
  /\ worker[w].at \in {"start", "check", "advance", "stamp", "succeeded"}
  /\ Throw(w, "transient")
  /\ UNCHANGED <<job, attempt, lock, beat, crashes>>

\* The catch block's verdict, from the error and the claimed snapshot.
Verdict(w) ==
  CASE worker[w].failure = "cancelled" -> "cancelled"
    [] worker[w].failure = "permanent" -> "failed"
    [] worker[w].failure = "needs-attention" -> "needs-attention"
    [] OTHER -> IF worker[w].leaseToken < worker[w].maxAttempts
                THEN "queued" ELSE "needs-attention"

\* retryDelayMilliseconds: the one delay after attempt n.
RetryDelay(n) ==
  {d \in 0..RetryCap : d = LeastOf(RetryCap, RetryBase * 2^(n - 1))}

\* The catch block: finishClaim, whose own failure is swallowed.
Fail(w) ==
  LET j == worker[w].job
      verdict == Verdict(w) IN
  /\ worker[w].at = "failing"
  /\ IF Holds(w) /\ Active(j)
     THEN \E d \in RetryDelay(worker[w].leaseToken) :
            FinishClaim(w, verdict,
                        IF verdict = "cancelled" THEN "cancelled" ELSE "failed",
                        IF verdict = "queued" THEN d ELSE job[j].availableAt)
     ELSE UNCHANGED <<job, attempt, lock>>
  /\ worker' = [worker EXCEPT ![w] = IdleWorker]
  /\ UNCHANGED <<beat, crashes>>

\* finishClaim itself fails in the catch block, which swallows the error: the
\* process goes on and the job keeps its lease.
FinishLost(w) ==
  /\ worker[w].at = "failing" /\ ~beat[w].open
  /\ worker' = [worker EXCEPT ![w] = IdleWorker]
  /\ UNCHANGED <<job, attempt, lock, beat, crashes>>

-----------------------------------------------------------------------------
(* Heartbeats, crashes and time *)

\* heartbeat, the UPDATE of the job row; the row stays locked until commit.
Heartbeat(w) ==
  LET j == worker[w].job IN
  /\ ~beat[w].open
  /\ Holds(w) /\ Active(j) /\ ~RowLocked(j)
  /\ beat' = [beat EXCEPT ![w] = [open |-> TRUE, leaseExpiresAt |-> LeaseSeconds]]
  /\ UNCHANGED <<job, attempt, lock, worker, crashes>>

\* heartbeat, the UPDATE of the lock row (no row is not an error) and commit.
HeartbeatCommit(w) ==
  LET j == worker[w].job
      expiry == beat[w].leaseExpiresAt IN
  /\ beat[w].open
  /\ job' = [job EXCEPT ![j] = Renewed(job[j], expiry)]
  /\ lock' = [o \in Operations |->
       IF lock[o].job = j /\ lock[o].leaseToken = worker[w].leaseToken
       THEN Renewed(lock[o], expiry) ELSE lock[o]]
  /\ beat' = [beat EXCEPT ![w] = NoBeat]
  /\ UNCHANGED <<attempt, worker, crashes>>

\* The process dies (any error outside the try block ends it too) and is
\* restarted; an open transaction is rolled back.
Crash(w) ==
  /\ crashes < CrashBound
  /\ worker[w].at # "idle"
  /\ crashes' = crashes + 1
  /\ worker' = [worker EXCEPT ![w] = IdleWorker]
  /\ beat' = [beat EXCEPT ![w] = NoBeat]
  /\ UNCHANGED <<job, attempt, lock>>

Older(t) == IF t > -MaxStall THEN t - 1 ELSE t
OlderJob(r) ==
  [r EXCEPT !.availableAt = IF r.status = "absent" THEN @ ELSE Older(@),
            !.leaseExpiresAt = IF r.leaseToken = NoToken THEN @ ELSE Older(@)]
OlderLock(r) == [r EXCEPT !.leaseExpiresAt = IF r.job = NoJob THEN @ ELSE Older(@)]
OlderBeat(r) == [r EXCEPT !.leaseExpiresAt = IF r.open THEN Older(@) ELSE @]
OlderWorker(r) == [r EXCEPT !.now = IF r.at \in {"recover", "claim"} THEN @ - 1 ELSE @]

\* One unit of time passes.  A worker between capturing `now' and its claim
\* is delayed by at most MaxStall.
Tick ==
  /\ \A w \in Workers : worker[w].at \in {"recover", "claim"} => worker[w].now > -MaxStall
  /\ job' = [j \in Jobs |-> OlderJob(job[j])]
  /\ lock' = [o \in Operations |-> OlderLock(lock[o])]
  /\ worker' = [w \in Workers |-> OlderWorker(worker[w])]
  /\ beat' = [w \in Workers |-> OlderBeat(beat[w])]
  /\ UNCHANGED <<attempt, crashes>>

-----------------------------------------------------------------------------
Init ==
  /\ job = [j \in Jobs |-> AbsentJob]
  /\ attempt = [j \in Jobs |-> <<>>]
  /\ lock = [o \in Operations |-> NoLock]
  /\ worker = [w \in Workers |-> IdleWorker]
  /\ beat = [w \in Workers |-> NoBeat]
  /\ crashes = 0

Request == \E j \in Jobs : Enqueue(j) \/ RequestCancellation(j) \/ Retry(j)

\* What the process does of its own accord, in program order.
Work(w) ==
  \/ RunNext(w) \/ RecoverStale(w) \/ NothingToClaim(w)
  \/ \E j \in Jobs : ClaimNext(w, j)
  \/ Start(w) \/ Check(w) \/ Handle(w)
  \/ Transition(w) \/ Stamp(w) \/ Succeed(w) \/ Audited(w) \/ Fail(w)

Disturbance(w) ==
  \/ HandlerMissing(w) \/ StatementFails(w) \/ FinishLost(w)
  \/ Heartbeat(w) \/ Crash(w)

Next ==
  \/ Request
  \/ \E w \in Workers : Work(w) \/ HeartbeatCommit(w) \/ Disturbance(w)
  \/ Tick

Spec == Init /\ [][Next]_vars

\* Processes run, statements return, time passes.  A statement that waits for
\* a row lock is queued by PostgreSQL and cannot be overtaken for ever by the
\* next heartbeat, hence strong fairness for Work.
FairSpec ==
  /\ Spec
  /\ \A w \in Workers : SF_vars(Work(w)) /\ WF_vars(HeartbeatCommit(w))
  /\ SF_vars(Tick)
=============================================================================
