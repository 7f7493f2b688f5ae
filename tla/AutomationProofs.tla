-------------------------- MODULE AutomationProofs --------------------------
(***************************************************************************)
(* The safety properties of the automation engine, for any number of       *)
(* workers, jobs and operations and any limits.                            *)
(***************************************************************************)
EXTENDS AutomationProps, TLAPS

(***************************************************************************)
(* The inductive invariant.  The properties do not carry themselves: a     *)
(* worker's stale token must be known to lie in the past, so that no later *)
(* claim makes it current again, and the limit in the claimed snapshot     *)
(* must still be the job's while the claim is current.                     *)
(***************************************************************************)

\* No worker's token is ahead of its job's attempts.
TokenOfPastClaim ==
  \A w \in Workers :
    worker[w].leaseToken # NoToken =>
      /\ worker[w].job \in Jobs
      /\ worker[w].leaseToken <= job[worker[w].job].attemptCount

\* While a claim is current, its snapshot of max_attempts is the job's.
HolderKnowsLimit ==
  \A w \in Workers : Holds(w) => worker[w].maxAttempts = job[worker[w].job].maxAttempts

\* A key no request was made under has no attempts.
AbsentIsFresh ==
  \A j \in Jobs : job[j].status = "absent" => job[j].attemptCount = 0

IInv ==
  /\ TypeOK
  /\ LeaseMatchesStatus /\ OneOpenAttempt /\ LockOfActiveJob
  /\ SoleHolder /\ HolderKnowsPhase /\ AttemptLeft
  /\ TokenOfPastClaim /\ HolderKnowsLimit /\ AbsentIsFresh

-----------------------------------------------------------------------------
(* Steps that leave every job's place, claim and attempts alone *)

KeepsClaim(w) ==
  /\ worker'[w].job = worker[w].job
  /\ worker'[w].leaseToken = worker[w].leaseToken
  /\ worker'[w].phase = worker[w].phase
  /\ worker'[w].maxAttempts = worker[w].maxAttempts
DropsClaim(w) == worker'[w].leaseToken = NoToken
KeepsPlace(j) ==
  /\ job'[j].status = job[j].status
  /\ job'[j].attemptCount = job[j].attemptCount
  /\ job'[j].maxAttempts = job[j].maxAttempts
  /\ job'[j].leaseToken = job[j].leaseToken
KeepsOwner(o) ==
  lock'[o].job = lock[o].job /\ lock'[o].leaseToken = lock[o].leaseToken

\* A step that changes only timestamps, flags and local control, and in which
\* workers keep or forget their claims, preserves the invariant.
LEMMA QuietStep ==
  ASSUME IInv, TypeOK', attempt' = attempt,
         \A j \in Jobs : KeepsPlace(j),
         \A o \in Operations : KeepsOwner(o),
         \A w \in Workers : KeepsClaim(w) \/ DropsClaim(w)
  PROVE  IInv'
<1> USE DEF IInv, KeepsPlace, KeepsOwner, KeepsClaim, DropsClaim
<1>1. LeaseMatchesStatus' /\ OneOpenAttempt' /\ AttemptLeft' /\ AbsentIsFresh'
  BY DEF LeaseMatchesStatus, OneOpenAttempt, AttemptLeft, AbsentIsFresh, Active
<1>2. LockOfActiveJob'
  BY DEF LockOfActiveJob, Active
<1>3. TokenOfPastClaim'
  BY DEF TokenOfPastClaim
<1>4. \A w \in Workers : Holds(w)' => Holds(w) /\ KeepsClaim(w)
  BY <1>3 DEF Holds, TokenOfPastClaim
<1>5. SoleHolder' /\ HolderKnowsPhase' /\ HolderKnowsLimit'
  BY <1>4 DEF SoleHolder, HolderKnowsPhase, HolderKnowsLimit, Holds
<1> QED
  BY <1>1, <1>2, <1>3, <1>5

-----------------------------------------------------------------------------
(* The attempts of a job *)

\* Appending an attempt keeps the others and their numbers.
LEMMA AppendKeepsAttempts ==
  ASSUME NEW s \in Seq(AttemptStatus), NEW e \in AttemptStatus
  PROVE  /\ Append(s, e) \in Seq(AttemptStatus)
         /\ Len(Append(s, e)) = Len(s) + 1
         /\ DOMAIN Append(s, e) = DOMAIN s \cup {Len(s) + 1}
         /\ \A n \in DOMAIN s : Append(s, e)[n] = s[n]
         /\ Append(s, e)[Len(s) + 1] = e
  OBVIOUS

\* Writing an attempt row keeps the number of rows and every closed row.
LEMMA NewestSetKeepsAttempts ==
  ASSUME attempt \in [Jobs -> Seq(AttemptStatus)],
         NEW j \in Jobs, NEW s \in AttemptStatus
  PROVE  /\ NewestSetTo(j, s) \in Seq(AttemptStatus)
         /\ Len(NewestSetTo(j, s)) = Len(attempt[j])
         /\ DOMAIN NewestSetTo(j, s) = DOMAIN attempt[j]
         /\ \A n \in DOMAIN attempt[j] :
              NewestSetTo(j, s)[n] =
                IF n = job[j].attemptCount /\ attempt[j][n] \in ActiveStatus
                THEN s ELSE attempt[j][n]
  BY DEF NewestSetTo

-----------------------------------------------------------------------------
(* The UPDATE statements keep rows in their type and touch what they name *)

LEMMA QueuedRow ==
  ASSUME NEW r \in JobRow, NEW m \in 1..AttemptCap
  PROVE  /\ Queued(r, m) \in JobRow
         /\ Queued(r, m).status = "queued" /\ Queued(r, m).maxAttempts = m
         /\ Queued(r, m).attemptCount = r.attemptCount
         /\ Queued(r, m).leaseToken = r.leaseToken
<1>1. m \in 0..AttemptCap
  BY LimitAssumption
<1>2. "queued" \in JobStatus
  BY DEF JobStatus
<1>3. Queued(r, m) \in JobRow
  BY <1>1, <1>2 DEF JobRow, Queued
<1> QED
  BY <1>3 DEF JobRow, Queued

LEMMA AskedToStopRow ==
  ASSUME NEW r \in JobRow
  PROVE  /\ AskedToStop(r) \in JobRow
         /\ AskedToStop(r).attemptCount = r.attemptCount
         /\ AskedToStop(r).maxAttempts = r.maxAttempts
         /\ AskedToStop(r).leaseToken = r.leaseToken
         /\ AskedToStop(r).status = IF r.status = "queued" THEN "cancelled" ELSE r.status
  BY DEF JobRow, JobStatus, TerminalStatus, AskedToStop

LEMMA RetriedRow ==
  ASSUME NEW r \in JobRow, NEW k \in 1..MaxAdditional
  PROVE  /\ Retried(r, k) \in JobRow
         /\ Retried(r, k).status = "queued"
         /\ Retried(r, k).attemptCount = r.attemptCount
         /\ Retried(r, k).leaseToken = r.leaseToken
         /\ \/ Retried(r, k).maxAttempts > r.attemptCount
            \/ Retried(r, k).maxAttempts = AttemptCap
<1>1. LeastOf(AttemptCap, r.attemptCount + k) \in 0..AttemptCap
  BY LimitAssumption DEF JobRow, LeastOf
<1>2. LeastOf(AttemptCap, r.attemptCount + k) > r.attemptCount
        \/ LeastOf(AttemptCap, r.attemptCount + k) = AttemptCap
  BY LimitAssumption DEF JobRow, LeastOf
<1>3. "queued" \in JobStatus /\ 0 \in Int
  BY DEF JobStatus
<1>4. Retried(r, k) \in JobRow
  BY <1>1, <1>3 DEF JobRow, Retried
<1> QED
  BY <1>2, <1>4 DEF JobRow, Retried

LEMMA RecoveredRow ==
  ASSUME NEW r \in JobRow, NEW t \in Int
  PROVE  /\ Recovered(r, t) \in JobRow
         /\ Recovered(r, t).status =
              IF r.attemptCount < r.maxAttempts THEN "queued" ELSE "needs-attention"
         /\ Recovered(r, t).attemptCount = r.attemptCount
         /\ Recovered(r, t).maxAttempts = r.maxAttempts
         /\ Recovered(r, t).leaseToken = NoToken
<1>1. {"queued", "needs-attention"} \subseteq JobStatus /\ NoToken \in Nat /\ 0 \in Int
  BY DEF JobStatus, TerminalStatus, NoToken
<1>2. Recovered(r, t) \in JobRow
  BY <1>1 DEF JobRow, Recovered
<1> QED
  BY <1>2 DEF JobRow, Recovered

LEMMA ClaimedRow ==
  ASSUME NEW r \in JobRow, NEW token \in Nat, NEW t \in Int
  PROVE  /\ Claimed(r, token, t) \in JobRow
         /\ Claimed(r, token, t).status = "preflight"
         /\ Claimed(r, token, t).attemptCount = token
         /\ Claimed(r, token, t).leaseToken = token
         /\ Claimed(r, token, t).maxAttempts = r.maxAttempts
  BY DEF JobRow, JobStatus, ActiveStatus, Claimed

LEMMA AdvancedRow ==
  ASSUME NEW r \in JobRow, NEW phase \in ActiveStatus
  PROVE  /\ Advanced(r, phase) \in JobRow
         /\ Advanced(r, phase).status = phase
         /\ Advanced(r, phase).attemptCount = r.attemptCount
         /\ Advanced(r, phase).maxAttempts = r.maxAttempts
         /\ Advanced(r, phase).leaseToken = r.leaseToken
  BY DEF JobRow, JobStatus, Advanced

LEMMA FinishedRow ==
  ASSUME NEW r \in JobRow, NEW status \in JobStatus, NEW t \in Int
  PROVE  /\ Finished(r, status, t) \in JobRow
         /\ Finished(r, status, t).status = status
         /\ Finished(r, status, t).attemptCount = r.attemptCount
         /\ Finished(r, status, t).maxAttempts = r.maxAttempts
         /\ Finished(r, status, t).leaseToken = NoToken
<1>1. NoToken \in Nat /\ 0 \in Int
  BY DEF NoToken
<1>2. Finished(r, status, t) \in JobRow
  BY <1>1 DEF JobRow, Finished
<1> QED
  BY <1>2 DEF JobRow, Finished

LEMMA RenewedRow ==
  ASSUME NEW r \in JobRow, NEW t \in Int
  PROVE  /\ Renewed(r, t) \in JobRow
         /\ Renewed(r, t).status = r.status
         /\ Renewed(r, t).attemptCount = r.attemptCount
         /\ Renewed(r, t).maxAttempts = r.maxAttempts
         /\ Renewed(r, t).leaseToken = r.leaseToken
  BY DEF JobRow, Renewed

LEMMA RenewedLock ==
  ASSUME NEW r \in LockRow, NEW t \in Int
  PROVE  /\ Renewed(r, t) \in LockRow
         /\ Renewed(r, t).job = r.job /\ Renewed(r, t).leaseToken = r.leaseToken
  BY DEF LockRow, Renewed

LEMMA OlderRows ==
  /\ \A r \in JobRow :
       /\ OlderJob(r) \in JobRow
       /\ OlderJob(r).status = r.status
       /\ OlderJob(r).attemptCount = r.attemptCount
       /\ OlderJob(r).maxAttempts = r.maxAttempts
       /\ OlderJob(r).leaseToken = r.leaseToken
  /\ \A r \in LockRow :
       /\ OlderLock(r) \in LockRow
       /\ OlderLock(r).job = r.job /\ OlderLock(r).leaseToken = r.leaseToken
  /\ \A r \in WorkerState :
       /\ OlderWorker(r) \in WorkerState
       /\ OlderWorker(r).job = r.job /\ OlderWorker(r).leaseToken = r.leaseToken
       /\ OlderWorker(r).phase = r.phase /\ OlderWorker(r).maxAttempts = r.maxAttempts
  /\ \A r \in [open : BOOLEAN, leaseExpiresAt : Int] :
       OlderBeat(r) \in [open : BOOLEAN, leaseExpiresAt : Int]
<1>1. \A t \in Int : Older(t) \in Int
  BY LimitAssumption DEF Older
<1>2. \A r \in JobRow :
       /\ OlderJob(r) \in JobRow
       /\ OlderJob(r).status = r.status
       /\ OlderJob(r).attemptCount = r.attemptCount
       /\ OlderJob(r).maxAttempts = r.maxAttempts
       /\ OlderJob(r).leaseToken = r.leaseToken
  BY <1>1 DEF JobRow, OlderJob
<1>3. \A r \in LockRow :
       /\ OlderLock(r) \in LockRow
       /\ OlderLock(r).job = r.job /\ OlderLock(r).leaseToken = r.leaseToken
  BY <1>1 DEF LockRow, OlderLock
<1>4. \A r \in WorkerState :
       /\ OlderWorker(r) \in WorkerState
       /\ OlderWorker(r).job = r.job /\ OlderWorker(r).leaseToken = r.leaseToken
       /\ OlderWorker(r).phase = r.phase /\ OlderWorker(r).maxAttempts = r.maxAttempts
  BY DEF WorkerState, OlderWorker
<1>5. \A r \in [open : BOOLEAN, leaseExpiresAt : Int] :
       OlderBeat(r) \in [open : BOOLEAN, leaseExpiresAt : Int]
  BY <1>1 DEF OlderBeat
<1> QED
  BY <1>2, <1>3, <1>4, <1>5

LEMMA WorkerRows ==
  ASSUME NEW r \in WorkerState
  PROVE  /\ \A place \in Place :
              /\ AtPlace(r, place) \in WorkerState
              /\ AtPlace(r, place).job = r.job
              /\ AtPlace(r, place).leaseToken = r.leaseToken
              /\ AtPlace(r, place).phase = r.phase
              /\ AtPlace(r, place).maxAttempts = r.maxAttempts
         /\ \A kind \in Failure :
              /\ Throwing(r, kind) \in WorkerState
              /\ Throwing(r, kind).job = r.job
              /\ Throwing(r, kind).leaseToken = r.leaseToken
              /\ Throwing(r, kind).phase = r.phase
              /\ Throwing(r, kind).maxAttempts = r.maxAttempts
         /\ \A phase \in ActiveStatus :
              /\ Stamping(r, phase) \in WorkerState
              /\ Stamping(r, phase).job = r.job
              /\ Stamping(r, phase).leaseToken = r.leaseToken
              /\ Stamping(r, phase).phase = phase
              /\ Stamping(r, phase).maxAttempts = r.maxAttempts
  BY DEF WorkerState, Place, AtPlace, Throwing, Stamping

LEMMA FreshWorkers ==
  /\ IdleWorker \in WorkerState /\ IdleWorker.leaseToken = NoToken
  /\ AtPlace(IdleWorker, "recover") \in WorkerState
  /\ AtPlace(IdleWorker, "recover").leaseToken = NoToken
  /\ \A j \in Jobs, token \in Nat, m \in Nat :
       /\ Claimant(j, token, m) \in WorkerState
       /\ Claimant(j, token, m).job = j
       /\ Claimant(j, token, m).leaseToken = token
       /\ Claimant(j, token, m).phase = "preflight"
       /\ Claimant(j, token, m).maxAttempts = m
<1>1. IdleWorker \in WorkerState /\ IdleWorker.leaseToken = NoToken
        /\ IdleWorker.phase = "preflight"
  BY DEF IdleWorker, WorkerState, Place, ActiveStatus, Failure, NoToken
<1>2. {"start", "recover"} \subseteq Place
  BY DEF Place
<1>3. /\ AtPlace(IdleWorker, "recover") \in WorkerState
      /\ AtPlace(IdleWorker, "recover").leaseToken = NoToken
  BY <1>1, <1>2, WorkerRows
<1>4. ASSUME NEW j \in Jobs, NEW token \in Nat, NEW m \in Nat
      PROVE  /\ Claimant(j, token, m) \in WorkerState
             /\ Claimant(j, token, m).job = j
             /\ Claimant(j, token, m).leaseToken = token
             /\ Claimant(j, token, m).phase = "preflight"
             /\ Claimant(j, token, m).maxAttempts = m
  BY <1>1, <1>2 DEF WorkerState, Claimant
<1> QED
  BY <1>1, <1>3, <1>4

-----------------------------------------------------------------------------
(* Requests *)

LEMMA EnqueueKeepsIInv ==
  ASSUME IInv, NEW j \in Jobs, Enqueue(j)
  PROVE  IInv'
<1> USE DEF IInv, Enqueue
<1>1. PICK m \in 1..AttemptCap : job' = [job EXCEPT ![j] = Queued(job[j], m)]
  OBVIOUS
<1>2. /\ \A i \in Jobs : i # j => job'[i] = job[i]
      /\ job'[j] = Queued(job[j], m) /\ job[j] \in JobRow
  BY <1>1 DEF TypeOK
<1>3. TypeOK'
  BY <1>1, <1>2, QueuedRow DEF TypeOK
<1>4. /\ job'[j].status = "queued" /\ job'[j].maxAttempts = m
      /\ job'[j].attemptCount = 0 /\ job[j].attemptCount = 0
      /\ job'[j].leaseToken = NoToken /\ job[j].leaseToken = NoToken /\ ~Active(j)
  BY <1>2, QueuedRow DEF AbsentIsFresh, LeaseMatchesStatus, Active, ActiveStatus
<1>5. LeaseMatchesStatus' /\ OneOpenAttempt' /\ AttemptLeft' /\ AbsentIsFresh'
  BY <1>2, <1>4 DEF LeaseMatchesStatus, OneOpenAttempt, AttemptLeft, AbsentIsFresh,
                    Active, ActiveStatus
<1>6. LockOfActiveJob'
  BY <1>2, <1>4 DEF LockOfActiveJob, Active
<1>7. TokenOfPastClaim'
  BY <1>2, <1>4 DEF TokenOfPastClaim
<1>8. \A w \in Workers : Holds(w)' => Holds(w) /\ worker[w].job # j
  BY <1>2, <1>4 DEF Holds
<1>9. SoleHolder' /\ HolderKnowsPhase' /\ HolderKnowsLimit'
  BY <1>2, <1>8 DEF SoleHolder, HolderKnowsPhase, HolderKnowsLimit, Holds
<1> QED
  BY <1>3, <1>5, <1>6, <1>7, <1>9

\* A cancellation request leaves leases, attempts and locks alone.
LEMMA RequestCancellationKeepsIInv ==
  ASSUME IInv, NEW j \in Jobs, RequestCancellation(j)
  PROVE  IInv'
<1> USE DEF IInv, RequestCancellation
<1>1. /\ \A i \in Jobs : i # j => job'[i] = job[i]
      /\ job'[j] = AskedToStop(job[j]) /\ job[j] \in JobRow
  BY DEF TypeOK
<1>2. TypeOK'
  BY <1>1, AskedToStopRow DEF TypeOK
<1>3. /\ job'[j].attemptCount = job[j].attemptCount
      /\ job'[j].maxAttempts = job[j].maxAttempts
      /\ job'[j].leaseToken = job[j].leaseToken
      /\ job'[j].status = IF job[j].status = "queued" THEN "cancelled" ELSE job[j].status
  BY <1>1, AskedToStopRow
<1>4. LeaseMatchesStatus' /\ OneOpenAttempt' /\ AttemptLeft' /\ AbsentIsFresh'
  BY <1>1, <1>3 DEF LeaseMatchesStatus, OneOpenAttempt, AttemptLeft, AbsentIsFresh,
                    Active, ActiveStatus
<1>5. LockOfActiveJob'
  BY <1>1, <1>3 DEF LockOfActiveJob, Active, ActiveStatus
<1>6. TokenOfPastClaim'
  BY <1>1, <1>3 DEF TokenOfPastClaim
<1>7. \A w \in Workers : Holds(w)' => Holds(w) /\ job[worker[w].job].status # "queued"
  BY <1>1, <1>3 DEF Holds, LeaseMatchesStatus, Active, ActiveStatus
<1>8. SoleHolder' /\ HolderKnowsPhase' /\ HolderKnowsLimit'
  BY <1>1, <1>3, <1>7 DEF SoleHolder, HolderKnowsPhase, HolderKnowsLimit, Holds
<1> QED
  BY <1>2, <1>4, <1>5, <1>6, <1>8

LEMMA RetryKeepsIInv ==
  ASSUME IInv, NEW j \in Jobs, Retry(j)
  PROVE  IInv'
<1> USE DEF IInv, Retry
<1>1. PICK k \in 1..MaxAdditional : job' = [job EXCEPT ![j] = Retried(job[j], k)]
  OBVIOUS
<1>2. /\ \A i \in Jobs : i # j => job'[i] = job[i]
      /\ job'[j] = Retried(job[j], k) /\ job[j] \in JobRow
  BY <1>1 DEF TypeOK
<1>3. TypeOK'
  BY <1>1, <1>2, RetriedRow DEF TypeOK
<1>4. /\ job'[j].attemptCount = job[j].attemptCount
      /\ job'[j].leaseToken = NoToken /\ job[j].leaseToken = NoToken
      /\ job'[j].status = "queued" /\ ~Active(j)
      /\ job'[j].maxAttempts > job[j].attemptCount \/ job'[j].maxAttempts = AttemptCap
  BY <1>2, RetriedRow DEF LeaseMatchesStatus, Active, ActiveStatus
<1>5. LeaseMatchesStatus' /\ OneOpenAttempt' /\ AttemptLeft' /\ AbsentIsFresh'
  BY <1>2, <1>4 DEF LeaseMatchesStatus, OneOpenAttempt, AttemptLeft, AbsentIsFresh,
                    Active, ActiveStatus
<1>6. LockOfActiveJob'
  BY <1>2, <1>4 DEF LockOfActiveJob, Active
<1>7. TokenOfPastClaim'
  BY <1>2, <1>4 DEF TokenOfPastClaim
<1>8. \A w \in Workers : Holds(w)' => Holds(w) /\ worker[w].job # j
  BY <1>2, <1>4 DEF Holds
<1>9. SoleHolder' /\ HolderKnowsPhase' /\ HolderKnowsLimit'
  BY <1>2, <1>8 DEF SoleHolder, HolderKnowsPhase, HolderKnowsLimit, Holds
<1> QED
  BY <1>3, <1>5, <1>6, <1>7, <1>9

-----------------------------------------------------------------------------
(* Claims and their end *)

\* Several attempts may be interrupted at once; their jobs lose lease and lock.
LEMMA RecoverStaleKeepsIInv ==
  ASSUME IInv, NEW w \in Workers, RecoverStale(w)
  PROVE  IInv'
<1> USE DEF IInv
<1> DEFINE stale == Stale(worker[w].now)
           now == worker[w].now
<1>1. /\ now \in Int /\ \A j \in Jobs : job[j] \in JobRow
      /\ stale \subseteq Jobs /\ \A j \in stale : Active(j) /\ j # NoJob
  BY OperationAssumption DEF TypeOK, WorkerState, Stale
<1>2. /\ job' = [j \in Jobs |-> IF j \in stale THEN Recovered(job[j], now) ELSE job[j]]
      /\ attempt' = [j \in Jobs |->
           IF j \in stale THEN NewestSetTo(j, "interrupted") ELSE attempt[j]]
      /\ lock' = [o \in Operations |-> IF lock[o].job \in stale THEN NoLock ELSE lock[o]]
      /\ worker' = [worker EXCEPT ![w] = AtPlace(worker[w], "claim")]
      /\ beat' = beat /\ crashes' = crashes
  BY DEF RecoverStale, Goto
<1> HIDE DEF stale, now
<1>3. \A j \in Jobs :
        IF j \in stale
        THEN /\ job'[j].status \in {"queued", "needs-attention"}
             /\ job'[j].status = "queued" => job[j].attemptCount < job[j].maxAttempts
             /\ job'[j].attemptCount = job[j].attemptCount
             /\ job'[j].maxAttempts = job[j].maxAttempts
             /\ job'[j].leaseToken = NoToken
        ELSE job'[j] = job[j]
  BY <1>1, <1>2, RecoveredRow
<1>4. "interrupted" \in AttemptStatus /\ "interrupted" \notin ActiveStatus
  BY DEF AttemptStatus, ActiveStatus
<1>5. \A j \in Jobs :
        /\ attempt'[j] \in Seq(AttemptStatus) /\ Len(attempt'[j]) = Len(attempt[j])
        /\ DOMAIN attempt'[j] = DOMAIN attempt[j]
        /\ \A n \in DOMAIN attempt[j] :
             attempt'[j][n] =
               IF j \in stale /\ n = job[j].attemptCount /\ attempt[j][n] \in ActiveStatus
               THEN "interrupted" ELSE attempt[j][n]
  BY <1>2, <1>4, NewestSetKeepsAttempts DEF TypeOK
<1>6. /\ NoLock \in LockRow /\ NoLock.job = NoJob
      /\ AtPlace(worker[w], "claim") \in WorkerState /\ KeepsClaim(w)
      /\ \A v \in Workers : KeepsClaim(v)
  BY <1>2, WorkerRows DEF TypeOK, NoLock, LockRow, NoToken, Place, KeepsClaim
<1>7. TypeOK'
  <2>1. job' \in [Jobs -> JobRow]
    BY <1>1, <1>2, RecoveredRow
  <2>2. attempt' \in [Jobs -> Seq(AttemptStatus)]
    BY <1>2, <1>5
  <2>3. lock' \in [Operations -> LockRow]
    BY <1>2, <1>6 DEF TypeOK
  <2> QED
    BY <1>2, <1>6, <2>1, <2>2, <2>3 DEF TypeOK
<1>8. LeaseMatchesStatus' /\ OneOpenAttempt'
  BY <1>1, <1>3, <1>4, <1>5 DEF LeaseMatchesStatus, OneOpenAttempt, Active, ActiveStatus
<1>9. AttemptLeft' /\ AbsentIsFresh'
  BY <1>3 DEF AttemptLeft, AbsentIsFresh
<1>10. LockOfActiveJob'
  <2> SUFFICES ASSUME NEW o \in Operations, lock'[o].job # NoJob
               PROVE  /\ lock'[o].job \in Jobs
                      /\ job'[lock'[o].job].status \in ActiveStatus
                      /\ OperationOf[lock'[o].job] = o
                      /\ lock'[o].leaseToken = job'[lock'[o].job].leaseToken
    BY DEF LockOfActiveJob, Active
  <2>1. lock'[o] = lock[o] /\ lock[o].job \notin stale
    BY <1>2, <1>6
  <2> QED
    BY <1>3, <2>1 DEF LockOfActiveJob, Active
<1>11. TokenOfPastClaim'
  BY <1>3, <1>6 DEF TokenOfPastClaim, KeepsClaim
<1>12. \A v \in Workers : Holds(v)' => Holds(v) /\ worker[v].job \notin stale
  BY <1>3, <1>6 DEF Holds, KeepsClaim
<1>13. SoleHolder' /\ HolderKnowsPhase' /\ HolderKnowsLimit'
  BY <1>3, <1>6, <1>12 DEF SoleHolder, HolderKnowsPhase, HolderKnowsLimit, Holds, KeepsClaim
<1> QED
  BY <1>7, <1>8, <1>9, <1>10, <1>11, <1>13

\* A claim gets a token ahead of every token a worker remembers.
LEMMA ClaimNextKeepsIInv ==
  ASSUME IInv, NEW w \in Workers, NEW j \in Jobs, ClaimNext(w, j)
  PROVE  IInv'
<1> USE DEF IInv
<1> DEFINE token == job[j].attemptCount + 1
           expiry == worker[w].now + LeaseSeconds
           o == OperationOf[j]
<1>1. /\ job[j] \in JobRow /\ token \in Nat /\ token # NoToken /\ expiry \in Int
      /\ job[j].maxAttempts \in Nat /\ o \in Operations
  BY LimitAssumption, OperationAssumption DEF TypeOK, JobRow, WorkerState, NoToken
<1>2. /\ job' = [job EXCEPT ![j] = Claimed(job[j], token, expiry)]
      /\ attempt' = [attempt EXCEPT ![j] = Append(attempt[j], "preflight")]
      /\ lock' = [lock EXCEPT ![o] =
           [job |-> j, leaseToken |-> token, leaseExpiresAt |-> expiry]]
      /\ worker' = [worker EXCEPT ![w] = Claimant(j, token, job[j].maxAttempts)]
      /\ beat' = beat /\ crashes' = crashes
      /\ job[j].status = "queued" /\ ~Active(j)
  BY DEF ClaimNext, Claimable, Candidate, Active, ActiveStatus
<1> HIDE DEF token, expiry, o
<1>3. /\ \A i \in Jobs : i # j => job'[i] = job[i] /\ attempt'[i] = attempt[i]
      /\ job'[j].status = "preflight" /\ job'[j].attemptCount = token
      /\ job'[j].leaseToken = token /\ job'[j].maxAttempts = job[j].maxAttempts
      /\ attempt'[j] = Append(attempt[j], "preflight")
  <2>1. job'[j] = Claimed(job[j], token, expiry)
          /\ \A i \in Jobs : i # j => job'[i] = job[i]
    BY <1>2 DEF TypeOK
  <2>2. attempt'[j] = Append(attempt[j], "preflight")
          /\ \A i \in Jobs : i # j => attempt'[i] = attempt[i]
    BY <1>2 DEF TypeOK
  <2>3. /\ Claimed(job[j], token, expiry).status = "preflight"
        /\ Claimed(job[j], token, expiry).attemptCount = token
        /\ Claimed(job[j], token, expiry).leaseToken = token
        /\ Claimed(job[j], token, expiry).maxAttempts = job[j].maxAttempts
    <3>1. job[j] \in JobRow /\ token \in Nat /\ expiry \in Int
      BY <1>1
    <3> QED
      BY ONLY <3>1, ClaimedRow, SMTT(30)
  <2> QED
    BY <2>1, <2>2, <2>3
<1>4. /\ \A v \in Workers : v # w => worker'[v] = worker[v]
      /\ worker'[w].job = j /\ worker'[w].leaseToken = token
      /\ worker'[w].phase = "preflight" /\ worker'[w].maxAttempts = job[j].maxAttempts
  BY <1>1, <1>2, FreshWorkers DEF TypeOK
<1>5. "preflight" \in AttemptStatus /\ "preflight" \in ActiveStatus
  BY DEF AttemptStatus, ActiveStatus
<1>6. TypeOK'
  <2>1. job' \in [Jobs -> JobRow]
    BY <1>1, <1>2, ClaimedRow DEF TypeOK
  <2>2. attempt' \in [Jobs -> Seq(AttemptStatus)]
    BY <1>2, <1>5, AppendKeepsAttempts DEF TypeOK
  <2>3. [job |-> j, leaseToken |-> token, leaseExpiresAt |-> expiry] \in LockRow
    BY <1>1 DEF LockRow
  <2>4. lock' \in [Operations -> LockRow]
    BY <1>2, <2>3 DEF TypeOK
  <2>5. worker' \in [Workers -> WorkerState]
    BY <1>1, <1>2, FreshWorkers DEF TypeOK
  <2>6. beat' = beat /\ crashes' = crashes
    BY <1>2
  <2> QED
    BY <2>1, <2>2, <2>4, <2>5, <2>6 DEF TypeOK
<1>7. LeaseMatchesStatus'
  <2>1. Len(attempt'[j]) = token
    BY <1>3, <1>5, AppendKeepsAttempts DEF LeaseMatchesStatus, TypeOK, token
  <2> QED
    BY <1>1, <1>3, <1>5, <2>1 DEF LeaseMatchesStatus, Active
<1>8. OneOpenAttempt'
  <2> SUFFICES ASSUME NEW n \in DOMAIN attempt'[j]
               PROVE  attempt'[j][n] \in ActiveStatus <=> n = token
    BY <1>3, <1>5 DEF OneOpenAttempt, Active
  <2>1. Len(attempt[j]) + 1 = token
    BY DEF LeaseMatchesStatus, token
  <2>2. CASE n \in DOMAIN attempt[j]
    BY <1>2, <1>3, <1>5, <2>1, <2>2, AppendKeepsAttempts DEF OneOpenAttempt, TypeOK
  <2>3. CASE n \notin DOMAIN attempt[j]
    BY <1>3, <1>5, <2>1, <2>3, AppendKeepsAttempts DEF TypeOK
  <2> QED
    BY <2>2, <2>3
<1>9. AttemptLeft' /\ AbsentIsFresh'
  BY <1>3 DEF AttemptLeft, AbsentIsFresh
<1>10. LockOfActiveJob'
  <2>1. ASSUME NEW p \in Operations, p # o, lock'[p].job # NoJob
        PROVE  lock'[p].job # j /\ lock'[p] = lock[p]
    BY <1>2, <2>1 DEF LockOfActiveJob, TypeOK
  <2>2. lock'[o].job = j /\ lock'[o].leaseToken = token
    BY <1>1, <1>2 DEF TypeOK
  <2> QED
    BY <1>3, <1>5, <2>1, <2>2 DEF LockOfActiveJob, Active, o
<1>11. \A v \in Workers :
         worker[v].leaseToken # NoToken /\ worker[v].job = j =>
           worker[v].leaseToken <= token /\ worker[v].leaseToken # token
  BY DEF TokenOfPastClaim, TypeOK, JobRow, WorkerState, token
<1>12. TokenOfPastClaim'
  <2> SUFFICES ASSUME NEW v \in Workers, worker'[v].leaseToken # NoToken
               PROVE  /\ worker'[v].job \in Jobs
                      /\ worker'[v].leaseToken <= job'[worker'[v].job].attemptCount
    BY DEF TokenOfPastClaim
  <2>1. CASE v = w
    BY <1>1, <1>3, <1>4, <2>1
  <2>2. CASE v # w
    BY <1>3, <1>4, <1>11, <2>2 DEF TokenOfPastClaim
  <2> QED
    BY <2>1, <2>2
<1>13. \A v \in Workers : v # w /\ Holds(v)' => Holds(v) /\ worker[v].job # j
  BY <1>3, <1>4, <1>11 DEF Holds
<1>14. SoleHolder' /\ HolderKnowsPhase' /\ HolderKnowsLimit'
  BY <1>3, <1>4, <1>13 DEF SoleHolder, HolderKnowsPhase, HolderKnowsLimit, Holds
<1> QED
  BY <1>6, <1>7, <1>8, <1>9, <1>10, <1>12, <1>14

\* A step in which worker w only moves or throws.
LEMMA LocalStep ==
  ASSUME IInv, NEW w \in Workers, UNCHANGED <<job, attempt, lock, beat, crashes>>,
         \/ \E place \in Place : Goto(w, place)
         \/ \E kind \in Failure : Throw(w, kind)
         \/ worker' = [worker EXCEPT ![w] = IdleWorker]
         \/ worker' = [worker EXCEPT ![w] = AtPlace(IdleWorker, "recover")]
  PROVE  IInv'
<1>1. worker \in [Workers -> WorkerState]
  BY DEF IInv, TypeOK
<1>2. /\ worker' \in [Workers -> WorkerState]
      /\ \A v \in Workers : KeepsClaim(v) \/ DropsClaim(v)
  <2>1. ASSUME NEW place \in Place, Goto(w, place)
        PROVE  /\ worker' \in [Workers -> WorkerState]
               /\ \A v \in Workers : KeepsClaim(v)
    BY <1>1, <2>1, WorkerRows DEF Goto, KeepsClaim
  <2>2. ASSUME NEW kind \in Failure, Throw(w, kind)
        PROVE  /\ worker' \in [Workers -> WorkerState]
               /\ \A v \in Workers : KeepsClaim(v)
    BY <1>1, <2>2, WorkerRows DEF Throw, KeepsClaim
  <2>3. ASSUME NEW r \in WorkerState, r.leaseToken = NoToken,
               worker' = [worker EXCEPT ![w] = r]
        PROVE  /\ worker' \in [Workers -> WorkerState]
               /\ \A v \in Workers : KeepsClaim(v) \/ DropsClaim(v)
    BY <1>1, <2>3 DEF KeepsClaim, DropsClaim
  <2> QED
    BY <2>1, <2>2, <2>3, FreshWorkers
<1>3. TypeOK'
  BY <1>2 DEF IInv, TypeOK
<1>4. /\ \A j \in Jobs : KeepsPlace(j)
      /\ \A o \in Operations : KeepsOwner(o)
  BY DEF KeepsPlace, KeepsOwner
<1> QED
  BY <1>2, <1>3, <1>4, QuietStep

\* transitionActive moves the job row and the holder's phase together.
LEMMA TransitionKeepsIInv ==
  ASSUME IInv, NEW w \in Workers, Transition(w)
  PROVE  IInv'
<1> DEFINE j == worker[w].job
           p == worker[w].phase
<1>1. CASE ~(Holds(w) /\ job[j].status = p)
  <2>1. Throw(w, "transient") /\ UNCHANGED <<job, attempt, lock, beat, crashes>>
    BY <1>1 DEF Transition
  <2>2. "transient" \in Failure
    BY DEF Failure
  <2> QED
    BY <2>1, <2>2, LocalStep
<1>2. CASE Holds(w) /\ job[j].status = p
  <2> USE DEF IInv
  <2> DEFINE q == NextPhase(p)
  <2>1. /\ job' = [job EXCEPT ![j] = Advanced(job[j], q)]
        /\ worker' = [worker EXCEPT ![w] = Stamping(worker[w], q)]
        /\ attempt' = attempt /\ lock' = lock /\ beat' = beat /\ crashes' = crashes
    BY <1>2 DEF Transition
  <2>2. /\ j \in Jobs /\ job[j] \in JobRow /\ worker[w] \in WorkerState
        /\ q \in ActiveStatus /\ p \in ActiveStatus
    BY <1>2 DEF Holds, TypeOK, WorkerState, NextPhase, ActiveStatus
  <2> HIDE DEF q
  <2>3. /\ \A i \in Jobs : i # j => job'[i] = job[i]
        /\ job'[j].status = q /\ job'[j].attemptCount = job[j].attemptCount
        /\ job'[j].maxAttempts = job[j].maxAttempts
        /\ job'[j].leaseToken = job[j].leaseToken
    BY <2>1, <2>2, AdvancedRow DEF TypeOK
  <2>4. /\ \A v \in Workers : v # w => worker'[v] = worker[v]
        /\ worker'[w].job = j /\ worker'[w].leaseToken = worker[w].leaseToken
        /\ worker'[w].phase = q /\ worker'[w].maxAttempts = worker[w].maxAttempts
    BY <2>1, <2>2, WorkerRows DEF TypeOK
  <2>5. TypeOK'
    <3>1. job' \in [Jobs -> JobRow]
      BY <2>1, <2>2, AdvancedRow DEF TypeOK
    <3>2. worker' \in [Workers -> WorkerState]
      BY <2>1, <2>2, WorkerRows DEF TypeOK
    <3> QED
      BY <2>1, <3>1, <3>2 DEF TypeOK
  <2>6. /\ \A i \in Jobs : Active(i)' <=> Active(i)
        /\ job'[j].status \notin {"queued", "absent"}
    BY <1>2, <2>2, <2>3 DEF Active, ActiveStatus
  <2>7. LeaseMatchesStatus' /\ OneOpenAttempt' /\ AttemptLeft' /\ AbsentIsFresh'
    BY <2>1, <2>3, <2>6 DEF LeaseMatchesStatus, OneOpenAttempt, AttemptLeft, AbsentIsFresh
  <2>8. LockOfActiveJob'
    BY <2>1, <2>3, <2>6 DEF LockOfActiveJob
  <2>9. TokenOfPastClaim'
    BY <2>2, <2>3, <2>4 DEF TokenOfPastClaim
  <2>10. \A v \in Workers : Holds(v)' <=> Holds(v)
    BY <2>2, <2>3, <2>4 DEF Holds
  <2>11. \A v \in Workers : v # w /\ Holds(v) => worker[v].job # j
    BY <1>2 DEF SoleHolder
  <2>12. SoleHolder' /\ HolderKnowsPhase' /\ HolderKnowsLimit'
    BY <2>3, <2>4, <2>10, <2>11
       DEF SoleHolder, HolderKnowsPhase, HolderKnowsLimit, Holds
  <2> QED
    BY <2>5, <2>7, <2>8, <2>9, <2>12
<1> QED
  BY <1>1, <1>2

\* The unfenced statement only rewrites an open row with an open status.
LEMMA StampKeepsIInv ==
  ASSUME IInv, NEW w \in Workers, Stamp(w)
  PROVE  IInv'
<1> USE DEF IInv
<1> DEFINE j == worker[w].job
           p == worker[w].phase
<1>1. /\ attempt' = [attempt EXCEPT ![j] = NewestSetTo(j, p)]
      /\ Goto(w, "handle") /\ UNCHANGED <<job, lock, beat, crashes>>
      /\ p \in ActiveStatus /\ p \in AttemptStatus /\ "handle" \in Place
      /\ worker[w] \in WorkerState
  BY DEF Stamp, TypeOK, WorkerState, AttemptStatus, Place
<1> HIDE DEF p
<1>2. \A i \in Jobs :
        /\ attempt'[i] \in Seq(AttemptStatus) /\ Len(attempt'[i]) = Len(attempt[i])
        /\ DOMAIN attempt'[i] = DOMAIN attempt[i]
        /\ \A n \in DOMAIN attempt[i] :
             attempt'[i][n] \in ActiveStatus <=> attempt[i][n] \in ActiveStatus
  <2> SUFFICES ASSUME NEW i \in Jobs
               PROVE  /\ attempt'[i] \in Seq(AttemptStatus)
                      /\ Len(attempt'[i]) = Len(attempt[i])
                      /\ DOMAIN attempt'[i] = DOMAIN attempt[i]
                      /\ \A n \in DOMAIN attempt[i] :
                           attempt'[i][n] \in ActiveStatus <=> attempt[i][n] \in ActiveStatus
    OBVIOUS
  <2>1. CASE i = j
    <3>1. attempt'[i] = NewestSetTo(i, p)
      BY <1>1, <2>1 DEF TypeOK
    <3>2. attempt \in [Jobs -> Seq(AttemptStatus)]
      BY DEF TypeOK
    <3> QED
      BY <1>1, <3>1, <3>2, NewestSetKeepsAttempts
  <2>2. CASE i # j
    BY <1>1, <2>2 DEF TypeOK
  <2> QED
    BY <2>1, <2>2
<1>3. /\ worker' \in [Workers -> WorkerState]
      /\ \A v \in Workers : KeepsClaim(v)
  BY <1>1, WorkerRows DEF Goto, KeepsClaim, TypeOK
<1>4. TypeOK'
  <2>1. attempt' \in [Jobs -> Seq(AttemptStatus)]
    BY <1>1, <1>2 DEF TypeOK
  <2> QED
    BY <1>1, <1>3, <2>1 DEF TypeOK
<1>5. LeaseMatchesStatus' /\ OneOpenAttempt' /\ AttemptLeft' /\ AbsentIsFresh'
  BY <1>1, <1>2 DEF LeaseMatchesStatus, OneOpenAttempt, AttemptLeft, AbsentIsFresh, Active
<1>6. LockOfActiveJob' /\ TokenOfPastClaim'
  BY <1>1, <1>3 DEF LockOfActiveJob, TokenOfPastClaim, Active, KeepsClaim
<1>7. \A v \in Workers : Holds(v)' <=> Holds(v)
  BY <1>1, <1>3 DEF Holds, KeepsClaim
<1>8. SoleHolder' /\ HolderKnowsPhase' /\ HolderKnowsLimit'
  BY <1>1, <1>3, <1>7 DEF SoleHolder, HolderKnowsPhase, HolderKnowsLimit, KeepsClaim
<1> QED
  BY <1>4, <1>5, <1>6, <1>8

\* finishClaim under a current claim closes the attempt and gives everything up.
LEMMA FinishClaimKeepsIInv ==
  ASSUME IInv, NEW w \in Workers, Holds(w),
         NEW status \in TerminalStatus \cup {"queued"},
         status = "queued" => worker[w].leaseToken < worker[w].maxAttempts,
         NEW verdict \in {"succeeded", "failed", "cancelled"},
         NEW t \in Int, FinishClaim(w, status, verdict, t),
         NEW r \in WorkerState, worker' = [worker EXCEPT ![w] = r],
         \/ r.leaseToken = NoToken
         \/ (r.job = worker[w].job /\ r.leaseToken = worker[w].leaseToken),
         beat' = beat, crashes' = crashes
  PROVE  IInv'
<1> USE DEF IInv
<1> DEFINE j == worker[w].job
<1>1. /\ j \in Jobs /\ job[j] \in JobRow /\ status \in JobStatus
      /\ Active(j) /\ worker[w].leaseToken = job[j].leaseToken /\ j # NoJob
      /\ verdict \in AttemptStatus /\ verdict \notin ActiveStatus
  BY OperationAssumption
     DEF Holds, TypeOK, JobStatus, LeaseMatchesStatus, AttemptStatus, ActiveStatus
<1>2. /\ job' = [job EXCEPT ![j] = Finished(job[j], status, t)]
      /\ attempt' = [attempt EXCEPT ![j] = NewestSetTo(j, verdict)]
      /\ lock' = [o \in Operations |->
           IF lock[o].job = j /\ lock[o].leaseToken = worker[w].leaseToken
           THEN NoLock ELSE lock[o]]
  BY DEF FinishClaim
<1>3. /\ \A i \in Jobs : i # j => job'[i] = job[i] /\ attempt'[i] = attempt[i]
      /\ attempt'[j] = NewestSetTo(j, verdict)
      /\ job'[j] = Finished(job[j], status, t)
  BY <1>1, <1>2 DEF TypeOK
<1>4. /\ job'[j].status = status /\ job'[j].attemptCount = job[j].attemptCount
      /\ job'[j].maxAttempts = job[j].maxAttempts /\ job'[j].leaseToken = NoToken
  BY <1>1, <1>3, FinishedRow
<1>5. /\ Len(attempt'[j]) = Len(attempt[j]) /\ DOMAIN attempt'[j] = DOMAIN attempt[j]
      /\ attempt'[j] \in Seq(AttemptStatus)
      /\ \A n \in DOMAIN attempt[j] :
           attempt'[j][n] =
             IF n = job[j].attemptCount /\ attempt[j][n] \in ActiveStatus
             THEN verdict ELSE attempt[j][n]
  BY <1>1, <1>3, NewestSetKeepsAttempts DEF TypeOK
<1>6. NoLock \in LockRow /\ NoLock.job = NoJob
  BY DEF NoLock, LockRow, NoToken
<1>7. TypeOK'
  <2>1. job' \in [Jobs -> JobRow]
    BY <1>1, <1>2, FinishedRow DEF TypeOK
  <2>2. attempt' \in [Jobs -> Seq(AttemptStatus)]
    BY <1>1, <1>2, NewestSetKeepsAttempts DEF TypeOK
  <2>3. lock' \in [Operations -> LockRow]
    BY <1>2, <1>6 DEF TypeOK
  <2>4. worker' \in [Workers -> WorkerState]
    BY DEF TypeOK
  <2> QED
    BY <2>1, <2>2, <2>3, <2>4 DEF TypeOK
<1>8. status \notin ActiveStatus /\ status # "absent"
  BY DEF TerminalStatus, ActiveStatus
<1>9. LeaseMatchesStatus' /\ AbsentIsFresh'
  BY <1>3, <1>4, <1>5, <1>8 DEF LeaseMatchesStatus, AbsentIsFresh, Active
<1>10. OneOpenAttempt'
  BY <1>1, <1>3, <1>4, <1>5, <1>8 DEF OneOpenAttempt, Active
<1>11. AttemptLeft'
  BY <1>1, <1>3, <1>4 DEF AttemptLeft, HolderKnowsLimit, LeaseMatchesStatus
<1>12. LockOfActiveJob'
  <2>1. \A o \in Operations : lock'[o].job # NoJob => lock'[o] = lock[o] /\ lock[o].job # j
    BY <1>1, <1>2, <1>6 DEF LockOfActiveJob
  <2> QED
    BY <1>3, <2>1 DEF LockOfActiveJob, Active
<1>13. /\ \A v \in Workers : v # w => worker'[v] = worker[v]
       /\ worker'[w] = r
  BY DEF TypeOK
<1>14. TokenOfPastClaim'
  BY <1>3, <1>4, <1>13 DEF TokenOfPastClaim
<1>15. \A v \in Workers : Holds(v)' => v # w /\ Holds(v) /\ worker[v].job # j
  BY <1>3, <1>4, <1>13 DEF Holds
<1>16. SoleHolder' /\ HolderKnowsPhase' /\ HolderKnowsLimit'
  BY <1>3, <1>13, <1>15 DEF SoleHolder, HolderKnowsPhase, HolderKnowsLimit, Holds
<1> QED
  BY <1>7, <1>9, <1>10, <1>11, <1>12, <1>14, <1>16

LEMMA SucceedKeepsIInv ==
  ASSUME IInv, NEW w \in Workers, Succeed(w)
  PROVE  IInv'
<1> DEFINE j == worker[w].job
<1>1. CASE ~(Holds(w) /\ Active(j))
  <2>1. Throw(w, "transient") /\ UNCHANGED <<job, attempt, lock, beat, crashes>>
    BY <1>1 DEF Succeed
  <2>2. "transient" \in Failure
    BY DEF Failure
  <2> QED
    BY <2>1, <2>2, LocalStep
<1>2. CASE Holds(w) /\ Active(j)
  <2>1. /\ FinishClaim(w, "succeeded", "succeeded", job[j].availableAt)
        /\ worker' = [worker EXCEPT ![w] = AtPlace(worker[w], "succeeded")]
        /\ beat' = beat /\ crashes' = crashes
    BY <1>2 DEF Succeed, Goto
  <2>2. job[j].availableAt \in Int /\ worker[w] \in WorkerState
    BY <1>2 DEF Holds, IInv, TypeOK, JobRow
  <2>3. "succeeded" \in Place /\ "succeeded" \in TerminalStatus
    BY DEF Place, TerminalStatus
  <2>4. /\ AtPlace(worker[w], "succeeded") \in WorkerState
        /\ AtPlace(worker[w], "succeeded").job = worker[w].job
        /\ AtPlace(worker[w], "succeeded").leaseToken = worker[w].leaseToken
    BY <2>2, <2>3, WorkerRows
  <2> QED
    BY <1>2, <2>1, <2>2, <2>3, <2>4, FinishClaimKeepsIInv
<1> QED
  BY <1>1, <1>2

LEMMA FailKeepsIInv ==
  ASSUME IInv, NEW w \in Workers, Fail(w)
  PROVE  IInv'
<1> DEFINE j == worker[w].job
           s == Verdict(w)
           v == IF s = "cancelled" THEN "cancelled" ELSE "failed"
<1>1. worker' = [worker EXCEPT ![w] = IdleWorker] /\ beat' = beat /\ crashes' = crashes
  BY DEF Fail
<1>2. CASE ~(Holds(w) /\ Active(j))
  <2>1. UNCHANGED <<job, attempt, lock>>
    BY <1>2 DEF Fail
  <2> QED
    BY <1>1, <2>1, LocalStep
<1>3. CASE Holds(w) /\ Active(j)
  <2>1. PICK d \in RetryDelay(worker[w].leaseToken) :
          FinishClaim(w, s, v, IF s = "queued" THEN d ELSE job[j].availableAt)
    BY <1>3 DEF Fail
  <2>2. /\ s \in TerminalStatus \cup {"queued"}
        /\ s = "queued" => worker[w].leaseToken < worker[w].maxAttempts
        /\ v \in {"succeeded", "failed", "cancelled"}
    BY DEF Verdict, TerminalStatus
  <2>3. d \in Int /\ job[j].availableAt \in Int
    BY <1>3 DEF RetryDelay, Holds, IInv, TypeOK, JobRow
  <2> DEFINE t == IF s = "queued" THEN d ELSE job[j].availableAt
  <2>4. t \in Int /\ FinishClaim(w, s, v, t)
    BY <2>1, <2>3
  <2> HIDE DEF s, v, t
  <2>5. IdleWorker \in WorkerState /\ IdleWorker.leaseToken = NoToken
    BY FreshWorkers
  <2> QED
    BY <1>1, <1>3, <2>2, <2>4, <2>5, FinishClaimKeepsIInv
<1> QED
  BY <1>2, <1>3

-----------------------------------------------------------------------------
(* Local steps, heartbeats, crashes and time *)

LEMMA LocalActionsKeepIInv ==
  ASSUME IInv, NEW w \in Workers,
         \/ RunNext(w) \/ NothingToClaim(w) \/ Start(w) \/ Check(w) \/ Handle(w)
         \/ Audited(w) \/ HandlerMissing(w) \/ StatementFails(w) \/ FinishLost(w)
  PROVE  IInv'
<1> USE LocalStep
<1>1. /\ {"handle", "check", "advance"} \subseteq Place
      /\ {"cancelled", "permanent", "needs-attention", "transient"} \subseteq Failure
  BY DEF Place, Failure
<1>2. CASE RunNext(w)
  BY <1>2 DEF RunNext
<1>3. CASE NothingToClaim(w) \/ Audited(w) \/ FinishLost(w)
  BY <1>3 DEF NothingToClaim, Audited, FinishLost
<1>4. CASE Start(w) \/ Check(w)
  BY <1>1, <1>4 DEF Start, Check, CancellationCheck
<1>5. CASE Handle(w)
  BY <1>1, <1>5 DEF Handle
<1>6. CASE HandlerMissing(w) \/ StatementFails(w)
  BY <1>1, <1>6 DEF HandlerMissing, StatementFails
<1> QED
  BY <1>2, <1>3, <1>4, <1>5, <1>6

LEMMA HeartbeatKeepsIInv ==
  ASSUME IInv, NEW w \in Workers, Heartbeat(w) \/ HeartbeatCommit(w)
  PROVE  IInv'
<1>1. CASE Heartbeat(w)
  <2>1. /\ job' = job /\ attempt' = attempt /\ lock' = lock /\ worker' = worker
        /\ beat' = [beat EXCEPT ![w] = [open |-> TRUE, leaseExpiresAt |-> LeaseSeconds]]
        /\ crashes' = crashes
    BY <1>1 DEF Heartbeat
  <2>2. TypeOK'
    BY <2>1, LimitAssumption DEF IInv, TypeOK
  <2>3. /\ \A i \in Jobs : KeepsPlace(i)
        /\ \A o \in Operations : KeepsOwner(o)
        /\ \A v \in Workers : KeepsClaim(v)
    BY <2>1 DEF KeepsPlace, KeepsOwner, KeepsClaim
  <2> QED
    BY <2>1, <2>2, <2>3, QuietStep
<1>2. CASE HeartbeatCommit(w)
  <2> DEFINE j == worker[w].job
             expiry == beat[w].leaseExpiresAt
  <2>1. /\ job' = [job EXCEPT ![j] = Renewed(job[j], expiry)]
        /\ lock' = [o \in Operations |->
             IF lock[o].job = j /\ lock[o].leaseToken = worker[w].leaseToken
             THEN Renewed(lock[o], expiry) ELSE lock[o]]
        /\ beat' = [beat EXCEPT ![w] = NoBeat]
        /\ attempt' = attempt /\ worker' = worker /\ crashes' = crashes
    BY <1>2 DEF HeartbeatCommit
  <2>2. /\ expiry \in Int /\ NoBeat \in [open : BOOLEAN, leaseExpiresAt : Int]
        /\ job \in [Jobs -> JobRow] /\ lock \in [Operations -> LockRow]
    BY DEF IInv, TypeOK, NoBeat
  <2> HIDE DEF expiry
  <2>3. /\ job' \in [Jobs -> JobRow]
        /\ \A i \in Jobs : KeepsPlace(i)
    <3>1. CASE j \in Jobs
      BY <2>1, <2>2, <3>1, RenewedRow DEF KeepsPlace
    <3>2. CASE j \notin Jobs
      BY <2>1, <2>2, <3>2 DEF KeepsPlace
    <3> QED
      BY <3>1, <3>2
  <2>4. /\ lock' \in [Operations -> LockRow]
        /\ \A o \in Operations : KeepsOwner(o)
    BY <2>1, <2>2, RenewedLock DEF KeepsOwner
  <2>5. TypeOK'
    BY <2>1, <2>2, <2>3, <2>4 DEF IInv, TypeOK
  <2>6. \A v \in Workers : KeepsClaim(v)
    BY <2>1 DEF KeepsClaim
  <2> QED
    BY <2>1, <2>3, <2>4, <2>5, <2>6, QuietStep
<1> QED
  BY <1>1, <1>2

LEMMA CrashKeepsIInv ==
  ASSUME IInv, NEW w \in Workers, Crash(w)
  PROVE  IInv'
<1>1. /\ worker' = [worker EXCEPT ![w] = IdleWorker]
      /\ beat' = [beat EXCEPT ![w] = NoBeat]
      /\ job' = job /\ attempt' = attempt /\ lock' = lock
      /\ crashes < CrashBound /\ crashes' = crashes + 1
  BY DEF Crash
<1>2. NoBeat \in [open : BOOLEAN, leaseExpiresAt : Int]
  BY DEF NoBeat
<1>3. TypeOK'
  BY <1>1, <1>2, FreshWorkers, LimitAssumption DEF IInv, TypeOK
<1>4. \A v \in Workers : KeepsClaim(v) \/ DropsClaim(v)
  BY <1>1, FreshWorkers DEF IInv, TypeOK, KeepsClaim, DropsClaim
<1>5. /\ \A j \in Jobs : KeepsPlace(j)
      /\ \A o \in Operations : KeepsOwner(o)
  BY <1>1 DEF KeepsPlace, KeepsOwner
<1> QED
  BY <1>1, <1>3, <1>4, <1>5, QuietStep

LEMMA TickKeepsIInv ==
  ASSUME IInv, Tick
  PROVE  IInv'
<1>1. /\ job' = [j \in Jobs |-> OlderJob(job[j])]
      /\ lock' = [o \in Operations |-> OlderLock(lock[o])]
      /\ worker' = [w \in Workers |-> OlderWorker(worker[w])]
      /\ beat' = [w \in Workers |-> OlderBeat(beat[w])]
      /\ attempt' = attempt /\ crashes' = crashes
  BY DEF Tick
<1>2. TypeOK'
  BY <1>1, OlderRows DEF IInv, TypeOK
<1>3. /\ \A j \in Jobs : KeepsPlace(j)
      /\ \A o \in Operations : KeepsOwner(o)
      /\ \A w \in Workers : KeepsClaim(w)
  BY <1>1, OlderRows DEF IInv, TypeOK, KeepsPlace, KeepsOwner, KeepsClaim
<1> QED
  BY <1>1, <1>2, <1>3, QuietStep

-----------------------------------------------------------------------------
(* The invariant *)

LEMMA InitIInv == Init => IInv
<1> SUFFICES ASSUME Init PROVE IInv
  OBVIOUS
<1> USE DEF Init
<1>1. /\ AbsentJob \in JobRow /\ NoLock \in LockRow /\ IdleWorker \in WorkerState
      /\ NoBeat \in [open : BOOLEAN, leaseExpiresAt : Int]
      /\ IdleWorker.leaseToken = NoToken
  BY LimitAssumption, FreshWorkers
     DEF AbsentJob, JobRow, JobStatus, NoLock, LockRow, NoBeat, NoToken
<1>2. TypeOK
  BY <1>1, LimitAssumption DEF TypeOK
<1>3. \A j \in Jobs : /\ job[j].status = "absent" /\ job[j].attemptCount = 0
                      /\ job[j].leaseToken = NoToken /\ attempt[j] = <<>>
  BY DEF AbsentJob
<1>4. LeaseMatchesStatus /\ OneOpenAttempt /\ AttemptLeft /\ AbsentIsFresh
  BY <1>3 DEF LeaseMatchesStatus, OneOpenAttempt, AttemptLeft, AbsentIsFresh,
              Active, ActiveStatus
<1>5. LockOfActiveJob
  BY DEF LockOfActiveJob, NoLock
<1>6. \A w \in Workers : worker[w].leaseToken = NoToken
  BY <1>1
<1>7. TokenOfPastClaim /\ SoleHolder /\ HolderKnowsPhase /\ HolderKnowsLimit
  BY <1>6 DEF TokenOfPastClaim, SoleHolder, HolderKnowsPhase, HolderKnowsLimit, Holds
<1> QED
  BY <1>2, <1>4, <1>5, <1>7 DEF IInv

LEMMA NextKeepsIInv == IInv /\ [Next]_vars => IInv'
<1> SUFFICES ASSUME IInv, [Next]_vars PROVE IInv'
  OBVIOUS
<1>1. ASSUME NEW j \in Jobs, Enqueue(j) \/ RequestCancellation(j) \/ Retry(j)
      PROVE  IInv'
  BY <1>1, EnqueueKeepsIInv, RequestCancellationKeepsIInv, RetryKeepsIInv
<1>2. ASSUME NEW w \in Workers, Work(w)
      PROVE  IInv'
  BY <1>2, LocalActionsKeepIInv, RecoverStaleKeepsIInv, ClaimNextKeepsIInv,
     TransitionKeepsIInv, StampKeepsIInv, SucceedKeepsIInv, FailKeepsIInv DEF Work
<1>3. ASSUME NEW w \in Workers, HeartbeatCommit(w) \/ Disturbance(w)
      PROVE  IInv'
  BY <1>3, LocalActionsKeepIInv, HeartbeatKeepsIInv, CrashKeepsIInv DEF Disturbance
<1>4. CASE Tick
  BY <1>4, TickKeepsIInv
<1>5. CASE UNCHANGED vars
  <2>1. /\ \A j \in Jobs : KeepsPlace(j)
        /\ \A o \in Operations : KeepsOwner(o)
        /\ \A w \in Workers : KeepsClaim(w)
    BY <1>5 DEF vars, KeepsPlace, KeepsOwner, KeepsClaim
  <2>2. TypeOK' /\ attempt' = attempt
    BY <1>5 DEF vars, IInv, TypeOK
  <2> QED
    BY <2>1, <2>2, QuietStep
<1> QED
  BY <1>1, <1>2, <1>3, <1>4, <1>5 DEF Next, Request

\* The inductive invariant holds in every reachable state of the automation
\* engine, whatever the number of workers and jobs.
THEOREM IInvHolds == Spec => []IInv
  BY InitIInv, NextKeepsIInv, PTL DEF Spec

\* The rows, the workers' snapshots and the open heartbeats keep their types;
\* in particular max_attempts stays within the range its CHECK demands.
THEOREM TypeCorrect == Spec => []TypeOK
<1>1. IInv => TypeOK
  BY DEF IInv
<1> QED
  BY <1>1, IInvHolds, PTL

\* Leases, attempt rows and statuses always agree, only the newest attempt of an
\* active job is open, and a job is only queued with an attempt left or at the cap.
THEOREM AttemptsAreSound == Spec => []AttemptsSound
<1>1. IInv => AttemptsSound
  BY DEF IInv, AttemptsSound, AttemptsMatchClaims
<1> QED
  BY <1>1, IInvHolds, PTL

\* No operation lock outlives the claim it was taken for; a job is held by at most
\* one worker, which knows the job's true phase.
THEOREM ClaimsAreSound == Spec => []ClaimsSound
<1>1. IInv => ClaimsSound
  BY DEF IInv, ClaimsSound, HeldByOne
<1> QED
  BY <1>1, IInvHolds, PTL

-----------------------------------------------------------------------------
(* The ledger: what a step does to a job's place and to its verdicts *)

PlaceFor(s) ==
  IF s = "queued" THEN "waiting" ELSE IF s \in ActiveStatus THEN "working" ELSE s
VerdictsFor(s) == [n \in DOMAIN s |-> VerdictOf(s[n])]

LEMMA LedgerState ==
  /\ \A j \in Jobs : StateOf(j) = PlaceFor(job[j].status)
  /\ \A j \in Jobs : VerdictsOf(j) = VerdictsFor(attempt[j])
  /\ \A j \in Jobs : StateOf(j)' = PlaceFor(job'[j].status)
  /\ \A j \in Jobs : VerdictsOf(j)' = VerdictsFor(attempt'[j])
<1>1. "queued" \notin ActiveStatus
  BY DEF ActiveStatus
<1> QED
  BY <1>1 DEF StateOf, PlaceFor, VerdictsOf, VerdictsFor, Active

LEMMA VerdictsAreSequence ==
  ASSUME NEW s \in Seq(AttemptStatus)
  PROVE  /\ Len(VerdictsFor(s)) = Len(s) /\ DOMAIN VerdictsFor(s) = 1..Len(s)
         /\ \A n \in 1..Len(s) : VerdictsFor(s)[n] = VerdictOf(s[n])
BY DEF VerdictsFor

\* A job whose place and verdicts stay rests.
LEMMA JobRests ==
  ASSUME NEW j \in Jobs, job'[j].status = job[j].status, attempt'[j] = attempt[j]
  PROVE  Ledger!Rests(j)
BY LedgerState DEF Ledger!Rests

\* The moves of a job that open or close no attempt.
LEMMA JobMovesOn ==
  ASSUME NEW j \in Jobs, attempt'[j] = attempt[j],
         \/ job[j].status = "absent" /\ job'[j].status = "queued"
         \/ job[j].status = "queued" /\ job'[j].status = "cancelled"
         \/ job[j].status \in {"failed", "needs-attention"} /\ job'[j].status = "queued"
  PROVE  Ledger!Submit(j) \/ Ledger!Withdraw(j) \/ Ledger!Resubmit(j)
<1>1. PlaceFor("absent") = "absent" /\ PlaceFor("queued") = "waiting" /\ PlaceFor("cancelled") = "cancelled"
      /\ PlaceFor("failed") = "failed" /\ PlaceFor("needs-attention") = "needs-attention"
  BY DEF PlaceFor, ActiveStatus
<1> QED
  BY <1>1, LedgerState DEF Ledger!Submit, Ledger!Withdraw, Ledger!Resubmit, Ledger!Moves

LEMMA JobOpens ==
  ASSUME NEW j \in Jobs, attempt[j] \in Seq(AttemptStatus), NEW e \in ActiveStatus,
         job[j].status = "queued", job'[j].status \in ActiveStatus,
         attempt'[j] = Append(attempt[j], e)
  PROVE  Ledger!Open(j)
<1>1. PlaceFor("queued") = "waiting" /\ PlaceFor(job'[j].status) = "working"
  BY DEF PlaceFor, ActiveStatus
<1>2. e \in AttemptStatus /\ VerdictOf(e) = "open"
  BY DEF AttemptStatus, VerdictOf
<1>3. VerdictsFor(attempt'[j]) = Append(VerdictsFor(attempt[j]), "open")
  BY <1>2, AppendKeepsAttempts DEF VerdictsFor
<1> QED
  BY <1>1, <1>3, LedgerState DEF Ledger!Open, Ledger!Moves

\* The newest attempt of an active job is the open one, and gets the verdict.
LEMMA JobCloses ==
  ASSUME IInv, NEW j \in Jobs, Active(j),
         NEW v \in {"succeeded", "cancelled", "failed", "interrupted"},
         attempt'[j] = NewestSetTo(j, v), PlaceFor(job'[j].status) \in Ledger!Outcome(v)
  PROVE  Ledger!Close(j)
<1>1. /\ attempt[j] \in Seq(AttemptStatus) /\ v \in AttemptStatus /\ VerdictOf(v) = v
      /\ Len(attempt[j]) = job[j].attemptCount /\ Len(attempt[j]) \in DOMAIN attempt[j]
      /\ attempt[j][Len(attempt[j])] \in ActiveStatus
  BY DEF IInv, TypeOK, LeaseMatchesStatus, OneOpenAttempt, AttemptStatus, VerdictOf, ActiveStatus, JobRow, NoToken
<1>2. VerdictsFor(attempt'[j]) = [VerdictsFor(attempt[j]) EXCEPT ![Len(VerdictsFor(attempt[j]))] = v]
  BY <1>1, VerdictsAreSequence DEF NewestSetTo, VerdictsFor
<1>3. PlaceFor(job[j].status) = "working"
  BY DEF Active, PlaceFor, ActiveStatus
<1> QED
  BY <1>2, <1>3, LedgerState DEF Ledger!Close, Ledger!Moves

\* One job moves and the others rest.
LEMMA OneMoves ==
  ASSUME NEW j \in Jobs,
         \A i \in Jobs \ {j} : job'[i].status = job[i].status /\ attempt'[i] = attempt[i],
         \/ Ledger!Submit(j) \/ Ledger!Open(j) \/ Ledger!Close(j)
         \/ Ledger!Withdraw(j) \/ Ledger!Resubmit(j) \/ Ledger!Rests(j)
  PROVE  Ledger!LedgerNext
BY JobRests DEF Ledger!LedgerNext

LEMMA AllRest ==
  ASSUME \A i \in Jobs : job'[i].status = job[i].status /\ attempt'[i] = attempt[i]
  PROVE  Ledger!LedgerNext
BY JobRests DEF Ledger!LedgerNext

LEMMA RequestsRefine ==
  ASSUME IInv, NEW j \in Jobs, Enqueue(j) \/ RequestCancellation(j) \/ Retry(j)
  PROVE  Ledger!LedgerNext
<1>1. job \in [Jobs -> JobRow] /\ job[j] \in JobRow /\ attempt' = attempt
  BY DEF IInv, TypeOK, Enqueue, RequestCancellation, Retry
<1>2. CASE Enqueue(j)
  <2>1. PICK m \in 1..AttemptCap : job' = [job EXCEPT ![j] = Queued(job[j], m)]
    BY <1>2 DEF Enqueue
  <2>2. job'[j].status = "queued" /\ job[j].status = "absent"
    BY <1>1, <1>2, <2>1, QueuedRow DEF Enqueue
  <2> QED
    BY <1>1, <2>1, <2>2, JobMovesOn, OneMoves
<1>3. CASE RequestCancellation(j)
  <2>1. /\ job' = [job EXCEPT ![j] = AskedToStop(job[j])]
        /\ job[j].status = "queued" => job'[j].status = "cancelled"
        /\ job[j].status # "queued" => job'[j].status = job[j].status
    BY <1>1, <1>3, AskedToStopRow DEF RequestCancellation
  <2>2. CASE job[j].status = "queued"
    BY <1>1, <2>1, <2>2, JobMovesOn, OneMoves
  <2>3. CASE job[j].status # "queued"
    BY <1>1, <2>1, <2>3, AllRest
  <2> QED
    BY <2>2, <2>3
<1>4. CASE Retry(j)
  <2>1. PICK k \in 1..MaxAdditional : job' = [job EXCEPT ![j] = Retried(job[j], k)]
    BY <1>4 DEF Retry
  <2>2. job'[j].status = "queued" /\ job[j].status \in {"failed", "needs-attention"}
    BY <1>1, <1>4, <2>1, RetriedRow DEF Retry
  <2> QED
    BY <1>1, <2>1, <2>2, JobMovesOn, OneMoves
<1> QED
  BY <1>2, <1>3, <1>4

LEMMA OutcomesOfJobs ==
  /\ PlaceFor("succeeded") \in Ledger!Outcome("succeeded")
  /\ PlaceFor("cancelled") \in Ledger!Outcome("cancelled")
  /\ \A s \in {"queued", "failed", "needs-attention"} : PlaceFor(s) \in Ledger!Outcome("failed")
  /\ \A s \in {"queued", "needs-attention"} : PlaceFor(s) \in Ledger!Outcome("interrupted")
BY DEF PlaceFor, ActiveStatus, Ledger!Outcome

\* Several jobs may be recovered in one statement.
LEMMA RecoverStaleRefines ==
  ASSUME IInv, NEW w \in Workers, RecoverStale(w)
  PROVE  Ledger!LedgerNext
<1> DEFINE stale == Stale(worker[w].now)
<1>1. /\ \A j \in Jobs : job[j] \in JobRow
      /\ worker[w].now \in Int
      /\ job' = [j \in Jobs |-> IF j \in stale THEN Recovered(job[j], worker[w].now) ELSE job[j]]
      /\ attempt' = [j \in Jobs |-> IF j \in stale THEN NewestSetTo(j, "interrupted") ELSE attempt[j]]
  BY DEF IInv, TypeOK, WorkerState, RecoverStale
<1>2. ASSUME NEW j \in Jobs, j \in stale PROVE Ledger!Close(j)
  <2>1. job'[j].status \in {"queued", "needs-attention"} /\ attempt'[j] = NewestSetTo(j, "interrupted")
    BY <1>1, <1>2, RecoveredRow
  <2>2. Active(j)
    BY <1>2 DEF Stale
  <2> QED
    BY <2>1, <2>2, JobCloses, OutcomesOfJobs
<1>3. ASSUME NEW j \in Jobs, j \notin stale PROVE Ledger!Rests(j)
  BY <1>1, <1>3, JobRests
<1> QED
  BY <1>2, <1>3 DEF Ledger!LedgerNext

LEMMA ClaimNextRefines ==
  ASSUME IInv, NEW w \in Workers, NEW j \in Jobs, ClaimNext(w, j)
  PROVE  Ledger!LedgerNext
<1> DEFINE token == job[j].attemptCount + 1
           expiry == worker[w].now + LeaseSeconds
<1>1. /\ job \in [Jobs -> JobRow] /\ attempt \in [Jobs -> Seq(AttemptStatus)]
      /\ job[j] \in JobRow /\ attempt[j] \in Seq(AttemptStatus)
      /\ token \in Nat /\ expiry \in Int
  BY LimitAssumption DEF IInv, TypeOK, JobRow, WorkerState
<1>2. /\ job[j].status = "queued"
      /\ job' = [job EXCEPT ![j] = Claimed(job[j], token, expiry)]
      /\ attempt' = [attempt EXCEPT ![j] = Append(attempt[j], "preflight")]
  BY DEF ClaimNext, Claimable, Candidate
<1>3. job'[j].status = "preflight" /\ attempt'[j] = Append(attempt[j], "preflight")
  BY <1>1, <1>2, ClaimedRow
<1>4. "preflight" \in ActiveStatus
  BY DEF ActiveStatus
<1>5. Ledger!Open(j)
  BY <1>1, <1>2, <1>3, <1>4, JobOpens
<1> QED
  BY <1>1, <1>2, <1>5, OneMoves

\* The three phases of an active job are one place, and stamps leave its attempt open.
LEMMA PhasesRefine ==
  ASSUME IInv, NEW w \in Workers, Transition(w) \/ Stamp(w)
  PROVE  Ledger!LedgerNext
<1> DEFINE j == worker[w].job
           p == worker[w].phase
<1>1. job \in [Jobs -> JobRow] /\ attempt \in [Jobs -> Seq(AttemptStatus)] /\ p \in ActiveStatus
  BY DEF IInv, TypeOK, WorkerState
<1>2. CASE Transition(w)
  <2>1. CASE job' = job
    BY <1>2, <2>1, AllRest DEF Transition
  <2>2. CASE job' # job
    <3>1. /\ Holds(w) /\ job[j].status = p /\ attempt' = attempt
          /\ job' = [job EXCEPT ![j] = Advanced(job[j], NextPhase(p))]
      BY <1>2, <2>2 DEF Transition
    <3>2. j \in Jobs /\ NextPhase(p) \in ActiveStatus /\ job[j] \in JobRow
      BY <1>1, <3>1 DEF Holds, NextPhase, ActiveStatus
    <3>3. job'[j].status \in ActiveStatus
      BY <1>1, <3>1, <3>2, AdvancedRow
    <3>4. PlaceFor(job'[j].status) = "working" /\ PlaceFor(job[j].status) = "working"
      BY <1>1, <3>1, <3>3 DEF PlaceFor, ActiveStatus
    <3>5. Ledger!Rests(j)
      BY <3>1, <3>2, <3>4, LedgerState DEF Ledger!Rests
    <3> QED
      BY <1>1, <3>1, <3>2, <3>5, OneMoves
  <2> QED
    BY <2>1, <2>2
<1>3. CASE Stamp(w)
  <2>1. job' = job /\ attempt' = [attempt EXCEPT ![j] = NewestSetTo(j, p)]
    BY <1>3 DEF Stamp
  <2>2. CASE j \notin Jobs
    BY <1>1, <2>1, <2>2, AllRest
  <2>3. CASE j \in Jobs
    <3>1. p \in AttemptStatus /\ VerdictOf(p) = "open"
      BY <1>1 DEF AttemptStatus, VerdictOf
    <3>2. VerdictsFor(NewestSetTo(j, p)) = VerdictsFor(attempt[j])
      <4>1. DOMAIN NewestSetTo(j, p) = DOMAIN attempt[j]
        BY <1>1, <2>3, <3>1, NewestSetKeepsAttempts
      <4>2. ASSUME NEW n \in DOMAIN attempt[j]
            PROVE  VerdictOf(NewestSetTo(j, p)[n]) = VerdictOf(attempt[j][n])
        <5>1. NewestSetTo(j, p)[n] = (IF n = job[j].attemptCount /\ attempt[j][n] \in ActiveStatus
                                      THEN p ELSE attempt[j][n])
          BY <1>1, <2>3, <3>1, <4>2, NewestSetKeepsAttempts
        <5>2. CASE n = job[j].attemptCount /\ attempt[j][n] \in ActiveStatus
          BY <3>1, <5>1, <5>2 DEF VerdictOf, ActiveStatus
        <5> QED
          BY <5>1, <5>2
      <4> QED
        BY <4>1, <4>2 DEF VerdictsFor
    <3>3. Ledger!Rests(j)
      BY <1>1, <2>1, <2>3, <3>2, LedgerState DEF Ledger!Rests
    <3> QED
      BY <1>1, <2>1, <2>3, <3>3, OneMoves
  <2> QED
    BY <2>2, <2>3
<1> QED
  BY <1>2, <1>3

\* A finish of the claim that is current closes the attempt with its verdict.
LEMMA FinishRefines ==
  ASSUME IInv, NEW w \in Workers, Holds(w), Active(worker[w].job),
         NEW status \in TerminalStatus \cup {"queued"}, NEW t \in Int,
         NEW v \in {"succeeded", "failed", "cancelled"},
         PlaceFor(status) \in Ledger!Outcome(v),
         FinishClaim(w, status, v, t)
  PROVE  Ledger!LedgerNext
<1> DEFINE j == worker[w].job
<1>1. /\ job \in [Jobs -> JobRow] /\ attempt \in [Jobs -> Seq(AttemptStatus)]
      /\ j \in Jobs /\ job[j] \in JobRow /\ status \in JobStatus
      /\ job' = [job EXCEPT ![j] = Finished(job[j], status, t)]
      /\ attempt' = [attempt EXCEPT ![j] = NewestSetTo(j, v)]
  BY DEF IInv, TypeOK, Holds, FinishClaim, JobStatus
<1>2. job'[j].status = status /\ attempt'[j] = NewestSetTo(j, v)
  BY <1>1, FinishedRow
<1>3. Ledger!Close(j)
  BY <1>1, <1>2, JobCloses
<1> QED
  BY <1>1, <1>3, OneMoves

LEMMA EndsRefine ==
  ASSUME IInv, NEW w \in Workers, Succeed(w) \/ Fail(w)
  PROVE  Ledger!LedgerNext
<1> DEFINE j == worker[w].job
<1>1. CASE job' = job /\ attempt' = attempt
  BY <1>1, AllRest
<1>2. CASE Succeed(w) /\ ~(job' = job /\ attempt' = attempt)
  <2>1. Holds(w) /\ Active(j) /\ FinishClaim(w, "succeeded", "succeeded", job[j].availableAt)
    BY <1>2 DEF Succeed
  <2>2. job[j].availableAt \in Int /\ "succeeded" \in TerminalStatus
    BY <2>1 DEF IInv, TypeOK, Holds, JobRow, TerminalStatus
  <2> QED
    BY <2>1, <2>2, FinishRefines, OutcomesOfJobs
<1>3. CASE Fail(w) /\ ~(job' = job /\ attempt' = attempt)
  <2> DEFINE s == Verdict(w)
             v == IF s = "cancelled" THEN "cancelled" ELSE "failed"
  <2>1. Holds(w) /\ Active(j)
    BY <1>3 DEF Fail
  <2>2. PICK d \in RetryDelay(worker[w].leaseToken) :
          FinishClaim(w, s, v, IF s = "queued" THEN d ELSE job[j].availableAt)
    BY <1>3, <2>1 DEF Fail
  <2>3. s \in {"cancelled", "failed", "needs-attention", "queued"}
    BY DEF Verdict
  <2>4. d \in Int /\ job[j].availableAt \in Int
    BY <2>1, LimitAssumption DEF RetryDelay, IInv, TypeOK, Holds, JobRow
  <2>5. PlaceFor(s) \in Ledger!Outcome(v)
    BY <2>3, OutcomesOfJobs
  <2>6. s \in TerminalStatus \cup {"queued"} /\ v \in {"succeeded", "failed", "cancelled"}
    BY <2>3 DEF TerminalStatus
  <2>7. (IF s = "queued" THEN d ELSE job[j].availableAt) \in Int
    BY <2>4
  <2> HIDE DEF s, v
  <2> QED
    BY <2>1, <2>2, <2>5, <2>6, <2>7, FinishRefines
<1> QED
  BY <1>1, <1>2, <1>3

LEMMA OlderJobKeepsStatus == Tick /\ IInv => \A j \in Jobs : job'[j].status = job[j].status
BY OlderRows DEF Tick, IInv, TypeOK

\* Heartbeats, faults and time leave every job and its verdicts where they are.
LEMMA QuietActionsRefine ==
  ASSUME IInv,
         \/ Tick
         \/ \E w \in Workers :
              \/ RunNext(w) \/ NothingToClaim(w) \/ Start(w) \/ Check(w) \/ Handle(w) \/ Audited(w)
              \/ HandlerMissing(w) \/ StatementFails(w) \/ FinishLost(w)
              \/ Heartbeat(w) \/ HeartbeatCommit(w) \/ Crash(w)
  PROVE  Ledger!LedgerNext
<1>1. CASE Tick
  BY <1>1, OlderJobKeepsStatus, AllRest DEF Tick
<1>2. ASSUME NEW w \in Workers, HeartbeatCommit(w) PROVE Ledger!LedgerNext
  <2>1. /\ job \in [Jobs -> JobRow] /\ beat[w].leaseExpiresAt \in Int /\ attempt' = attempt
        /\ job' = [job EXCEPT ![worker[w].job] = Renewed(job[worker[w].job], beat[w].leaseExpiresAt)]
    BY <1>2 DEF HeartbeatCommit, IInv, TypeOK
  <2>2. \A j \in Jobs : job'[j].status = job[j].status
    BY <2>1, RenewedRow
  <2> QED
    BY <2>1, <2>2, AllRest
<1>3. ASSUME NEW w \in Workers,
             \/ RunNext(w) \/ NothingToClaim(w) \/ Start(w) \/ Check(w) \/ Handle(w) \/ Audited(w)
             \/ HandlerMissing(w) \/ StatementFails(w) \/ FinishLost(w) \/ Heartbeat(w) \/ Crash(w)
      PROVE  job' = job /\ attempt' = attempt
  BY <1>3 DEF RunNext, NothingToClaim, Start, Check, Handle, Audited, HandlerMissing, StatementFails,
              FinishLost, Heartbeat, Crash, CancellationCheck
<1> QED
  BY <1>1, <1>2, <1>3, AllRest

LEMMA StepRefines ==
  IInv /\ [Next]_vars => [Ledger!LedgerNext]_(Ledger!ledgerVars)
<1> SUFFICES ASSUME IInv, [Next]_vars PROVE [Ledger!LedgerNext]_(Ledger!ledgerVars)
  OBVIOUS
<1>1. ASSUME NEW j \in Jobs, Enqueue(j) \/ RequestCancellation(j) \/ Retry(j)
      PROVE  Ledger!LedgerNext
  BY <1>1, RequestsRefine
<1>2. ASSUME NEW w \in Workers, Work(w) \/ HeartbeatCommit(w) \/ Disturbance(w)
      PROVE  Ledger!LedgerNext
  BY <1>2, QuietActionsRefine, RecoverStaleRefines, ClaimNextRefines, PhasesRefine, EndsRefine
     DEF Work, Disturbance
<1>3. CASE Tick
  BY <1>3, QuietActionsRefine
<1>4. CASE UNCHANGED vars
  BY <1>4 DEF vars, Ledger!ledgerVars, StateOf, VerdictsOf, Active
<1> QED
  BY <1>1, <1>2, <1>3, <1>4 DEF Next, Request

LEMMA InitRefines == Init => Ledger!LedgerInit
<1> SUFFICES ASSUME Init PROVE Ledger!LedgerInit
  OBVIOUS
<1>1. \A j \in Jobs : job[j].status = "absent" /\ attempt[j] = <<>>
  BY DEF Init, AbsentJob
<1>2. PlaceFor("absent") = "absent"
  BY DEF PlaceFor, ActiveStatus
<1>3. VerdictsFor(<<>>) = <<>>
  BY DEF VerdictsFor
<1> QED
  BY <1>1, <1>2, <1>3, LedgerState DEF Ledger!LedgerInit

\* The engine implements the ledger: whatever leases run out and processes crash,
\* every attempt of every job is opened once, closed once, and decides its job.
THEOREM ImplementsTheLedger == Spec => ImplementsLedger
BY InitRefines, StepRefines, IInvHolds, PTL DEF Spec, ImplementsLedger, Ledger!LedgerSpec
=============================================================================
