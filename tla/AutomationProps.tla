-------------------------- MODULE AutomationProps --------------------------
(***************************************************************************)
(* What the automation engine promises about its jobs, attempts, leases    *)
(* and operation locks.                                                    *)
(***************************************************************************)
EXTENDS Automation

\* Every variable keeps its type: rows of the three tables, the workers'
\* snapshots, the open heartbeats and the crash counter.
TypeOK ==
  /\ job \in [Jobs -> JobRow]
  /\ attempt \in [Jobs -> Seq(AttemptStatus)]
  /\ lock \in [Operations -> LockRow]
  /\ worker \in [Workers -> WorkerState]
  /\ beat \in [Workers -> [open : BOOLEAN, leaseExpiresAt : Int]]
  /\ crashes \in 0..CrashBound

-----------------------------------------------------------------------------
(* Safety *)

\* A job has a lease exactly while it is active, the lease is that of its
\* newest claim, and every claim left one attempt row (the table CHECK only
\* asks for a token on active rows, and nothing asks it of the others).
LeaseMatchesStatus ==
  \A j \in Jobs :
    /\ Active(j) <=> job[j].leaseToken # NoToken
    /\ Active(j) => job[j].leaseToken = job[j].attemptCount
    /\ Len(attempt[j]) = job[j].attemptCount

\* Only the newest attempt of a job can be open, and it is open exactly while
\* the job is active: stale workers, recoveries and finishes together close
\* each attempt once and leave none behind.
OneOpenAttempt ==
  \A j \in Jobs : \A n \in DOMAIN attempt[j] :
    attempt[j][n] \in ActiveStatus <=> Active(j) /\ n = job[j].attemptCount

\* Rows keep their types, and leases, attempt rows and statuses tell one story,
\* whatever workers, recoveries and retries interleave.
AttemptsMatchClaims == TypeOK /\ LeaseMatchesStatus /\ OneOpenAttempt

\* A lock row names an active job, the claim that job is held under, and that
\* job's operation: finish, recovery and theft never leave a lock behind that
\* no active job would release.
LockOfActiveJob ==
  \A o \in Operations :
    lock[o].job # NoJob =>
      LET j == lock[o].job IN
      /\ j \in Jobs /\ Active(j) /\ OperationOf[j] = o
      /\ lock[o].leaseToken = job[j].leaseToken

\* At most one process can act on a job: two workers never share a claim.
SoleHolder ==
  \A v, w \in Workers : Holds(v) /\ Holds(w) /\ worker[v].job = worker[w].job => v = w

\* The worker holding the current claim and the job row agree on the phase,
\* whatever stale workers of the same job do, so a result is only recorded
\* after this claim went through preflight, running and verifying.
HolderKnowsPhase ==
  \A w \in Workers : Holds(w) => job[worker[w].job].status = worker[w].phase

\* A job has one holder at most, and the holder is not misled about its phase.
HeldByOne == SoleHolder /\ HolderKnowsPhase

\* A queued job has an attempt left, except for a manual retry of a job that
\* had used up the cap on max_attempts already.
AttemptLeft ==
  \A j \in Jobs :
    job[j].status = "queued" =>
      job[j].attemptCount < job[j].maxAttempts \/ job[j].maxAttempts = AttemptCap

\* However claims, losses, recoveries and manual retries interleave, attempt rows
\* match claims, and a job that waits has an attempt left to be claimed with.
AttemptsSound == AttemptsMatchClaims /\ AttemptLeft

\* What is locked or held is so by one live claim: no lock outlives the job that
\* would release it, and no job has two holders or a misled one.
ClaimsSound == LockOfActiveJob /\ HeldByOne

-----------------------------------------------------------------------------
(* Action properties *)

\* A succeeded or cancelled job never changes again: no stale worker, no
\* recovery, no late failure after the success was committed, no retry.
ResultIsFinal ==
  [][\A j \in Jobs :
       job[j].status \in {"succeeded", "cancelled"} => job'[j].status = job[j].status]_vars

\* The record of a closed attempt is never rewritten or dropped, although the
\* statement that stamps attempts does not name the claim.
ClosedAttemptKept ==
  [][\A j \in Jobs : \A n \in DOMAIN attempt[j] :
       attempt[j][n] \notin ActiveStatus =>
         n \in DOMAIN attempt'[j] /\ attempt'[j][n] = attempt[j][n]]_vars

\* Success comes out of verification: "an accepted provider request is not
\* proof of completed work", so a job only succeeds from verifying.
SuccessIsVerified ==
  [][\A j \in Jobs :
       job'[j].status = "succeeded" /\ job[j].status # "succeeded"
         => job[j].status = "verifying"]_vars

-----------------------------------------------------------------------------
(* Refinement *)

\* A job's place in the ledger: the three phases are one.
StateOf(j) ==
  CASE job[j].status = "queued" -> "waiting"
    [] Active(j) -> "working"
    [] OTHER -> job[j].status
VerdictOf(s) == IF s \in ActiveStatus THEN "open" ELSE s
VerdictsOf(j) == [n \in DOMAIN attempt[j] |-> VerdictOf(attempt[j][n])]

Ledger == INSTANCE JobLedger WITH
  state <- [j \in Jobs |-> StateOf(j)],
  verdicts <- [j \in Jobs |-> VerdictsOf(j)]

\* Leases, stale workers, recoveries and crashes implement the ledger: every
\* attempt of every job is opened once, closed once, and decides its job.
ImplementsLedger == Ledger!LedgerSpec

-----------------------------------------------------------------------------
(* Liveness *)

\* A queued job comes to an end, through crashes, lost leases and retries,
\* unless it is queued with a cancellation request left over from an attempt.
JobEnds ==
  \A j \in Jobs :
    (job[j].status = "queued" /\ ~job[j].cancellationRequested)
      ~> (Terminal(j) \/ (job[j].status = "queued" /\ job[j].cancellationRequested))

\* An operation lock is given up: a crashed or stalled owner blocks its site's
\* operation only until its lease runs out.
LockReleased ==
  \A o \in Operations : lock[o].job # NoJob ~> lock[o].job = NoJob

-----------------------------------------------------------------------------
(* What the documentation says *)

\* "An active job owns both a job lease and its operation lock."
ActiveOwnsLock == \A j \in Jobs : Active(j) => lock[OperationOf[j]].job = j

\* "Cancellation is immediate for queued jobs and cooperative for active
\* jobs": a job asked to stop comes to an end.
CancellationEnds ==
  \A j \in Jobs : (Active(j) /\ job[j].cancellationRequested) ~> Terminal(j)
=============================================================================
