---------------------------- MODULE JobLedger ----------------------------
(***************************************************************************)
(* What the automation engine promises about its durable jobs, with        *)
(* workers, leases, locks, heartbeats, crashes and time left out: a job    *)
(* waits, is worked on in numbered attempts, every attempt is closed with  *)
(* exactly one verdict, and the job goes where the verdict sends it.       *)
(* Several jobs may move in one step: one recovery closes the attempts of  *)
(* all stale jobs.                                                         *)
(***************************************************************************)
EXTENDS Naturals, Sequences

CONSTANT Jobs

VARIABLES
  state,    \* where each job is
  verdicts  \* for each job, one entry per attempt, "open" while worked on

ledgerVars == <<state, verdicts>>

\* The states an attempt's verdict may send its job to.
Outcome(verdict) ==
  CASE verdict = "succeeded" -> {"succeeded"}
    [] verdict = "cancelled" -> {"cancelled"}
    [] verdict = "failed" -> {"waiting", "failed", "needs-attention"}
    [] verdict = "interrupted" -> {"waiting", "needs-attention"}

Moves(j, from, to) == state[j] \in from /\ state'[j] \in to

\* A request is committed under a new idempotency key.
Submit(j) == Moves(j, {"absent"}, {"waiting"}) /\ verdicts'[j] = verdicts[j]

\* A worker takes the job up.
Open(j) ==
  Moves(j, {"waiting"}, {"working"}) /\ verdicts'[j] = Append(verdicts[j], "open")

\* The open attempt ends.
Close(j) ==
  \E v \in {"succeeded", "cancelled", "failed", "interrupted"} :
    /\ Moves(j, {"working"}, Outcome(v))
    /\ verdicts'[j] = [verdicts[j] EXCEPT ![Len(verdicts[j])] = v]

\* A waiting job is cancelled without an attempt.
Withdraw(j) == Moves(j, {"waiting"}, {"cancelled"}) /\ verdicts'[j] = verdicts[j]

\* An administrator gives a failed or parked job more attempts.
Resubmit(j) ==
  Moves(j, {"failed", "needs-attention"}, {"waiting"}) /\ verdicts'[j] = verdicts[j]

Rests(j) == state'[j] = state[j] /\ verdicts'[j] = verdicts[j]

LedgerInit ==
  /\ state = [j \in Jobs |-> "absent"]
  /\ verdicts = [j \in Jobs |-> <<>>]

LedgerNext ==
  \A j \in Jobs :
    Submit(j) \/ Open(j) \/ Close(j) \/ Withdraw(j) \/ Resubmit(j) \/ Rests(j)

LedgerSpec == LedgerInit /\ [][LedgerNext]_ledgerVars
=============================================================================
