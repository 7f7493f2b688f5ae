------------------------- MODULE PluginRolloutProps -------------------------
(***************************************************************************)
(* What a central plugin rollout promises about its sites.                 *)
(***************************************************************************)
EXTENDS PluginRollout

\* Every variable keeps its type.
TypeOK ==
  /\ rollout \in RolloutStatus /\ approval \in {"pending"} \cup Verdict
  /\ target \in [Targets -> TargetRow]
  /\ job \in [Targets -> [Keys -> JobStatus]]
  /\ updated \subseteq Targets
  /\ process \in [Workers \cup Admins -> ProcessRow]
  /\ faults \in 0..FaultBound
  /\ trial \subseteq Targets /\ regrouped \in BOOLEAN

-----------------------------------------------------------------------------
(* Safety *)

\* No site outside the canary batch gets its job before every canary has been
\* tried, whatever confirmations, evaluations, retries and failing statements
\* interleave, unless the selection or a batch changed once batches existed: a
\* confirmation enqueues the canaries it read, though they are none any more.
CanaryFirst ==
  ~regrouped =>
    \A t \in Targets :
      target[t].batch = 1 /\ job[t][0] # "absent" =>
        \A c \in Canaries : target[c].attemptCount > 0

\* However the selection changes between confirmations: a site that none of them
\* ever put in its canary batch gets no job before one that was put there has
\* been tried.
TrialFirst ==
  \A t \in Targets \ trial :
    (\E k \in Keys : job[t][k] # "absent") => \E c \in trial : target[c].attemptCount > 0

\* No job exists before the action request is reviewed and the rollout has left
\* draft, when several requests confirm at once or fail half way.
ReviewedBeforeJobs ==
  (\E t \in Targets, k \in Keys : job[t][k] # "absent")
    => approval # "pending" /\ rollout # "draft"

\* Every job waits for its turn: for the review, and outside the canary batch for
\* the canaries, whatever requests, retries and evaluations interleave; after a
\* change of the selection between confirmations, for one canary of any of them.
JobsWaitTheirTurn == CanaryFirst /\ TrialFirst /\ ReviewedBeforeJobs

\* A target is shown as succeeded only when its site has replaced the plugin.
SucceededWasUpdated ==
  \A t \in Targets : target[t].status = "succeeded" => t \in updated

\* A completed rollout has updated every selected site that was attempted,
\* although the decision to complete it is taken from rows read earlier; a site
\* that was selected or dropped once batches existed may not be one it counted.
CompletedWasUpdated ==
  rollout = "completed" /\ ~regrouped =>
    \A t \in Chosen : target[t].attemptCount > 0 => t \in updated

\* Rows keep their types, and no target is shown further than its site is, nor a
\* rollout whose selection stood still, although results, failures and evaluations
\* overtake each other.
ShownAsUpdated == TypeOK /\ SucceededWasUpdated /\ CompletedWasUpdated

\* An ended job stays ended: its key is never enqueued a second time by a
\* retry or a second evaluation.
EndedStaysEnded ==
  \A t \in Targets, k \in Keys :
    job[t][k] \in {"done", "cancelled"} => job'[t][k] = job[t][k]

EndedJobKept == [][EndedStaysEnded]_vars

-----------------------------------------------------------------------------
(* What the documentation says *)

\* "The ... rollout concurrency setting prevent[s] overlapping site work."
ConcurrencyRespected == Count(Targets, {"running"}) <= ConcurrencyLimit
=============================================================================
