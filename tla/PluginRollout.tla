--------------------------- MODULE PluginRollout ---------------------------
(***************************************************************************)
(* One central plugin rollout: the rows of plugin_update_rollouts and      *)
(* plugin_update_targets, the administrators' requests, and the automation *)
(* jobs that update one site each.  Every awaited statement is a step: the *)
(* service runs none of this in a transaction.                             *)
(*                                                                         *)
(* The automation engine (module Automation) appears as what it promises:  *)
(* a job of one attempt is claimed once, while no other job of its site's  *)
(* operation is active, and ends done, cancelled or parked                 *)
(* (needs-attention), from where an administrator may requeue it.          *)
(***************************************************************************)
EXTENDS Naturals, FiniteSets

CONSTANTS
  Workers,           \* automation workers
  Admins,            \* requests being served by the dashboard
  TargetCount,       \* targets found by create, numbered by site id
  Ready,             \* targets that are eligible and recovery-ready
  Selected,          \* targets create preselects: an older version installed
  CanarySize, FailureThreshold, ConcurrencyLimit,
  AttemptBound,      \* bound: attempts after which nothing is retried
  FaultBound         \* bound: failing statements and crashes in a behaviour

Targets == 1..TargetCount

RolloutAssumption ==
  /\ TargetCount \in Nat /\ Ready \subseteq Targets /\ Selected \subseteq Targets
  /\ CanarySize \in Nat \ {0} /\ ConcurrencyLimit \in Nat \ {0}
  /\ FailureThreshold \in 1..CanarySize
  /\ AttemptBound \in Nat /\ FaultBound \in Nat
  /\ Workers \cap Admins = {}

VARIABLES
  rollout,   \* status of the rollout
  approval,  \* status of its action request
  target,    \* plugin_update_targets
  job,       \* automation jobs of each target, by retry number
  updated,   \* external: the sites whose plugin has been replaced
  process,   \* the requests and handlers in flight
  faults,    \* failing statements and crashes so far
  trial,     \* ghost: the targets a confirmation has put in its canary batch
  regrouped  \* ghost: a selection or a batch has changed since batches exist

vars == <<rollout, approval, target, job, updated, process, faults, trial, regrouped>>

RolloutStatus == {"draft", "canary-running", "paused", "running", "completed", "failed"}
Executing == {"canary-running", "running"}
TargetStatus == {"pending", "queued", "running", "succeeded", "failed"}
Ended == {"succeeded", "failed"}
JobStatus == {"absent", "queued", "active", "done", "parked", "cancelled"}
Verdict == {"approved", "rejected"}   \* of an action request
NoBatch == 2
\* The idempotency keys of a target's jobs: 0 is plugin-rollout:<id>, and n is
\* plugin-rollout:<id>:retry:<n>.
Keys == 0..AttemptBound

TargetRow ==
  [selected : BOOLEAN, batch : {0, 1, NoBatch}, status : TargetStatus, attemptCount : Nat]
AdminPlace == {"review", "decide", "prepare", "approve", "select", "resume"}
TryPlace == {"succeed", "evaluate", "survey", "pause", "release", "refresh", "close"}
Place == {"idle", "load", "limit", "start", "remote", "fail", "return", "enqueue", "mark"}
           \cup AdminPlace \cup TryPlace
\* `target' is the one at hand and `key' its job; `todo' are the targets to
\* enqueue before going on at `next', the last of them `marking'; `seen' is a
\* status read or decided earlier, `caught' says that the handler is in its
\* catch block, and `leased' that its worker still holds the lease of the job.
ProcessRow ==
  [at : Place, target : Targets \cup {0}, key : Keys, todo : SUBSET Targets,
   marking : Targets \cup {0}, next : Place, seen : RolloutStatus \cup Verdict, caught : BOOLEAN,
   leased : BOOLEAN]

Idle ==
  [at |-> "idle", target |-> 0, key |-> 0, todo |-> {}, marking |-> 0,
   next |-> "idle", seen |-> "draft", caught |-> FALSE, leased |-> FALSE]

Goto(p, place) == process' = [process EXCEPT ![p].at = place]
Rest(p) == process' = [process EXCEPT ![p] = Idle]

Chosen == {t \in Targets : target[t].selected}
Canaries == {t \in Chosen : target[t].batch = 0}
Count(S, statuses) == Cardinality({t \in S : target[t].status \in statuses})

\* Batches have been assigned; the next step changes what they are made of.
Batched == \E t \in Targets : target[t].batch # NoBatch
Regroups ==
  /\ Batched
  /\ \E t \in Targets : \/ target'[t].selected # target[t].selected
                         \/ target'[t].batch # target[t].batch
Regroup == regrouped' = (regrouped \/ Regroups)

-----------------------------------------------------------------------------
(* Administrators *)

\* select, after its check that the rollout is a draft.
SelectRead(a) ==
  /\ process[a].at = "idle" /\ rollout = "draft"
  /\ Goto(a, "select")
  /\ UNCHANGED <<rollout, approval, target, job, updated, faults, trial, regrouped>>

\* updateSelection: the rows that are still pending.
Select(a) ==
  /\ process[a].at = "select"
  /\ \E S \in SUBSET Targets :
       target' = [t \in Targets |->
         IF target[t].status = "pending"
         THEN [target[t] EXCEPT !.selected = t \in S] ELSE target[t]]
  /\ Regroup
  /\ Rest(a)
  /\ UNCHANGED <<rollout, approval, job, updated, faults, trial>>

\* confirm, its checks on the rows it reads first.
ConfirmRead(a) ==
  /\ process[a].at = "idle" /\ rollout = "draft"
  /\ Chosen # {} /\ Chosen \subseteq Ready
  /\ process' = [process EXCEPT ![a] =
       [Idle EXCEPT !.at = "review", !.seen = "approved", !.next = "prepare"]]
  /\ UNCHANGED <<rollout, approval, target, job, updated, faults, trial, regrouped>>

\* The request of the rollout is reviewed in the list of action requests.
ReviewRequest(a, verdict) ==
  /\ process[a].at = "idle"
  /\ process' = [process EXCEPT ![a] = [Idle EXCEPT !.at = "review", !.seen = verdict]]
  /\ UNCHANGED <<rollout, approval, target, job, updated, faults, trial, regrouped>>

\* review: a reviewed request is an error ...
Review(a) ==
  /\ process[a].at = "review"
  /\ IF approval = "pending" THEN Goto(a, "decide") ELSE Rest(a)
  /\ UNCHANGED <<rollout, approval, target, job, updated, faults, trial, regrouped>>

\* Mutant: confirm goes on without the verdict.
DecideLater(a) ==
  /\ process[a].at = "decide"
  /\ IF process[a].next = "idle" THEN approval' = process[a].seen /\ Rest(a)
                                 ELSE UNCHANGED approval /\ Goto(a, process[a].next)
  /\ UNCHANGED <<rollout, target, job, updated, faults, trial, regrouped>>

\* ... and the update does not ask again.
Decide(a) ==
  /\ process[a].at = "decide"
  /\ approval' = process[a].seen
  /\ IF process[a].next = "idle" THEN Rest(a) ELSE Goto(a, process[a].next)
  /\ UNCHANGED <<rollout, target, job, updated, faults, trial, regrouped>>

\* prepareBatches: the selected rows in the order of their sites; the ready
\* ones of batch 0 will be enqueued.
Batch(t) ==
  IF Cardinality({u \in Chosen : u <= t}) <= CanarySize THEN 0 ELSE 1

\* Mutant: every ready target is enqueued.
PrepareAll(a) ==
  /\ process[a].at = "prepare"
  /\ target' = [t \in Targets |->
       IF t \in Chosen THEN [target[t] EXCEPT !.batch = Batch(t)] ELSE target[t]]
  /\ trial' = trial \cup {t \in Chosen : Batch(t) = 0} /\ Regroup
  /\ process' = [process EXCEPT ![a].at = "approve",
                                ![a].todo = Chosen \cap Ready]
  /\ UNCHANGED <<rollout, approval, job, updated, faults>>

Prepare(a) ==
  /\ process[a].at = "prepare"
  /\ target' = [t \in Targets |->
       IF t \in Chosen THEN [target[t] EXCEPT !.batch = Batch(t)] ELSE target[t]]
  /\ trial' = trial \cup {t \in Chosen : Batch(t) = 0} /\ Regroup
  /\ process' = [process EXCEPT ![a].at = "approve",
                                ![a].todo = {t \in Chosen \cap Ready : Batch(t) = 0}]
  /\ UNCHANGED <<rollout, approval, job, updated, faults>>

\* approveRollout.
Approve(a) ==
  /\ process[a].at = "approve"
  /\ rollout' = IF rollout = "draft" THEN "canary-running" ELSE rollout
  /\ process' = [process EXCEPT ![a].at = "enqueue", ![a].next = "idle"]
  /\ UNCHANGED <<approval, target, job, updated, faults, trial, regrouped>>

\* retryTarget, its checks; the key counts the attempts read here.
RetryRead(a, t) ==
  /\ process[a].at = "idle"
  /\ rollout \in {"paused", "running", "failed"}
  /\ target[t].status = "failed" /\ target[t].attemptCount < AttemptBound
  /\ process' = [process EXCEPT ![a] =
       [Idle EXCEPT !.at = "enqueue", !.target = t, !.todo = {t}, !.next = "resume",
                    !.key = target[t].attemptCount + 1]]
  /\ UNCHANGED <<rollout, approval, target, job, updated, faults, trial, regrouped>>

\* retryTarget, after the job was enqueued.
Resume(a) ==
  /\ process[a].at = "resume"
  /\ rollout' = IF target[process[a].target].batch = 0 THEN "canary-running" ELSE "running"
  /\ Rest(a)
  /\ UNCHANGED <<approval, target, job, updated, faults, trial, regrouped>>

\* An administrator requeues a parked job, or cancels a queued one, in the
\* automation view.
RetryJob(t, k) ==
  /\ job[t][k] = "parked" /\ target[t].attemptCount < AttemptBound
  /\ job' = [job EXCEPT ![t][k] = "queued"]
  /\ UNCHANGED <<rollout, approval, target, updated, process, faults, trial, regrouped>>

CancelJob(t, k) ==
  /\ job[t][k] = "queued"
  /\ job' = [job EXCEPT ![t][k] = "cancelled"]
  /\ UNCHANGED <<rollout, approval, target, updated, process, faults, trial, regrouped>>

-----------------------------------------------------------------------------
(* enqueueTarget, in two statements *)

KeyFor(p) == IF process[p].next = "resume" THEN process[p].key ELSE 0

\* Mutant: an ended job does not take its key.
EnqueueAgain(p, t) ==
  /\ process[p].at = "enqueue" /\ t \in process[p].todo
  /\ job' = IF job[t][KeyFor(p)] \in {"queued", "active"} THEN job
            ELSE [job EXCEPT ![t][KeyFor(p)] = "queued"]
  /\ process' = [process EXCEPT ![p].at = "mark", ![p].marking = t, ![p].todo = @ \ {t}]
  /\ UNCHANGED <<rollout, approval, target, updated, faults, trial, regrouped>>

\* The job, unless its key is taken.
Enqueue(p, t) ==
  /\ process[p].at = "enqueue" /\ t \in process[p].todo
  /\ job' = IF job[t][KeyFor(p)] # "absent" THEN job
            ELSE [job EXCEPT ![t][KeyFor(p)] = "queued"]
  /\ process' = [process EXCEPT ![p].at = "mark", ![p].marking = t, ![p].todo = @ \ {t}]
  /\ UNCHANGED <<rollout, approval, target, updated, faults, trial, regrouped>>

\* setTargetQueued, whatever has become of the target since.
Mark(p) ==
  /\ process[p].at = "mark"
  /\ target' = [target EXCEPT ![process[p].marking].status = "queued"]
  /\ process' = [process EXCEPT ![p].at = "enqueue", ![p].marking = 0]
  /\ UNCHANGED <<rollout, approval, job, updated, faults, trial, regrouped>>

AllEnqueued(p) ==
  /\ process[p].at = "enqueue" /\ process[p].todo = {}
  /\ IF process[p].next = "idle" THEN Rest(p) ELSE Goto(p, process[p].next)
  /\ UNCHANGED <<rollout, approval, target, job, updated, faults, trial, regrouped>>

-----------------------------------------------------------------------------
(* executeTarget, up to the site's answer *)

\* The engine hands a queued job to the handler: one job of a site at a time.
Claim(w, t, k) ==
  /\ process[w].at = "idle"
  /\ job[t][k] = "queued" /\ \A i \in Keys : job[t][i] # "active"
  /\ job' = [job EXCEPT ![t][k] = "active"]
  /\ process' = [process EXCEPT ![w] =
       [Idle EXCEPT !.at = "load", !.target = t, !.key = k, !.leased = TRUE]]
  /\ UNCHANGED <<rollout, approval, target, updated, faults, trial, regrouped>>

\* The engine ends the job with a status, if the worker still holds the lease.
EndJob(w, status) ==
  LET p == process[w] IN
  job' = IF p.leased THEN [job EXCEPT ![p.target][p.key] = status] ELSE job

\* The handler's error parks a job of one attempt.
Park(w) ==
  /\ EndJob(w, "parked")
  /\ Rest(w)
  /\ UNCHANGED <<rollout, approval, target, updated, trial, regrouped>>

\* "Plugin rollout is not running."
Load(w) ==
  /\ process[w].at = "load"
  /\ IF rollout \in Executing
     THEN Goto(w, "limit") /\ UNCHANGED <<rollout, approval, target, job, updated>>
     ELSE Park(w)
  /\ UNCHANGED <<faults, trial, regrouped>>

\* "Rollout concurrency limit is currently reached."
Limit(w) ==
  /\ process[w].at = "limit"
  /\ IF Count(Targets, {"running"}) < ConcurrencyLimit
     THEN Goto(w, "start") /\ UNCHANGED <<rollout, approval, target, job, updated>>
     ELSE Park(w)
  /\ UNCHANGED <<faults, trial, regrouped>>

\* setTargetRunning.
Start(w) ==
  LET t == process[w].target IN
  /\ process[w].at = "start"
  /\ target' = [target EXCEPT ![t].status = "running", ![t].attemptCount = @ + 1]
  /\ Goto(w, "remote")
  /\ UNCHANGED <<rollout, approval, job, updated, faults, trial, regrouped>>

\* Mutant: a refusal of the site is taken for success.
RemoteUnchecked(w) ==
  /\ process[w].at = "remote"
  /\ Goto(w, "succeed")
  /\ UNCHANGED <<rollout, approval, target, job, updated, faults, trial, regrouped>>

\* requestPluginUpdate: the site replaces the plugin and says so, replaces it
\* and the answer is lost, or refuses; it refuses when the plugin is not at
\* the installed version that discovery recorded.
Remote(w) ==
  LET t == process[w].target IN
  /\ process[w].at = "remote"
  /\ \/ /\ t \notin updated
        /\ updated' = updated \cup {t}
        /\ \E place \in {"succeed", "fail"} : Goto(w, place)
     \/ Goto(w, "fail") /\ UNCHANGED updated
  /\ UNCHANGED <<rollout, approval, target, job, faults, trial, regrouped>>

\* finishTarget in the try block.
Succeed(w) ==
  /\ process[w].at = "succeed"
  /\ target' = [target EXCEPT ![process[w].target].status = "succeeded"]
  /\ Goto(w, "evaluate")
  /\ UNCHANGED <<rollout, approval, job, updated, faults, trial, regrouped>>

\* finishTarget in the catch block.
FailTarget(w) ==
  /\ process[w].at = "fail"
  /\ target' = [target EXCEPT ![process[w].target].status = "failed"]
  /\ process' = [process EXCEPT ![w].at = "evaluate", ![w].caught = TRUE]
  /\ UNCHANGED <<rollout, approval, job, updated, faults, trial, regrouped>>

-----------------------------------------------------------------------------
(* evaluateRollout, after the audit entry and the notification *)

ReadRollout(w) ==
  /\ process[w].at = "evaluate"
  /\ process' = [process EXCEPT ![w].at = "survey", ![w].seen = rollout]
  /\ UNCHANGED <<rollout, approval, target, job, updated, faults, trial, regrouped>>

CanariesEnded == Canaries # {} /\ \A t \in Canaries : target[t].status \in Ended

\* The targets are read once; what follows is decided from them.
Survey(w) ==
  LET decides == process[w].seen = "canary-running" /\ CanariesEnded
      halts == Count(Canaries, TargetStatus \ {"succeeded"}) >= FailureThreshold
      rest == {t \in Chosen : target[t].batch = 1 /\ target[t].status = "pending"} IN
  /\ process[w].at = "survey"
  /\ \/ decides /\ halts /\ Goto(w, "pause")
     \/ /\ decides /\ ~halts
        /\ process' = [process EXCEPT ![w].at = "release", ![w].todo = rest]
     \/ ~decides /\ Goto(w, "refresh")
  /\ UNCHANGED <<rollout, approval, target, job, updated, faults, trial, regrouped>>

Pause(w) ==
  /\ process[w].at = "pause"
  /\ rollout' = "paused" /\ Goto(w, "return")
  /\ UNCHANGED <<approval, target, job, updated, faults, trial, regrouped>>

Release(w) ==
  /\ process[w].at = "release"
  /\ rollout' = "running"
  /\ process' = [process EXCEPT ![w].at = "enqueue", ![w].next = "refresh"]
  /\ UNCHANGED <<approval, target, job, updated, faults, trial, regrouped>>

\* The targets are read again, for the end of the rollout.
Refresh(w) ==
  /\ process[w].at = "refresh"
  /\ IF Chosen # {} /\ \A t \in Chosen : target[t].status \in Ended
     THEN process' = [process EXCEPT ![w].at = "close",
            ![w].seen = IF Count(Chosen, {"failed"}) > 0 THEN "failed" ELSE "completed"]
     ELSE Goto(w, "return")
  /\ UNCHANGED <<rollout, approval, target, job, updated, faults, trial, regrouped>>

Close(w) ==
  /\ process[w].at = "close"
  /\ rollout' = process[w].seen /\ Goto(w, "return")
  /\ UNCHANGED <<approval, target, job, updated, faults, trial, regrouped>>

\* The handler returns and the engine finishes the job.
Return(w) ==
  /\ process[w].at = "return"
  /\ EndJob(w, "done")
  /\ Rest(w)
  /\ UNCHANGED <<rollout, approval, target, updated, faults, trial, regrouped>>

-----------------------------------------------------------------------------
(* Failing statements and crashes *)

Faulty == faults < FaultBound /\ faults' = faults + 1

\* A statement of the try block fails after the site answered.
Throw(w) ==
  /\ Faulty
  /\ ~process[w].caught
  /\ \/ process[w].at \in TryPlace
     \/ process[w].at \in {"enqueue", "mark"} /\ process[w].next = "refresh"
  /\ process' = [process EXCEPT ![w] =
       [Idle EXCEPT !.at = "fail", !.target = process[w].target, !.key = process[w].key,
                    !.leased = process[w].leased]]
  /\ UNCHANGED <<rollout, approval, target, job, updated, trial, regrouped>>

\* A statement outside the try block or in the catch block fails, or the
\* worker dies and its job is recovered.
Lost(w) == Faulty /\ process[w].at # "idle" /\ Park(w)

\* The lease runs out and the job is parked while its handler goes on.
LeaseLost(w) ==
  /\ Faulty
  /\ process[w].leased
  /\ EndJob(w, "parked")
  /\ process' = [process EXCEPT ![w].leased = FALSE]
  /\ UNCHANGED <<rollout, approval, target, updated, trial, regrouped>>

\* A request to the dashboard fails half way.
Abandon(a) ==
  /\ Faulty /\ process[a].at # "idle"
  /\ Rest(a)
  /\ UNCHANGED <<rollout, approval, target, job, updated, trial, regrouped>>

-----------------------------------------------------------------------------
\* What create leaves: a draft with its targets.
Init ==
  /\ rollout = "draft" /\ approval = "pending"
  /\ target = [t \in Targets |->
       [selected |-> t \in Selected, batch |-> NoBatch, status |-> "pending", attemptCount |-> 0]]
  /\ job = [t \in Targets |-> [k \in Keys |-> "absent"]]
  /\ updated = {}
  /\ process = [p \in Workers \cup Admins |-> Idle]
  /\ faults = 0
  /\ trial = {} /\ regrouped = FALSE

Administer(a) ==
  \/ SelectRead(a) \/ ConfirmRead(a) \/ \E t \in Targets : RetryRead(a, t)
  \/ \E verdict \in Verdict : ReviewRequest(a, verdict)

\* The statements of a request that was accepted.
Serve(a) ==
  \/ Select(a) \/ Review(a) \/ Decide(a) \/ Prepare(a) \/ Approve(a) \/ Resume(a)
  \/ (\E t \in Targets : Enqueue(a, t)) \/ Mark(a) \/ AllEnqueued(a)

Execute(w) ==
  \/ \E t \in Targets, k \in Keys : Claim(w, t, k)
  \/ Load(w) \/ Limit(w) \/ Start(w) \/ Remote(w) \/ Succeed(w) \/ FailTarget(w)
  \/ ReadRollout(w) \/ Survey(w) \/ Pause(w) \/ Release(w)
  \/ (\E t \in Targets : Enqueue(w, t)) \/ Mark(w) \/ AllEnqueued(w)
  \/ Refresh(w) \/ Close(w) \/ Return(w)

Next ==
  \/ \E a \in Admins : Administer(a) \/ Serve(a) \/ Abandon(a)
  \/ \E w \in Workers : Execute(w) \/ Throw(w) \/ Lost(w) \/ LeaseLost(w)
  \/ \E t \in Targets, k \in Keys : RetryJob(t, k) \/ CancelJob(t, k)

Spec == Init /\ [][Next]_vars
=============================================================================
