----------------------------- MODULE BackupJobs -----------------------------
(***************************************************************************)
(* The long-term backups of one site: backup_artifacts, backup_jobs,       *)
(* backup_job_destinations, backup_artifact_objects and the site's         *)
(* backup_policies row; the workers that run them; and the requests that   *)
(* plan, queue and retry them.                                             *)
(*                                                                         *)
(* A backup is known by the order of its creation.  A job is claimed once  *)
(* at most, so the worker stands for the claim token.  Time is counted in  *)
(* calendar months (UTC), the unit of the schedule.                        *)
(***************************************************************************)
EXTENDS Naturals, FiniteSets

CONSTANTS
  Workers,         \* backup workers
  Requests,        \* requests of the dashboard and planning jobs in flight
  Destinations,    \* configured backup destinations
  RuntimeDropbox,  \* the one of the environment, used when a job has none
  NoWorker, NoDestination,   \* null
  FileCount,       \* files of a backup package
  BackupBound,     \* bound: backups of the site
  MonthBound,      \* bound: months that pass
  FaultBound       \* bound: crashes and requests that fail half way

Backups == 1..BackupBound
Months == 1..MonthBound
Files == 1..FileCount

BackupAssumption ==
  /\ RuntimeDropbox \in Destinations
  /\ NoWorker \notin Workers /\ NoDestination \notin Destinations
  /\ FileCount \in Nat \ {0} /\ BackupBound \in Nat /\ MonthBound \in Nat \ {0} /\ FaultBound \in Nat
  /\ Workers \cap Requests = {}

VARIABLES
  artifact,  \* backup_artifacts
  job,       \* backup_jobs, with their destination
  objects,   \* backup_artifact_objects: the verified files of each backup
  policy,    \* backup_policies
  setting,   \* the destination the site's settings resolve to
  month,     \* the current month
  process,   \* the workers and requests
  faults     \* crashes and abandoned requests so far

vars == <<artifact, job, objects, policy, setting, month, process, faults>>

Status == {"queued", "running", "completed", "failed"}
Manual == 0   \* the period of a backup that is not scheduled
ArtifactRow ==
  [status : Status \cup {"absent"}, period : Months \cup {Manual},
   retention : {"retained", "expiration-due"}]
Heart == {"none", "fresh", "stale"}   \* of a running job
JobRow ==
  [status : Status \cup {"absent"}, worker : Workers \cup {NoWorker}, heart : Heart,
   destination : Destinations \cup {NoDestination}]
PolicyRow ==
  [enabled : BOOLEAN, nextDue : 1..MonthBound + 1, lastPeriod : {Manual} \cup Months]
WorkerPlace == {"claim", "load", "resolve", "record", "upload", "audit", "catch"}
RequestPlace ==
  {"find", "queue", "advance", "policy", "artifact", "job", "destinations"}
\* `seen' is the status and `policy' the row read earlier, both forgotten when
\* they have been used; `uploaded' counts the files this worker has uploaded.
ProcessRow ==
  [at : {"idle"} \cup WorkerPlace \cup RequestPlace, backup : {0} \cup Backups,
   seen : Status, destination : Destinations \cup {NoDestination},
   uploaded : 0..FileCount, period : {Manual} \cup Months, policy : PolicyRow]

NewPolicy == [enabled |-> TRUE, nextDue |-> 1, lastPeriod |-> Manual]
Idle ==
  [at |-> "idle", backup |-> 0, seen |-> "queued", destination |-> NoDestination,
   uploaded |-> 0, period |-> Manual, policy |-> NewPolicy]

Goto(p, place) == process' = [process EXCEPT ![p].at = place]
\* The try block is left; only its backup still matters.
Leave(p, place) ==
  process' = [process EXCEPT ![p] = [Idle EXCEPT !.at = place, !.backup = process[p].backup]]
Rest(p) == process' = [process EXCEPT ![p] = Idle]
At(p, place) == process[p].at = place

-----------------------------------------------------------------------------
(* The worker *)

\* Mutant: the token of the claim is left.
EndedClaimed(row, status) == [row EXCEPT !.status = status, !.heart = "none"]

Ended(row, status) == [row EXCEPT !.status = status, !.worker = NoWorker, !.heart = "none"]

\* failStaleJobs, in a transaction.
RunNext(w) ==
  LET stale == {b \in Backups : job[b].status = "running" /\ job[b].heart = "stale"} IN
  /\ At(w, "idle")
  /\ job' = [b \in Backups |->
       IF b \in stale THEN Ended(job[b], "failed") ELSE job[b]]
  /\ artifact' = [b \in Backups |->
       IF b \in stale /\ artifact[b].status = "running"
       THEN [artifact[b] EXCEPT !.status = "failed"] ELSE artifact[b]]
  /\ Goto(w, "claim")
  /\ UNCHANGED <<objects, policy, setting, month, faults>>

\* Mutant: a running job can be claimed as well.
ClaimableAgain == {"queued", "running"}

Claimable == {"queued"}

\* Mutant: a claim leaves heartbeat_at null.
ClaimedBySilent(w, row) ==
  [row EXCEPT !.status = "running", !.worker = w, !.heart = "none"]

ClaimedBy(w, row) ==
  [row EXCEPT !.status = "running", !.worker = w, !.heart = "fresh"]

\* claimNextQueuedJob: the oldest of the jobs that no other claim has locked.
Claim(w, b) ==
  /\ At(w, "claim")
  /\ job[b].status \in Claimable
  /\ job' = [job EXCEPT ![b] = ClaimedBy(w, @)]
  /\ artifact' = [artifact EXCEPT ![b].status = "running"]
  /\ process' = [process EXCEPT ![w].at = "load", ![w].backup = b]
  /\ UNCHANGED <<objects, policy, setting, month, faults>>

NothingQueued(w) ==
  /\ At(w, "claim") /\ \A b \in Backups : job[b].status # "queued"
  /\ Rest(w)
  /\ UNCHANGED <<artifact, job, objects, policy, setting, month, faults>>

\* The artifact is read ...
Load(w) ==
  /\ At(w, "load")
  /\ process' = [process EXCEPT ![w].at = "resolve",
                                ![w].seen = artifact[process[w].backup].status]
  /\ UNCHANGED <<artifact, job, objects, policy, setting, month, faults>>

\* ... the archives are built, the destination of the job is read ...
Resolve(w) ==
  LET d == job[process[w].backup].destination IN
  /\ At(w, "resolve")
  /\ process' = [process EXCEPT ![w].at = "record",
       ![w].destination = IF d = NoDestination THEN RuntimeDropbox ELSE d]
  /\ UNCHANGED <<artifact, job, objects, policy, setting, month, faults>>

\* ... and updateArtifact writes the row as it was read.
Record(w) ==
  /\ At(w, "record")
  /\ artifact' = [artifact EXCEPT ![process[w].backup].status = process[w].seen,
                                  ![process[w].backup].retention = "retained"]
  /\ process' = [process EXCEPT ![w].at = "upload", ![w].seen = Idle.seen]
  /\ UNCHANGED <<job, objects, policy, setting, month, faults>>

Claims(w, b) == job[b].status = "running" /\ job[b].worker = w

HeartOf(w, b) ==
  IF Claims(w, b) THEN [job EXCEPT ![b].heart = "fresh"] ELSE job

\* A heartbeat, an upload that is verified, and its row.
Upload(w) ==
  LET b == process[w].backup
      f == process[w].uploaded + 1 IN
  /\ At(w, "upload") /\ f \in Files
  /\ job' = HeartOf(w, b)
  /\ objects' = [objects EXCEPT ![b] = @ \cup {<<process[w].destination, f>>}]
  /\ process' = [process EXCEPT ![w].uploaded = f]
  /\ UNCHANGED <<artifact, policy, setting, month, faults>>

\* Mutant: without a transaction the artifact is written when the claim is lost.
FinishUnfenced(w, status) ==
  LET b == process[w].backup IN
  /\ artifact' = [artifact EXCEPT ![b].status = status]
  /\ job' = IF Claims(w, b) THEN [job EXCEPT ![b] = Ended(@, status)] ELSE job

\* finishExecution: both rows, or none when the claim is lost.
Finish(w, status) ==
  LET b == process[w].backup IN
  IF Claims(w, b)
  THEN /\ artifact' = [artifact EXCEPT ![b].status = status]
       /\ job' = [job EXCEPT ![b] = Ended(@, status)]
  ELSE UNCHANGED <<artifact, job>>

\* Mutant: one file is enough.
UploadedSome(w) == process[w].uploaded > 0

AllUploaded(w) == process[w].uploaded = FileCount

Complete(w) ==
  /\ At(w, "upload") /\ AllUploaded(w)
  /\ Finish(w, "completed")
  /\ Leave(w, IF Claims(w, process[w].backup) THEN "audit" ELSE "catch")
  /\ UNCHANGED <<objects, policy, setting, month, faults>>

\* The audit entry and the notification of a completed backup.
Audit(w) ==
  /\ At(w, "audit")
  /\ Rest(w)
  /\ UNCHANGED <<artifact, job, objects, policy, setting, month, faults>>

\* Any statement of the try block may throw.
Throw(w) ==
  /\ process[w].at \in {"load", "resolve", "record", "upload", "audit"}
  /\ Leave(w, "catch")
  /\ UNCHANGED <<artifact, job, objects, policy, setting, month, faults>>

Catch(w) ==
  /\ At(w, "catch")
  /\ Finish(w, "failed")
  /\ Rest(w)
  /\ UNCHANGED <<objects, policy, setting, month, faults>>

\* The timer of a worker that is not stalled.
Heartbeat(w) ==
  LET b == process[w].backup IN
  /\ b # 0 /\ job' = HeartOf(w, b) /\ job' # job
  /\ UNCHANGED <<artifact, objects, policy, setting, month, process, faults>>

\* No heartbeat for so long that the job counts as stale.
HeartbeatRunsOut(b) ==
  /\ job[b].status = "running" /\ job[b].heart = "fresh"
  /\ job' = [job EXCEPT ![b].heart = "stale"]
  /\ UNCHANGED <<artifact, objects, policy, setting, month, process, faults>>

-----------------------------------------------------------------------------
(* Requests *)

Unused == {b \in Backups : artifact[b].status = "absent"}
\* The backup that is created next.
IsNext(b) == b \in Unused /\ \A c \in Unused : b <= c

NewArtifact(period) ==
  [status |-> "queued", period |-> period, retention |-> "retained"]
NewJob(destination) ==
  [status |-> "queued", worker |-> NoWorker, heart |-> "none", destination |-> destination]

\* The site's destination settings are changed.
Configure(d) ==
  /\ d # setting /\ setting' = d
  /\ UNCHANGED <<artifact, job, objects, policy, month, process, faults>>

\* queueBackup of a manual backup, up to the destination it resolves.
PlanManual(r) ==
  /\ At(r, "idle") /\ Unused # {}
  /\ process' = [process EXCEPT ![r] =
       [Idle EXCEPT !.at = "queue", !.destination = setting]]
  /\ UNCHANGED <<artifact, job, objects, policy, setting, month, faults>>

\* planScheduledBackup: the policy ...
PlanScheduled(r) ==
  /\ At(r, "idle") /\ policy.enabled
  /\ process' = [process EXCEPT ![r] =
       [Idle EXCEPT !.at = "find", !.period = month, !.policy = policy]]
  /\ UNCHANGED <<artifact, job, objects, policy, setting, month, faults>>

ScheduledFor(m) == {b \in Backups : artifact[b].status # "absent" /\ artifact[b].period = m}

\* The policy is still to be written.
ToAdvance(r) ==
  process' = [process EXCEPT ![r] = [Idle EXCEPT !.at = "advance", !.period = process[r].period]]

\* ... the artifact of the month, and what is to be done: repair the cursor,
\* nothing, or queue a backup.
Find(r) ==
  LET p == process[r]
      due == p.policy.nextDue <= p.period IN
  /\ At(r, "find")
  /\ IF ScheduledFor(p.period) # {}
     THEN IF p.policy.lastPeriod # p.period \/ due THEN ToAdvance(r) ELSE Rest(r)
     ELSE IF due /\ Unused # {}
          THEN process' = [process EXCEPT ![r].at = "queue", ![r].policy = NewPolicy,
                                          ![r].destination = setting]
          ELSE Rest(r)
  /\ UNCHANGED <<artifact, job, objects, policy, setting, month, faults>>

\* Mutant: without the unique index.
TakenNever(period) == FALSE

\* The unique index on site and period.
Taken(period) == period # Manual /\ ScheduledFor(period) # {}

\* createExecution: artifact, job and destination in one transaction.
Queue(r) ==
  LET p == process[r] IN
  /\ At(r, "queue")
  /\ \E b \in Backups :
       /\ IsNext(b)
       /\ IF Taken(p.period)
          THEN Rest(r) /\ UNCHANGED <<artifact, job>>
          ELSE /\ artifact' = [artifact EXCEPT ![b] = NewArtifact(p.period)]
               /\ job' = [job EXCEPT ![b] = NewJob(p.destination)]
               /\ IF p.period = Manual THEN Rest(r) ELSE ToAdvance(r)
  /\ UNCHANGED <<objects, policy, setting, month, faults>>

\* Dates beyond the last month of the model are alike.
Due(m) == IF m > MonthBound THEN MonthBound + 1 ELSE m

\* savePolicy writes the row that was read, enabled as it was, with a new cursor;
\* a day that the next month lacks carries the date over to the month after it.
Advance(r) ==
  LET p == process[r] IN
  /\ At(r, "advance")
  /\ \E months \in {1, 2} :
       policy' = [enabled |-> TRUE, nextDue |-> Due(p.period + months),
                  lastPeriod |-> p.period]
  /\ Rest(r)
  /\ UNCHANGED <<artifact, job, objects, setting, month, faults>>

\* savePolicy of an administrator: the row is read ...
EditPolicy(r) ==
  /\ At(r, "idle")
  /\ process' = [process EXCEPT ![r] = [Idle EXCEPT !.at = "policy", !.policy = policy]]
  /\ UNCHANGED <<artifact, job, objects, policy, setting, month, faults>>

\* ... and written with the cursor that was read.
SavePolicy(r) ==
  /\ At(r, "policy")
  /\ \E enabled \in BOOLEAN : policy' = [process[r].policy EXCEPT !.enabled = enabled]
  /\ Rest(r)
  /\ UNCHANGED <<artifact, job, objects, setting, month, faults>>

\* retryFailedBackup, up to its first insert ...
RetryFailed(r, b) ==
  /\ At(r, "idle") /\ artifact[b].status = "failed" /\ Unused # {}
  /\ process' = [process EXCEPT ![r] =
       [Idle EXCEPT !.at = "artifact", !.destination = setting]]
  /\ UNCHANGED <<artifact, job, objects, policy, setting, month, faults>>

\* ... and its three inserts.
CreateArtifact(r) ==
  /\ At(r, "artifact")
  /\ \E b \in Backups :
       /\ IsNext(b)
       /\ artifact' = [artifact EXCEPT ![b] = NewArtifact(Manual)]
       /\ process' = [process EXCEPT ![r].at = "job", ![r].backup = b]
  /\ UNCHANGED <<job, objects, policy, setting, month, faults>>

CreateJob(r) ==
  /\ At(r, "job")
  /\ job' = [job EXCEPT ![process[r].backup] = NewJob(NoDestination)]
  /\ Goto(r, "destinations")
  /\ UNCHANGED <<artifact, objects, policy, setting, month, faults>>

SaveDestinations(r) ==
  /\ At(r, "destinations")
  /\ job' = [job EXCEPT ![process[r].backup].destination = process[r].destination]
  /\ Rest(r)
  /\ UNCHANGED <<artifact, objects, policy, setting, month, faults>>

\* runRetentionDryRun marks the completed backups that have expired.
RetentionDryRun(b) ==
  /\ artifact[b].status = "completed" /\ artifact[b].retention = "retained"
  /\ artifact' = [artifact EXCEPT ![b].retention = "expiration-due"]
  /\ UNCHANGED <<job, objects, policy, setting, month, process, faults>>

-----------------------------------------------------------------------------
\* A worker dies, or a request fails half way.
Lost(p) ==
  /\ process[p].at # "idle" /\ faults < FaultBound
  /\ faults' = faults + 1
  /\ Rest(p)
  /\ UNCHANGED <<artifact, job, objects, policy, setting, month>>

NextMonth ==
  /\ month < MonthBound /\ month' = month + 1
  /\ UNCHANGED <<artifact, job, objects, policy, setting, process, faults>>

Init ==
  /\ artifact = [b \in Backups |-> [NewArtifact(Manual) EXCEPT !.status = "absent"]]
  /\ job = [b \in Backups |-> [NewJob(NoDestination) EXCEPT !.status = "absent"]]
  /\ objects = [b \in Backups |-> {}]
  /\ policy = NewPolicy
  /\ setting \in Destinations
  /\ month = 1
  /\ process = [p \in Workers \cup Requests |-> Idle]
  /\ faults = 0

Work(w) ==
  \/ RunNext(w) \/ (\E b \in Backups : Claim(w, b)) \/ NothingQueued(w)
  \/ Load(w) \/ Resolve(w) \/ Record(w) \/ Upload(w)
  \/ Complete(w) \/ Audit(w) \/ Throw(w) \/ Catch(w)

Ask(r) ==
  \/ PlanManual(r) \/ PlanScheduled(r) \/ EditPolicy(r)
  \/ \E b \in Backups : RetryFailed(r, b)

Serve(r) ==
  \/ Find(r) \/ Queue(r) \/ Advance(r) \/ SavePolicy(r)
  \/ CreateArtifact(r) \/ CreateJob(r) \/ SaveDestinations(r)

\* While the month and the settings of the site stay as they are.
Proceed ==
  \/ \E w \in Workers : Work(w) \/ Heartbeat(w)
  \/ \E r \in Requests : Ask(r) \/ Serve(r)
  \/ \E p \in Workers \cup Requests : Lost(p)
  \/ \E b \in Backups : HeartbeatRunsOut(b) \/ RetentionDryRun(b)

Next == Proceed \/ NextMonth \/ \E d \in Destinations : Configure(d)

Spec == Init /\ [][Next]_vars

\* The job's worker has gone on without it.
Orphaned(b) == \A w \in Workers : process[w].backup # b

\* Workers run on and are restarted when they die; a job nobody runs gets no
\* heartbeat.  Requests, faults and stalls need not happen.
Fairness ==
  /\ \A w \in Workers : WF_vars(Work(w))
  /\ \A b \in Backups : WF_vars(Orphaned(b) /\ HeartbeatRunsOut(b))
=============================================================================
