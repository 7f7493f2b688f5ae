---------------------------- MODULE BackupProps ----------------------------
(***************************************************************************)
(* What the backups of a site promise.                                     *)
(***************************************************************************)
EXTENDS BackupJobs

\* Every variable keeps its type, and the running jobs are those with a claim.
TypeOK ==
  /\ artifact \in [Backups -> ArtifactRow]
  /\ job \in [Backups -> JobRow]
  /\ objects \in [Backups -> SUBSET (Destinations \X Files)]
  /\ policy \in PolicyRow
  /\ setting \in Destinations /\ month \in Months
  /\ process \in [Workers \cup Requests -> ProcessRow]
  /\ faults \in 0..FaultBound
  /\ \A b \in Backups : job[b].status = "running" <=> job[b].worker # NoWorker

\* A backup is completed only when its job is, and when every file of its
\* package lies verified at one destination, whoever has taken the job for dead
\* in the meantime.
CompletedIsWhole ==
  \A b \in Backups :
    artifact[b].status = "completed" =>
      /\ job[b].status = "completed"
      /\ \E d \in Destinations : \A f \in Files : <<d, f>> \in objects[b]

\* A completed backup stays completed, and its mark of expiration stays, although
\* its worker may still fail afterwards or write a row it read before.
CompletedIsFinal ==
  [][\A b \in Backups : artifact[b].status = "completed" =>
       /\ artifact'[b].status = "completed"
       /\ artifact[b].retention = "expiration-due" =>
            artifact'[b].retention = "expiration-due"]_vars

\* No two workers ever run one backup, not even when one of them has lost it.
SoleRunner ==
  \A v, w \in Workers : process[v].backup # 0 /\ process[v].backup = process[w].backup => v = w

\* Rows keep their types, a running job has its claim, and nobody shares a backup.
OneRunnerPerJob == TypeOK /\ SoleRunner

\* "this never queues a second backup for the same UTC month", although the
\* cursor of the policy may be lost, overwritten or repaired by several requests.
OncePerMonth == \A m \in Months : Cardinality(ScheduledFor(m)) <= 1

\* Every queued job ends, although workers die and stall.
JobEnds ==
  \A b \in Backups : job[b].status = "queued" ~> job[b].status \in {"completed", "failed"}

-----------------------------------------------------------------------------
(* What the documentation says *)

\* "A destination ID is snapshotted onto each queued job, so later settings
\* changes cannot redirect in-flight work."
DestinationKept ==
  \A b \in Backups : objects[b] \subseteq {job[b].destination} \X Files
=============================================================================
