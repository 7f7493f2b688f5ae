---------------------------- MODULE BackupProofs ----------------------------
(***************************************************************************)
(* The safety properties of the backups of a site, for any number of       *)
(* workers, requests, destinations, files, backups and months.             *)
(***************************************************************************)
EXTENDS BackupProps, FiniteSetTheorems, TLAPS

(***************************************************************************)
(* The inductive invariant.  A worker goes on with its backup after its    *)
(* claim is lost, and it writes a row it read before: that no completed    *)
(* backup is touched rests on nobody else having that backup at any time,  *)
(* so on a job being queued once only, before any worker knows it.         *)
(***************************************************************************)

Trying == {"load", "resolve", "record", "upload"}
Working == Trying \cup {"audit", "catch"}

\* Workers and requests are where their code can be, with a backup of their own
\* just when they work on one.
PlacesOK ==
  /\ \A w \in Workers :
       /\ process[w].at \in {"idle"} \cup WorkerPlace
       /\ process[w].backup # 0 <=> process[w].at \in Working
  /\ \A r \in Requests :
       /\ process[r].at \in {"idle"} \cup RequestPlace
       /\ process[r].backup # 0 <=> process[r].at \in {"job", "destinations"}

\* A job is made for an artifact that was made before it.
JobHasArtifact == \A b \in Backups : artifact[b].status = "absent" => job[b].status = "absent"

\* A request has inserted its artifact, and is the only one that will insert the job.
JobToCome ==
  \A r \in Requests :
    /\ process[r].backup # 0 => artifact[process[r].backup].status # "absent"
    /\ process[r].at = "job" =>
         /\ job[process[r].backup].status = "absent"
         /\ \A q \in Requests \ {r} : process[q].backup # process[r].backup

\* The job a worker was given is not waiting any more.
JobWasClaimed ==
  \A w \in Workers :
    process[w].backup # 0 =>
      job[process[w].backup].status \in {"running", "completed", "failed"}

\* Until it is completed by its worker a backup is running or failed, and so is
\* the row the worker has read.
NotYetCompleted ==
  \A w \in Workers :
    /\ process[w].at \in Trying => artifact[process[w].backup].status \in {"running", "failed"}
    /\ process[w].at \in {"resolve", "record"} => process[w].seen \in {"running", "failed"}

\* What a worker counts as uploaded lies at its destination.
UploadsAreThere ==
  \A w \in Workers :
    /\ process[w].at # "upload" => process[w].uploaded = 0
    /\ process[w].at \in {"record", "upload"} => process[w].destination \in Destinations
    /\ \A f \in 1..process[w].uploaded :
         <<process[w].destination, f>> \in objects[process[w].backup]

\* The unique index on site and period.
OneForPeriod ==
  \A m \in Months : \A b, c \in Backups : b \in ScheduledFor(m) /\ c \in ScheduledFor(m) => b = c

IInv ==
  /\ TypeOK /\ PlacesOK
  /\ JobHasArtifact /\ JobToCome /\ JobWasClaimed
  /\ SoleRunner /\ NotYetCompleted /\ UploadsAreThere
  /\ CompletedIsWhole /\ OneForPeriod

-----------------------------------------------------------------------------
(* Rows *)

LEMMA RowsOfIdle ==
  ASSUME BackupAssumption
  PROVE  /\ NewPolicy \in PolicyRow /\ Idle \in ProcessRow
         /\ Idle.at = "idle" /\ Idle.backup = 0 /\ Idle.uploaded = 0
  BY DEF BackupAssumption, NewPolicy, PolicyRow, Idle, ProcessRow, Status, Manual, Months, Files

\* The row of a process that has left the try block.
LEMMA LeftRow ==
  ASSUME BackupAssumption, NEW place \in WorkerPlace, NEW b \in {0} \cup Backups
  PROVE  LET row == [Idle EXCEPT !.at = place, !.backup = b] IN
         /\ row \in ProcessRow
         /\ row.at = place /\ row.backup = b /\ row.uploaded = 0
  BY RowsOfIdle DEF ProcessRow

LEMMA EndedRow ==
  ASSUME BackupAssumption, NEW row \in JobRow, NEW status \in {"completed", "failed"}
  PROVE  /\ Ended(row, status) \in JobRow
         /\ Ended(row, status).status = status
         /\ Ended(row, status).worker = NoWorker
         /\ Ended(row, status).destination = row.destination
  BY DEF Ended, JobRow, Status, Heart

LEMMA ClaimedRow ==
  ASSUME NEW row \in JobRow, NEW w \in Workers
  PROVE  /\ ClaimedBy(w, row) \in JobRow
         /\ ClaimedBy(w, row).status = "running" /\ ClaimedBy(w, row).worker = w
  BY DEF ClaimedBy, JobRow, Status, Heart

LEMMA NewRows ==
  ASSUME BackupAssumption, NEW m \in Months \cup {Manual}, NEW d \in Destinations \cup {NoDestination}
  PROVE  /\ NewArtifact(m) \in ArtifactRow /\ NewArtifact(m).status = "queued"
         /\ NewArtifact(m).period = m
         /\ NewJob(d) \in JobRow /\ NewJob(d).status = "queued" /\ NewJob(d).worker = NoWorker
  BY DEF NewArtifact, NewJob, ArtifactRow, JobRow, Status, Heart

-----------------------------------------------------------------------------
(* Steps that leave the backups alone *)

\* A step of a worker before its first upload, or after its last.
LEMMA WorkerStep ==
  ASSUME BackupAssumption, IInv, NEW w \in Workers, NEW row \in ProcessRow,
         process' = [process EXCEPT ![w] = row],
         UNCHANGED <<artifact, job, objects, policy, setting, month>>, faults' \in 0..FaultBound,
         row.at \in {"idle"} \cup WorkerPlace, row.at # "upload", row.uploaded = 0,
         row.backup \in {0, process[w].backup}, row.backup # 0 <=> row.at \in Working,
         row.at \in Trying => process[w].at \in Trying,
         row.at \in {"resolve", "record"} => row.seen \in {"running", "failed"},
         row.at = "record" => row.destination \in Destinations
  PROVE  IInv'
<1>1. /\ process'[w] = row
      /\ \A p \in Workers \cup Requests : p # w => process'[p] = process[p]
      /\ w \notin Requests
  BY DEF IInv, TypeOK, BackupAssumption
<1>2. TypeOK'
  BY DEF IInv, TypeOK
<1>3. PlacesOK'
  BY <1>1 DEF IInv, PlacesOK
<1>4. JobHasArtifact' /\ CompletedIsWhole' /\ OneForPeriod'
  BY DEF IInv, JobHasArtifact, CompletedIsWhole, OneForPeriod, ScheduledFor
<1>5. JobToCome' /\ JobWasClaimed' /\ SoleRunner'
  BY <1>1 DEF IInv, JobToCome, JobWasClaimed, SoleRunner
<1>6. NotYetCompleted'
  <2>1. row.at \in Trying => row.backup = process[w].backup
    BY DEF Working
  <2> QED
    BY <1>1, <2>1 DEF IInv, NotYetCompleted
<1>7. UploadsAreThere'
  BY <1>1 DEF IInv, UploadsAreThere
<1> QED
  BY <1>2, <1>3, <1>4, <1>5, <1>6, <1>7 DEF IInv

\* A step of a request that has not created an artifact.
LEMMA RequestStep ==
  ASSUME BackupAssumption, IInv, NEW r \in Requests, NEW row \in ProcessRow,
         process' = [process EXCEPT ![r] = row],
         UNCHANGED <<artifact, job, objects, setting, month>>,
         policy' \in PolicyRow, faults' \in 0..FaultBound,
         row.at \in {"idle"} \cup RequestPlace, row.at \notin {"job", "destinations"},
         row.backup = 0
  PROVE  IInv'
<1>1. /\ process'[r] = row
      /\ \A p \in Workers \cup Requests : p # r => process'[p] = process[p]
      /\ \A w \in Workers : process'[w] = process[w]
  BY DEF IInv, TypeOK, BackupAssumption
<1>2. TypeOK'
  BY DEF IInv, TypeOK
<1>3. PlacesOK'
  BY <1>1 DEF IInv, PlacesOK
<1>4. JobHasArtifact' /\ CompletedIsWhole' /\ OneForPeriod'
  BY DEF IInv, JobHasArtifact, CompletedIsWhole, OneForPeriod, ScheduledFor
<1>5. JobToCome'
  <2> SUFFICES ASSUME NEW s \in Requests, process'[s].backup # 0
               PROVE  /\ artifact'[process'[s].backup].status # "absent"
                      /\ process'[s].at = "job" =>
                           /\ job'[process'[s].backup].status = "absent"
                           /\ \A q \in Requests \ {s} : process'[q].backup # process'[s].backup
    BY <1>3 DEF JobToCome, PlacesOK
  <2>1. s # r /\ process'[s] = process[s]
    BY <1>1
  <2> QED
    BY <1>1, <2>1 DEF IInv, JobToCome
<1>6. JobWasClaimed' /\ SoleRunner' /\ NotYetCompleted' /\ UploadsAreThere'
  BY <1>1 DEF IInv, JobWasClaimed, SoleRunner, NotYetCompleted, UploadsAreThere
<1> QED
  BY <1>2, <1>3, <1>4, <1>5, <1>6 DEF IInv

\* A running job is found alive, or not.
LEMMA HeartStep ==
  ASSUME BackupAssumption, IInv, NEW b \in Backups, NEW heart \in Heart,
         job[b].status = "running", job' = [job EXCEPT ![b].heart = heart],
         UNCHANGED <<artifact, objects, policy, setting, month, process, faults>>
  PROVE  IInv'
<1>1. /\ job' \in [Backups -> JobRow]
      /\ \A c \in Backups : job'[c].status = job[c].status /\ job'[c].worker = job[c].worker
  BY DEF IInv, TypeOK, JobRow
<1>2. TypeOK'
  BY <1>1 DEF IInv, TypeOK
<1>3. /\ \A w \in Workers : process[w].backup \in {0} \cup Backups
      /\ \A r \in Requests : process[r].backup \in {0} \cup Backups
  BY DEF IInv, TypeOK, ProcessRow
<1> QED
  BY <1>1, <1>2, <1>3
     DEF IInv, PlacesOK, JobHasArtifact, JobToCome, JobWasClaimed, SoleRunner, NotYetCompleted,
         UploadsAreThere, CompletedIsWhole, OneForPeriod, ScheduledFor

LEMMA HeartOfKeepsIInv ==
  ASSUME BackupAssumption, IInv, NEW w \in Workers, NEW b \in Backups, job' = HeartOf(w, b), job' # job,
         UNCHANGED <<artifact, objects, policy, setting, month, process, faults>>
  PROVE  IInv'
BY HeartStep DEF HeartOf, Claims, Heart

-----------------------------------------------------------------------------
(* The worker *)

\* What the backups of all workers and requests are.
LEMMA KnownBackups ==
  ASSUME IInv
  PROVE  /\ \A w \in Workers : process[w].backup # 0 => process[w].backup \in Backups
         /\ \A w \in Workers : process[w].at \in Working => process[w].backup \in Backups
         /\ \A r \in Requests : process[r].backup # 0 => process[r].backup \in Backups
         /\ \A r \in Requests : process[r].at = "job" => process[r].backup \in Backups
BY DEF IInv, TypeOK, ProcessRow, PlacesOK

\* A step of a worker that leaves the jobs alone and takes no row away.
LEMMA RequestsUntouched ==
  ASSUME IInv, UNCHANGED job, \A r \in Requests : process'[r] = process[r],
         \A c \in Backups : artifact[c].status # "absent" => artifact'[c].status # "absent"
  PROVE  JobToCome'
<1> SUFFICES ASSUME NEW r \in Requests
             PROVE  /\ process[r].backup # 0 => artifact'[process[r].backup].status # "absent"
                    /\ process[r].at = "job" =>
                         /\ job[process[r].backup].status = "absent"
                         /\ \A q \in Requests \ {r} : process[q].backup # process[r].backup
  BY DEF JobToCome
<1>1. process[r].backup # 0 => process[r].backup \in Backups
  BY KnownBackups
<1>2. process[r].backup # 0 => artifact[process[r].backup].status # "absent"
  BY DEF IInv, JobToCome
<1> QED
  BY <1>1, <1>2 DEF IInv, JobToCome

LEMMA RunNextKeepsIInv ==
  ASSUME BackupAssumption, IInv, NEW w \in Workers, RunNext(w)
  PROVE  IInv'
<1> DEFINE stale == {b \in Backups : job[b].status = "running" /\ job[b].heart = "stale"}
<1>1. /\ process[w].at = "idle" /\ process' = [process EXCEPT ![w].at = "claim"]
      /\ UNCHANGED <<objects, policy, setting, month, faults>>
      /\ w \notin Requests
  BY DEF RunNext, At, Goto, BackupAssumption
<1>2. \A b \in Backups :
        /\ job'[b] \in JobRow
        /\ b \in stale => job'[b].status = "failed" /\ job'[b].worker = NoWorker
        /\ b \notin stale => job'[b] = job[b]
  BY EndedRow DEF RunNext, IInv, TypeOK
<1>3. \A b \in Backups :
        /\ artifact'[b] \in ArtifactRow /\ artifact'[b].period = artifact[b].period
        /\ \/ artifact'[b] = artifact[b]
           \/ artifact[b].status = "running" /\ artifact'[b].status = "failed"
  BY DEF RunNext, IInv, TypeOK, ArtifactRow, Status
<1>4. /\ process'[w].at = "claim" /\ process'[w].backup = 0
      /\ process'[w].uploaded = process[w].uploaded /\ process'[w].seen = process[w].seen
      /\ process' \in [Workers \cup Requests -> ProcessRow]
      /\ \A p \in Workers \cup Requests : p # w => process'[p] = process[p]
  BY <1>1 DEF IInv, TypeOK, ProcessRow, PlacesOK, Working, Trying, WorkerPlace
<1>5. TypeOK'
  <2>1. job' \in [Backups -> JobRow] /\ artifact' \in [Backups -> ArtifactRow]
    BY <1>2, <1>3 DEF RunNext
  <2>2. \A b \in Backups : job'[b].status = "running" <=> job'[b].worker # NoWorker
    BY <1>2 DEF IInv, TypeOK
  <2> QED
    BY <1>1, <1>4, <2>1, <2>2 DEF IInv, TypeOK
<1>6. PlacesOK'
  BY <1>1, <1>4 DEF IInv, PlacesOK, WorkerPlace, Working, Trying
<1>7. JobHasArtifact'
  BY <1>2, <1>3 DEF IInv, JobHasArtifact
<1>8. JobToCome'
  BY <1>1, <1>2, <1>3, <1>4, KnownBackups DEF IInv, JobToCome
<1>9. JobWasClaimed' /\ SoleRunner'
  BY <1>2, <1>4, KnownBackups DEF IInv, JobWasClaimed, SoleRunner
<1>10. NotYetCompleted'
  <2>1. \A v \in Workers : process[v].at \in Trying => process[v].backup \in Backups
    BY KnownBackups DEF Working
  <2> QED
    BY <1>3, <1>4, <2>1 DEF IInv, NotYetCompleted, Trying
<1>11. UploadsAreThere'
  BY <1>1, <1>4 DEF IInv, UploadsAreThere
<1>12. CompletedIsWhole' /\ OneForPeriod'
  BY <1>1, <1>2, <1>3 DEF IInv, CompletedIsWhole, OneForPeriod, ScheduledFor
<1> QED
  BY <1>5, <1>6, <1>7, <1>8, <1>9, <1>10, <1>11, <1>12 DEF IInv

LEMMA ClaimKeepsIInv ==
  ASSUME BackupAssumption, IInv, NEW w \in Workers, NEW b \in Backups, Claim(w, b)
  PROVE  IInv'
<1>1. /\ process[w].at = "claim" /\ job[b].status = "queued"
      /\ job' = [job EXCEPT ![b] = ClaimedBy(w, job[b])]
      /\ artifact' = [artifact EXCEPT ![b].status = "running"]
      /\ process' = [process EXCEPT ![w].at = "load", ![w].backup = b]
      /\ UNCHANGED <<objects, policy, setting, month, faults>>
      /\ w \notin Requests /\ NoWorker \notin Workers
  BY DEF Claim, At, Claimable, BackupAssumption
<1>2. /\ \A c \in Backups : c # b => job'[c] = job[c] /\ artifact'[c] = artifact[c]
      /\ job'[b] \in JobRow /\ job'[b].status = "running" /\ job'[b].worker = w
      /\ artifact'[b] \in ArtifactRow
      /\ artifact'[b].status = "running" /\ artifact'[b].period = artifact[b].period
      /\ artifact[b].status # "absent" /\ b \in Nat /\ b # 0
  BY <1>1, ClaimedRow DEF IInv, TypeOK, ArtifactRow, Status, JobHasArtifact, Backups
<1>3. /\ process'[w].at = "load" /\ process'[w].backup = b
      /\ process'[w].uploaded = process[w].uploaded /\ process'[w].seen = process[w].seen
      /\ process' \in [Workers \cup Requests -> ProcessRow]
      /\ \A p \in Workers \cup Requests : p # w => process'[p] = process[p]
  BY <1>1 DEF IInv, TypeOK, ProcessRow, WorkerPlace
<1>4. /\ \A v \in Workers : v # w => process[v].backup # b
      /\ \A r \in Requests : process[r].at = "job" => process[r].backup # b
  BY <1>1, <1>2 DEF IInv, JobWasClaimed, JobToCome
<1>5. TypeOK'
  <2>1. job' \in [Backups -> JobRow] /\ artifact' \in [Backups -> ArtifactRow]
    BY <1>1, <1>2 DEF IInv, TypeOK
  <2>2. \A c \in Backups : job'[c].status = "running" <=> job'[c].worker # NoWorker
    BY <1>1, <1>2 DEF IInv, TypeOK
  <2> QED
    BY <1>1, <1>3, <2>1, <2>2 DEF IInv, TypeOK
<1>6. PlacesOK'
  BY <1>1, <1>2, <1>3 DEF IInv, PlacesOK, WorkerPlace, Working, Trying
<1>7. JobHasArtifact'
  BY <1>2 DEF IInv, JobHasArtifact
<1>8. JobToCome'
  BY <1>1, <1>2, <1>3, <1>4, KnownBackups DEF IInv, JobToCome
<1>9. JobWasClaimed' /\ SoleRunner'
  <2>1. \A v \in Workers : v # w =>
          /\ process'[v] = process[v] /\ process[v].backup # b
          /\ process[v].backup # 0 => job'[process[v].backup] = job[process[v].backup]
    BY <1>2, <1>3, <1>4, KnownBackups
  <2> QED
    BY <1>2, <1>3, <2>1 DEF IInv, JobWasClaimed, SoleRunner
<1>10. NotYetCompleted'
  <2>1. \A v \in Workers : process[v].at \in Trying => process[v].backup \in Backups
    BY KnownBackups DEF Working
  <2>2. \A v \in Workers : v # w /\ process[v].at \in Trying =>
          process'[v] = process[v] /\ artifact'[process[v].backup] = artifact[process[v].backup]
    BY <1>2, <1>3, <1>4, <2>1
  <2> QED
    BY <1>2, <1>3, <2>2 DEF IInv, NotYetCompleted, Trying
<1>11. UploadsAreThere'
  BY <1>1, <1>3 DEF IInv, UploadsAreThere
<1>12. CompletedIsWhole' /\ OneForPeriod'
  BY <1>1, <1>2 DEF IInv, CompletedIsWhole, OneForPeriod, ScheduledFor
<1> QED
  BY <1>5, <1>6, <1>7, <1>8, <1>9, <1>10, <1>11, <1>12 DEF IInv

\* Steps of a worker that only concern itself.
LEMMA LocalWorkKeepsIInv ==
  ASSUME BackupAssumption, IInv, NEW w \in Workers,
         NothingQueued(w) \/ Load(w) \/ Resolve(w) \/ Audit(w) \/ Throw(w)
  PROVE  IInv'
<1> DEFINE p == process[w]
<1>1. p \in ProcessRow /\ faults \in 0..FaultBound /\ RuntimeDropbox \in Destinations
  BY DEF IInv, TypeOK, BackupAssumption
<1>2. ASSUME Rest(w), UNCHANGED <<artifact, job, objects, policy, setting, month, faults>>
      PROVE  IInv'
  BY <1>1, <1>2, WorkerStep, RowsOfIdle DEF Rest, Working, Trying
<1>3. CASE NothingQueued(w) \/ Audit(w)
  BY <1>2, <1>3 DEF NothingQueued, Audit
<1>4. CASE Throw(w)
  <2> DEFINE row == [Idle EXCEPT !.at = "catch", !.backup = p.backup]
  <2>1. p.at \in Working /\ process' = [process EXCEPT ![w] = row]
        /\ UNCHANGED <<artifact, job, objects, policy, setting, month, faults>>
    BY <1>4 DEF Throw, Leave, Working, Trying
  <2>2. p.backup \in {0} \cup Backups /\ p.backup # 0 /\ "catch" \in WorkerPlace
    BY <1>1, <2>1 DEF ProcessRow, IInv, PlacesOK, WorkerPlace
  <2>3. row \in ProcessRow /\ row.at = "catch" /\ row.backup = p.backup /\ row.uploaded = 0
    BY <2>2, LeftRow
  <2> QED
    BY <1>1, <2>1, <2>2, <2>3, WorkerStep DEF Working, Trying
<1>5. CASE Load(w)
  <2> DEFINE row == [p EXCEPT !.at = "resolve", !.seen = artifact[p.backup].status]
  <2>1. p.at = "load" /\ process' = [process EXCEPT ![w] = row]
        /\ UNCHANGED <<artifact, job, objects, policy, setting, month, faults>>
    BY <1>5 DEF Load, At, IInv, TypeOK
  <2>2. artifact[p.backup].status \in {"running", "failed"}
    BY <2>1 DEF IInv, NotYetCompleted, Trying
  <2>3. row \in ProcessRow /\ row.at = "resolve" /\ row.seen \in {"running", "failed"}
        /\ row.backup = p.backup /\ row.uploaded = p.uploaded
    BY <1>1, <2>2 DEF ProcessRow, WorkerPlace, Status
  <2>4. p.backup # 0 /\ p.uploaded = 0
    BY <2>1 DEF IInv, PlacesOK, UploadsAreThere, Working, Trying
  <2> QED
    BY <1>1, <2>1, <2>3, <2>4, WorkerStep DEF Working, Trying, WorkerPlace
<1>6. CASE Resolve(w)
  <2> DEFINE d == job[p.backup].destination
             row == [p EXCEPT !.at = "record", !.destination = IF d = NoDestination THEN RuntimeDropbox ELSE d]
  <2>1. p.at = "resolve" /\ process' = [process EXCEPT ![w] = row]
        /\ UNCHANGED <<artifact, job, objects, policy, setting, month, faults>>
    BY <1>6 DEF Resolve, At, IInv, TypeOK
  <2>2. p.backup # 0 /\ p.backup \in Backups /\ p.uploaded = 0 /\ p.seen \in {"running", "failed"}
    BY <2>1, KnownBackups DEF IInv, PlacesOK, UploadsAreThere, NotYetCompleted, Working, Trying
  <2>3. d \in Destinations \cup {NoDestination}
    BY <2>2 DEF IInv, TypeOK, JobRow
  <2>4. row \in ProcessRow /\ row.at = "record" /\ row.seen = p.seen /\ row.destination \in Destinations
        /\ row.backup = p.backup /\ row.uploaded = p.uploaded
    BY <1>1, <2>3 DEF ProcessRow, WorkerPlace
  <2> QED
    BY <1>1, <2>1, <2>2, <2>4, WorkerStep DEF Working, Trying, WorkerPlace
<1> QED
  BY <1>3, <1>4, <1>5, <1>6

LEMMA RecordKeepsIInv ==
  ASSUME BackupAssumption, IInv, NEW w \in Workers, Record(w)
  PROVE  IInv'
<1> DEFINE b == process[w].backup
<1>1. /\ process[w].at = "record"
      /\ artifact' = [artifact EXCEPT ![b].status = process[w].seen, ![b].retention = "retained"]
      /\ process' = [process EXCEPT ![w].at = "upload", ![w].seen = "queued"]
      /\ UNCHANGED <<job, objects, policy, setting, month, faults>>
      /\ w \notin Requests
  BY DEF Record, At, BackupAssumption, Idle
<1>2. /\ b \in Backups /\ process[w].seen \in {"running", "failed"}
      /\ process[w].destination \in Destinations /\ process[w].uploaded = 0
      /\ artifact[b].status \in {"running", "failed"}
  BY <1>1, KnownBackups DEF IInv, NotYetCompleted, UploadsAreThere, Working, Trying
<1>3. /\ \A c \in Backups : c # b => artifact'[c] = artifact[c]
      /\ artifact'[b].status \in {"running", "failed"} /\ artifact'[b].period = artifact[b].period
      /\ artifact' \in [Backups -> ArtifactRow]
  BY <1>1, <1>2 DEF IInv, TypeOK, ArtifactRow, Status
<1>4. /\ process'[w].at = "upload" /\ process'[w].backup = b
      /\ process'[w].uploaded = 0 /\ process'[w].destination = process[w].destination
      /\ process' \in [Workers \cup Requests -> ProcessRow]
      /\ \A p \in Workers \cup Requests : p # w => process'[p] = process[p]
  BY <1>1, <1>2 DEF IInv, TypeOK, ProcessRow, WorkerPlace, Status
<1>5. TypeOK'
  BY <1>1, <1>3, <1>4 DEF IInv, TypeOK
<1>6. PlacesOK'
  BY <1>1, <1>2, <1>4 DEF IInv, PlacesOK, WorkerPlace, Working, Trying
<1>7. JobHasArtifact'
  BY <1>1, <1>2, <1>3 DEF IInv, JobHasArtifact
<1>8. JobToCome'
  <2>1. \A c \in Backups : artifact[c].status # "absent" => artifact'[c].status # "absent"
    BY <1>3
  <2>2. \A r \in Requests : process'[r] = process[r]
    BY <1>1, <1>4
  <2> QED
    BY <1>1, <2>1, <2>2, RequestsUntouched
<1>9. JobWasClaimed' /\ SoleRunner'
  <2>1. \A v \in Workers : process'[v].backup = process[v].backup
    BY <1>4
  <2> QED
    BY <1>1, <2>1 DEF IInv, JobWasClaimed, SoleRunner
<1>10. NotYetCompleted'
  <2>1. \A v \in Workers : process[v].at \in Trying => process[v].backup \in Backups
    BY KnownBackups DEF Working
  <2>2. \A v \in Workers : process[v].at \in Trying =>
          artifact'[process[v].backup].status \in {"running", "failed"}
    BY <1>3, <2>1 DEF IInv, NotYetCompleted
  <2> QED
    BY <1>1, <1>4, <2>2 DEF IInv, NotYetCompleted, Trying
<1>11. UploadsAreThere'
  BY <1>1, <1>2, <1>4 DEF IInv, UploadsAreThere
<1>12. CompletedIsWhole'
  <2>1. \A c \in Backups : artifact'[c].status = "completed" => artifact[c].status = "completed"
    BY <1>3
  <2> QED
    BY <1>1, <2>1 DEF IInv, CompletedIsWhole
<1>13. OneForPeriod'
  <2>1. \A c \in Backups : artifact'[c].period = artifact[c].period
    BY <1>3
  <2>2. \A c \in Backups : artifact'[c].status # "absent" => artifact[c].status # "absent"
    BY <1>2, <1>3
  <2>3. \A m \in Months : ScheduledFor(m)' \subseteq ScheduledFor(m)
    BY <2>1, <2>2 DEF ScheduledFor
  <2> QED
    BY <2>3 DEF IInv, OneForPeriod
<1> QED
  BY <1>5, <1>6, <1>7, <1>8, <1>9, <1>10, <1>11, <1>12, <1>13 DEF IInv

\* A claim that is current is renewed, and one that is lost stays lost.
LEMMA HeartOfRow ==
  ASSUME IInv, NEW w \in Workers, NEW b \in Backups
  PROVE  /\ HeartOf(w, b) \in [Backups -> JobRow]
         /\ \A c \in Backups : /\ HeartOf(w, b)[c].status = job[c].status
                               /\ HeartOf(w, b)[c].worker = job[c].worker
                               /\ HeartOf(w, b)[c].destination = job[c].destination
BY DEF HeartOf, IInv, TypeOK, JobRow, Heart

LEMMA UploadKeepsIInv ==
  ASSUME BackupAssumption, IInv, NEW w \in Workers, Upload(w)
  PROVE  IInv'
<1> DEFINE b == process[w].backup
           f == process[w].uploaded + 1
           d == process[w].destination
<1>1. /\ process[w].at = "upload" /\ f \in Files
      /\ job' = HeartOf(w, b)
      /\ objects' = [objects EXCEPT ![b] = objects[b] \cup {<<d, f>>}]
      /\ process' = [process EXCEPT ![w].uploaded = f]
      /\ UNCHANGED <<artifact, policy, setting, month, faults>>
      /\ w \notin Requests
  BY DEF Upload, At, BackupAssumption
<1>2. /\ b \in Backups /\ d \in Destinations /\ process[w].uploaded \in Nat
      /\ objects[b] \in SUBSET (Destinations \X Files)
  BY <1>1, KnownBackups DEF IInv, UploadsAreThere, Working, Trying, TypeOK, ProcessRow, BackupAssumption
<1>3. /\ job' \in [Backups -> JobRow]
      /\ \A c \in Backups : job'[c].status = job[c].status /\ job'[c].worker = job[c].worker
  BY <1>1, <1>2, HeartOfRow
<1>4. /\ objects' \in [Backups -> SUBSET (Destinations \X Files)]
      /\ \A c \in Backups : objects[c] \subseteq objects'[c]
      /\ <<d, f>> \in objects'[b]
  BY <1>1, <1>2 DEF IInv, TypeOK
<1>5. /\ process'[w].at = "upload" /\ process'[w].backup = b /\ process'[w].seen = process[w].seen
      /\ process'[w].uploaded = f /\ process'[w].destination = d
      /\ process' \in [Workers \cup Requests -> ProcessRow]
      /\ \A p \in Workers \cup Requests : p # w => process'[p] = process[p]
  <2>1. f \in 0..FileCount
    BY <1>1, <1>2 DEF Files
  <2> QED
    BY <1>1, <2>1 DEF IInv, TypeOK, ProcessRow
<1>6. TypeOK'
  BY <1>1, <1>3, <1>4, <1>5 DEF IInv, TypeOK
<1>7. /\ \A v \in Workers : process'[v].backup = process[v].backup /\ process'[v].at = process[v].at
                             /\ process'[v].seen = process[v].seen
      /\ \A r \in Requests : process'[r] = process[r]
  BY <1>1, <1>5
<1>8. PlacesOK' /\ SoleRunner'
  BY <1>7 DEF IInv, PlacesOK, SoleRunner
<1>9. JobHasArtifact' /\ OneForPeriod'
  BY <1>1, <1>3 DEF IInv, JobHasArtifact, OneForPeriod, ScheduledFor
<1>10. JobToCome' /\ JobWasClaimed'
  BY <1>1, <1>3, <1>7, KnownBackups DEF IInv, JobToCome, JobWasClaimed
<1>11. NotYetCompleted'
  BY <1>1, <1>7 DEF IInv, NotYetCompleted
<1>12. UploadsAreThere'
  <2> SUFFICES ASSUME NEW v \in Workers
               PROVE  /\ process'[v].at # "upload" => process'[v].uploaded = 0
                      /\ process'[v].at \in {"record", "upload"} => process'[v].destination \in Destinations
                      /\ \A g \in 1..process'[v].uploaded :
                           <<process'[v].destination, g>> \in objects'[process'[v].backup]
    BY DEF UploadsAreThere
  <2>1. CASE v = w
    <3>1. \A g \in 1..f : g \in 1..process[w].uploaded \/ g = f
      BY <1>2
    <3>2. \A g \in 1..process[w].uploaded : <<d, g>> \in objects'[b]
      BY <1>2, <1>4 DEF IInv, UploadsAreThere
    <3> QED
      BY <1>2, <1>4, <1>5, <2>1, <3>1, <3>2
  <2>2. CASE v # w
    <3>1. process'[v] = process[v] /\ (process[v].backup \in Backups \/ process[v].uploaded = 0)
      BY <1>5, <2>2, KnownBackups DEF IInv, PlacesOK, UploadsAreThere, Working, Trying
    <3> QED
      BY <1>4, <3>1 DEF IInv, UploadsAreThere
  <2> QED
    BY <2>1, <2>2
<1>13. CompletedIsWhole'
  BY <1>1, <1>3, <1>4 DEF IInv, CompletedIsWhole
<1> QED
  BY <1>6, <1>8, <1>9, <1>10, <1>11, <1>12, <1>13 DEF IInv

\* finishExecution and what its worker does with the answer.
LEMMA FinishKeepsIInv ==
  ASSUME BackupAssumption, IInv, NEW w \in Workers, process[w].at \in {"upload", "catch"},
         NEW status \in {"completed", "failed"}, Finish(w, status),
         status = "completed" => process[w].at = "upload" /\ AllUploaded(w),
         NEW row \in ProcessRow, process' = [process EXCEPT ![w] = row],
         row.at \in {"idle", "audit", "catch"}, row.uploaded = 0,
         row.backup \in {0, process[w].backup}, row.backup # 0 <=> row.at \in Working,
         UNCHANGED <<objects, policy, setting, month, faults>>
  PROVE  IInv'
<1> DEFINE b == process[w].backup
<1>1. CASE ~Claims(w, b)
  <2>1. UNCHANGED <<artifact, job>>
    BY <1>1 DEF Finish
  <2>2. faults \in 0..FaultBound
    BY DEF IInv, TypeOK
  <2> QED
    BY <2>1, <2>2, WorkerStep DEF WorkerPlace, Trying
<1>2. CASE Claims(w, b)
  <2>1. /\ b \in Backups /\ w \notin Requests
        /\ job[b].status = "running"
        /\ artifact' = [artifact EXCEPT ![b].status = status]
        /\ job' = [job EXCEPT ![b] = Ended(job[b], status)]
    BY <1>2, KnownBackups DEF Finish, Claims, BackupAssumption, Working, Trying
  <2>2. /\ \A c \in Backups : c # b => artifact'[c] = artifact[c] /\ job'[c] = job[c]
        /\ artifact'[b].status = status /\ artifact'[b].period = artifact[b].period
        /\ artifact' \in [Backups -> ArtifactRow] /\ artifact[b].status # "absent"
    BY <2>1 DEF IInv, TypeOK, ArtifactRow, Status, JobHasArtifact
  <2>3. /\ job' \in [Backups -> JobRow]
        /\ job'[b].status = status /\ job'[b].worker = NoWorker
    BY <2>1, EndedRow DEF IInv, TypeOK
  <2>4. /\ process'[w] = row /\ process' \in [Workers \cup Requests -> ProcessRow]
        /\ \A p \in Workers \cup Requests : p # w => process'[p] = process[p]
    BY DEF IInv, TypeOK
  <2>5. \A v \in Workers : v # w => process'[v] = process[v] /\ process[v].backup # b
    BY <2>1, <2>4 DEF IInv, SoleRunner, Backups
  <2>6. TypeOK'
    BY <2>2, <2>3, <2>4 DEF IInv, TypeOK
  <2>7. PlacesOK'
    BY <2>1, <2>4 DEF IInv, PlacesOK, WorkerPlace
  <2>8. JobHasArtifact'
    BY <2>2, <2>3 DEF IInv, JobHasArtifact
  <2>9. JobToCome'
    <3>1. \A r \in Requests : process'[r] = process[r]
      BY <2>1, <2>4
    <3>2. \A c \in Backups : /\ artifact[c].status # "absent" => artifact'[c].status # "absent"
                             /\ job[c].status = "absent" => job'[c].status = "absent"
      BY <2>1, <2>2
    <3> QED
      BY <3>1, <3>2, KnownBackups DEF IInv, JobToCome
  <2>10. JobWasClaimed' /\ SoleRunner'
    <3>1. \A v \in Workers : v # w /\ process[v].backup # 0 =>
            job'[process[v].backup] = job[process[v].backup]
      BY <2>2, <2>5, KnownBackups
    <3> QED
      BY <2>3, <2>4, <2>5, <3>1 DEF IInv, JobWasClaimed, SoleRunner
  <2>11. NotYetCompleted'
    <3>1. \A v \in Workers : v # w /\ process[v].at \in Trying =>
            artifact'[process[v].backup] = artifact[process[v].backup]
      BY <2>2, <2>5, KnownBackups DEF Working
    <3> QED
      BY <2>4, <2>5, <3>1 DEF IInv, NotYetCompleted, Trying
  <2>12. UploadsAreThere'
    BY <2>4, <2>5 DEF IInv, UploadsAreThere
  <2>13. CompletedIsWhole'
    <3>1. status = "completed" => \A f \in Files : <<process[w].destination, f>> \in objects[b]
      BY DEF AllUploaded, Files, IInv, UploadsAreThere
    <3>2. status = "completed" => process[w].destination \in Destinations
      BY DEF IInv, UploadsAreThere
    <3> QED
      BY <2>2, <2>3, <3>1, <3>2 DEF IInv, CompletedIsWhole
  <2>14. OneForPeriod'
    BY <2>2 DEF IInv, OneForPeriod, ScheduledFor
  <2> QED
    BY <2>6, <2>7, <2>8, <2>9, <2>10, <2>11, <2>12, <2>13, <2>14 DEF IInv
<1> QED
  BY <1>1, <1>2

LEMMA EndKeepsIInv ==
  ASSUME BackupAssumption, IInv, NEW w \in Workers, Complete(w) \/ Catch(w)
  PROVE  IInv'
<1> DEFINE b == process[w].backup
<1>1. process[w].at \in {"upload", "catch"} /\ UNCHANGED <<objects, policy, setting, month, faults>>
  BY DEF Complete, Catch, At
<1>2. b # 0 /\ b \in Backups
  BY <1>1, KnownBackups DEF IInv, PlacesOK, Working, Trying
<1>3. CASE Complete(w)
  <2>1. PICK place \in {"audit", "catch"} :
          process' = [process EXCEPT ![w] = [Idle EXCEPT !.at = place, !.backup = b]]
    BY <1>3 DEF Complete, Leave
  <2> DEFINE row == [Idle EXCEPT !.at = place, !.backup = b]
  <2>2. row \in ProcessRow /\ row.at = place /\ row.backup = b /\ row.uploaded = 0
    BY <1>2, <2>1, RowsOfIdle DEF ProcessRow, WorkerPlace
  <2>3. Finish(w, "completed") /\ process[w].at = "upload" /\ AllUploaded(w)
    BY <1>3 DEF Complete, At
  <2> HIDE DEF row
  <2> QED
    BY <1>1, <1>2, <2>1, <2>2, <2>3, FinishKeepsIInv DEF Working, row
<1>4. CASE Catch(w)
  <2>1. Finish(w, "failed") /\ process' = [process EXCEPT ![w] = Idle]
    BY <1>4 DEF Catch, Rest
  <2> QED
    BY <1>1, <2>1, RowsOfIdle, FinishKeepsIInv DEF Working, Trying
<1> QED
  BY <1>3, <1>4

-----------------------------------------------------------------------------
(* Requests *)

\* Steps of a request that create nothing.
LEMMA LocalRequestKeepsIInv ==
  ASSUME BackupAssumption, IInv, NEW r \in Requests,
         \/ PlanManual(r) \/ PlanScheduled(r) \/ Find(r) \/ EditPolicy(r)
         \/ Advance(r) \/ SavePolicy(r) \/ \E b \in Backups : RetryFailed(r, b)
  PROVE  IInv'
<1> DEFINE p == process[r]
<1>1. /\ p \in ProcessRow /\ policy \in PolicyRow /\ setting \in Destinations /\ month \in Months
      /\ faults \in 0..FaultBound
  BY DEF IInv, TypeOK
<1>2. ASSUME NEW row \in ProcessRow, process' = [process EXCEPT ![r] = row],
             UNCHANGED <<artifact, job, objects, setting, month, faults>>, policy' \in PolicyRow,
             row.at \in {"idle", "queue", "find", "advance", "policy", "artifact"}, row.backup = 0
      PROVE  IInv'
  BY <1>1, <1>2, RequestStep DEF RequestPlace
<1>3. /\ {"queue", "find", "advance", "policy", "artifact"} \subseteq RequestPlace
      /\ Idle \in ProcessRow /\ Idle.at = "idle" /\ Idle.backup = 0
  BY RowsOfIdle DEF RequestPlace
<1>4. CASE PlanManual(r) \/ \E b \in Backups : RetryFailed(r, b)
  <2>1. PICK place \in {"queue", "artifact"} :
          process' = [process EXCEPT ![r] = [Idle EXCEPT !.at = place, !.destination = setting]]
    BY <1>4 DEF PlanManual, RetryFailed
  <2> DEFINE row == [Idle EXCEPT !.at = place, !.destination = setting]
  <2>2. row \in ProcessRow /\ row.at = place /\ row.backup = 0
    BY <1>1, <1>3 DEF ProcessRow
  <2> QED
    BY <1>1, <1>2, <1>4, <2>1, <2>2 DEF PlanManual, RetryFailed
<1>5. CASE PlanScheduled(r)
  <2> DEFINE row == [Idle EXCEPT !.at = "find", !.period = month, !.policy = policy]
  <2>1. row \in ProcessRow /\ row.at = "find" /\ row.backup = 0
    BY <1>1, <1>3 DEF ProcessRow
  <2> QED
    BY <1>1, <1>2, <1>5, <2>1 DEF PlanScheduled
<1>6. CASE EditPolicy(r)
  <2> DEFINE row == [Idle EXCEPT !.at = "policy", !.policy = policy]
  <2>1. row \in ProcessRow /\ row.at = "policy" /\ row.backup = 0
    BY <1>1, <1>3 DEF ProcessRow
  <2> QED
    BY <1>1, <1>2, <1>6, <2>1 DEF EditPolicy
<1>7. CASE Find(r)
  <2> DEFINE on == [Idle EXCEPT !.at = "advance", !.period = p.period]
             row == [p EXCEPT !.at = "queue", !.policy = NewPolicy, !.destination = setting]
  <2>1. on \in ProcessRow /\ on.at = "advance" /\ on.backup = 0
    BY <1>1, <1>3 DEF ProcessRow
  <2>2. p.at = "find" /\ UNCHANGED <<artifact, job, objects, policy, setting, month, faults>>
    BY <1>7 DEF Find, At
  <2>3. p.backup = 0
    BY <2>2 DEF IInv, PlacesOK
  <2>4. row \in ProcessRow /\ row.at = "queue" /\ row.backup = 0
    BY <1>1, <1>3, <2>3, RowsOfIdle DEF ProcessRow
  <2>5. \/ process' = [process EXCEPT ![r] = on]
        \/ process' = [process EXCEPT ![r] = Idle]
        \/ process' = [process EXCEPT ![r] = row]
    BY <1>7 DEF Find, ToAdvance, Rest, IInv, TypeOK
  <2> HIDE DEF on, row
  <2> QED
    BY <1>1, <1>2, <1>3, <2>1, <2>2, <2>4, <2>5
<1>8. CASE Advance(r)
  <2>1. PICK n \in {1, 2} : policy' = [enabled |-> TRUE, nextDue |-> Due(p.period + n), lastPeriod |-> p.period]
    BY <1>8 DEF Advance
  <2>2. p.period \in {0} \cup Months /\ MonthBound \in Nat \ {0}
    BY <1>1 DEF ProcessRow, Manual, BackupAssumption
  <2>3. Due(p.period + n) \in 1..MonthBound + 1
    BY <2>2 DEF Due, Months
  <2>4. policy' \in PolicyRow
    BY <2>1, <2>2, <2>3 DEF PolicyRow, Manual
  <2> QED
    BY <1>2, <1>3, <1>8, <2>4 DEF Advance, Rest
<1>9. CASE SavePolicy(r)
  <2>1. policy' \in PolicyRow
    BY <1>1, <1>9 DEF SavePolicy, ProcessRow, PolicyRow
  <2> QED
    BY <1>2, <1>3, <1>9, <2>1 DEF SavePolicy, Rest
<1> QED
  BY <1>4, <1>5, <1>6, <1>7, <1>8, <1>9

\* No month had a backup yet when one is queued for it.
LEMMA QueueKeepsIInv ==
  ASSUME BackupAssumption, IInv, NEW r \in Requests, Queue(r)
  PROVE  IInv'
<1> DEFINE p == process[r]
           on == [Idle EXCEPT !.at = "advance", !.period = p.period]
<1>1. /\ p.at = "queue" /\ p \in ProcessRow /\ faults \in 0..FaultBound /\ policy \in PolicyRow
      /\ UNCHANGED <<objects, policy, setting, month, faults>>
  BY DEF Queue, At, IInv, TypeOK
<1>2. /\ on \in ProcessRow /\ on.at = "advance" /\ on.backup = 0
      /\ Idle \in ProcessRow /\ Idle.at = "idle" /\ Idle.backup = 0
  BY <1>1, RowsOfIdle DEF ProcessRow, RequestPlace
<1>3. PICK b \in Backups :
        /\ IsNext(b)
        /\ IF Taken(p.period)
           THEN Rest(r) /\ UNCHANGED <<artifact, job>>
           ELSE /\ artifact' = [artifact EXCEPT ![b] = NewArtifact(p.period)]
                /\ job' = [job EXCEPT ![b] = NewJob(p.destination)]
                /\ IF p.period = Manual THEN Rest(r) ELSE ToAdvance(r)
  BY DEF Queue
<1>4. PICK row \in {Idle, on} : process' = [process EXCEPT ![r] = row]
  BY <1>3 DEF Rest, ToAdvance
<1>5. row \in ProcessRow /\ row.at \in {"idle", "advance"} /\ row.backup = 0
  BY <1>2
<1> HIDE DEF on
<1>6. CASE Taken(p.period)
  BY <1>1, <1>3, <1>4, <1>5, <1>6, RequestStep DEF RequestPlace
<1>7. CASE ~Taken(p.period)
  <2>1. /\ artifact[b].status = "absent" /\ job[b].status = "absent"
        /\ artifact' = [artifact EXCEPT ![b] = NewArtifact(p.period)]
        /\ job' = [job EXCEPT ![b] = NewJob(p.destination)]
        /\ p.period \in Months \cup {Manual} /\ p.destination \in Destinations \cup {NoDestination}
        /\ b \in Nat /\ b # 0
    BY <1>1, <1>3, <1>7 DEF IsNext, Unused, IInv, JobHasArtifact, ProcessRow, Backups
  <2>2. /\ \A c \in Backups : c # b => artifact'[c] = artifact[c] /\ job'[c] = job[c]
        /\ artifact'[b].status = "queued" /\ artifact'[b].period = p.period
        /\ job'[b].status = "queued" /\ job'[b].worker = NoWorker
        /\ artifact' \in [Backups -> ArtifactRow] /\ job' \in [Backups -> JobRow]
    BY <2>1, NewRows DEF IInv, TypeOK
  <2>3. /\ process'[r] = row /\ process' \in [Workers \cup Requests -> ProcessRow]
        /\ \A q \in Workers \cup Requests : q # r => process'[q] = process[q]
        /\ r \notin Workers
    BY <1>4, <1>5 DEF IInv, TypeOK, BackupAssumption
  <2>4. /\ \A w \in Workers : process'[w] = process[w] /\ process[w].backup # b
        /\ \A q \in Requests : process[q].backup # b
    BY <2>1, <2>3 DEF IInv, JobWasClaimed, JobToCome
  <2>5. TypeOK'
    BY <1>1, <2>2, <2>3 DEF IInv, TypeOK
  <2>6. PlacesOK'
    BY <1>5, <2>3 DEF IInv, PlacesOK, RequestPlace
  <2>7. JobHasArtifact'
    BY <2>2 DEF IInv, JobHasArtifact
  <2>8. JobToCome'
    <3>1. \A q \in Requests : process'[q].backup # 0 =>
            /\ q # r /\ process'[q] = process[q]
            /\ artifact'[process[q].backup] = artifact[process[q].backup]
            /\ job'[process[q].backup] = job[process[q].backup]
      BY <1>5, <2>2, <2>3, <2>4, KnownBackups
    <3>2. \A q \in Requests : process'[q].at = "job" => process'[q].backup # 0
      BY <2>6 DEF PlacesOK
    <3>3. \A q \in Requests : process'[q].backup \in {0, process[q].backup}
      BY <1>5, <2>3
    <3> QED
      BY <3>1, <3>2, <3>3 DEF IInv, JobToCome
  <2>9. JobWasClaimed' /\ SoleRunner'
    BY <2>2, <2>4, KnownBackups DEF IInv, JobWasClaimed, SoleRunner
  <2>10. NotYetCompleted'
    BY <2>2, <2>4, KnownBackups DEF IInv, NotYetCompleted, Working
  <2>11. UploadsAreThere'
    BY <1>1, <2>4 DEF IInv, UploadsAreThere
  <2>12. CompletedIsWhole'
    BY <1>1, <2>2 DEF IInv, CompletedIsWhole
  <2>13. OneForPeriod'
    <3>1. p.period \in Months => ScheduledFor(p.period) = {}
      BY <1>7 DEF Taken, Months, Manual
    <3> QED
      BY <2>1, <2>2, <3>1 DEF IInv, OneForPeriod, ScheduledFor
  <2> QED
    BY <2>5, <2>6, <2>7, <2>8, <2>9, <2>10, <2>11, <2>12, <2>13 DEF IInv
<1> QED
  BY <1>6, <1>7

LEMMA CreateArtifactKeepsIInv ==
  ASSUME BackupAssumption, IInv, NEW r \in Requests, CreateArtifact(r)
  PROVE  IInv'
<1>1. PICK b \in Backups :
        /\ IsNext(b)
        /\ artifact' = [artifact EXCEPT ![b] = NewArtifact(Manual)]
        /\ process' = [process EXCEPT ![r].at = "job", ![r].backup = b]
  BY DEF CreateArtifact
<1>2. /\ process[r].at = "artifact" /\ UNCHANGED <<job, objects, policy, setting, month, faults>>
      /\ artifact[b].status = "absent" /\ job[b].status = "absent"
      /\ b \in Nat /\ b # 0 /\ r \notin Workers
  BY <1>1 DEF CreateArtifact, At, IsNext, Unused, IInv, JobHasArtifact, Backups, BackupAssumption
<1>3. /\ \A c \in Backups : c # b => artifact'[c] = artifact[c]
      /\ artifact'[b].status = "queued" /\ artifact'[b].period = Manual
      /\ artifact' \in [Backups -> ArtifactRow]
  BY <1>1, NewRows DEF IInv, TypeOK
<1>4. /\ process'[r].at = "job" /\ process'[r].backup = b
      /\ process' \in [Workers \cup Requests -> ProcessRow]
      /\ \A q \in Workers \cup Requests : q # r => process'[q] = process[q]
  <2>1. /\ process \in [Workers \cup Requests -> ProcessRow] /\ r \in Workers \cup Requests
        /\ "job" \in RequestPlace
    BY DEF IInv, TypeOK, RequestPlace
  <2>2. PICK row : row = [process[r] EXCEPT !.at = "job", !.backup = b]
    OBVIOUS
  <2>3. row \in ProcessRow /\ row.at = "job" /\ row.backup = b
    BY <1>2, <2>1, <2>2 DEF ProcessRow, IInv, TypeOK
  <2>4. process' = [process EXCEPT ![r] = row]
    BY <1>1, <2>1, <2>2
  <2> QED
    BY <2>1, <2>3, <2>4
<1>5. /\ \A w \in Workers : process'[w] = process[w] /\ process[w].backup # b
      /\ \A q \in Requests : process[q].backup # b
  BY <1>2, <1>4 DEF IInv, JobWasClaimed, JobToCome
<1>6. TypeOK'
  BY <1>2, <1>3, <1>4 DEF IInv, TypeOK
<1>7. PlacesOK'
  BY <1>2, <1>4 DEF IInv, PlacesOK, RequestPlace
<1>8. JobHasArtifact'
  BY <1>2, <1>3 DEF IInv, JobHasArtifact
<1>9. JobToCome'
  <2>1. \A q \in Requests : q # r =>
          /\ process'[q] = process[q] /\ process[q].backup # b
          /\ process[q].backup # 0 => artifact'[process[q].backup] = artifact[process[q].backup]
    BY <1>3, <1>4, <1>5, KnownBackups
  <2> QED
    BY <1>2, <1>3, <1>4, <2>1 DEF IInv, JobToCome
<1>10. JobWasClaimed' /\ SoleRunner'
  BY <1>2, <1>5 DEF IInv, JobWasClaimed, SoleRunner
<1>11. NotYetCompleted'
  BY <1>3, <1>5, KnownBackups DEF IInv, NotYetCompleted, Working
<1>12. UploadsAreThere'
  BY <1>2, <1>5 DEF IInv, UploadsAreThere
<1>13. CompletedIsWhole'
  BY <1>2, <1>3 DEF IInv, CompletedIsWhole
<1>14. OneForPeriod'
  <2>1. Manual \notin Months
    BY DEF Manual, Months
  <2> QED
    BY <1>3, <2>1 DEF IInv, OneForPeriod, ScheduledFor
<1> QED
  BY <1>6, <1>7, <1>8, <1>9, <1>10, <1>11, <1>12, <1>13, <1>14 DEF IInv

LEMMA CreateJobKeepsIInv ==
  ASSUME BackupAssumption, IInv, NEW r \in Requests, CreateJob(r)
  PROVE  IInv'
<1> DEFINE b == process[r].backup
<1>1. /\ process[r].at = "job" /\ b # 0 /\ b \in Backups /\ r \notin Workers
      /\ job' = [job EXCEPT ![b] = NewJob(NoDestination)]
      /\ process' = [process EXCEPT ![r].at = "destinations"]
      /\ UNCHANGED <<artifact, objects, policy, setting, month, faults>>
      /\ job[b].status = "absent" /\ artifact[b].status # "absent"
  BY KnownBackups DEF CreateJob, At, Goto, IInv, PlacesOK, JobToCome, BackupAssumption
<1>2. /\ \A c \in Backups : c # b => job'[c] = job[c]
      /\ job'[b].status = "queued" /\ job'[b].worker = NoWorker
      /\ job' \in [Backups -> JobRow]
  BY <1>1, NewRows DEF IInv, TypeOK
<1>3. /\ process'[r].at = "destinations" /\ process'[r].backup = b
      /\ process' \in [Workers \cup Requests -> ProcessRow]
      /\ \A q \in Workers \cup Requests : q # r => process'[q] = process[q]
  BY <1>1 DEF IInv, TypeOK, ProcessRow, RequestPlace
<1>4. /\ \A w \in Workers : process'[w] = process[w] /\ process[w].backup # b
      /\ \A q \in Requests \ {r} : process[q].backup # b
  BY <1>1, <1>3 DEF IInv, JobWasClaimed, JobToCome
<1>5. TypeOK'
  BY <1>1, <1>2, <1>3 DEF IInv, TypeOK
<1>6. PlacesOK'
  BY <1>1, <1>3 DEF IInv, PlacesOK, RequestPlace
<1>7. JobHasArtifact' /\ OneForPeriod'
  BY <1>1, <1>2 DEF IInv, JobHasArtifact, OneForPeriod, ScheduledFor
<1>8. JobToCome'
  <2>1. \A q \in Requests : q # r =>
          /\ process'[q] = process[q] /\ process[q].backup # b
          /\ process[q].backup # 0 => job'[process[q].backup] = job[process[q].backup]
    BY <1>2, <1>3, <1>4, KnownBackups
  <2> QED
    BY <1>1, <1>3, <2>1, <1>6 DEF IInv, JobToCome, PlacesOK
<1>9. JobWasClaimed' /\ SoleRunner'
  BY <1>2, <1>4, KnownBackups DEF IInv, JobWasClaimed, SoleRunner
<1>10. NotYetCompleted' /\ UploadsAreThere'
  BY <1>1, <1>4 DEF IInv, NotYetCompleted, UploadsAreThere
<1>11. CompletedIsWhole'
  BY <1>1, <1>2 DEF IInv, CompletedIsWhole
<1> QED
  BY <1>5, <1>6, <1>7, <1>8, <1>9, <1>10, <1>11 DEF IInv

LEMMA SaveDestinationsKeepsIInv ==
  ASSUME BackupAssumption, IInv, NEW r \in Requests, SaveDestinations(r)
  PROVE  IInv'
<1> DEFINE b == process[r].backup
<1>1. /\ process[r].at = "destinations" /\ b \in Backups /\ r \notin Workers
      /\ process[r].destination \in Destinations \cup {NoDestination}
      /\ job' = [job EXCEPT ![b].destination = process[r].destination]
      /\ process' = [process EXCEPT ![r] = Idle]
      /\ UNCHANGED <<artifact, objects, policy, setting, month, faults>>
  BY KnownBackups DEF SaveDestinations, At, Rest, IInv, TypeOK, ProcessRow, PlacesOK, BackupAssumption
<1>2. /\ job' \in [Backups -> JobRow]
      /\ \A c \in Backups : job'[c].status = job[c].status /\ job'[c].worker = job[c].worker
  BY <1>1 DEF IInv, TypeOK, JobRow
<1>3. /\ process'[r] = Idle /\ process' \in [Workers \cup Requests -> ProcessRow]
      /\ \A w \in Workers : process'[w] = process[w]
      /\ \A q \in Requests : q # r => process'[q] = process[q]
  BY <1>1, RowsOfIdle DEF IInv, TypeOK
<1>4. TypeOK'
  BY <1>1, <1>2, <1>3 DEF IInv, TypeOK
<1>5. PlacesOK'
  BY <1>3, RowsOfIdle DEF IInv, PlacesOK
<1>6. JobHasArtifact' /\ OneForPeriod' /\ CompletedIsWhole'
  BY <1>1, <1>2 DEF IInv, JobHasArtifact, OneForPeriod, ScheduledFor, CompletedIsWhole
<1>7. JobToCome'
  <2>1. \A q \in Requests : process'[q].backup # 0 =>
          q # r /\ process'[q] = process[q] /\ process[q].backup \in Backups
    BY <1>3, RowsOfIdle, KnownBackups
  <2>2. \A q \in Requests : process'[q].backup \in {0, process[q].backup}
    BY <1>3, RowsOfIdle
  <2>3. \A q \in Requests : process'[q].at = "job" => process'[q].backup # 0
    BY <1>5 DEF PlacesOK
  <2> QED
    BY <1>1, <1>2, <2>1, <2>2, <2>3 DEF IInv, JobToCome
<1>8. JobWasClaimed' /\ SoleRunner' /\ NotYetCompleted' /\ UploadsAreThere'
  BY <1>1, <1>2, <1>3, KnownBackups
     DEF IInv, JobWasClaimed, SoleRunner, NotYetCompleted, UploadsAreThere
<1> QED
  BY <1>4, <1>5, <1>6, <1>7, <1>8 DEF IInv

-----------------------------------------------------------------------------
(* Retention, faults and the world *)

LEMMA RetentionDryRunKeepsIInv ==
  ASSUME BackupAssumption, IInv, NEW b \in Backups, RetentionDryRun(b)
  PROVE  IInv'
<1>1. /\ artifact' \in [Backups -> ArtifactRow]
      /\ \A c \in Backups : /\ artifact'[c].status = artifact[c].status
                            /\ artifact'[c].period = artifact[c].period
      /\ UNCHANGED <<job, objects, policy, setting, month, process, faults>>
  BY DEF RetentionDryRun, IInv, TypeOK, ArtifactRow
<1>2. TypeOK'
  BY <1>1 DEF IInv, TypeOK
<1>3. /\ \A w \in Workers : process[w].backup \in {0} \cup Backups
      /\ \A w \in Workers : process[w].at \in Trying => process[w].backup \in Backups
      /\ \A r \in Requests : process[r].backup \in {0} \cup Backups
  BY KnownBackups DEF IInv, TypeOK, ProcessRow, Working
<1>4. JobHasArtifact' /\ CompletedIsWhole' /\ OneForPeriod' /\ NotYetCompleted' /\ JobToCome'
  BY <1>1, <1>3 DEF IInv, JobHasArtifact, CompletedIsWhole, OneForPeriod, ScheduledFor,
                    NotYetCompleted, JobToCome
<1>5. PlacesOK' /\ JobWasClaimed' /\ SoleRunner' /\ UploadsAreThere'
  BY <1>1 DEF IInv, PlacesOK, JobWasClaimed, SoleRunner, UploadsAreThere
<1> QED
  BY <1>2, <1>4, <1>5 DEF IInv

LEMMA LostKeepsIInv ==
  ASSUME BackupAssumption, IInv, NEW p \in Workers \cup Requests, Lost(p)
  PROVE  IInv'
<1>1. /\ process' = [process EXCEPT ![p] = Idle] /\ faults' \in 0..FaultBound /\ policy \in PolicyRow
      /\ UNCHANGED <<artifact, job, objects, policy, setting, month>>
  BY DEF Lost, Rest, IInv, TypeOK, BackupAssumption
<1>2. CASE p \in Workers
  BY <1>1, <1>2, WorkerStep, RowsOfIdle DEF Working, Trying
<1>3. CASE p \in Requests
  BY <1>1, <1>3, RequestStep, RowsOfIdle
<1> QED
  BY <1>2, <1>3

LEMMA WorldKeepsIInv ==
  ASSUME BackupAssumption, IInv, NextMonth \/ \E d \in Destinations : Configure(d)
  PROVE  IInv'
<1>1. /\ UNCHANGED <<artifact, job, objects, policy, process, faults>>
      /\ setting' \in Destinations /\ month' \in Months
  BY DEF NextMonth, Configure, IInv, TypeOK, Months, BackupAssumption
<1> QED
  BY <1>1 DEF IInv, TypeOK, PlacesOK, JobHasArtifact, JobToCome, JobWasClaimed, SoleRunner,
              NotYetCompleted, UploadsAreThere, CompletedIsWhole, OneForPeriod, ScheduledFor

-----------------------------------------------------------------------------
(* What follows for every behaviour *)

LEMMA InitIInv ==
  ASSUME BackupAssumption
  PROVE  Init => IInv
<1> SUFFICES ASSUME Init PROVE IInv
  OBVIOUS
<1>1. /\ NewArtifact(Manual) \in ArtifactRow /\ NewJob(NoDestination) \in JobRow
      /\ NewJob(NoDestination).worker = NoWorker
  BY NewRows
<1>2. /\ artifact \in [Backups -> ArtifactRow] /\ job \in [Backups -> JobRow]
      /\ \A b \in Backups : /\ artifact[b].status = "absent" /\ job[b].status = "absent"
                            /\ job[b].worker = NoWorker
  BY <1>1 DEF Init, ArtifactRow, JobRow, Status
<1>3. /\ process \in [Workers \cup Requests -> ProcessRow]
      /\ \A p \in Workers \cup Requests :
           process[p].at = "idle" /\ process[p].backup = 0 /\ process[p].uploaded = 0
  BY RowsOfIdle DEF Init
<1>4. TypeOK
  <2>1. objects \in [Backups -> SUBSET (Destinations \X Files)]
    BY DEF Init
  <2>2. policy \in PolicyRow /\ setting \in Destinations /\ month \in Months /\ faults \in 0..FaultBound
    BY RowsOfIdle DEF Init, Months, BackupAssumption
  <2> QED
    BY <1>2, <1>3, <2>1, <2>2 DEF TypeOK
<1>5. PlacesOK /\ JobToCome /\ JobWasClaimed /\ SoleRunner /\ NotYetCompleted /\ UploadsAreThere
  BY <1>3 DEF PlacesOK, JobToCome, JobWasClaimed, SoleRunner, NotYetCompleted, UploadsAreThere,
              Working, Trying
<1>6. JobHasArtifact /\ CompletedIsWhole /\ OneForPeriod
  BY <1>2 DEF JobHasArtifact, CompletedIsWhole, OneForPeriod, ScheduledFor
<1> QED
  BY <1>4, <1>5, <1>6 DEF IInv

LEMMA NextKeepsIInv ==
  ASSUME BackupAssumption
  PROVE  IInv /\ [Next]_vars => IInv'
<1> SUFFICES ASSUME IInv, [Next]_vars PROVE IInv'
  OBVIOUS
<1>1. ASSUME NEW w \in Workers, Work(w) PROVE IInv'
  BY <1>1, RunNextKeepsIInv, ClaimKeepsIInv, LocalWorkKeepsIInv, RecordKeepsIInv, UploadKeepsIInv,
     EndKeepsIInv DEF Work
<1>2. ASSUME NEW w \in Workers, Heartbeat(w) PROVE IInv'
  BY <1>2, HeartOfKeepsIInv, KnownBackups DEF Heartbeat
<1>3. ASSUME NEW r \in Requests, Ask(r) \/ Serve(r) PROVE IInv'
  BY <1>3, LocalRequestKeepsIInv, QueueKeepsIInv, CreateArtifactKeepsIInv, CreateJobKeepsIInv,
     SaveDestinationsKeepsIInv DEF Ask, Serve
<1>4. ASSUME NEW b \in Backups, HeartbeatRunsOut(b) \/ RetentionDryRun(b) PROVE IInv'
  BY <1>4, HeartStep, RetentionDryRunKeepsIInv DEF HeartbeatRunsOut, Heart
<1>5. CASE UNCHANGED vars
  BY <1>5 DEF vars, IInv, TypeOK, PlacesOK, JobHasArtifact, JobToCome, JobWasClaimed, SoleRunner,
              NotYetCompleted, UploadsAreThere, CompletedIsWhole, OneForPeriod, ScheduledFor
<1> QED
  BY <1>1, <1>2, <1>3, <1>4, <1>5, LostKeepsIInv, WorldKeepsIInv DEF Next, Proceed

LEMMA IInvHolds ==
  ASSUME BackupAssumption
  PROVE  Spec => []IInv
<1>1. Init => IInv
  BY BackupAssumption, InitIInv
<1>2. IInv /\ [Next]_vars => IInv'
  BY BackupAssumption, NextKeepsIInv
<1> QED
  BY <1>1, <1>2, PTL DEF Spec

\* However workers die, stall and are taken for dead, no two of them ever work on
\* one backup, and the running jobs are those with a claim.
THEOREM RunnersAreAlone ==
  ASSUME BackupAssumption
  PROVE  Spec => []OneRunnerPerJob
<1>1. IInv => OneRunnerPerJob
  BY DEF IInv, OneRunnerPerJob
<1> QED
  BY <1>1, BackupAssumption, IInvHolds, PTL

\* A backup that is shown as completed has every file of its package verified at
\* one destination, although the worker may have lost its claim in the meantime.
THEOREM CompletedAreWhole ==
  ASSUME BackupAssumption
  PROVE  Spec => []CompletedIsWhole
<1>1. IInv => CompletedIsWhole
  BY DEF IInv
<1> QED
  BY <1>1, BackupAssumption, IInvHolds, PTL

LEMMA MonthsOfIInv ==
  ASSUME IInv
  PROVE  OncePerMonth
<1> SUFFICES ASSUME NEW m \in Months PROVE Cardinality(ScheduledFor(m)) <= 1
  BY DEF OncePerMonth
<1>1. CASE ScheduledFor(m) = {}
  BY <1>1, FS_EmptySet
<1>2. CASE ScheduledFor(m) # {}
  <2>1. PICK b \in ScheduledFor(m) : \A c \in ScheduledFor(m) : c = b
    BY <1>2 DEF IInv, OneForPeriod, ScheduledFor
  <2>2. ScheduledFor(m) = {b}
    BY <2>1
  <2> QED
    BY <2>2, FS_Singleton
<1> QED
  BY <1>1, <1>2

\* No month gets a second scheduled backup, whatever requests overwrite the cursor.
THEOREM MonthsHaveOneBackup ==
  ASSUME BackupAssumption
  PROVE  Spec => []OncePerMonth
BY BackupAssumption, IInvHolds, MonthsOfIInv, PTL

\* A step never takes a completed backup back, nor its mark of expiration.
LEMMA StepKeepsCompleted ==
  ASSUME BackupAssumption, IInv, Next, NEW b \in Backups, artifact[b].status = "completed"
  PROVE  /\ artifact'[b].status = "completed"
         /\ artifact[b].retention = "expiration-due" => artifact'[b].retention = "expiration-due"
<1>1. artifact \in [Backups -> ArtifactRow] /\ job[b].status = "completed"
  BY DEF IInv, TypeOK, CompletedIsWhole
<1>2. CASE artifact' = artifact
  BY <1>2
<1>3. ASSUME NEW w \in Workers, RunNext(w) \/ \E c \in Backups : Claim(w, c)
      PROVE  artifact'[b] = artifact[b]
  BY <1>1, <1>3 DEF RunNext, Claim, Claimable
<1>4. ASSUME NEW w \in Workers, Record(w) PROVE artifact'[b] = artifact[b]
  <2>1. process[w].backup # b
    BY <1>4 DEF Record, At, IInv, NotYetCompleted, Trying
  <2> QED
    BY <1>1, <1>4, <2>1 DEF Record
<1>5. ASSUME NEW w \in Workers, Complete(w) \/ Catch(w) PROVE artifact'[b] = artifact[b]
  <2>1. PICK status : Finish(w, status)
    BY <1>5 DEF Complete, Catch
  <2>2. Claims(w, process[w].backup) => process[w].backup # b
    BY <1>1 DEF Claims
  <2> QED
    BY <1>1, <2>1, <2>2 DEF Finish
<1>6. ASSUME NEW r \in Requests, Queue(r) \/ CreateArtifact(r) PROVE artifact'[b] = artifact[b]
  <2>1. PICK c \in Backups : IsNext(c) /\ \E row : artifact' \in {artifact, [artifact EXCEPT ![c] = row]}
    BY <1>6 DEF Queue, CreateArtifact
  <2>2. c # b
    BY <2>1 DEF IsNext, Unused
  <2> QED
    BY <1>1, <2>1, <2>2
<1>7. ASSUME NEW c \in Backups, RetentionDryRun(c)
      PROVE  artifact'[b].status = "completed"
             /\ (artifact[b].retention = "expiration-due" => artifact'[b].retention = "expiration-due")
  BY <1>1, <1>7 DEF RetentionDryRun, ArtifactRow
<1> QED
  BY <1>2, <1>3, <1>4, <1>5, <1>6, <1>7
     DEF Next, Proceed, Work, Ask, Serve, NothingQueued, Load, Resolve, Upload, Audit, Throw, Heartbeat,
         PlanManual, PlanScheduled, EditPolicy, RetryFailed, Find, Advance, SavePolicy, CreateJob,
         SaveDestinations, Lost, HeartbeatRunsOut, NextMonth, Configure

\* A completed backup stays completed and keeps its mark, although its worker may
\* still fail afterwards and others write rows they read before.
THEOREM CompletedStays ==
  ASSUME BackupAssumption
  PROVE  Spec => CompletedIsFinal
<1>1. IInv /\ [Next]_vars =>
        [\A b \in Backups : artifact[b].status = "completed" =>
           /\ artifact'[b].status = "completed"
           /\ artifact[b].retention = "expiration-due" =>
                artifact'[b].retention = "expiration-due"]_vars
  BY BackupAssumption, StepKeepsCompleted
<1> QED
  BY <1>1, BackupAssumption, IInvHolds, PTL DEF Spec, CompletedIsFinal
=============================================================================
