------------------------------- MODULE Recoveries -------------------------------
(* What a site can be recovered from: the preflight of a restore plan and the *)
(* outcome technicians record, and the evidence of a backup that a plugin     *)
(* rollout needs before it may touch the site.  One site with one long-term   *)
(* backup, one restore plan and one rollout.                                  *)
EXTENDS Naturals, FiniteSets

CONSTANTS
    Calls,          \* requests under way at once
    None,           \* no row, no date, not read
    Derived,        \* how long a SiteCare backup is evidence (35 days)
    Confirmed,      \* how long a Hostinger backup is (30 days)
    MaxTime,        \* bound: time
    MaxErrands      \* bound: requests

VARIABLES
    policy,         \* backup_policies.restore_enabled
    pro,            \* does the site have SiteCare Pro
    artifact,       \* backup_artifacts: the backup
    objects,        \* backup_artifact_objects: what is verified of it
    worker,         \* how far its worker is, and whether the job is still claimed by it
    plan,           \* restore_plans
    evidence,       \* site_recovery_evidence
    target,         \* plugin_update_targets: the evidence of the site
    call,           \* what each request has read
    time,           \* the time
    errands,        \* requests so far
    verified,       \* ghost: a technician recorded that the download was verified
    overlapped,     \* ghost: two records of the outcome were under way at once
    approved,       \* ghost: what a confirmed rollout rested on
    unallowed       \* ghost: a plan passed though restoring was not enabled meanwhile

backup == <<artifact, objects, worker>>
settings == <<policy, pro>>
rollout == <<evidence, target, approved>>
outcome == <<plan, verified, overlapped, unallowed>>
vars == <<settings, backup, outcome, rollout, call, time, errands>>

Portable == {"files", "database", "readme"}

Artifact == [status : {"running", "completed", "failed"}, included : SUBSET {"files", "database"},
             recorded : BOOLEAN, uploaded : BOOLEAN, completed : 0 .. MaxTime \cup {None}]

Evidence == [source : {"sitecare-backup", "hostinger-technician-confirmed"}, completed : 0 .. MaxTime,
             until : 0 .. MaxTime + Derived + Confirmed]

Plan == [status : {"preflight-passed", "preflight-failed"}, downloaded : BOOLEAN, completed : BOOLEAN]

Target == [evidence : Evidence \cup {None}, status : {"draft", "approved"}]

RecoveriesAssumption ==
    /\ Derived \in Nat /\ Confirmed \in Nat /\ MaxTime \in Nat /\ MaxErrands \in Nat
    /\ None \notin Nat \cup BOOLEAN \cup Plan \cup Target

Idle == [does |-> "nothing"]

Begin(c, doing) ==
    /\ call[c] = Idle /\ errands < MaxErrands
    /\ errands' = errands + 1
    /\ call' = [call EXCEPT ![c] = doing]

End(c) == call' = [call EXCEPT ![c] = Idle]

--------------------------------------------------------------------------------
(* The backup, by its worker *)

\* The whole row is written, as it was when the job was claimed.
RecordPackage ==
    /\ worker.at = "packing" /\ worker' = [worker EXCEPT !.at = "uploading"]
    /\ artifact' = [status |-> "running", included |-> artifact.included, recorded |-> TRUE,
                    uploaded |-> FALSE, completed |-> None]
    /\ UNCHANGED <<settings, objects, outcome, rollout, call, time, errands>>

SaveObject(object) == objects' = objects \cup {object}

UploadObject ==
    /\ worker.at = "uploading"
    /\ \E object \in (artifact.included \cup {"readme"}) \ objects : SaveObject(object)
    /\ UNCHANGED <<settings, artifact, worker, outcome, rollout, call, time, errands>>

\* finishExecution: of a job that is not the worker's any more nothing is written.
Finish(row) ==
    /\ worker' = [at |-> "ended", claimed |-> FALSE]
    /\ artifact' = IF worker.claimed THEN row ELSE artifact

FinishBackup ==
    /\ \/ /\ worker.at = "uploading" /\ artifact.included \cup {"readme"} \subseteq objects
          /\ Finish([artifact EXCEPT !.status = "completed", !.uploaded = TRUE, !.completed = time])
       \/ /\ worker.at # "ended"
          /\ Finish([artifact EXCEPT !.status = "failed", !.completed = time])
    /\ UNCHANGED <<settings, objects, outcome, rollout, call, time, errands>>

\* Its worker was silent for too long, or has died; a silent one goes on.
FailStale ==
    /\ worker.claimed
    /\ \E at \in {worker.at, "ended"} : worker' = [at |-> at, claimed |-> FALSE]
    /\ artifact' = IF artifact.status = "running"
                   THEN [artifact EXCEPT !.status = "failed", !.completed = time] ELSE artifact
    /\ UNCHANGED <<settings, objects, outcome, rollout, call, time, errands>>

--------------------------------------------------------------------------------
(* Restore plans *)

\* One plan is followed: a bound.
BeginPreflight(c) ==
    /\ plan = None
    /\ Begin(c, [does |-> "preflight", policy |-> None, artifact |-> None, objects |-> None, allowed |-> policy])
    /\ UNCHANGED <<settings, backup, outcome, rollout, time>>

\* Policy, backup and objects are read by three queries at once.
Read(c) ==
    /\ call[c].does = "preflight"
    /\ \/ call[c].policy = None /\ call' = [call EXCEPT ![c].policy = policy]
       \/ call[c].artifact = None /\ call' = [call EXCEPT ![c].artifact = artifact]
       \/ call[c].objects = None /\ call' = [call EXCEPT ![c].objects = objects]
    /\ UNCHANGED <<settings, backup, outcome, rollout, time, errands>>

\* Mutant: the recorded checksums are taken for an uploaded backup.
PassesRecorded(c) == call[c].policy /\ call[c].artifact.recorded

Passes(c) ==
    /\ call[c].policy
    /\ call[c].artifact.status = "completed" /\ call[c].artifact.recorded /\ call[c].artifact.uploaded
    /\ Portable \subseteq call[c].objects

CreatePlan(row) == plan = None /\ plan' = row

CreateRestorePlan(c) ==
    /\ call[c].does = "preflight"
    /\ call[c].policy # None /\ call[c].artifact # None /\ call[c].objects # None
    /\ CreatePlan([status |-> IF Passes(c) THEN "preflight-passed" ELSE "preflight-failed",
                   downloaded |-> FALSE, completed |-> FALSE])
    /\ unallowed' = (Passes(c) /\ ~call[c].allowed)
    /\ End(c)
    /\ UNCHANGED <<settings, backup, rollout, verified, overlapped, time, errands>>

\* A technician records progress or the end of a plan, whichever way its preflight went.
ReadPlan(c) ==
    /\ plan # None
    /\ \E downloaded, completed \in BOOLEAN :
          Begin(c, [does |-> "outcome", read |-> plan, downloaded |-> downloaded, completed |-> completed])
    /\ overlapped' = (overlapped \/ \E d \in Calls : call[d].does = "outcome")
    /\ UNCHANGED <<settings, backup, plan, verified, unallowed, rollout, time>>

\* Mutant: what is not ticked this time is taken back.
AsTicked(c) == call[c].downloaded

Downloaded(c) == call[c].downloaded \/ call[c].read.downloaded

UpdatePlan(row) == plan' = row

\* The whole row is written; only the date of the download outlives a later record.
RecordOutcome(c) ==
    /\ call[c].does = "outcome"
    /\ UpdatePlan([call[c].read EXCEPT !.downloaded = Downloaded(c), !.completed = call[c].completed])
    /\ verified' = (verified \/ call[c].downloaded)
    /\ End(c)
    /\ UNCHANGED <<settings, backup, overlapped, unallowed, rollout, time, errands>>

--------------------------------------------------------------------------------
(* The evidence a rollout needs *)

\* Mutant: any date that lies ahead is accepted.
AnyFuture(completed, until) == until > time

Acceptable(completed, until) == until > time /\ until <= completed + Confirmed

SaveEvidence(row) == evidence' = evidence \cup {row}

RecordEvidence ==
    /\ \E completed \in 0 .. time, until \in 0 .. MaxTime + Derived :
          /\ Acceptable(completed, until)
          /\ SaveEvidence([source |-> "hostinger-technician-confirmed", completed |-> completed, until |-> until])
    /\ errands < MaxErrands /\ errands' = errands + 1
    /\ UNCHANGED <<settings, backup, outcome, target, approved, call, time>>

\* What is valid is looked for first, the newest backup before older ones; one rollout
\* is followed: a bound.
FindEvidence(c) ==
    LET valid == {e \in evidence : e.until >= time}
        newest == {e \in valid : \A other \in valid : other.completed <= e.completed} IN
    /\ target = None
    /\ \E found \in (IF valid = {} THEN {None} ELSE newest) :
          Begin(c, [does |-> "discovery", step |-> IF found = None THEN "plan" ELSE "found",
                    found |-> found, at |-> time])
    /\ UNCHANGED <<settings, backup, outcome, rollout, time>>

\* Without it a site with Pro has its last backup, if that is verified.
FindPlan(c) ==
    /\ call[c].does = "discovery" /\ call[c].step = "plan"
    /\ call' = [call EXCEPT ![c].step = IF pro THEN "backup" ELSE "found"]
    /\ UNCHANGED <<settings, backup, outcome, rollout, time, errands>>

\* Mutant: the evidence counts from the moment it is derived.
FromNow(c) == call[c].at + Derived

ValidUntil(c) == artifact.completed + Derived

Verified == artifact.status = "completed" /\ artifact.recorded /\ artifact.uploaded

FindBackup(c) ==
    /\ call[c].does = "discovery" /\ call[c].step = "backup"
    /\ call' = [call EXCEPT ![c] =
          IF Verified /\ ValidUntil(c) >= call[c].at
          THEN [@ EXCEPT !.step = "save",
                         !.found = [source |-> "sitecare-backup", completed |-> artifact.completed,
                                    until |-> ValidUntil(c)]]
          ELSE [@ EXCEPT !.step = "found"]]
    /\ UNCHANGED <<settings, backup, outcome, rollout, time, errands>>

DeriveEvidence(c) ==
    /\ call[c].does = "discovery" /\ call[c].step = "save"
    /\ SaveEvidence(call[c].found)
    /\ call' = [call EXCEPT ![c].step = "found"]
    /\ UNCHANGED <<settings, backup, outcome, target, approved, time, errands>>

CreateRollout(c) ==
    /\ call[c].does = "discovery" /\ call[c].step = "found"
    /\ target = None
    /\ target' = [evidence |-> call[c].found, status |-> "draft"]
    /\ End(c)
    /\ UNCHANGED <<settings, backup, outcome, evidence, approved, time, errands>>

\* Mutant: evidence that was found once is good.
FoundOnce == target.evidence # None

StillValid == target.evidence # None /\ target.evidence.until >= time

CheckEvidence(c) ==
    /\ target # None /\ target.status = "draft" /\ StillValid
    /\ Begin(c, [does |-> "confirmation", age |-> time - target.evidence.completed])
    /\ UNCHANGED <<settings, backup, outcome, rollout, time>>

\* The second factor is asked for in between; two confirmations may both get here.
ApproveRollout(c) ==
    /\ call[c].does = "confirmation"
    /\ IF target.status = "draft"
       THEN /\ target' = [target EXCEPT !.status = "approved"]
            /\ approved' = [evidence |-> target.evidence, age |-> call[c].age]
       ELSE UNCHANGED <<target, approved>>
    /\ End(c)
    /\ UNCHANGED <<settings, backup, outcome, evidence, time, errands>>

--------------------------------------------------------------------------------
(* The system *)

\* A statement fails or the process ends.
Abandon(c) ==
    /\ call[c] # Idle
    /\ End(c)
    /\ UNCHANGED <<settings, backup, outcome, rollout, time, errands>>

ChangePolicy ==
    /\ policy' = ~policy
    /\ call' = [c \in Calls |->
          IF call[c].does = "preflight" THEN [call[c] EXCEPT !.allowed = @ \/ policy'] ELSE call[c]]
    /\ UNCHANGED <<pro, backup, outcome, rollout, time, errands>>

ChangeServicePlan ==
    /\ pro' = ~pro
    /\ UNCHANGED <<policy, backup, outcome, rollout, call, time, errands>>

TimePasses ==
    /\ time < MaxTime
    /\ time' = time + 1
    /\ UNCHANGED <<settings, backup, outcome, rollout, call, errands>>

Init ==
    /\ policy = TRUE /\ pro = TRUE
    /\ \E included \in {{"database"}, {"files", "database"}} :
          artifact = [status |-> "running", included |-> included, recorded |-> FALSE, uploaded |-> FALSE,
                      completed |-> None]
    /\ worker = [at |-> "packing", claimed |-> TRUE]
    /\ objects = {} /\ plan = None /\ evidence = {} /\ target = None
    /\ call = [c \in Calls |-> Idle] /\ time = 0 /\ errands = 0
    /\ verified = FALSE /\ overlapped = FALSE /\ approved = None /\ unallowed = FALSE

Backup == RecordPackage \/ UploadObject \/ FinishBackup \/ FailStale

\* Restore plans and rollouts share the backup and nothing else.
Restore ==
    \/ Backup \/ ChangePolicy
    \/ \E c \in Calls :
          BeginPreflight(c) \/ Read(c) \/ CreateRestorePlan(c) \/ ReadPlan(c) \/ RecordOutcome(c) \/ Abandon(c)

Rely ==
    \/ Backup \/ RecordEvidence \/ ChangeServicePlan \/ TimePasses
    \/ \E c \in Calls :
          \/ FindEvidence(c) \/ FindPlan(c) \/ FindBackup(c) \/ DeriveEvidence(c) \/ CreateRollout(c)
          \/ CheckEvidence(c) \/ ApproveRollout(c) \/ Abandon(c)

Next == Restore \/ Rely

Spec == Init /\ [][Next]_vars

--------------------------------------------------------------------------------
(* What is promised of recoveries *)

\* Rows have the shape of their tables.
RecoveriesTypeOK ==
    /\ policy \in BOOLEAN /\ pro \in BOOLEAN /\ artifact \in Artifact /\ objects \subseteq Portable
    /\ worker \in [at : {"packing", "uploading", "ended"}, claimed : BOOLEAN]
    /\ plan \in Plan \cup {None} /\ evidence \subseteq Evidence
    /\ target \in Target \cup {None}
    /\ time \in 0 .. MaxTime /\ errands \in 0 .. MaxErrands

\* A plan that passed is for a complete backup of files and database, though its three
\* queries saw different moments of it, and restoring was enabled at one of them.
PassedPlanIsWhole ==
    plan # None /\ plan.status = "preflight-passed" =>
        /\ artifact.status = "completed" /\ artifact.included \cup {"readme"} = Portable
        /\ Portable \subseteq objects /\ ~unallowed

\* A verified download stays on record while no two records of the outcome overlap.
DownloadKept == verified /\ ~overlapped => plan.downloaded

\* docs/CENTRAL_PLUGIN_UPDATES.md: a rollout rests on a backup that was no older than 35
\* days, or 30 when a technician confirmed it, when the rollout was confirmed.
RestsOnRecentBackup ==
    approved # None =>
        \/ /\ approved.evidence.source = "sitecare-backup" /\ approved.age <= Derived
           /\ artifact.status = "completed" /\ artifact.completed = approved.evidence.completed
           /\ artifact.included \cup {"readme"} \subseteq objects
        \/ approved.evidence.source = "hostinger-technician-confirmed" /\ approved.age <= Confirmed

\* Nothing is restored from, or risked upon, a backup that is not there.
RecoveriesSound == RecoveriesTypeOK /\ PassedPlanIsWhole /\ DownloadKept /\ RestsOnRecentBackup

================================================================================
