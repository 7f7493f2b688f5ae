----------------------------- MODULE AnnualCheckups ----------------------------
(* The annual SiteHealth checkup of one entitled site: the daily planner keeps *)
(* the policy and requests the checkup of a due cycle, a job of the automation *)
(* engine runs it and moves the policy on.  Planner and runs write the policy  *)
(* as a whole row, runs crash between statements and are run again.            *)
EXTENDS Naturals, FiniteSets

CONSTANTS
    Workers,        \* automation workers
    NoWorker,
    FirstDue,       \* 30 days, in ticks of the clock
    Year,
    MaxAttempts,    \* maxAttempts of a collection job
    MaxClock,       \* bound: the clock
    MaxFaults,      \* bound: errors, crashes and lost leases
    MaxChanges      \* bound: changes of the entitlement and manual retries

CheckupAssumption ==
    /\ {FirstDue, Year, MaxAttempts, MaxClock, MaxFaults, MaxChanges} \subseteq Nat
    /\ Year > 0 /\ MaxAttempts > 0 /\ FirstDue <= Year
    /\ NoWorker \notin Workers

VARIABLES
    clock,
    entitled,       \* annual-sitehealth-checkup is a capability and the site is active
    policy,         \* sitehealth_annual_policies
    checkup,        \* sitehealth_checkups, by annual_cycle_date
    reviewed,       \* the cycles whose checkup has a review
    job,            \* the job sitehealth-checkup:<id> of each checkup
    planner,        \* where planDueAnnualCheckups is, and what it has read
    run,            \* where the run of each worker is, and what it has read
    faults, changes,
    completions,    \* ghost: when each cycle was first completed
    redone          \* ghost: a checkup once completed was given another attempt

vars == <<clock, entitled, policy, checkup, reviewed, job, planner, run, faults, changes, completions, redone>>

rows == <<policy, checkup, reviewed, job, completions>>

history == <<faults, changes, redone>>

Dates == 0 .. MaxClock + Year

Policy == [present : BOOLEAN, enabled : BOOLEAN, next : Dates]

Checkup == [status : {"none", "queued", "running", "draft-ready", "failed", "cancelled"}, completed : Dates]

Job == [status : {"none", "queued", "leased", "succeeded", "failed"}, attempts : 0 .. MaxAttempts,
        holder : Workers \cup {NoWorker}]

Planner == [at : {"idle", "sync", "list", "check", "request"}, policy : Policy]

Run == [at : {"idle", "read", "cancel", "begin", "collect", "complete", "policy", "save", "done", "fail", "throw"},
        cycle : Dates, policy : Policy]

NoPolicy == [present |-> FALSE, enabled |-> FALSE, next |-> 0]

NoCheckup == [status |-> "none", completed |-> 0]

IdlePlanner == [at |-> "idle", policy |-> NoPolicy]

IdleRun == [at |-> "idle", cycle |-> 0, policy |-> NoPolicy]

--------------------------------------------------------------------------------
(* planDueAnnualCheckups *)

InStatus(S) == {d \in Dates : checkup[d].status \in S}

\* A year after a checkup was completed.
YearAfter(d) == checkup[d].completed + Year

\* findLatestCompletedCheckup.
Latest == {d \in InStatus({"draft-ready"}) :
              \A e \in InStatus({"draft-ready"}) : checkup[e].completed <= checkup[d].completed}

\* A site without a completed checkup keeps its date, the first is 30 days off.
NextDue ==
    IF Latest # {} THEN YearAfter(CHOOSE d \in Latest : TRUE)
    ELSE IF policy.present THEN policy.next ELSE FirstDue

\* syncAnnualPolicies reads the entitlements, the policy and the checkup completed
\* last; the date stays while the site is not entitled ...
ReadSync ==
    /\ planner.at = "idle"
    /\ planner' = [at |-> "sync",
                   policy |-> [present |-> TRUE, enabled |-> entitled,
                               next |-> IF entitled \/ ~policy.present THEN NextDue ELSE policy.next]]
    /\ UNCHANGED <<clock, entitled, rows, run, history>>

\* ... and writes the whole policy.
SaveSync ==
    /\ planner.at = "sync"
    /\ policy' = planner.policy
    /\ planner' = [planner EXCEPT !.at = "list"]
    /\ UNCHANGED <<clock, entitled, checkup, reviewed, job, completions, run, history>>

\* listDueAnnualPolicies.
ListDue ==
    /\ planner.at = "list"
    /\ planner' = IF policy.enabled /\ policy.next <= clock
                    THEN [at |-> "check", policy |-> policy] ELSE IdlePlanner
    /\ UNCHANGED <<clock, entitled, rows, run, history>>

\* A due site is skipped when it is not entitled now, or when a checkup is
\* pending or has been made for the cycle, however that one ended.
Check ==
    /\ planner.at = "check"
    /\ planner' = IF /\ entitled
                     /\ InStatus({"queued", "running"}) = {}
                     /\ checkup[planner.policy.next].status = "none"
                    THEN [planner EXCEPT !.at = "request"] ELSE IdlePlanner
    /\ UNCHANGED <<clock, entitled, rows, run, history>>

\* requestCheckup: one transaction inserts the checkup, unless the cycle has one,
\* and enqueues its job.
RequestCheckup ==
    LET d == planner.policy.next IN
    /\ planner.at = "request"
    /\ IF entitled /\ checkup[d].status = "none"
         THEN /\ checkup' = [checkup EXCEPT ![d].status = "queued"]
              /\ job' = [job EXCEPT ![d].status = "queued"]
         ELSE UNCHANGED <<checkup, job>>
    /\ planner' = IdlePlanner
    /\ UNCHANGED <<clock, entitled, policy, reviewed, completions, run, history>>

--------------------------------------------------------------------------------
(* The job and runCheckup *)

Goto(w, step) == run' = [run EXCEPT ![w].at = step]

\* A worker leases the job; the operation sitehealth-checkup of the site is free.
Lease(w, d) ==
    /\ run[w].at = "idle"
    /\ job[d].status = "queued"
    /\ \A e \in Dates : job[e].status # "leased"
    /\ job' = [job EXCEPT ![d] = [status |-> "leased", attempts |-> @.attempts + 1, holder |-> w]]
    /\ run' = [run EXCEPT ![w] = [IdleRun EXCEPT !.at = "read", !.cycle = d]]
    /\ UNCHANGED <<clock, entitled, policy, checkup, reviewed, completions, planner, history>>

\* A completed checkup is not run again, a cancelled one cannot be run, and one
\* of a site that is no longer entitled is cancelled.
ReadCheckup(w) ==
    LET d == run[w].cycle IN
    /\ run[w].at = "read"
    /\ Goto(w, CASE checkup[d].status = "draft-ready" -> "done"
                 [] checkup[d].status = "cancelled" -> "throw"
                 [] OTHER -> IF entitled THEN "begin" ELSE "cancel")
    /\ UNCHANGED <<clock, entitled, rows, planner, history>>

CancelCheckup(w) ==
    /\ run[w].at = "cancel"
    /\ checkup' = [checkup EXCEPT ![run[w].cycle] = [status |-> "cancelled", completed |-> clock]]
    /\ Goto(w, "done")
    /\ UNCHANGED <<clock, entitled, policy, reviewed, job, completions, planner, history>>

Begin(w) ==
    /\ run[w].at = "begin"
    /\ checkup' = [checkup EXCEPT ![run[w].cycle] = [status |-> "running", completed |-> 0]]
    /\ Goto(w, "collect")
    /\ UNCHANGED <<clock, entitled, policy, reviewed, job, completions, planner, history>>

\* Mutant: the draft is left to the technician.
WithoutDraft(d) == reviewed

\* The draft of the review is created, or refreshed.
WithDraft(d) == reviewed \cup {d}

\* Evidence, findings and recommendations are replaced, then the draft is made.
Collect(w) ==
    /\ run[w].at = "collect"
    /\ reviewed' = WithDraft(run[w].cycle)
    /\ Goto(w, "complete")
    /\ UNCHANGED <<clock, entitled, policy, checkup, job, completions, planner, history>>

Complete(w) ==
    LET d == run[w].cycle IN
    /\ run[w].at = "complete"
    /\ checkup' = [checkup EXCEPT ![d] = [status |-> "draft-ready", completed |-> clock]]
    /\ completions' = IF \E c \in completions : c.cycle = d THEN completions
                      ELSE completions \cup {[cycle |-> d, at |-> clock]}
    /\ Goto(w, "policy")
    /\ UNCHANGED <<clock, entitled, policy, reviewed, job, planner, history>>

ReadPolicy(w) ==
    /\ run[w].at = "policy"
    /\ run' = [run EXCEPT ![w].at = "save", ![w].policy = policy]
    /\ UNCHANGED <<clock, entitled, rows, planner, history>>

\* The next checkup is due in a year, the rest of the policy is as it was read.
SavePolicy(w) ==
    /\ run[w].at = "save"
    /\ policy' = [present |-> TRUE, next |-> clock + Year,
                  enabled |-> IF run[w].policy.present THEN run[w].policy.enabled ELSE TRUE]
    /\ Goto(w, "done")
    /\ UNCHANGED <<clock, entitled, checkup, reviewed, job, completions, planner, history>>

\* The collector or a statement throws.
Throw(w) ==
    /\ run[w].at \in {"collect", "complete", "policy", "save"}
    /\ faults < MaxFaults /\ faults' = faults + 1
    /\ Goto(w, "fail")
    /\ UNCHANGED <<clock, entitled, rows, planner, changes, redone>>

FailCheckup(w) ==
    /\ run[w].at = "fail"
    /\ checkup' = [checkup EXCEPT ![run[w].cycle] = [status |-> "failed", completed |-> clock]]
    /\ Goto(w, "throw")
    /\ UNCHANGED <<clock, entitled, policy, reviewed, job, completions, planner, history>>

\* Mutant: an attempt more than allowed.
AfterOneMore(j) == [j EXCEPT !.status = IF j.attempts <= MaxAttempts THEN "queued" ELSE "failed",
                             !.holder = NoWorker]

\* A transient failure is retried while attempts are left.
AfterFailure(j) == [j EXCEPT !.status = IF j.attempts < MaxAttempts THEN "queued" ELSE "failed",
                             !.holder = NoWorker]

\* The outcome reaches the job only while the worker holds its lease.
Report(w) ==
    LET d == run[w].cycle IN
    /\ run[w].at \in {"done", "throw"}
    /\ job' = IF job[d].holder # w THEN job
              ELSE [job EXCEPT ![d] = IF run[w].at = "throw" THEN AfterFailure(@)
                                      ELSE [@ EXCEPT !.status = "succeeded", !.holder = NoWorker]]
    /\ run' = [run EXCEPT ![w] = IdleRun]
    /\ UNCHANGED <<clock, entitled, policy, checkup, reviewed, completions, planner, history>>

\* A worker, or the planner, ends between two statements.
Crash ==
    /\ faults < MaxFaults /\ faults' = faults + 1
    /\ \/ \E w \in Workers : /\ run[w].at # "idle"
                             /\ run' = [run EXCEPT ![w] = IdleRun]
                             /\ UNCHANGED planner
       \/ /\ planner.at # "idle"
          /\ planner' = IdlePlanner
          /\ UNCHANGED run
    /\ UNCHANGED <<clock, entitled, rows, changes, redone>>

Runs(d) == {w \in Workers : run[w].at # "idle" /\ run[w].cycle = d /\ job[d].holder = w}

\* An expired lease is recovered as a failed attempt: that of a worker which
\* ended, or of one that goes on without noticing.
Recover(d) ==
    /\ job[d].status = "leased"
    /\ IF Runs(d) = {} THEN UNCHANGED faults ELSE faults < MaxFaults /\ faults' = faults + 1
    /\ job' = [job EXCEPT ![d] = AfterFailure(@)]
    /\ UNCHANGED <<clock, entitled, policy, checkup, reviewed, completions, planner, run, changes, redone>>

\* An administrator gives a failed job one more attempt.
Retry(d) ==
    /\ job[d].status = "failed"
    /\ changes < MaxChanges /\ changes' = changes + 1
    /\ job' = [job EXCEPT ![d].status = "queued", ![d].attempts = MaxAttempts - 1]
    /\ redone' = (redone \/ \E c \in completions : c.cycle = d)
    /\ UNCHANGED <<clock, entitled, policy, checkup, reviewed, completions, planner, run, faults>>

\* The plan, the subscription or the status of the site changes.
ChangeEntitlement ==
    /\ changes < MaxChanges /\ changes' = changes + 1
    /\ entitled' = ~entitled
    /\ UNCHANGED <<clock, rows, planner, run, faults, redone>>

\* A tick is months; no planner, run or pending job lasts that long.
TimePasses ==
    /\ clock < MaxClock
    /\ planner.at = "idle"
    /\ \A w \in Workers : run[w].at = "idle"
    /\ \A d \in Dates : job[d].status \notin {"queued", "leased"}
    /\ clock' = clock + 1
    /\ UNCHANGED <<entitled, rows, planner, run, history>>

Init ==
    /\ clock = 0
    /\ entitled = TRUE
    /\ policy = NoPolicy
    /\ checkup = [d \in Dates |-> NoCheckup]
    /\ reviewed = {}
    /\ job = [d \in Dates |-> [status |-> "none", attempts |-> 0, holder |-> NoWorker]]
    /\ planner = IdlePlanner
    /\ run = [w \in Workers |-> IdleRun]
    /\ faults = 0
    /\ changes = 0
    /\ completions = {}
    /\ redone = FALSE

Plan == ReadSync \/ SaveSync \/ ListDue \/ Check \/ RequestCheckup

RunCheckup(w) ==
    \/ \E d \in Dates : Lease(w, d)
    \/ ReadCheckup(w) \/ CancelCheckup(w) \/ Begin(w) \/ Collect(w) \/ Complete(w)
    \/ ReadPolicy(w) \/ SavePolicy(w) \/ FailCheckup(w) \/ Report(w)

Work == Plan \/ (\E w \in Workers : RunCheckup(w)) \/ (\E d \in Dates : Recover(d))

Next ==
    \/ Work
    \/ \E w \in Workers : Throw(w)
    \/ Crash
    \/ \E d \in Dates : Retry(d)
    \/ ChangeEntitlement
    \/ TimePasses

Spec == Init /\ [][Next]_vars

--------------------------------------------------------------------------------
(* What annual checkups promise *)

\* Rows, jobs and the memory of planner and runs have the shape of their types.
CheckupsTypeOK ==
    /\ clock \in 0 .. MaxClock /\ entitled \in BOOLEAN
    /\ policy \in Policy
    /\ checkup \in [Dates -> Checkup]
    /\ reviewed \subseteq Dates
    /\ job \in [Dates -> Job]
    /\ planner \in Planner
    /\ run \in [Workers -> Run]
    /\ faults \in 0 .. MaxFaults /\ changes \in 0 .. MaxChanges
    /\ completions \subseteq [cycle : Dates, at : Dates] /\ redone \in BOOLEAN

\* A checkup that is draft-ready has its review, after any crash: runCheckup and
\* the technician's operations take it for granted.
DraftReadyHasReview == InStatus({"draft-ready"}) \subseteq reviewed

\* Two cycles are never completed within a year of each other, though planner
\* and runs overwrite the policy, a run may never get to move it on, and a failed
\* checkup is run again long after its date; unless one that had been completed,
\* and was then marked failed by another run, is run again.
OncePerYear ==
    ~redone =>
        \A a, b \in completions :
            a.cycle # b.cycle => a.at + Year <= b.at \/ b.at + Year <= a.at

\* A cycle is completed once a year, with its review, under crashes and late runs.
YearlyWithReview == CheckupsTypeOK /\ DraftReadyHasReview /\ OncePerYear

\* docs/SITEHEALTH_CHECKUPS_AND_REVIEWS.md: Plus and Pro receive one automated annual
\* checkup; the next is due one year after the preceding one.
AnnualCheckupHappens == <>[]entitled => <>[](policy.next > clock)

================================================================================
