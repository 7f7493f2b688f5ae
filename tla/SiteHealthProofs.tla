---------------------------- MODULE SiteHealthProofs ---------------------------
(* What MCSite asks of the schedules, of SiteHealth and of notifications holds *)
(* for any number of actors and things and any bounds: the inductive invariant *)
(* of a part is kept by the steps of MCSite, since a behaviour runs one part   *)
(* and every step of it is a step of that part.                                *)
EXTENDS MCSite, Integers, FiniteSetTheorems, SequenceTheorems, WellFoundedInduction, TLAPS

LEMMA LeastNatural ==
    ASSUME NEW S \in SUBSET Nat, S # {}
    PROVE  \E n \in S : \A m \in S : n <= m
<1>1. PICK R : R = {ss \in Nat \X Nat : ss[1] < ss[2]}
  OBVIOUS
<1>2. IsWellFoundedOn(R, Nat)
  BY <1>1, NatLessThanWellFounded DEF OpToRel
<1>3. PICK n \in S : \A m \in S : ~ (<<m, n>> \in R)
  BY <1>2, WFMin
<1>4. ASSUME NEW m \in S PROVE n <= m
  <2>1. m \in Nat /\ n \in Nat /\ ~ (<<m, n>> \in R)
    BY <1>3
  <2>2. <<m, n>> \in Nat \X Nat /\ <<m, n>>[1] = m /\ <<m, n>>[2] = n
    BY <2>1
  <2>3. ~ (m < n)
    BY <1>1, <2>1, <2>2
  <2> QED
    BY <2>1, <2>3
<1> QED
  BY <1>4


--------------------------------------------------------------------------------
(* Schedules.  No job of a schedule lies less than a period before its next    *)
(* time, and no worker holds a moment that has not come.                       *)

JobsOf(s) == {j \in jobs : j.schedule = s}

\* A time fixed by a worker is not ahead of the clock.
TimesArePast == \A w \in Actors : worker[w].time <= clock

\* Nothing was enqueued for a schedule that was never registered.
RegisteredFirst == \A s \in Things : ~schedule[s].present => JobsOf(s) = {}

\* Every job of a schedule was due when it was enqueued, and lies a whole period
\* before the time the schedule is due next.
PeriodBeforeNext ==
    \A s \in Things \ registeredTwice : \A j \in JobsOf(s) :
        j.due <= j.at /\ j.at + Interval <= schedule[s].next

\* Schedules run once a period and lose none.
ScheduleRows ==
    /\ Schedules!SchedulesTypeOK
    /\ TimesArePast
    /\ RegisteredFirst
    /\ PeriodBeforeNext
    /\ Schedules!PeriodsApart
    /\ Schedules!NextFollowsLast

--------------------------------------------------------------------------------
(* The initial state and the steps *)

LEMMA SchedulesBegin ==
    ASSUME Schedules!SchedulerAssumption
    PROVE  Schedules!Init => ScheduleRows
<1> SUFFICES ASSUME Schedules!Init PROVE ScheduleRows
  OBVIOUS
<1>1. Schedules!SchedulesTypeOK
  BY Schedules!SchedulerAssumption DEF Schedules!SchedulerAssumption, Schedules!Init, Schedules!SchedulesTypeOK, Schedules!NoRow, Schedules!Row, Schedules!Times, Schedules!IdleWorker, Schedules!Worker
<1>2. TimesArePast
  BY DEF Schedules!Init, TimesArePast, Schedules!IdleWorker
<1> QED
  BY <1>1, <1>2 DEF Schedules!Init, ScheduleRows, RegisteredFirst, PeriodBeforeNext, Schedules!PeriodsApart, Schedules!NextFollowsLast, JobsOf

\* A step of a worker that leaves schedules and jobs alone keeps the invariant.
LEMMA QuietTick ==
    ASSUME ScheduleRows, UNCHANGED <<schedule, jobs, registeredTwice>>,
           clock' \in 0 .. MaxSchedulerClock, clock <= clock',
           worker' \in [Actors -> Schedules!Worker],
           \A w \in Actors : worker'[w].time <= clock'
    PROVE  ScheduleRows'
<1>1. Schedules!SchedulesTypeOK'
  BY DEF ScheduleRows, Schedules!SchedulesTypeOK
<1>2. TimesArePast'
  BY DEF TimesArePast
<1>3. RegisteredFirst' /\ PeriodBeforeNext' /\ Schedules!PeriodsApart' /\ Schedules!NextFollowsLast'
  BY DEF ScheduleRows, RegisteredFirst, PeriodBeforeNext, Schedules!PeriodsApart, Schedules!NextFollowsLast, JobsOf
<1> QED
  BY <1>1, <1>2, <1>3 DEF ScheduleRows

LEMMA TimeKeepsSchedules ==
    ASSUME Schedules!SchedulerAssumption, ScheduleRows, Schedules!TimePasses
    PROVE  ScheduleRows'
<1>1. clock' \in 0 .. MaxSchedulerClock /\ clock <= clock'
  BY Schedules!SchedulerAssumption DEF Schedules!SchedulerAssumption, Schedules!TimePasses, ScheduleRows, Schedules!SchedulesTypeOK
<1>2. \A w \in Actors : worker[w].time \in Nat
  BY Schedules!SchedulerAssumption DEF Schedules!SchedulerAssumption, ScheduleRows, Schedules!SchedulesTypeOK, Schedules!Worker, Schedules!Times
<1>3. \A w \in Actors : worker'[w].time <= clock'
  BY <1>1, <1>2, Schedules!SchedulerAssumption DEF Schedules!SchedulerAssumption, Schedules!TimePasses, ScheduleRows, TimesArePast, Schedules!SchedulesTypeOK
<1>4. UNCHANGED <<schedule, jobs, registeredTwice>> /\ worker' \in [Actors -> Schedules!Worker]
  BY DEF Schedules!TimePasses, ScheduleRows, Schedules!SchedulesTypeOK
<1> QED
  BY <1>1, <1>3, <1>4, QuietTick

\* What a worker remembers when it begins to register or to tick, or is reset.
LEMMA GotoKeepsSchedules ==
    ASSUME Schedules!SchedulerAssumption, ScheduleRows, NEW w \in Actors, NEW r \in Schedules!Worker, r.time <= clock,
           Schedules!Goto(w, r), UNCHANGED <<clock, schedule, jobs, registeredTwice>>
    PROVE  ScheduleRows'
<1>1. worker' \in [Actors -> Schedules!Worker]
  BY DEF Schedules!Goto, ScheduleRows, Schedules!SchedulesTypeOK
<1>2. \A v \in Actors : worker'[v].time <= clock'
  BY DEF Schedules!Goto, ScheduleRows, Schedules!SchedulesTypeOK, TimesArePast
<1>3. clock' \in 0 .. MaxSchedulerClock /\ clock <= clock'
  BY Schedules!SchedulerAssumption DEF Schedules!SchedulerAssumption, ScheduleRows, Schedules!SchedulesTypeOK
<1> QED
  BY <1>1, <1>2, <1>3, QuietTick

LEMMA IdleIsWorker ==
    ASSUME Schedules!SchedulerAssumption, ScheduleRows
    PROVE  Schedules!IdleWorker \in Schedules!Worker /\ Schedules!IdleWorker.time <= clock /\ clock \in Schedules!Times /\ clock \in Nat
BY Schedules!SchedulerAssumption DEF Schedules!SchedulerAssumption, Schedules!IdleWorker, Schedules!Worker, Schedules!Times, ScheduleRows, Schedules!SchedulesTypeOK

LEMMA FindKeepsSchedules ==
    ASSUME Schedules!SchedulerAssumption, ScheduleRows, NEW w \in Actors, Schedules!FindSchedule(w)
    PROVE  ScheduleRows'
<1>1. PICK s \in Things : Schedules!Goto(w, [at |-> "save", schedule |-> {s}, time |-> clock])
  BY DEF Schedules!FindSchedule
<1> DEFINE r == [at |-> "save", schedule |-> {s}, time |-> clock]
<1>2. r \in Schedules!Worker /\ r.time <= clock
  BY IdleIsWorker, Schedules!SchedulerAssumption DEF Schedules!Worker
<1>3. UNCHANGED <<clock, schedule, jobs, registeredTwice>>
  BY DEF Schedules!FindSchedule
<1> QED
  BY <1>1, <1>2, <1>3, Schedules!SchedulerAssumption, GotoKeepsSchedules

LEMMA BeginTickKeepsSchedules ==
    ASSUME Schedules!SchedulerAssumption, ScheduleRows, NEW w \in Actors, Schedules!BeginTick(w)
    PROVE  ScheduleRows'
<1> DEFINE r == [at |-> "tick", schedule |-> {}, time |-> clock]
<1>1. r \in Schedules!Worker /\ r.time <= clock
  BY IdleIsWorker, Schedules!SchedulerAssumption DEF Schedules!Worker
<1>2. Schedules!Goto(w, r) /\ UNCHANGED <<clock, schedule, jobs, registeredTwice>>
  BY DEF Schedules!BeginTick
<1> QED
  BY <1>1, <1>2, Schedules!SchedulerAssumption, GotoKeepsSchedules

LEMMA CrashKeepsSchedules ==
    ASSUME Schedules!SchedulerAssumption, ScheduleRows, NEW w \in Actors, Schedules!Crash(w)
    PROVE  ScheduleRows'
<1>1. Schedules!Goto(w, Schedules!IdleWorker) /\ UNCHANGED <<clock, schedule, jobs, registeredTwice>>
  BY DEF Schedules!Crash
<1> QED
  BY <1>1, IdleIsWorker, Schedules!SchedulerAssumption, GotoKeepsSchedules

\* A worker that goes back to its loop keeps the types and times of all.
LEMMA BackToIdle ==
    ASSUME Schedules!SchedulerAssumption, ScheduleRows, NEW w \in Actors, Schedules!Goto(w, Schedules!IdleWorker), clock' = clock
    PROVE  worker' \in [Actors -> Schedules!Worker] /\ TimesArePast'
<1>1. worker' \in [Actors -> Schedules!Worker]
  BY IdleIsWorker, Schedules!SchedulerAssumption DEF Schedules!Goto, ScheduleRows, Schedules!SchedulesTypeOK
<1>2. TimesArePast'
  BY IdleIsWorker, Schedules!SchedulerAssumption DEF Schedules!Goto, ScheduleRows, Schedules!SchedulesTypeOK, TimesArePast
<1> QED
  BY <1>1, <1>2

\* A registration either makes a schedule that has run nothing, or is the second
\* of a schedule the invariant then says no more about.
LEMMA SaveKeepsSchedules ==
    ASSUME Schedules!SchedulerAssumption, ScheduleRows, NEW w \in Actors, Schedules!SaveSchedule(w)
    PROVE  ScheduleRows'
<1>1. PICK s \in worker[w].schedule :
        /\ schedule' = [schedule EXCEPT ![s] = [present |-> TRUE, next |-> Schedules!FirstRun(worker[w].time)]]
        /\ registeredTwice' = IF schedule[s].present THEN registeredTwice \cup {s} ELSE registeredTwice
  BY DEF Schedules!SaveSchedule, Schedules!Upsert
<1>2. s \in Things /\ worker[w].time \in Schedules!Times
  BY DEF ScheduleRows, Schedules!SchedulesTypeOK, Schedules!Worker
<1>3. jobs' = jobs /\ clock' = clock /\ Schedules!Goto(w, Schedules!IdleWorker)
  BY DEF Schedules!SaveSchedule, Schedules!Upsert
<1>4. worker' \in [Actors -> Schedules!Worker] /\ TimesArePast'
  BY <1>3, BackToIdle, Schedules!SchedulerAssumption
<1>5. schedule' \in [Things -> Schedules!Row] /\ registeredTwice' \subseteq Things
  BY <1>1, <1>2 DEF ScheduleRows, Schedules!SchedulesTypeOK, Schedules!Row, Schedules!FirstRun
<1>6. Schedules!SchedulesTypeOK'
  BY <1>3, <1>4, <1>5 DEF ScheduleRows, Schedules!SchedulesTypeOK
<1>7. \A t \in Things : t # s => schedule'[t] = schedule[t]
  BY <1>1, <1>2 DEF ScheduleRows, Schedules!SchedulesTypeOK
<1>8. schedule'[s].present
  BY <1>1, <1>2 DEF ScheduleRows, Schedules!SchedulesTypeOK
<1>9. s \in registeredTwice' \/ JobsOf(s) = {}
  BY <1>1, <1>2 DEF ScheduleRows, RegisteredFirst
<1>10. registeredTwice \subseteq registeredTwice'
  BY <1>1
<1>11. RegisteredFirst'
  BY <1>3, <1>7, <1>8 DEF ScheduleRows, RegisteredFirst, JobsOf
<1>12. PeriodBeforeNext'
  <2> SUFFICES ASSUME NEW t \in Things, t \notin registeredTwice', NEW j \in JobsOf(t)'
               PROVE  j.due <= j.at /\ j.at + Interval <= schedule'[t].next
    BY DEF PeriodBeforeNext
  <2>1. j \in JobsOf(t)
    BY <1>3 DEF JobsOf
  <2>2. t # s
    BY <1>9, <2>1
  <2> QED
    BY <1>7, <1>10, <2>1, <2>2 DEF ScheduleRows, PeriodBeforeNext
<1>13. Schedules!PeriodsApart'
  BY <1>3, <1>10 DEF ScheduleRows, Schedules!PeriodsApart
<1>14. Schedules!NextFollowsLast'
  <2> SUFFICES ASSUME NEW t \in Things, schedule'[t].present, t \notin registeredTwice',
                      NEW k \in jobs, k.schedule = t
               PROVE  \E j \in jobs : j.schedule = t /\ schedule'[t].next = j.at + Interval
    BY <1>3 DEF Schedules!NextFollowsLast
  <2>1. t # s
    BY <1>9 DEF JobsOf
  <2> QED
    BY <1>7, <1>10, <2>1 DEF ScheduleRows, Schedules!NextFollowsLast
<1> QED
  BY <1>4, <1>6, <1>11, <1>12, <1>13, <1>14 DEF ScheduleRows

\* What one transaction of tick does to a schedule and to the jobs.
LEMMA Ticked ==
    ASSUME Schedules!SchedulerAssumption, ScheduleRows, NEW w \in Actors, NEW batch \in Schedules!Claimable(worker[w].time),
           schedule' = [s \in Things |->
                          IF s \in batch THEN [schedule[s] EXCEPT !.next = Schedules!NextRun(worker[w].time)] ELSE schedule[s]]
    PROVE  /\ batch \subseteq Things
           /\ worker[w].time \in Nat /\ worker[w].time <= MaxSchedulerClock /\ worker[w].time <= clock
           /\ \A s \in batch : /\ schedule[s].present /\ schedule[s].next <= worker[w].time
                               /\ schedule'[s] = [present |-> TRUE, next |-> worker[w].time + Interval]
           /\ \A s \in Things \ batch : schedule'[s] = schedule[s]
<1>1. batch \subseteq {s \in Things : Schedules!Due(s, worker[w].time)}
  BY DEF Schedules!Claimable
<1>2. worker[w].time \in Nat /\ worker[w].time <= MaxSchedulerClock /\ worker[w].time <= clock
  BY Schedules!SchedulerAssumption DEF Schedules!SchedulerAssumption, ScheduleRows, Schedules!SchedulesTypeOK, TimesArePast, Schedules!Worker, Schedules!Times
<1>3. \A s \in Things : schedule[s] \in Schedules!Row
  BY DEF ScheduleRows, Schedules!SchedulesTypeOK
<1>4. ASSUME NEW s \in batch
      PROVE  schedule'[s] = [present |-> TRUE, next |-> worker[w].time + Interval]
  BY <1>1, <1>3 DEF Schedules!Due, Schedules!Row, Schedules!NextRun
<1> QED
  BY <1>1, <1>2, <1>4 DEF Schedules!Due

\* tick enqueues a job whose period has passed and moves the schedule on by one.
LEMMA TickKeepsSchedules ==
    ASSUME Schedules!SchedulerAssumption, ScheduleRows, NEW w \in Actors, Schedules!Tick(w)
    PROVE  ScheduleRows'
<1> DEFINE moment == worker[w].time
<1> DEFINE New(batch) == {[schedule |-> s, due |-> schedule[s].next, at |-> moment] :
                            s \in {b \in batch : ~Schedules!HasJob(b, schedule[b].next)}}
<1>1. PICK batch \in Schedules!Claimable(moment) :
        /\ jobs' = jobs \cup New(batch)
        /\ schedule' = [s \in Things |->
                          IF s \in batch THEN [schedule[s] EXCEPT !.next = Schedules!NextRun(moment)] ELSE schedule[s]]
  BY DEF Schedules!Tick
<1>2. Schedules!Goto(w, Schedules!IdleWorker) /\ clock' = clock /\ registeredTwice' = registeredTwice
  BY DEF Schedules!Tick
<1>3. /\ batch \subseteq Things
      /\ moment \in Nat /\ moment <= MaxSchedulerClock /\ moment <= clock
      /\ \A s \in batch : /\ schedule[s].present /\ schedule[s].next <= moment
                          /\ schedule'[s] = [present |-> TRUE, next |-> moment + Interval]
      /\ \A s \in Things \ batch : schedule'[s] = schedule[s]
  BY <1>1, Ticked, Schedules!SchedulerAssumption
<1>4. worker' \in [Actors -> Schedules!Worker] /\ TimesArePast'
  BY <1>2, BackToIdle, Schedules!SchedulerAssumption
<1>5. /\ \A s \in Things : schedule[s].next \in Schedules!Times
      /\ \A j \in jobs : j \in Schedules!Job
      /\ Interval \in Nat /\ Interval > 0 /\ MaxSchedulerClock \in Nat
  BY Schedules!SchedulerAssumption DEF Schedules!SchedulerAssumption, ScheduleRows, Schedules!SchedulesTypeOK, Schedules!Row
<1>6. \A j \in New(batch) : /\ j.schedule \in batch /\ j.due = schedule[j.schedule].next /\ j.at = moment
                            /\ j \in Schedules!Job
  BY <1>3, <1>5 DEF Schedules!Job, Schedules!Times
<1>7. Schedules!SchedulesTypeOK'
  <2>1. schedule' \in [Things -> Schedules!Row]
    BY <1>1, <1>3, <1>5 DEF ScheduleRows, Schedules!SchedulesTypeOK, Schedules!Row, Schedules!Times, Schedules!NextRun
  <2>2. jobs' \subseteq Schedules!Job
    BY <1>1, <1>5, <1>6
  <2> QED
    BY <1>2, <1>4, <2>1, <2>2 DEF ScheduleRows, Schedules!SchedulesTypeOK
<1>8. RegisteredFirst'
  <2> SUFFICES ASSUME NEW s \in Things, ~schedule'[s].present, NEW j \in jobs', j.schedule = s
               PROVE  FALSE
    BY DEF RegisteredFirst, JobsOf
  <2>1. s \notin batch
    BY <1>3
  <2>2. j \in jobs
    BY <1>1, <1>6, <2>1
  <2> QED
    BY <1>3, <2>1, <2>2 DEF ScheduleRows, RegisteredFirst, JobsOf
<1>9. ASSUME NEW s \in batch, s \notin registeredTwice, NEW j \in jobs, j.schedule = s
      PROVE  j.due < schedule[s].next /\ j.due <= j.at /\ j.at + Interval <= moment
  <2>1. j.due <= j.at /\ j.at + Interval <= schedule[s].next
    BY <1>3, <1>9 DEF ScheduleRows, PeriodBeforeNext, JobsOf
  <2>2. j.due \in Nat /\ j.at \in Nat /\ schedule[s].next \in Nat
    BY <1>3, <1>5 DEF Schedules!Job, Schedules!Times
  <2> QED
    BY <1>3, <1>5, <2>1, <2>2
<1>10. ASSUME NEW s \in batch, s \notin registeredTwice
       PROVE  [schedule |-> s, due |-> schedule[s].next, at |-> moment] \in New(batch)
  <2>1. ASSUME NEW j \in jobs, Schedules!Key(j.schedule, j.due) = Schedules!Key(s, schedule[s].next)
        PROVE  FALSE
    <3>1. j.schedule = s /\ j.due = schedule[s].next
      BY <2>1 DEF Schedules!Key
    <3>2. j.due \in Nat /\ schedule[s].next \in Nat
      BY <1>3, <1>5 DEF Schedules!Job, Schedules!Times
    <3> QED
      BY <1>9, <1>10, <3>1, <3>2
  <2>2. ~Schedules!HasJob(s, schedule[s].next)
    BY <2>1 DEF Schedules!HasJob
  <2> QED
    BY <2>2
<1>11. PeriodBeforeNext'
  <2> SUFFICES ASSUME NEW s \in Things, s \notin registeredTwice, NEW j \in jobs', j.schedule = s
               PROVE  j.due <= j.at /\ j.at + Interval <= schedule'[s].next
    BY <1>2 DEF PeriodBeforeNext, JobsOf
  <2>1. CASE s \notin batch
    <3>1. j \in jobs
      BY <1>1, <1>6, <2>1
    <3> QED
      BY <1>3, <2>1, <3>1 DEF ScheduleRows, PeriodBeforeNext, JobsOf
  <2>2. CASE s \in batch /\ j \in jobs
    <3>1. j.due <= j.at /\ j.at + Interval <= moment
      BY <1>9, <2>2
    <3>2. j.at \in Nat /\ schedule'[s].next = moment + Interval
      BY <1>3, <1>5, <2>2 DEF Schedules!Job, Schedules!Times
    <3> QED
      BY <1>3, <1>5, <3>1, <3>2
  <2>3. CASE s \in batch /\ j \in New(batch)
    <3>1. j.due = schedule[s].next /\ j.at = moment
      BY <1>6, <2>3
    <3> QED
      BY <1>3, <1>5, <2>3, <3>1
  <2> QED
    BY <1>1, <2>1, <2>2, <2>3
<1>12. Schedules!PeriodsApart'
  <2>1. ASSUME NEW j \in jobs, NEW k \in New(batch), j.schedule = k.schedule, j.schedule \notin registeredTwice
        PROVE  j.at + Interval <= k.at
    BY <1>6, <1>9, <2>1
  <2>2. ASSUME NEW j \in New(batch), NEW k \in New(batch), j.schedule = k.schedule
        PROVE  j = k
    BY <2>2
  <2> SUFFICES ASSUME NEW j \in jobs', NEW k \in jobs',
                      j # k, j.schedule = k.schedule, j.schedule \notin registeredTwice
               PROVE  j.at + Interval <= k.at \/ k.at + Interval <= j.at
    BY <1>2 DEF Schedules!PeriodsApart
  <2>3. CASE j \in jobs /\ k \in jobs
    BY <2>3 DEF ScheduleRows, Schedules!PeriodsApart
  <2> QED
    BY <1>1, <2>1, <2>2, <2>3
<1>13. Schedules!NextFollowsLast'
  <2> SUFFICES ASSUME NEW s \in Things, schedule'[s].present, s \notin registeredTwice,
                      NEW k \in jobs', k.schedule = s
               PROVE  \E j \in jobs' : j.schedule = s /\ schedule'[s].next = j.at + Interval
    BY <1>2 DEF Schedules!NextFollowsLast
  <2>1. CASE s \notin batch
    <3>1. k \in jobs /\ schedule'[s] = schedule[s]
      BY <1>1, <1>3, <1>6, <2>1
    <3>2. \E j \in jobs : j.schedule = s /\ schedule[s].next = j.at + Interval
      BY <3>1 DEF ScheduleRows, Schedules!NextFollowsLast
    <3> QED
      BY <1>1, <3>1, <3>2
  <2>2. CASE s \in batch
    <3> DEFINE n == [schedule |-> s, due |-> schedule[s].next, at |-> moment]
    <3>1. n \in jobs' /\ n.schedule = s /\ n.at = moment
      BY <1>1, <1>10, <2>2
    <3>2. schedule'[s].next = moment + Interval
      BY <1>3, <2>2
    <3> QED
      BY <3>1, <3>2
  <2> QED
    BY <2>1, <2>2
<1> QED
  BY <1>4, <1>7, <1>8, <1>11, <1>12, <1>13 DEF ScheduleRows

LEMMA SchedulesGoOn ==
    ASSUME Schedules!SchedulerAssumption
    PROVE  ScheduleRows /\ [Schedules!Next]_(Schedules!vars) => ScheduleRows'
<1> SUFFICES ASSUME ScheduleRows, [Schedules!Next]_(Schedules!vars) PROVE ScheduleRows'
  OBVIOUS
<1>1. CASE Schedules!TimePasses
  BY <1>1, Schedules!SchedulerAssumption, TimeKeepsSchedules
<1>2. ASSUME NEW w \in Actors, Schedules!Step(w) PROVE ScheduleRows'
  BY <1>2, Schedules!SchedulerAssumption, FindKeepsSchedules, SaveKeepsSchedules, BeginTickKeepsSchedules,
     TickKeepsSchedules, CrashKeepsSchedules DEF Schedules!Step
<1>3. CASE UNCHANGED Schedules!vars
  <2>1. UNCHANGED <<clock, schedule, jobs, worker, registeredTwice>>
    BY <1>3 DEF Schedules!vars
  <2>2. clock <= clock' /\ clock' \in 0 .. MaxSchedulerClock
    BY <2>1, Schedules!SchedulerAssumption DEF Schedules!SchedulerAssumption, ScheduleRows, Schedules!SchedulesTypeOK
  <2> QED
    BY <2>1, <2>2, QuietTick DEF ScheduleRows, Schedules!SchedulesTypeOK, TimesArePast
<1> QED
  BY <1>1, <1>2, <1>3 DEF Schedules!Next

\* A step that finds a schedule due leaves it due or enqueues the run it is due for.
LEMMA StepKeepsDue ==
    ASSUME Schedules!SchedulerAssumption, ScheduleRows, Schedules!Next, NEW s \in Things, Schedules!Due(s, clock)
    PROVE  Schedules!Due(s, clock)' \/ \E j \in jobs' : j.schedule = s /\ j.due = schedule[s].next
<1>1. schedule[s].present /\ schedule[s].next <= clock /\ schedule[s].next \in Nat /\ clock \in Nat
  BY Schedules!SchedulerAssumption DEF Schedules!SchedulerAssumption, Schedules!Due, ScheduleRows, Schedules!SchedulesTypeOK, Schedules!Row, Schedules!Times
<1>2. ASSUME UNCHANGED schedule, clock' \in {clock, clock + 1}
      PROVE  Schedules!Due(s, clock)'
  BY <1>1, <1>2 DEF Schedules!Due
<1>3. ASSUME NEW w \in Actors, Schedules!SaveSchedule(w) PROVE Schedules!Due(s, clock)'
  <2>1. PICK t \in worker[w].schedule :
          schedule' = [schedule EXCEPT ![t] = [present |-> TRUE, next |-> Schedules!FirstRun(worker[w].time)]]
    BY <1>3 DEF Schedules!SaveSchedule, Schedules!Upsert
  <2>2. clock' = clock /\ worker[w].time <= clock
    BY <1>3 DEF Schedules!SaveSchedule, Schedules!Upsert, ScheduleRows, TimesArePast
  <2> QED
    BY <1>1, <2>1, <2>2 DEF Schedules!Due, Schedules!FirstRun, ScheduleRows, Schedules!SchedulesTypeOK
<1>4. ASSUME NEW w \in Actors, Schedules!Tick(w)
      PROVE  Schedules!Due(s, clock)' \/ \E j \in jobs' : j.schedule = s /\ j.due = schedule[s].next
  <2> DEFINE New(batch) == {[schedule |-> t, due |-> schedule[t].next, at |-> worker[w].time] :
                              t \in {b \in batch : ~Schedules!HasJob(b, schedule[b].next)}}
  <2>1. PICK batch \in Schedules!Claimable(worker[w].time) :
          /\ jobs' = jobs \cup New(batch)
          /\ schedule' = [t \in Things |->
                IF t \in batch THEN [schedule[t] EXCEPT !.next = Schedules!NextRun(worker[w].time)] ELSE schedule[t]]
    BY <1>4 DEF Schedules!Tick
  <2>2. CASE s \notin batch
    <3>1. schedule'[s] = schedule[s] /\ clock' = clock
      BY <1>4, <2>1, <2>2 DEF Schedules!Tick
    <3> QED
      BY <1>1, <3>1 DEF Schedules!Due
  <2>3. CASE s \in batch /\ Schedules!HasJob(s, schedule[s].next)
    BY <2>1, <2>3 DEF Schedules!HasJob, Schedules!Key
  <2>4. CASE s \in batch /\ ~Schedules!HasJob(s, schedule[s].next)
    <3>1. [schedule |-> s, due |-> schedule[s].next, at |-> worker[w].time] \in jobs'
      BY <2>1, <2>4
    <3> QED
      BY <3>1
  <2> QED
    BY <2>2, <2>3, <2>4
<1>5. ASSUME NEW w \in Actors, Schedules!FindSchedule(w) \/ Schedules!BeginTick(w) \/ Schedules!Crash(w)
      PROVE  Schedules!Due(s, clock)'
  BY <1>2, <1>5 DEF Schedules!FindSchedule, Schedules!BeginTick, Schedules!Crash
<1>6. CASE Schedules!TimePasses
  BY <1>2, <1>6 DEF Schedules!TimePasses
<1> QED
  BY <1>3, <1>4, <1>5, <1>6 DEF Schedules!Next, Schedules!Step

SchedulesInv == part = "schedules" => ScheduleRows

LEMMA StepOfSchedules ==
    ASSUME part = "schedules", [Next]_vars
    PROVE  part' = part /\ [Schedules!Next]_(Schedules!vars)
BY DEF Next, vars, schedules, Schedules!vars

LEMMA SchedulesKept ==
    /\ Init => SchedulesInv
    /\ SchedulesInv /\ [Next]_vars => SchedulesInv'
<1>1. Schedules!SchedulerAssumption
  BY SiteAssumption
<1>2. Init => SchedulesInv
  BY <1>1, SchedulesBegin DEF Init, SchedulesInv
<1>3. ASSUME SchedulesInv, [Next]_vars PROVE SchedulesInv'
  <2>1. CASE part = "schedules"
    BY <1>1, <1>3, <2>1, StepOfSchedules, SchedulesGoOn DEF SchedulesInv
  <2>2. CASE part # "schedules"
    BY <1>3, <2>2 DEF Next, vars, SchedulesInv
  <2> QED
    BY <2>1, <2>2
<1> QED
  BY <1>2, <1>3

\* However many workers register, tick and crash, the runs of a schedule are a whole
\* period apart and none is left out, unless the schedule was registered twice.
THEOREM OncePerPeriodHolds == Spec => []OncePerPeriod
<1>1. SchedulesInv => OncePerPeriod
  BY DEF SchedulesInv, OncePerPeriod, Schedules!OncePerPeriod, ScheduleRows
<1> QED
  BY <1>1, SchedulesKept, PTL DEF Spec

\* What is due stays due until the run it is due for has its job, whatever other
\* workers register, enqueue or leave half done in between.
THEOREM DueIsNeverLost == Spec => DueUntilEnqueued
<1>1. Schedules!SchedulerAssumption
  BY SiteAssumption
<1>2. SchedulesInv /\ [Next]_vars => [part = "schedules" => Schedules!StaysDue]_vars
  <2> SUFFICES ASSUME SchedulesInv, Next, part = "schedules" PROVE Schedules!StaysDue
    OBVIOUS
  <2>1. ScheduleRows /\ Schedules!Next
    BY DEF SchedulesInv, Next
  <2> QED
    BY <1>1, <2>1, StepKeepsDue DEF Schedules!StaysDue
<1> QED
  BY <1>2, SchedulesKept, PTL DEF Spec, DueUntilEnqueued

--------------------------------------------------------------------------------
(* SiteHealthReviews.  A version that was current has the content it was      *)
(* published with, and every operation under way has what it is going to      *)
(* write.  While operations do not overlap, the draft is the newest version   *)
(* and the row an operation holds is the row that is there.                   *)

Past == {"published", "sent", "superseded"}

\* Version v of the review is there.
Exists(v) == v \in Reviews!Versions /\ review[v].status # "none"

\* The next version is after every other, and no version is missing before it.
FollowsAll(v) == \A u \in Reviews!Versions : u < v => Exists(u)

OperationIsSound(o) ==
    /\ o.at = "build" => o.row.status = "draft" /\ (o.version # 0 => Exists(o.version))
    /\ o.at = "write" => \/ o.row.status # "none" /\ Exists(o.version)
                         \/ o.row.status = "none" /\ o.version \in Reviews!Versions /\ FollowsAll(o.version)
    /\ o.at \in {"rewrite", "content", "publish"} => Exists(o.version)
    /\ o.at = "rewrite" => o.row.status = "draft"
    /\ o.at \in {"send", "approve"} => Exists(o.version) /\ o.row.content \in shown[o.version]
    /\ o.at = "initiate" => o.version \in Reviews!Versions /\ \A r \in o.recommendations : proposal[o.version][r] # "none"

\* An operation that runs alone finds the rows as it has read them.
OperationIsAlone(o) ==
    /\ o.at \in {"build", "write", "rewrite", "content", "publish"} /\ o.version # 0 /\ o.row.status # "none" =>
          review[o.version].status = "draft"
    /\ (o.at \in {"build", "number"} /\ o.version = 0) \/ (o.at = "write" /\ o.row.status = "none") =>
          \A v \in Reviews!Versions : review[v].status # "draft"
    /\ o.at = "number" => o.version = 0
    /\ o.at \in {"content", "publish"} => o.row.status # "none"
    /\ o.at = "write" /\ o.row.status = "none" => \A u \in Reviews!Versions : Exists(u) => u < o.version
    /\ o.at = "send" => review[o.version] = o.row /\ o.row.status \in {"published", "sent"}

PublishedWasShown ==
    \A v \in Reviews!Versions : review[v].status \in Past => review[v].content \in shown[v]

OneOperation == \A c, d \in Actors : operation[c].at # "idle" /\ operation[d].at # "idle" => c = d

DraftIsNewest ==
    \A v, u \in Reviews!Versions : review[v].status = "draft" /\ Exists(u) => u <= v

CurrentIsNewest ==
    \A v, u \in Reviews!Versions :
        review[v].status \in {"published", "sent"} /\ review[u].status \in Past => u <= v

ReviewInv ==
    /\ Reviews!ReviewsTypeOK /\ PublishedWasShown
    /\ Reviews!CleanupIsApproved /\ Reviews!MailedAsPublished
    /\ \A c \in Actors : OperationIsSound(operation[c])
    /\ ~overlapped =>
          /\ OneOperation /\ DraftIsNewest /\ CurrentIsNewest
          /\ \A c \in Actors : OperationIsAlone(operation[c])

LEMMA ReviewFacts ==
    /\ MaxVersions \in Nat \ {0} /\ MaxOperations \in Nat /\ Reviews!Versions \subseteq Nat /\ 0 \notin Reviews!Versions
    /\ Reviews!NoVersion = 0 /\ Reviews!NoReview \in Reviews!Review /\ Reviews!NoReview.status = "none"
    /\ Reviews!IdleOperation \in Reviews!Operation /\ Reviews!IdleOperation.at = "idle"
    /\ \A o \in Reviews!Operation :
          /\ o.version \in Reviews!Versions \cup {0} /\ o.row \in Reviews!Review
          /\ o.recommendations \in SUBSET Things /\ o.answer \in Reviews!Answers
    /\ \A r \in Reviews!Review : r.status \in Reviews!Statuses /\ r.content \in SUBSET Things
<1>1. MaxVersions \in Nat \ {0} /\ MaxOperations \in Nat
  BY SiteAssumption DEF Reviews!ReviewAssumption
<1>2. Reviews!Versions \subseteq Nat /\ 0 \notin Reviews!Versions /\ Reviews!NoVersion = 0
  BY <1>1 DEF Reviews!Versions, Reviews!NoVersion
<1>3. Reviews!NoReview \in Reviews!Review /\ Reviews!NoReview.status = "none"
  BY DEF Reviews!NoReview, Reviews!Review, Reviews!Statuses
<1>4. Reviews!IdleOperation \in Reviews!Operation /\ Reviews!IdleOperation.at = "idle"
  BY <1>2, <1>3 DEF Reviews!IdleOperation, Reviews!Operation, Reviews!Kinds, Reviews!Answers
<1>5. \A o \in Reviews!Operation :
         /\ o.version \in Reviews!Versions \cup {0} /\ o.row \in Reviews!Review
         /\ o.recommendations \in SUBSET Things /\ o.answer \in Reviews!Answers
  BY <1>2 DEF Reviews!Operation
<1>6. \A r \in Reviews!Review : r.status \in Reviews!Statuses /\ r.content \in SUBSET Things
  BY DEF Reviews!Review
<1> QED
  BY <1>1, <1>2, <1>3, <1>4, <1>5, <1>6

LEMMA ReviewTypes ==
    ASSUME ReviewInv
    PROVE  /\ proposed \subseteq Things /\ review \in [Reviews!Versions -> Reviews!Review]
           /\ operation \in [Actors -> Reviews!Operation] /\ begun \in 0 .. MaxOperations /\ overlapped \in BOOLEAN
           /\ shown \in [Reviews!Versions -> SUBSET SUBSET Things]
           /\ proposal \in [Reviews!Versions -> [Things -> {"none", "approved", "initiated"}]]
           /\ \A v \in Reviews!Versions : Exists(v) => FollowsAll(v)
<1>1. Reviews!ReviewsTypeOK
  BY DEF ReviewInv
<1>2. \A v \in Reviews!Versions : Exists(v) => FollowsAll(v)
  <2>1. SUFFICES ASSUME NEW v \in Reviews!Versions, NEW u \in Reviews!Versions, Exists(v), u < v PROVE Exists(u)
    BY DEF FollowsAll
  <2>2. v \in Reviews!InStatus(Reviews!Statuses \ {"none"})
    BY <1>1, <2>1, ReviewFacts DEF Reviews!InStatus, Reviews!ReviewsTypeOK, Exists
  <2>3. u \in 1 .. v
    BY <2>1, ReviewFacts DEF Reviews!Versions
  <2> QED
    BY <1>1, <2>2, <2>3 DEF Reviews!ReviewsTypeOK, Exists
<1> QED
  BY <1>1, <1>2 DEF Reviews!ReviewsTypeOK

\* An operation goes on or ends, and no version, answer or proposal changes.
LEMMA ReviewGoesOn ==
    ASSUME ReviewInv, NEW c \in Actors, NEW q \in Reviews!Operation, operation' = [operation EXCEPT ![c] = q],
           proposed' \subseteq Things, begun' \in 0 .. MaxOperations, overlapped' \in BOOLEAN,
           ~overlapped' => /\ ~overlapped
                           /\ operation[c].at # "idle" \/ (\A d \in Actors : operation[d].at = "idle"),
           OperationIsSound(q), ~overlapped => OperationIsAlone(q),
           UNCHANGED <<review, approvals, proposal, mailed, shown>>
    PROVE  ReviewInv' /\ Reviews!StaysPublished
<1>1. /\ operation' \in [Actors -> Reviews!Operation] /\ operation'[c] = q
      /\ \A d \in Actors \ {c} : operation'[d] = operation[d]
  BY ReviewTypes
<1>2. Reviews!ReviewsTypeOK'
  BY <1>1 DEF ReviewInv, Reviews!ReviewsTypeOK, Reviews!InStatus
<1>3. PublishedWasShown' /\ Reviews!CleanupIsApproved' /\ Reviews!MailedAsPublished'
  BY DEF ReviewInv, PublishedWasShown, Reviews!CleanupIsApproved, Reviews!MailedAsPublished
<1>4. ASSUME NEW d \in Actors PROVE OperationIsSound(operation[d])'
  <2>1. PICK o : o = operation'[d]
    OBVIOUS
  <2>2. OperationIsSound(o)
    BY <1>1, <2>1 DEF ReviewInv
  <2> QED
    BY <2>1, <2>2 DEF OperationIsSound, Exists, FollowsAll
<1>5. ASSUME ~overlapped'
      PROVE  OneOperation' /\ DraftIsNewest' /\ CurrentIsNewest' /\ \A d \in Actors : OperationIsAlone(operation[d])'
  <2>1. ~overlapped /\ OneOperation /\ DraftIsNewest /\ CurrentIsNewest
    BY <1>5 DEF ReviewInv
  <2>2. OneOperation'
    BY <1>1, <1>5, <2>1 DEF OneOperation
  <2>3. DraftIsNewest' /\ CurrentIsNewest'
    BY <2>1 DEF DraftIsNewest, CurrentIsNewest, Exists
  <2>4. ASSUME NEW d \in Actors PROVE OperationIsAlone(operation[d])'
    <3>1. PICK o : o = operation'[d]
      OBVIOUS
    <3>2. OperationIsAlone(o)
      BY <1>1, <2>1, <3>1 DEF ReviewInv
    <3> QED
      BY <3>1, <3>2 DEF OperationIsAlone, Exists
  <2> QED
    BY <2>2, <2>3, <2>4
<1>6. Reviews!StaysPublished
  BY DEF Reviews!StaysPublished, Reviews!InStatus
<1> QED
  BY <1>2, <1>3, <1>4, <1>5, <1>6 DEF ReviewInv

\* An operation writes versions of the review.
LEMMA ReviewWritten ==
    ASSUME ReviewInv, NEW c \in Actors, NEW q \in Reviews!Operation, operation' = [operation EXCEPT ![c] = q],
           operation[c].at # "idle", review' \in [Reviews!Versions -> Reviews!Review],
           \A v \in Reviews!Versions : Exists(v) => review'[v].status # "none",
           \A v \in Reviews!Versions : review'[v].status # "none" /\ ~Exists(v) => FollowsAll(v),
           shown' \in [Reviews!Versions -> SUBSET SUBSET Things],
           \A v \in Reviews!Versions : shown[v] \subseteq shown'[v],
           \A v \in Reviews!Versions : review'[v].status \in Past => review'[v].content \in shown'[v],
           mailed' \subseteq [version : Reviews!Versions, content : SUBSET Things],
           \A m \in mailed' : m.content \in shown'[m.version],
           UNCHANGED <<proposed, approvals, proposal, begun, overlapped>>,
           OperationIsSound(q)', ~overlapped => OperationIsAlone(q)' /\ DraftIsNewest' /\ CurrentIsNewest',
           ~overlapped => \A v \in Reviews!Versions :
               review[v].status \in Past => review'[v].content = review[v].content /\ review'[v].status \in Past
    PROVE  ReviewInv' /\ Reviews!StaysPublished
<1>1. /\ operation' \in [Actors -> Reviews!Operation] /\ operation'[c] = q
      /\ \A d \in Actors \ {c} : operation'[d] = operation[d]
  BY ReviewTypes
<1>2. \A v : Exists(v) => Exists(v)'
  BY DEF Exists
<1>3. Reviews!ReviewsTypeOK'
  <2>1. ASSUME NEW v \in Reviews!Versions, review'[v].status # "none", NEW u \in 1 .. v
        PROVE  review'[u].status # "none"
    <3>1. u \in Reviews!Versions /\ u \in Nat /\ v \in Nat /\ u <= v
      BY <2>1, ReviewFacts DEF Reviews!Versions
    <3>2. FollowsAll(v)
      BY <2>1, ReviewTypes
    <3>3. CASE u = v
      BY <2>1, <3>3
    <3>4. CASE u < v
      BY <3>1, <3>2, <3>4, <1>2 DEF FollowsAll, Exists
    <3> QED
      BY <3>1, <3>3, <3>4
  <2>2. \A v \in Reviews!InStatus(Reviews!Statuses \ {"none"})' : \A u \in 1 .. v : review'[u].status # "none"
    BY <2>1 DEF Reviews!InStatus
  <2>3. /\ proposed \subseteq Things /\ approvals \subseteq [version : Reviews!Versions, answer : Reviews!Answers]
        /\ proposal \in [Reviews!Versions -> [Things -> {"none", "approved", "initiated"}]]
        /\ begun \in 0 .. MaxOperations /\ overlapped \in BOOLEAN
    BY DEF ReviewInv, Reviews!ReviewsTypeOK
  <2> QED
    BY <1>1, <2>2, <2>3 DEF Reviews!ReviewsTypeOK
<1>4. PublishedWasShown' /\ Reviews!MailedAsPublished'
  BY DEF PublishedWasShown, Reviews!MailedAsPublished
<1>5. Reviews!CleanupIsApproved'
  <2>1. SUFFICES ASSUME NEW v \in Reviews!Versions, NEW r \in Things, proposal[v][r] # "none"
                 PROVE  /\ [version |-> v, answer |-> "approved-all"] \in approvals
                        /\ \E content \in shown'[v] : r \in content
    BY DEF Reviews!CleanupIsApproved
  <2> QED
    BY <2>1 DEF ReviewInv, Reviews!CleanupIsApproved
<1>6. ASSUME NEW d \in Actors PROVE OperationIsSound(operation[d])'
  <2>1. CASE d = c
    BY <1>1, <2>1
  <2>2. CASE d # c
    <3>1. PICK o : o = operation[d] /\ o = operation'[d]
      BY <1>1, <2>2
    <3>2. OperationIsSound(o)
      <4>1. OperationIsSound(operation[d])
        BY DEF ReviewInv
      <4> QED
        BY <3>1, <4>1
    <3>3. \A v : FollowsAll(v) => FollowsAll(v)'
      BY <1>2 DEF FollowsAll
    <3>4. \A v : Exists(v) => shown[v] \subseteq shown'[v]
      BY DEF Exists
    <3>5. OperationIsSound(o)'
      BY <1>2, <3>2, <3>3, <3>4 DEF OperationIsSound
    <3> QED
      BY <3>1, <3>5
  <2> QED
    BY <2>1, <2>2
<1>7. ASSUME ~overlapped'
      PROVE  OneOperation' /\ DraftIsNewest' /\ CurrentIsNewest' /\ \A d \in Actors : OperationIsAlone(operation[d])'
  <2>1. ~overlapped /\ OneOperation
    BY <1>7 DEF ReviewInv
  <2>2. OneOperation'
    BY <1>1, <2>1 DEF OneOperation
  <2>3. ASSUME NEW d \in Actors PROVE OperationIsAlone(operation[d])'
    <3>1. CASE d = c
      BY <1>1, <2>1, <3>1
    <3>2. CASE d # c
      <4>1. operation'[d].at = "idle"
        BY <1>1, <2>1, <3>2 DEF OneOperation
      <4> QED
        BY <4>1 DEF OperationIsAlone
    <3> QED
      BY <3>1, <3>2
  <2> QED
    BY <2>1, <2>2, <2>3
<1>8. Reviews!StaysPublished
  BY DEF Reviews!StaysPublished, Reviews!InStatus, Past
<1> QED
  BY <1>3, <1>4, <1>5, <1>6, <1>7, <1>8 DEF ReviewInv

LEMMA StartKeepsReviews ==
    ASSUME ReviewInv, NEW c \in Actors, NEW q \in Reviews!Operation, Reviews!Start(c, q),
           proposed' \subseteq Things, OperationIsSound(q), OperationIsAlone(q),
           UNCHANGED <<review, approvals, proposal, mailed, shown>>
    PROVE  ReviewInv' /\ Reviews!StaysPublished
<1>1. /\ operation[c].at = "idle" /\ begun < MaxOperations /\ begun' = begun + 1
      /\ operation' = [operation EXCEPT ![c] = q]
      /\ overlapped' = (overlapped \/ \E d \in Actors : operation[d].at # "idle")
  BY DEF Reviews!Start
<1>2. begun' \in 0 .. MaxOperations
  BY <1>1, ReviewTypes, ReviewFacts
<1>3. overlapped' \in BOOLEAN
  BY <1>1, ReviewTypes
<1>4. ~overlapped' => /\ ~overlapped
                      /\ operation[c].at # "idle" \/ (\A d \in Actors : operation[d].at = "idle")
  BY <1>1
<1>5. ~overlapped => OperationIsAlone(q)
  OBVIOUS
<1> QED
  BY <1>1, <1>2, <1>3, <1>4, <1>5, ReviewGoesOn

\* Calls take the current version, or a proposal that was approved.
LEMMA BeginningsKeepReviews ==
    \A c \in Actors : ReviewInv /\ Reviews!Begin(c) => ReviewInv' /\ Reviews!StaysPublished
<1>1. SUFFICES ASSUME NEW c \in Actors, ReviewInv, Reviews!Begin(c) PROVE ReviewInv' /\ Reviews!StaysPublished
  OBVIOUS
<1>2. proposed' \subseteq Things
  BY <1>1, ReviewTypes DEF Reviews!Begin, Reviews!SaveRecommendation, Reviews!UpdateDraft, Reviews!Publish,
     Reviews!SendReview, Reviews!RecordApproval, Reviews!InitiateCleanup, Reviews!tables
<1>3. UNCHANGED <<review, approvals, proposal, mailed, shown>>
  BY <1>1 DEF Reviews!Begin, Reviews!SaveRecommendation, Reviews!UpdateDraft, Reviews!Publish,
     Reviews!SendReview, Reviews!RecordApproval, Reviews!InitiateCleanup, Reviews!tables
<1>4. ASSUME NEW q \in Reviews!Operation, Reviews!Start(c, q), q.at \in {"list", "find"}
      PROVE  ReviewInv' /\ Reviews!StaysPublished
  <2>1. OperationIsSound(q) /\ OperationIsAlone(q)
    BY <1>4 DEF OperationIsSound, OperationIsAlone
  <2> QED
    BY <1>1, <1>2, <1>3, <1>4, <2>1, StartKeepsReviews
<1>5. ASSUME NEW at_ \in {"list", "find", "send", "approve", "initiate"}, NEW kind_ \in Reviews!Kinds,
             NEW v \in Reviews!Versions \cup {0}, NEW row_ \in Reviews!Review, NEW some \in SUBSET Things,
             NEW answer_ \in Reviews!Answers,
             NEW q, q = [at |-> at_, kind |-> kind_, version |-> v, row |-> row_, recommendations |-> some,
                         answer |-> answer_]
      PROVE  /\ q \in Reviews!Operation /\ q.at = at_ /\ q.version = v /\ q.row = row_ /\ q.recommendations = some
  BY <1>5, ReviewFacts DEF Reviews!Operation
<1>6. "declined" \in Reviews!Answers /\ {} \in SUBSET Things
  BY DEF Reviews!Answers
<1>7. CASE (\E r \in Things : Reviews!SaveRecommendation(c, r)) \/ Reviews!UpdateDraft(c) \/ Reviews!Publish(c)
  <2>1. PICK at_ \in {"list", "find"}, kind_ \in Reviews!Kinds :
           Reviews!Start(c, [Reviews!IdleOperation EXCEPT !.at = at_, !.kind = kind_])
    BY <1>7 DEF Reviews!SaveRecommendation, Reviews!UpdateDraft, Reviews!Publish, Reviews!Kinds
  <2>2. PICK q : q = [Reviews!IdleOperation EXCEPT !.at = at_, !.kind = kind_]
    OBVIOUS
  <2>3. q = [at |-> at_, kind |-> kind_, version |-> 0, row |-> Reviews!NoReview, recommendations |-> {},
             answer |-> "declined"]
    BY <2>2, ReviewFacts DEF Reviews!IdleOperation
  <2>4. q \in Reviews!Operation /\ q.at = at_
    BY <1>5, <1>6, <2>3, ReviewFacts
  <2> QED
    BY <1>4, <2>1, <2>2, <2>4
<1>8. CASE \E v \in Reviews!Versions : Reviews!SendReview(c, v)
  <2>1. PICK v \in Reviews!Versions : Reviews!SendReview(c, v)
    BY <1>8
  <2>2. PICK q : q = [Reviews!IdleOperation EXCEPT !.at = "send", !.kind = "send", !.version = v, !.row = review[v]]
    OBVIOUS
  <2>3. q = [at |-> "send", kind |-> "send", version |-> v, row |-> review[v], recommendations |-> {},
             answer |-> "declined"]
    BY <2>2 DEF Reviews!IdleOperation
  <2>4. review[v] \in Reviews!Review /\ "send" \in Reviews!Kinds
    BY <1>1, ReviewTypes DEF Reviews!Kinds
  <2>5. q \in Reviews!Operation /\ q.at = "send" /\ q.version = v /\ q.row = review[v]
    BY <1>5, <1>6, <2>3, <2>4
  <2>6. review[v].status \in {"published", "sent"} /\ v # 0
    BY <2>1, ReviewFacts DEF Reviews!SendReview, Reviews!Answerable, Reviews!Current, Reviews!InStatus
  <2>7. Exists(v) /\ review[v].content \in shown[v]
    BY <1>1, <2>6 DEF ReviewInv, PublishedWasShown, Past, Exists
  <2>8. OperationIsSound(q)
    BY <2>5, <2>7 DEF OperationIsSound
  <2>9. OperationIsAlone(q)
    BY <2>5, <2>6 DEF OperationIsAlone
  <2>10. Reviews!Start(c, q)
    BY <2>1, <2>2 DEF Reviews!SendReview
  <2> QED
    BY <1>1, <1>2, <1>3, <2>5, <2>8, <2>9, <2>10, StartKeepsReviews
<1>9. CASE \E v \in Reviews!Versions, answer_ \in Reviews!Answers : Reviews!RecordApproval(c, v, answer_)
  <2>1. PICK v \in Reviews!Versions, answer_ \in Reviews!Answers : Reviews!RecordApproval(c, v, answer_)
    BY <1>9
  <2>2. PICK q : q = [Reviews!IdleOperation EXCEPT !.at = "approve", !.kind = "approve", !.version = v,
                                                   !.row = review[v], !.answer = answer_]
    OBVIOUS
  <2>3. q = [at |-> "approve", kind |-> "approve", version |-> v, row |-> review[v], recommendations |-> {},
             answer |-> answer_]
    BY <2>2 DEF Reviews!IdleOperation
  <2>4. review[v] \in Reviews!Review /\ "approve" \in Reviews!Kinds
    BY <1>1, ReviewTypes DEF Reviews!Kinds
  <2>5. q \in Reviews!Operation /\ q.at = "approve" /\ q.version = v /\ q.row = review[v]
    BY <1>5, <1>6, <2>3, <2>4
  <2>6. review[v].status \in {"published", "sent"}
    BY <2>1 DEF Reviews!RecordApproval, Reviews!Answerable, Reviews!Current, Reviews!InStatus
  <2>7. Exists(v) /\ review[v].content \in shown[v]
    BY <1>1, <2>6 DEF ReviewInv, PublishedWasShown, Past, Exists
  <2>8. OperationIsSound(q)
    BY <2>5, <2>7 DEF OperationIsSound
  <2>9. OperationIsAlone(q)
    BY <2>5 DEF OperationIsAlone
  <2>10. Reviews!Start(c, q)
    BY <2>1, <2>2 DEF Reviews!RecordApproval
  <2> QED
    BY <1>1, <1>2, <1>3, <2>5, <2>8, <2>9, <2>10, StartKeepsReviews
<1>10. CASE \E v \in Reviews!Versions, r \in Things : Reviews!InitiateCleanup(c, v, r)
  <2>1. PICK v \in Reviews!Versions, r \in Things : Reviews!InitiateCleanup(c, v, r)
    BY <1>10
  <2>2. PICK q : q = [Reviews!IdleOperation EXCEPT !.at = "initiate", !.kind = "initiate", !.version = v,
                                                   !.recommendations = {r}]
    OBVIOUS
  <2>3. q = [at |-> "initiate", kind |-> "initiate", version |-> v, row |-> Reviews!NoReview, recommendations |-> {r},
             answer |-> "declined"]
    BY <2>2 DEF Reviews!IdleOperation
  <2>4. {r} \in SUBSET Things /\ "initiate" \in Reviews!Kinds
    BY DEF Reviews!Kinds
  <2>5. q \in Reviews!Operation /\ q.at = "initiate" /\ q.version = v /\ q.recommendations = {r}
    BY <1>5, <1>6, <2>3, <2>4, ReviewFacts
  <2>6. proposal[v][r] # "none"
    BY <2>1 DEF Reviews!InitiateCleanup
  <2>7. OperationIsSound(q)
    BY <2>5, <2>6 DEF OperationIsSound
  <2>8. OperationIsAlone(q)
    BY <2>5 DEF OperationIsAlone
  <2>9. Reviews!Start(c, q)
    BY <2>1, <2>2 DEF Reviews!InitiateCleanup
  <2> QED
    BY <1>1, <1>2, <1>3, <2>5, <2>7, <2>8, <2>9, StartKeepsReviews
<1> QED
  BY <1>1, <1>7, <1>8, <1>9, <1>10 DEF Reviews!Begin

LEMMA GreatestVersion ==
    ASSUME NEW S \in SUBSET Reviews!Versions, S # {}
    PROVE  \E v \in S : \A u \in S : u <= v
<1>1. PICK T : T = {MaxVersions - v : v \in S}
  OBVIOUS
<1>2. T \in SUBSET Nat /\ T # {}
  <2>1. \A v \in Reviews!Versions : MaxVersions - v \in Nat
    BY ReviewFacts DEF Reviews!Versions
  <2> QED
    BY <1>1, <2>1
<1>3. PICK t \in T : \A s \in T : t <= s
  BY <1>2, LeastNatural
<1>4. PICK v \in S : t = MaxVersions - v
  BY <1>1
<1>5. ASSUME NEW u \in S PROVE u <= v
  <2>1. t <= MaxVersions - u
    BY <1>1, <1>3
  <2> QED
    BY <1>4, <2>1, ReviewFacts
<1> QED
  BY <1>5

\* The newest draft, or none.
LEMMA NewestDraftIsDraft ==
    \/ Reviews!NewestDraft = 0 /\ \A v \in Reviews!Versions : review[v].status # "draft"
    \/ Reviews!NewestDraft \in Reviews!Versions /\ review[Reviews!NewestDraft].status = "draft"
<1>1. CASE Reviews!InStatus({"draft"}) = {}
  BY <1>1, ReviewFacts DEF Reviews!NewestDraft, Reviews!InStatus
<1>2. CASE Reviews!InStatus({"draft"}) # {}
  <2>1. Reviews!InStatus({"draft"}) \in SUBSET Reviews!Versions
    BY DEF Reviews!InStatus
  <2>2. \E v \in Reviews!InStatus({"draft"}) : \A u \in Reviews!InStatus({"draft"}) : u <= v
    BY <1>2, <2>1, GreatestVersion
  <2>3. Reviews!NewestDraft \in Reviews!InStatus({"draft"})
    BY <1>2, <2>2 DEF Reviews!NewestDraft
  <2> QED
    BY <2>3 DEF Reviews!InStatus
<1> QED
  BY <1>1, <1>2

\* No version is missing, so their number and one is the next.
LEMMA NextFollowsAll ==
    ASSUME ReviewInv, Reviews!NextVersion \in Reviews!Versions
    PROVE  \A u \in Reviews!Versions : Exists(u) <=> u < Reviews!NextVersion
<1>1. PICK S : S = Reviews!InStatus(Reviews!Statuses \ {"none"})
  OBVIOUS
<1>2. \A u : u \in S <=> Exists(u)
  BY <1>1, ReviewTypes, ReviewFacts DEF Reviews!InStatus, Exists
<1>3. \E k \in Nat : k <= MaxVersions /\ S = 1 .. k
  <2>1. PICK M : M = Reviews!Versions \ S
    OBVIOUS
  <2>2. CASE M = {}
    <3>1. S = 1 .. MaxVersions
      BY <1>2, <2>1, <2>2 DEF Exists, Reviews!Versions
    <3> QED
      BY <3>1, ReviewFacts
  <2>3. CASE M # {}
    <3>1. M \in SUBSET Nat
      BY <2>1, ReviewFacts
    <3>2. PICK m \in M : \A n \in M : m <= n
      BY <2>3, <3>1, LeastNatural
    <3>3. m \in Reviews!Versions /\ ~Exists(m) /\ m \in Nat /\ 1 <= m /\ m <= MaxVersions
      BY <1>2, <2>1, <3>2, ReviewFacts DEF Reviews!Versions
    <3>4. ASSUME NEW u \in S PROVE u \in 1 .. (m - 1)
      <4>1. u \in Reviews!Versions /\ Exists(u) /\ u \in Nat /\ 1 <= u
        BY <1>2, ReviewFacts DEF Exists, Reviews!Versions
      <4>2. ~(m < u) /\ m # u
        BY <3>3, <4>1, ReviewTypes DEF FollowsAll
      <4> QED
        BY <3>3, <4>1, <4>2
    <3>5. ASSUME NEW u \in 1 .. (m - 1) PROVE u \in S
      <4>1. u \in Reviews!Versions /\ u < m /\ u \in Nat
        BY <3>3, ReviewFacts DEF Reviews!Versions
      <4> QED
        BY <2>1, <3>2, <3>3, <4>1
    <3>6. S = 1 .. (m - 1)
      BY <3>4, <3>5
    <3>7. m - 1 \in Nat /\ m - 1 <= MaxVersions
      BY <3>3, ReviewFacts
    <3> QED
      BY <3>6, <3>7
  <2> QED
    BY <2>2, <2>3
<1>4. PICK k \in Nat : S = 1 .. k
  BY <1>3
<1>5. Cardinality(1 .. k) = k
  BY FS_Interval
<1>6. Reviews!NextVersion = k + 1
  BY <1>1, <1>4, <1>5 DEF Reviews!NextVersion, Cardinality, Reviews!Cardinality
<1>7. ASSUME NEW u \in Reviews!Versions PROVE u \in 1 .. k <=> u < k + 1
  BY <1>7, ReviewFacts DEF Reviews!Versions
<1> QED
  BY <1>2, <1>4, <1>6, <1>7

\* What an operation reads is there, and is what it is going to write if it is alone.
LEMMA ReadingKeepsReviews ==
    \A c \in Actors :
        ReviewInv /\ (\/ Reviews!FindDraft(c) \/ Reviews!ListReviews(c) \/ Reviews!BuildContent(c)
                      \/ Reviews!NumberDraft(c) \/ Reviews!Abort(c))
            => ReviewInv' /\ Reviews!StaysPublished
<1>1. SUFFICES ASSUME NEW c \in Actors, ReviewInv,
                      \/ Reviews!FindDraft(c) \/ Reviews!ListReviews(c) \/ Reviews!BuildContent(c)
                      \/ Reviews!NumberDraft(c) \/ Reviews!Abort(c)
               PROVE  ReviewInv' /\ Reviews!StaysPublished
  OBVIOUS
<1>2. PICK o : o = operation[c]
  OBVIOUS
<1>3. /\ o \in Reviews!Operation /\ OperationIsSound(o) /\ (~overlapped => OperationIsAlone(o))
      /\ o.row \in Reviews!Review /\ o.version \in Reviews!Versions \cup {0}
  BY <1>1, <1>2, ReviewTypes, ReviewFacts DEF ReviewInv
<1>4. /\ operation[c].at # "idle" /\ UNCHANGED <<proposed, begun, overlapped>>
      /\ UNCHANGED <<review, approvals, proposal, mailed, shown>>
  BY <1>1 DEF Reviews!FindDraft, Reviews!ListReviews, Reviews!BuildContent, Reviews!NumberDraft, Reviews!Abort,
     Reviews!tables
<1>5. ASSUME NEW q \in Reviews!Operation, operation' = [operation EXCEPT ![c] = q], OperationIsSound(q),
             ~overlapped => OperationIsAlone(q)
      PROVE  ReviewInv' /\ Reviews!StaysPublished
  <2>1. /\ proposed' \subseteq Things /\ begun' \in 0 .. MaxOperations /\ overlapped' \in BOOLEAN
    BY <1>1, <1>4, ReviewTypes
  <2>2. ~overlapped' => /\ ~overlapped
                        /\ operation[c].at # "idle" \/ (\A d \in Actors : operation[d].at = "idle")
    BY <1>4
  <2> QED
    BY <1>1, <1>4, <1>5, <2>1, <2>2, ReviewGoesOn
<1>6. PICK v : v = Reviews!NewestDraft
  OBVIOUS
<1>7. /\ v = 0 => \A u \in Reviews!Versions : review[u].status # "draft"
      /\ v # 0 => v \in Reviews!Versions /\ review[v].status = "draft" /\ Exists(v)
      /\ v \in Reviews!Versions \cup {0} /\ review \in [Reviews!Versions -> Reviews!Review]
  BY <1>1, <1>6, NewestDraftIsDraft, ReviewTypes, ReviewFacts DEF Exists
<1>8. CASE Reviews!FindDraft(c)
  <2>1. PICK at_, row_ : /\ at_ = IF v = 0 THEN "list" ELSE "content"
                         /\ row_ = IF v = 0 THEN Reviews!NoReview ELSE review[v]
    OBVIOUS
  <2>2. PICK q : q = [o EXCEPT !.at = at_, !.version = v, !.row = row_]
    OBVIOUS
  <2>3. row_ \in Reviews!Review /\ (v # 0 => row_.status = "draft")
    BY <1>7, <2>1, ReviewFacts
  <2>4. q \in Reviews!Operation /\ q.at = at_ /\ q.version = v /\ q.row = row_
    BY <1>3, <1>7, <2>1, <2>2, <2>3, ReviewFacts DEF Reviews!Operation
  <2>5. operation' = [operation EXCEPT ![c] = q]
    BY <1>2, <1>6, <1>8, <2>1, <2>2, ReviewFacts DEF Reviews!FindDraft
  <2>6. OperationIsSound(q)
    BY <1>7, <2>1, <2>4 DEF OperationIsSound
  <2>7. OperationIsAlone(q)
    BY <1>7, <2>1, <2>3, <2>4 DEF OperationIsAlone
  <2> QED
    BY <1>5, <2>4, <2>5, <2>6, <2>7
<1>9. CASE Reviews!ListReviews(c)
  <2>1. PICK row_ : row_ = IF v = 0 THEN [Reviews!NoReview EXCEPT !.status = "draft"] ELSE review[v]
    OBVIOUS
  <2>2. PICK q : q = [o EXCEPT !.at = "build", !.version = v, !.row = row_]
    OBVIOUS
  <2>3. row_ \in Reviews!Review /\ row_.status = "draft"
    BY <1>7, <2>1 DEF Reviews!NoReview, Reviews!Review, Reviews!Statuses
  <2>4. q \in Reviews!Operation /\ q.at = "build" /\ q.version = v /\ q.row = row_
    BY <1>3, <1>7, <2>2, <2>3, ReviewFacts DEF Reviews!Operation
  <2>5. operation' = [operation EXCEPT ![c] = q]
    BY <1>2, <1>6, <1>9, <2>1, <2>2, ReviewFacts DEF Reviews!ListReviews
  <2>6. OperationIsSound(q)
    BY <1>7, <2>3, <2>4 DEF OperationIsSound
  <2>7. OperationIsAlone(q)
    BY <1>7, <2>3, <2>4 DEF OperationIsAlone
  <2> QED
    BY <1>5, <2>4, <2>5, <2>6, <2>7
<1>10. CASE Reviews!BuildContent(c)
  <2>1. PICK at_ : at_ = IF o.at = "content" THEN "publish" ELSE IF o.version = 0 THEN "number" ELSE "write"
    OBVIOUS
  <2>2. PICK q : q = [o EXCEPT !.at = at_, !.row = [o.row EXCEPT !.content = proposed]]
    OBVIOUS
  <2>3. [o.row EXCEPT !.content = proposed] \in Reviews!Review /\ [o.row EXCEPT !.content = proposed].status = o.row.status
    BY <1>1, <1>3, ReviewTypes DEF Reviews!Review
  <2>4. q \in Reviews!Operation /\ q.at = at_ /\ q.version = o.version /\ q.row.status = o.row.status
    BY <1>3, <2>1, <2>2, <2>3, ReviewFacts DEF Reviews!Operation
  <2>5. /\ operation' = [operation EXCEPT ![c] = q] /\ o.at \in {"build", "content"}
    BY <1>2, <1>3, <1>10, <2>1, <2>2, ReviewFacts DEF Reviews!BuildContent, Reviews!Operation
  <2>6. OperationIsSound(q)
    BY <1>3, <2>1, <2>4, <2>5 DEF OperationIsSound
  <2>7. ASSUME ~overlapped PROVE OperationIsAlone(q)
    BY <1>3, <2>1, <2>4, <2>5, <2>7 DEF OperationIsAlone, OperationIsSound
  <2> QED
    BY <1>5, <2>4, <2>5, <2>6, <2>7
<1>11. CASE Reviews!NumberDraft(c)
  <2>1. PICK next : next = Reviews!NextVersion
    OBVIOUS
  <2>2. o.at = "number" /\ next \in Reviews!Versions
    BY <1>2, <1>11, <2>1 DEF Reviews!NumberDraft
  <2>3. \A u \in Reviews!Versions : Exists(u) <=> u < next
    BY <1>1, <2>1, <2>2, NextFollowsAll
  <2>4. PICK q : q = [o EXCEPT !.at = "write", !.version = next, !.row = [o.row EXCEPT !.status = "none"]]
    OBVIOUS
  <2>5. [o.row EXCEPT !.status = "none"] \in Reviews!Review /\ [o.row EXCEPT !.status = "none"].status = "none"
    BY <1>3 DEF Reviews!Review, Reviews!Statuses
  <2>6. q \in Reviews!Operation /\ q.at = "write" /\ q.version = next /\ q.row.status = "none"
    BY <1>3, <2>2, <2>4, <2>5, ReviewFacts DEF Reviews!Operation
  <2>7. operation' = [operation EXCEPT ![c] = q]
    BY <1>2, <1>3, <1>11, <2>1, <2>4 DEF Reviews!NumberDraft, Reviews!Operation
  <2>8. OperationIsSound(q)
    BY <2>2, <2>3, <2>6 DEF OperationIsSound, FollowsAll
  <2>9. ASSUME ~overlapped PROVE OperationIsAlone(q)
    BY <1>3, <2>2, <2>3, <2>6, <2>9 DEF OperationIsAlone
  <2> QED
    BY <1>5, <2>6, <2>7, <2>8, <2>9
<1>12. CASE Reviews!Abort(c)
  <2>1. PICK q : q = Reviews!IdleOperation
    OBVIOUS
  <2>2. q \in Reviews!Operation /\ q.at = "idle"
    BY <2>1, ReviewFacts
  <2>3. operation' = [operation EXCEPT ![c] = q]
    BY <1>12, <2>1 DEF Reviews!Abort, Reviews!Done
  <2>4. OperationIsSound(q) /\ OperationIsAlone(q)
    BY <2>2 DEF OperationIsSound, OperationIsAlone
  <2> QED
    BY <1>5, <2>2, <2>3, <2>4
<1> QED
  BY <1>1, <1>8, <1>9, <1>10, <1>11, <1>12

\* A draft that was found is there still; a new one has the number after every other.
LEMMA WriteDraftKeepsReviews ==
    \A c \in Actors : ReviewInv /\ Reviews!WriteDraft(c) => ReviewInv' /\ Reviews!StaysPublished
<1>1. SUFFICES ASSUME NEW c \in Actors, ReviewInv, Reviews!WriteDraft(c) PROVE ReviewInv' /\ Reviews!StaysPublished
  OBVIOUS
<1>2. PICK o, v : o = operation[c] /\ v = o.version
  OBVIOUS
<1>3. /\ o \in Reviews!Operation /\ OperationIsSound(o) /\ (~overlapped => OperationIsAlone(o)) /\ o.at = "write"
      /\ o.row \in Reviews!Review /\ review \in [Reviews!Versions -> Reviews!Review]
      /\ UNCHANGED <<proposed, approvals, proposal, mailed, shown, begun, overlapped>>
  BY <1>1, <1>2, ReviewTypes, ReviewFacts DEF ReviewInv, Reviews!WriteDraft
<1>4. v \in Reviews!Versions /\ v # 0
  BY <1>2, <1>3, ReviewFacts DEF OperationIsSound, Exists
<1>5. CASE o.row.status = "none" /\ review[v].status # "none"
  <2>1. Reviews!Abort(c)
    BY <1>1, <1>2, <1>3, <1>5 DEF Reviews!WriteDraft, Reviews!Abort, Reviews!tables
  <2> QED
    BY <1>1, <2>1, ReadingKeepsReviews
<1>6. CASE ~(o.row.status = "none" /\ review[v].status # "none")
  <2>1. PICK written : written = [o.row EXCEPT !.status = "draft"]
    OBVIOUS
  <2>2. written \in Reviews!Review /\ written.status = "draft"
    BY <1>3, <2>1 DEF Reviews!Review, Reviews!Statuses
  <2>3. review' = [review EXCEPT ![v] = written] /\ Reviews!AfterDraft(c, written)
    BY <1>1, <1>2, <1>6, <2>1 DEF Reviews!WriteDraft
  <2>4. \E q \in Reviews!Operation :
           /\ operation' = [operation EXCEPT ![c] = q] /\ q.at \in {"idle", "rewrite", "content"}
           /\ q.at # "idle" => q.version = v /\ q.row = written
    <3>1. CASE operation' = [operation EXCEPT ![c] = Reviews!IdleOperation]
      BY <3>1, ReviewFacts
    <3>2. CASE \E step \in {"rewrite", "content"} : operation' = [operation EXCEPT ![c].at = step, ![c].row = written]
      <4>1. PICK step \in {"rewrite", "content"} : operation' = [operation EXCEPT ![c].at = step, ![c].row = written]
        BY <3>2
      <4>2. PICK q : q = [o EXCEPT !.at = step, !.row = written]
        OBVIOUS
      <4>3. q \in Reviews!Operation /\ q.at = step /\ q.version = v /\ q.row = written
        BY <1>2, <1>3, <2>2, <4>2 DEF Reviews!Operation
      <4> QED
        BY <1>2, <4>1, <4>2, <4>3
    <3> QED
      BY <2>3, <3>1, <3>2 DEF Reviews!AfterDraft
  <2>5. PICK q \in Reviews!Operation :
           /\ operation' = [operation EXCEPT ![c] = q] /\ q.at \in {"idle", "rewrite", "content"}
           /\ q.at # "idle" => q.version = v /\ q.row = written
    BY <2>4
  <2>6. /\ review' \in [Reviews!Versions -> Reviews!Review] /\ review'[v] = written
        /\ \A u \in Reviews!Versions \ {v} : review'[u] = review[u]
    BY <1>3, <1>4, <2>2, <2>3
  <2>7. \A u \in Reviews!Versions : Exists(u) => review'[u].status # "none"
    BY <2>2, <2>6 DEF Exists
  <2>8. \A u \in Reviews!Versions : review'[u].status # "none" /\ ~Exists(u) => FollowsAll(u)
    BY <1>2, <1>3, <1>4, <2>6 DEF Exists, OperationIsSound
  <2>9. \A u \in Reviews!Versions : review'[u].status \in Past => review'[u].content \in shown'[u]
    BY <1>1, <1>3, <2>2, <2>6 DEF ReviewInv, PublishedWasShown, Past
  <2>10. /\ shown' \in [Reviews!Versions -> SUBSET SUBSET Things] /\ shown' = shown
         /\ mailed' \subseteq [version : Reviews!Versions, content : SUBSET Things]
         /\ \A m \in mailed' : m.content \in shown'[m.version]
    BY <1>1, <1>3, ReviewTypes DEF ReviewInv, Reviews!ReviewsTypeOK, Reviews!MailedAsPublished
  <2>11. OperationIsSound(q)'
    BY <1>4, <2>2, <2>5, <2>6 DEF OperationIsSound, Exists
  <2>12. ASSUME ~overlapped PROVE OperationIsAlone(q)'
    BY <2>2, <2>5, <2>6 DEF OperationIsAlone
  <2>13. ASSUME ~overlapped
         PROVE  /\ review[v].status \in {"none", "draft"}
                /\ DraftIsNewest'
    <3>1. OperationIsAlone(o) /\ DraftIsNewest
      BY <1>1, <1>3, <2>13 DEF ReviewInv
    <3>2. CASE o.row.status # "none"
      <4>1. review[v].status = "draft"
        BY <1>2, <1>3, <1>4, <3>1, <3>2 DEF OperationIsAlone
      <4>2. \A u \in Reviews!Versions : review'[u].status = review[u].status
        BY <2>2, <2>6, <4>1
      <4> QED
        BY <3>1, <4>1, <4>2 DEF DraftIsNewest, Exists
    <3>3. CASE o.row.status = "none"
      <4>1. /\ review[v].status = "none" /\ \A u \in Reviews!Versions : review[u].status # "draft"
            /\ \A u \in Reviews!Versions : Exists(u) => u < v
        BY <1>2, <1>3, <1>6, <3>1, <3>3 DEF OperationIsAlone
      <4>2. ASSUME NEW w \in Reviews!Versions, NEW u \in Reviews!Versions,
                   review'[w].status = "draft", review'[u].status # "none"
            PROVE  w = v /\ u <= v
        <5>1. w = v
          BY <2>6, <4>1, <4>2
        <5>2. CASE u = v
          BY <1>4, <5>1, <5>2, ReviewFacts
        <5>3. CASE u # v
          <6>1. Exists(u)
            BY <2>6, <4>2, <5>3 DEF Exists
          <6> QED
            BY <1>4, <4>1, <5>1, <6>1, ReviewFacts
        <5> QED
          BY <5>2, <5>3
      <4> QED
        BY <4>1, <4>2 DEF DraftIsNewest, Exists
    <3> QED
      BY <3>2, <3>3
  <2>14. ASSUME ~overlapped PROVE CurrentIsNewest'
    BY <1>1, <2>2, <2>6, <2>13, <2>14 DEF ReviewInv, CurrentIsNewest, Past
  <2>15. ~overlapped => \A u \in Reviews!Versions :
            review[u].status \in Past => review'[u].content = review[u].content /\ review'[u].status \in Past
    BY <2>6, <2>13 DEF Past
  <2>16. UNCHANGED <<proposed, approvals, proposal, begun, overlapped>> /\ operation[c].at # "idle"
    BY <1>2, <1>3
  <2>17. \A u \in Reviews!Versions : shown[u] \subseteq shown'[u]
    BY <2>10
  <2>18. ~overlapped => OperationIsAlone(q)' /\ DraftIsNewest' /\ CurrentIsNewest'
    BY <2>12, <2>13, <2>14
  <2>19. operation' = [operation EXCEPT ![c] = q]
    BY <2>5
  <2> QED
    BY <1>1, <2>6, <2>7, <2>8, <2>9, <2>10, <2>11, <2>15, <2>16, <2>17, <2>18, <2>19, ReviewWritten
<1> QED
  BY <1>5, <1>6

LEMMA RewriteDraftKeepsReviews ==
    \A c \in Actors : ReviewInv /\ Reviews!RewriteDraft(c) => ReviewInv' /\ Reviews!StaysPublished
<1>1. SUFFICES ASSUME NEW c \in Actors, ReviewInv, Reviews!RewriteDraft(c) PROVE ReviewInv' /\ Reviews!StaysPublished
  OBVIOUS
<1>2. PICK o, v : o = operation[c] /\ v = o.version
  OBVIOUS
<1>3. /\ o \in Reviews!Operation /\ OperationIsSound(o) /\ (~overlapped => OperationIsAlone(o)) /\ o.at = "rewrite"
      /\ o.row \in Reviews!Review /\ review \in [Reviews!Versions -> Reviews!Review]
      /\ UNCHANGED <<proposed, approvals, proposal, mailed, shown, begun, overlapped>>
      /\ review' = [review EXCEPT ![v] = o.row]
  BY <1>1, <1>2, ReviewTypes, ReviewFacts DEF ReviewInv, Reviews!RewriteDraft
<1>4. v \in Reviews!Versions /\ v # 0 /\ Exists(v) /\ o.row.status = "draft"
  BY <1>2, <1>3, ReviewFacts DEF OperationIsSound, Exists
<1>5. PICK q : q = Reviews!IdleOperation
  OBVIOUS
<1>6. q \in Reviews!Operation /\ q.at = "idle" /\ operation' = [operation EXCEPT ![c] = q]
  BY <1>1, <1>5, ReviewFacts DEF Reviews!RewriteDraft, Reviews!Done
<1>7. /\ review' \in [Reviews!Versions -> Reviews!Review] /\ review'[v] = o.row
      /\ \A u \in Reviews!Versions \ {v} : review'[u] = review[u]
  BY <1>3, <1>4
<1>8. \A u \in Reviews!Versions : Exists(u) => review'[u].status # "none"
  BY <1>4, <1>7 DEF Exists
<1>9. \A u \in Reviews!Versions : review'[u].status # "none" /\ ~Exists(u) => FollowsAll(u)
  BY <1>4, <1>7 DEF Exists
<1>10. \A u \in Reviews!Versions : review'[u].status \in Past => review'[u].content \in shown'[u]
  BY <1>1, <1>3, <1>4, <1>7 DEF ReviewInv, PublishedWasShown, Past
<1>11. /\ shown' \in [Reviews!Versions -> SUBSET SUBSET Things] /\ shown' = shown
       /\ mailed' \subseteq [version : Reviews!Versions, content : SUBSET Things]
       /\ \A m \in mailed' : m.content \in shown'[m.version]
  BY <1>1, <1>3, ReviewTypes DEF ReviewInv, Reviews!ReviewsTypeOK, Reviews!MailedAsPublished
<1>12. OperationIsSound(q)' /\ OperationIsAlone(q)'
  BY <1>6 DEF OperationIsSound, OperationIsAlone
<1>13. ASSUME ~overlapped
       PROVE  /\ review[v].status = "draft" /\ DraftIsNewest' /\ CurrentIsNewest'
  <2>1. review[v].status = "draft"
    BY <1>2, <1>3, <1>4, <1>13 DEF OperationIsAlone
  <2>2. \A u \in Reviews!Versions : review'[u].status = review[u].status
    BY <1>4, <1>7, <2>1
  <2>3. DraftIsNewest /\ CurrentIsNewest
    BY <1>1, <1>13 DEF ReviewInv
  <2> QED
    BY <2>1, <2>2, <2>3 DEF DraftIsNewest, CurrentIsNewest, Exists
<1>14. ~overlapped => \A u \in Reviews!Versions :
          review[u].status \in Past => review'[u].content = review[u].content /\ review'[u].status \in Past
  BY <1>7, <1>13 DEF Past
<1>15. UNCHANGED <<proposed, approvals, proposal, begun, overlapped>> /\ operation[c].at # "idle"
  BY <1>2, <1>3
<1>16. \A u \in Reviews!Versions : shown[u] \subseteq shown'[u]
  BY <1>11
<1>17. ~overlapped => OperationIsAlone(q)' /\ DraftIsNewest' /\ CurrentIsNewest'
  BY <1>12, <1>13
<1> QED
  BY <1>1, <1>6, <1>7, <1>8, <1>9, <1>10, <1>11, <1>12, <1>14, <1>15, <1>16, <1>17, ReviewWritten

\* The draft is published with what was built, and what was current is superseded.
LEMMA PublishKeepsReviews ==
    \A c \in Actors : ReviewInv /\ Reviews!CommitPublish(c) => ReviewInv' /\ Reviews!StaysPublished
<1>1. SUFFICES ASSUME NEW c \in Actors, ReviewInv, Reviews!CommitPublish(c) PROVE ReviewInv' /\ Reviews!StaysPublished
  OBVIOUS
<1>2. PICK o, v, content : o = operation[c] /\ v = o.version /\ content = o.row.content
  OBVIOUS
<1>3. /\ o \in Reviews!Operation /\ OperationIsSound(o) /\ (~overlapped => OperationIsAlone(o)) /\ o.at = "publish"
      /\ content \in SUBSET Things /\ review \in [Reviews!Versions -> Reviews!Review]
      /\ UNCHANGED <<proposed, approvals, proposal, mailed, begun, overlapped>>
  BY <1>1, <1>2, ReviewTypes, ReviewFacts DEF ReviewInv, Reviews!CommitPublish
<1>4. v \in Reviews!Versions /\ v # 0 /\ Exists(v)
  BY <1>2, <1>3, ReviewFacts DEF OperationIsSound, Exists
<1>5. PICK q : q = Reviews!IdleOperation
  OBVIOUS
<1>6. q \in Reviews!Operation /\ q.at = "idle" /\ operation' = [operation EXCEPT ![c] = q]
  BY <1>1, <1>5, ReviewFacts DEF Reviews!CommitPublish, Reviews!Done
<1>7. /\ review' = [u \in Reviews!Versions |->
                       CASE u = v -> [status |-> "published", content |-> content]
                         [] u \in Reviews!Superseded(v) -> [review[u] EXCEPT !.status = "superseded"]
                         [] OTHER -> review[u]]
      /\ shown' = [shown EXCEPT ![v] = @ \cup {content}]
  BY <1>1, <1>2 DEF Reviews!CommitPublish
<1>8. \A u \in Reviews!Versions : u \in Reviews!Superseded(v) <=> u # v /\ review[u].status \in {"published", "sent"}
  BY DEF Reviews!Superseded, Reviews!Current, Reviews!InStatus
<1>9. review'[v] = [status |-> "published", content |-> content]
  BY <1>4, <1>7, <1>8
<1>10. \A u \in Reviews!Versions \ {v} :
          review'[u] = IF review[u].status \in {"published", "sent"}
                         THEN [review[u] EXCEPT !.status = "superseded"] ELSE review[u]
  BY <1>7, <1>8
<1>11. \A u \in Reviews!Versions \ {v} :
          /\ review'[u] \in Reviews!Review /\ review'[u].content = review[u].content
          /\ review'[u].status = IF review[u].status \in {"published", "sent"} THEN "superseded" ELSE review[u].status
  BY <1>3, <1>10 DEF Reviews!Review, Reviews!Statuses
<1>12. review'[v] \in Reviews!Review /\ review'[v].status = "published" /\ review'[v].content = content
  BY <1>3, <1>9 DEF Reviews!Review, Reviews!Statuses
<1>13. review' \in [Reviews!Versions -> Reviews!Review]
  BY <1>7, <1>11, <1>12
<1>14. /\ shown' \in [Reviews!Versions -> SUBSET SUBSET Things]
       /\ content \in shown'[v] /\ \A u \in Reviews!Versions : shown[u] \subseteq shown'[u]
  BY <1>1, <1>3, <1>4, <1>7, ReviewTypes
<1>15. \A u \in Reviews!Versions : Exists(u) => review'[u].status # "none"
  BY <1>11, <1>12 DEF Exists
<1>16. \A u \in Reviews!Versions : review'[u].status # "none" /\ ~Exists(u) => FollowsAll(u)
  BY <1>4, <1>11 DEF Exists
<1>17. ASSUME NEW u \in Reviews!Versions, review'[u].status \in Past PROVE review'[u].content \in shown'[u]
  <2>1. CASE u = v
    BY <1>12, <1>14, <2>1
  <2>2. CASE u # v
    BY <1>1, <1>11, <1>14, <1>17, <2>2 DEF ReviewInv, PublishedWasShown, Past
  <2> QED
    BY <2>1, <2>2
<1>18. /\ mailed' \subseteq [version : Reviews!Versions, content : SUBSET Things]
       /\ \A m \in mailed' : m.content \in shown'[m.version]
  BY <1>1, <1>3, <1>14 DEF ReviewInv, Reviews!ReviewsTypeOK, Reviews!MailedAsPublished
<1>19. OperationIsSound(q)' /\ OperationIsAlone(q)'
  BY <1>6 DEF OperationIsSound, OperationIsAlone
<1>20. ASSUME ~overlapped
       PROVE  /\ review[v].status = "draft" /\ DraftIsNewest' /\ CurrentIsNewest'
  <2>1. review[v].status = "draft"
    BY <1>2, <1>3, <1>4, <1>20 DEF OperationIsAlone
  <2>2. \A u \in Reviews!Versions : Exists(u) => u <= v
    BY <1>1, <1>4, <1>20, <2>1 DEF ReviewInv, DraftIsNewest
  <2>3. \A u \in Reviews!Versions : review'[u].status # "none" => u <= v
    BY <1>4, <1>11, <2>2 DEF Exists
  <2>4. \A u \in Reviews!Versions : review'[u].status # "draft"
    <3>1. SUFFICES ASSUME NEW u \in Reviews!Versions, u # v, review[u].status = "draft" PROVE FALSE
      BY <1>11, <1>12
    <3>2. v <= u
      BY <1>1, <1>4, <1>20, <3>1 DEF ReviewInv, DraftIsNewest
    <3>3. u <= v
      BY <2>2, <3>1 DEF Exists
    <3> QED
      BY <1>4, <3>1, <3>2, <3>3, ReviewFacts
  <2>5. \A u \in Reviews!Versions : review'[u].status \in {"published", "sent"} => u = v
    BY <1>11
  <2> QED
    BY <2>1, <2>3, <2>4, <2>5 DEF DraftIsNewest, CurrentIsNewest, Past
<1>21. ~overlapped => \A u \in Reviews!Versions :
          review[u].status \in Past => review'[u].content = review[u].content /\ review'[u].status \in Past
  BY <1>11, <1>20 DEF Past
<1>22. UNCHANGED <<proposed, approvals, proposal, begun, overlapped>> /\ operation[c].at # "idle"
  BY <1>2, <1>3
<1>23. ~overlapped => OperationIsAlone(q)' /\ DraftIsNewest' /\ CurrentIsNewest'
  BY <1>19, <1>20
<1>24. \A u \in Reviews!Versions : review'[u].status \in Past => review'[u].content \in shown'[u]
  BY <1>17
<1> QED
  BY <1>1, <1>6, <1>13, <1>14, <1>15, <1>16, <1>18, <1>19, <1>21, <1>22, <1>23, <1>24, ReviewWritten

\* The version is sent as it was read, with a message that says what it was published with.
LEMMA SendKeepsReviews ==
    \A c \in Actors : ReviewInv /\ Reviews!CommitSend(c) => ReviewInv' /\ Reviews!StaysPublished
<1>1. SUFFICES ASSUME NEW c \in Actors, ReviewInv, Reviews!CommitSend(c) PROVE ReviewInv' /\ Reviews!StaysPublished
  OBVIOUS
<1>2. PICK o, v : o = operation[c] /\ v = o.version
  OBVIOUS
<1>3. /\ o \in Reviews!Operation /\ OperationIsSound(o) /\ (~overlapped => OperationIsAlone(o)) /\ o.at = "send"
      /\ o.row \in Reviews!Review /\ o.row.content \in SUBSET Things /\ review \in [Reviews!Versions -> Reviews!Review]
      /\ UNCHANGED <<proposed, approvals, proposal, shown, begun, overlapped>>
  BY <1>1, <1>2, ReviewTypes, ReviewFacts DEF ReviewInv, Reviews!CommitSend
<1>4. v \in Reviews!Versions /\ v # 0 /\ Exists(v) /\ o.row.content \in shown[v]
  BY <1>2, <1>3, ReviewFacts DEF OperationIsSound, Exists
<1>5. PICK q : q = Reviews!IdleOperation
  OBVIOUS
<1>6. q \in Reviews!Operation /\ q.at = "idle" /\ operation' = [operation EXCEPT ![c] = q]
  BY <1>1, <1>5, ReviewFacts DEF Reviews!CommitSend, Reviews!Done
<1>7. PICK written : written = [o.row EXCEPT !.status = "sent"]
  OBVIOUS
<1>8. written \in Reviews!Review /\ written.status = "sent" /\ written.content = o.row.content
  BY <1>3, <1>7 DEF Reviews!Review, Reviews!Statuses
<1>9. /\ review' = [review EXCEPT ![v] = written]
      /\ mailed' \subseteq mailed \cup {[version |-> v, content |-> o.row.content]}
  BY <1>1, <1>2, <1>7 DEF Reviews!CommitSend
<1>10. /\ review' \in [Reviews!Versions -> Reviews!Review] /\ review'[v] = written
       /\ \A u \in Reviews!Versions \ {v} : review'[u] = review[u]
  BY <1>3, <1>4, <1>8, <1>9
<1>11. \A u \in Reviews!Versions : Exists(u) => review'[u].status # "none"
  BY <1>8, <1>10 DEF Exists
<1>12. \A u \in Reviews!Versions : review'[u].status # "none" /\ ~Exists(u) => FollowsAll(u)
  BY <1>4, <1>10 DEF Exists
<1>13. \A u \in Reviews!Versions : review'[u].status \in Past => review'[u].content \in shown'[u]
  BY <1>1, <1>3, <1>4, <1>8, <1>10 DEF ReviewInv, PublishedWasShown
<1>14. /\ shown' \in [Reviews!Versions -> SUBSET SUBSET Things] /\ shown' = shown
       /\ \A u \in Reviews!Versions : shown[u] \subseteq shown'[u]
  BY <1>1, <1>3, ReviewTypes
<1>15. /\ mailed' \subseteq [version : Reviews!Versions, content : SUBSET Things]
       /\ \A m \in mailed' : m.content \in shown'[m.version]
  BY <1>1, <1>3, <1>4, <1>9 DEF ReviewInv, Reviews!ReviewsTypeOK, Reviews!MailedAsPublished
<1>16. OperationIsSound(q)' /\ OperationIsAlone(q)'
  BY <1>6 DEF OperationIsSound, OperationIsAlone
<1>17. ASSUME ~overlapped
       PROVE  /\ review[v] = o.row /\ review[v].status \in {"published", "sent"}
              /\ DraftIsNewest' /\ CurrentIsNewest'
  <2>1. review[v] = o.row /\ review[v].status \in {"published", "sent"}
    BY <1>2, <1>3, <1>17 DEF OperationIsAlone
  <2>2. \A u \in Reviews!Versions :
           /\ review'[u].status = "draft" <=> review[u].status = "draft"
           /\ review'[u].status = "none" <=> review[u].status = "none"
           /\ review'[u].status \in {"published", "sent"} <=> review[u].status \in {"published", "sent"}
           /\ review'[u].status \in Past <=> review[u].status \in Past
    BY <1>8, <1>10, <2>1 DEF Past
  <2>3. DraftIsNewest /\ CurrentIsNewest
    BY <1>1, <1>17 DEF ReviewInv
  <2> QED
    BY <2>1, <2>2, <2>3 DEF DraftIsNewest, CurrentIsNewest, Exists
<1>18. ~overlapped => \A u \in Reviews!Versions :
          review[u].status \in Past => review'[u].content = review[u].content /\ review'[u].status \in Past
  BY <1>8, <1>10, <1>17 DEF Past
<1>19. UNCHANGED <<proposed, approvals, proposal, begun, overlapped>> /\ operation[c].at # "idle"
  BY <1>2, <1>3
<1>20. ~overlapped => OperationIsAlone(q)' /\ DraftIsNewest' /\ CurrentIsNewest'
  BY <1>16, <1>17
<1> QED
  BY <1>1, <1>6, <1>10, <1>11, <1>12, <1>13, <1>14, <1>15, <1>16, <1>18, <1>19, <1>20, ReviewWritten

\* Proposals are opened by an answer that approved all, and begun only when they are open.
LEMMA AnswersKeepReviews ==
    \A c \in Actors :
        ReviewInv /\ (Reviews!CommitApproval(c) \/ Reviews!CommitInitiate(c)) => ReviewInv' /\ Reviews!StaysPublished
<1>1. SUFFICES ASSUME NEW c \in Actors, ReviewInv, Reviews!CommitApproval(c) \/ Reviews!CommitInitiate(c)
               PROVE  ReviewInv' /\ Reviews!StaysPublished
  OBVIOUS
<1>2. PICK o, v : o = operation[c] /\ v = o.version
  OBVIOUS
<1>3. /\ o \in Reviews!Operation /\ OperationIsSound(o) /\ o.at \in {"approve", "initiate"} /\ o.answer \in Reviews!Answers
      /\ UNCHANGED <<proposed, review, mailed, shown, begun, overlapped>>
      /\ operation' = [operation EXCEPT ![c] = Reviews!IdleOperation]
  BY <1>1, <1>2, ReviewTypes, ReviewFacts DEF ReviewInv, Reviews!CommitApproval, Reviews!CommitInitiate, Reviews!Done
<1>4. v \in Reviews!Versions
  BY <1>2, <1>3 DEF OperationIsSound, Exists
<1>5. /\ operation' \in [Actors -> Reviews!Operation] /\ operation'[c].at = "idle"
      /\ \A d \in Actors \ {c} : operation'[d] = operation[d]
  BY <1>1, <1>3, ReviewTypes, ReviewFacts
<1>6. /\ approvals \subseteq approvals'
      /\ approvals' \subseteq [version : Reviews!Versions, answer : Reviews!Answers]
  BY <1>1, <1>2, <1>3, <1>4 DEF ReviewInv, Reviews!ReviewsTypeOK, Reviews!CommitApproval, Reviews!CommitInitiate
<1>7. \E new \in [Things -> {"none", "approved", "initiated"}] :
         /\ proposal' = [proposal EXCEPT ![v] = new]
         /\ \A r \in Things : /\ proposal[v][r] # "none" => new[r] # "none"
                              /\ new[r] # "none" => /\ [version |-> v, answer |-> "approved-all"] \in approvals'
                                                    /\ \E content \in shown[v] : r \in content
  <2>1. proposal[v] \in [Things -> {"none", "approved", "initiated"}]
    BY <1>1, <1>4, ReviewTypes
  <2>2. \A r \in Things : proposal[v][r] # "none" => /\ [version |-> v, answer |-> "approved-all"] \in approvals'
                                                     /\ \E content \in shown[v] : r \in content
    BY <1>1, <1>4, <1>6 DEF ReviewInv, Reviews!CleanupIsApproved
  <2>3. CASE Reviews!CommitApproval(c)
    <3>1. PICK opened : opened = Reviews!Opened(o.answer, o.row.content)
      OBVIOUS
    <3>2. PICK new : new = [r \in Things |-> IF r \in opened THEN "approved" ELSE proposal[v][r]]
      OBVIOUS
    <3>3. proposal' = [proposal EXCEPT ![v] = new] /\ new \in [Things -> {"none", "approved", "initiated"}]
      BY <1>1, <1>2, <1>4, <2>1, <2>3, <3>1, <3>2, ReviewTypes DEF Reviews!CommitApproval
    <3>4. [version |-> v, answer |-> o.answer] \in approvals' /\ o.row.content \in shown[v]
      BY <1>2, <1>3, <2>3 DEF Reviews!CommitApproval, OperationIsSound
    <3>5. \A r \in opened : o.answer = "approved-all" /\ r \in o.row.content
      BY <3>1 DEF Reviews!Opened
    <3>6. \A r \in Things : /\ proposal[v][r] # "none" => new[r] # "none"
                            /\ new[r] # "none" => /\ [version |-> v, answer |-> "approved-all"] \in approvals'
                                                  /\ \E content \in shown[v] : r \in content
      BY <2>2, <3>2, <3>4, <3>5
    <3> QED
      BY <3>3, <3>6
  <2>4. CASE Reviews!CommitInitiate(c)
    <3>1. PICK new : new = [r \in Things |-> IF r \in o.recommendations THEN "initiated" ELSE proposal[v][r]]
      OBVIOUS
    <3>2. proposal' = [proposal EXCEPT ![v] = new] /\ new \in [Things -> {"none", "approved", "initiated"}]
      BY <1>1, <1>2, <1>4, <2>1, <2>4, <3>1, ReviewTypes DEF Reviews!CommitInitiate
    <3>3. \A r \in o.recommendations : proposal[v][r] # "none"
      BY <1>2, <1>3, <2>4 DEF Reviews!CommitInitiate, OperationIsSound
    <3>4. \A r \in Things : /\ proposal[v][r] # "none" => new[r] # "none"
                            /\ new[r] # "none" => /\ [version |-> v, answer |-> "approved-all"] \in approvals'
                                                  /\ \E content \in shown[v] : r \in content
      BY <2>2, <3>1, <3>3
    <3> QED
      BY <3>2, <3>4
  <2> QED
    BY <1>1, <2>3, <2>4
<1>8. PICK new \in [Things -> {"none", "approved", "initiated"}] :
         /\ proposal' = [proposal EXCEPT ![v] = new]
         /\ \A r \in Things : /\ proposal[v][r] # "none" => new[r] # "none"
                              /\ new[r] # "none" => /\ [version |-> v, answer |-> "approved-all"] \in approvals'
                                                    /\ \E content \in shown[v] : r \in content
  BY <1>7
<1>9. /\ proposal' \in [Reviews!Versions -> [Things -> {"none", "approved", "initiated"}]] /\ proposal'[v] = new
      /\ \A u \in Reviews!Versions \ {v} : proposal'[u] = proposal[u]
  BY <1>1, <1>4, <1>8, ReviewTypes
<1>10. Reviews!ReviewsTypeOK'
  BY <1>1, <1>3, <1>5, <1>6, <1>9 DEF ReviewInv, Reviews!ReviewsTypeOK, Reviews!InStatus
<1>11. PublishedWasShown' /\ Reviews!MailedAsPublished'
  BY <1>1, <1>3 DEF ReviewInv, PublishedWasShown, Reviews!MailedAsPublished
<1>12. Reviews!CleanupIsApproved'
  <2>1. SUFFICES ASSUME NEW u \in Reviews!Versions, NEW r \in Things, proposal'[u][r] # "none"
                 PROVE  /\ [version |-> u, answer |-> "approved-all"] \in approvals'
                        /\ \E content \in shown[u] : r \in content
    BY <1>3 DEF Reviews!CleanupIsApproved
  <2>2. CASE u = v
    BY <1>8, <1>9, <2>1, <2>2
  <2>3. CASE u # v
    BY <1>1, <1>6, <1>9, <2>1, <2>3 DEF ReviewInv, Reviews!CleanupIsApproved
  <2> QED
    BY <2>2, <2>3
<1>13. \A u \in Reviews!Versions, r \in Things : proposal[u][r] # "none" => proposal'[u][r] # "none"
  BY <1>8, <1>9
<1>14. ASSUME NEW d \in Actors PROVE OperationIsSound(operation[d])'
  <2>1. CASE d = c
    BY <1>5, <2>1 DEF OperationIsSound
  <2>2. CASE d # c
    <3>1. PICK p : p = operation[d] /\ p = operation'[d]
      BY <1>5, <2>2
    <3>2. OperationIsSound(p) /\ p.recommendations \in SUBSET Things
      BY <1>1, <3>1, ReviewTypes, ReviewFacts DEF ReviewInv
    <3>3. OperationIsSound(p)'
      BY <1>3, <1>13, <3>2 DEF OperationIsSound, Exists, FollowsAll
    <3> QED
      BY <3>1, <3>3
  <2> QED
    BY <2>1, <2>2
<1>15. ASSUME ~overlapped'
       PROVE  OneOperation' /\ DraftIsNewest' /\ CurrentIsNewest' /\ \A d \in Actors : OperationIsAlone(operation[d])'
  <2>1. ~overlapped /\ OneOperation /\ DraftIsNewest /\ CurrentIsNewest
    BY <1>1, <1>3, <1>15 DEF ReviewInv
  <2>2. \A d \in Actors : operation'[d].at = "idle"
    BY <1>2, <1>3, <1>5, <2>1 DEF OneOperation
  <2>3. DraftIsNewest' /\ CurrentIsNewest'
    BY <1>3, <2>1 DEF DraftIsNewest, CurrentIsNewest, Exists
  <2> QED
    BY <2>2, <2>3 DEF OneOperation, OperationIsAlone
<1>16. Reviews!StaysPublished
  BY <1>3 DEF Reviews!StaysPublished, Reviews!InStatus
<1> QED
  BY <1>10, <1>11, <1>12, <1>14, <1>15, <1>16 DEF ReviewInv

LEMMA ReviewStarts == Reviews!Init => ReviewInv
<1>1. SUFFICES ASSUME Reviews!Init PROVE ReviewInv
  OBVIOUS
<1>2. PICK first : first = [status |-> "draft", content |-> Things]
  OBVIOUS
<1>3. first \in Reviews!Review /\ first.status = "draft"
  BY <1>2 DEF Reviews!Review, Reviews!Statuses
<1>4. /\ proposed = Things /\ approvals = {} /\ mailed = {} /\ begun = 0 /\ overlapped = FALSE
      /\ review = [v \in Reviews!Versions |-> IF v = 1 THEN first ELSE Reviews!NoReview]
      /\ proposal = [v \in Reviews!Versions |-> [r \in Things |-> "none"]]
      /\ operation = [c \in Actors |-> Reviews!IdleOperation]
      /\ shown = [v \in Reviews!Versions |-> {}]
  BY <1>1, <1>2 DEF Reviews!Init
<1>5. \A v \in Reviews!Versions : review[v].status # "none" => v = 1 /\ review[v].status = "draft"
  BY <1>3, <1>4, ReviewFacts
<1>6. /\ review \in [Reviews!Versions -> Reviews!Review] /\ operation \in [Actors -> Reviews!Operation]
      /\ \A c \in Actors : operation[c].at = "idle"
  BY <1>3, <1>4, ReviewFacts
<1>7. \A v \in Reviews!InStatus(Reviews!Statuses \ {"none"}) : \A u \in 1 .. v : review[u].status # "none"
  BY <1>3, <1>4, <1>5 DEF Reviews!InStatus
<1>8. begun \in 0 .. MaxOperations
  <2>1. begun = 0 /\ MaxOperations \in Nat
    BY <1>4, ReviewFacts
  <2> QED
    BY <2>1
<1>9. overlapped \in BOOLEAN
  BY <1>4
<1>10. /\ proposed \subseteq Things /\ approvals \subseteq [version : Reviews!Versions, answer : Reviews!Answers]
       /\ proposal \in [Reviews!Versions -> [Things -> {"none", "approved", "initiated"}]]
       /\ mailed \subseteq [version : Reviews!Versions, content : SUBSET Things]
       /\ shown \in [Reviews!Versions -> SUBSET SUBSET Things]
  BY <1>4
<1>11. Reviews!ReviewsTypeOK
  BY <1>6, <1>7, <1>8, <1>9, <1>10 DEF Reviews!ReviewsTypeOK
<1>12. PublishedWasShown /\ CurrentIsNewest
  BY <1>5 DEF PublishedWasShown, CurrentIsNewest, Past
<1>13. Reviews!CleanupIsApproved /\ Reviews!MailedAsPublished
  BY <1>4 DEF Reviews!CleanupIsApproved, Reviews!MailedAsPublished
<1>14. DraftIsNewest
  BY <1>5 DEF DraftIsNewest, Exists
<1>15. \A c \in Actors : OperationIsSound(operation[c]) /\ OperationIsAlone(operation[c])
  BY <1>6 DEF OperationIsSound, OperationIsAlone
<1>16. OneOperation
  BY <1>6 DEF OneOperation
<1> QED
  BY <1>11, <1>12, <1>13, <1>14, <1>15, <1>16 DEF ReviewInv

ReviewsInv == part = "reviews" => ReviewInv

LEMMA ReviewsKept ==
    /\ Init => ReviewsInv
    /\ ReviewsInv /\ [Next]_vars => ReviewsInv' /\ (part = "reviews" => Reviews!StaysPublished)
<1>1. Init => ReviewsInv
  BY ReviewStarts DEF Init, ReviewsInv
<1>2. ASSUME ReviewsInv, [Next]_vars PROVE ReviewsInv' /\ (part = "reviews" => Reviews!StaysPublished)
  <2>1. part' = part
    BY <1>2 DEF Next, vars
  <2>2. SUFFICES ASSUME part = "reviews", ReviewInv PROVE ReviewInv' /\ Reviews!StaysPublished
    BY <1>2, <2>1 DEF ReviewsInv
  <2>3. CASE Reviews!Next
    <3>1. PICK c \in Actors : Reviews!Begin(c) \/ Reviews!Continue(c)
      BY <2>3 DEF Reviews!Next
    <3> QED
      BY <2>2, <3>1, BeginningsKeepReviews, ReadingKeepsReviews, WriteDraftKeepsReviews, RewriteDraftKeepsReviews,
         PublishKeepsReviews, SendKeepsReviews, AnswersKeepReviews DEF Reviews!Continue
  <2>4. CASE UNCHANGED reviews
    <3>1. UNCHANGED <<proposed, review, approvals, proposal, mailed, operation, begun, shown, overlapped>>
      BY <2>4 DEF reviews
    <3>2. ReviewInv'
      BY <2>2, <3>1 DEF ReviewInv, Reviews!ReviewsTypeOK, Reviews!InStatus, PublishedWasShown,
         Reviews!CleanupIsApproved, Reviews!MailedAsPublished, OperationIsSound, OperationIsAlone, Exists, FollowsAll,
         OneOperation, DraftIsNewest, CurrentIsNewest
    <3> QED
      BY <3>1, <3>2 DEF Reviews!StaysPublished, Reviews!InStatus
  <2> QED
    BY <1>2, <2>2, <2>3, <2>4 DEF Next, vars
<1> QED
  BY <1>1, <1>2

\* For any number of versions, recommendations and operations: cleanup and mail rest on what
\* a version said when it was published and on an answer that approved all of it, and one
\* version is current and the newest while operations do not overlap (SiteHealthReviewService).
THEOREM CleanupRestsOnPublished == Spec => []RestsOnPublished
<1>1. ReviewsInv => RestsOnPublished
  <2>1. SUFFICES ASSUME part = "reviews", ReviewInv PROVE Reviews!RestsOnPublished /\ Reviews!NewestIsCurrent
    BY DEF ReviewsInv, RestsOnPublished
  <2>2. ~overlapped => CurrentIsNewest
    BY <2>1 DEF ReviewInv
  <2>3. Reviews!NewestIsCurrent
    BY <2>2 DEF CurrentIsNewest, Reviews!NewestIsCurrent, Reviews!Current, Reviews!InStatus, Past
  <2> QED
    BY <2>1, <2>3 DEF ReviewInv, Reviews!RestsOnPublished
<1> QED
  BY <1>1, ReviewsKept, PTL DEF Spec

\* What was published stays as it was, while operations do not overlap.
THEOREM PublishedStays == Spec => PublishedUnlessOverlapped
<1>1. ReviewsInv /\ [Next]_vars => [part = "reviews" => Reviews!StaysPublished]_vars
  BY ReviewsKept
<1> QED
  BY <1>1, ReviewsKept, PTL DEF Spec, PublishedUnlessOverlapped

--------------------------------------------------------------------------------
(* AnnualCheckups.  Whatever date the planner or a run holds for the next     *)
(* cycle, it is of a cycle that was requested before, or it is a year after    *)
(* everything that was completed and no cycle is left to complete.            *)

IsRequested(d) == checkup[d].status # "none"

WasCompleted(d) == \E c \in completions : c.cycle = d

\* The job of cycle d is pending, or a worker is still at it.
IsActive(d) ==
    collection[d].status \in {"queued", "leased"} \/ \E w \in Actors : run[w].at # "idle" /\ run[w].cycle = d

DueInOrder(n) ==
    ~IsRequested(n) =>
        /\ \A d \in Annual!Dates : IsRequested(d) => WasCompleted(d)
        /\ \A c \in completions : c.at + Year <= n

IsReady(d) == checkup[d].status = "draft-ready"

\* A cycle that is due and was not requested comes a year after the last completion.
FollowsLast(p) ==
    p.enabled /\ p.next <= day /\ ~IsRequested(p.next) =>
        \A e \in Annual!Dates :
            IsReady(e) => IsRequested(checkup[e].completed + Year) \/ checkup[e].completed + Year = p.next

RunIsSound(r) ==
    /\ r.at # "idle" => IsRequested(r.cycle)
    /\ r.at \in {"complete", "policy", "save"} => r.cycle \in reviewed
    /\ r.at \in {"policy", "save"} => WasCompleted(r.cycle)

RowsAreSound ==
    /\ \A d \in Annual!Dates :
          /\ collection[d].status = "queued" => collection[d].attempts < MaxAttempts
          /\ ~IsRequested(d) <=> collection[d].status = "none"
          /\ ~IsRequested(d) => collection[d].attempts = 0
          /\ IsReady(d) => d \in reviewed /\ WasCompleted(d) /\ checkup[d].completed <= day
    /\ \A c \in completions : IsRequested(c.cycle) /\ c.at <= day
    /\ policy.present \/ \A d \in Annual!Dates : ~IsRequested(d)
    /\ planner.at = "sync" => planner.policy.present
    /\ planner.at \in {"list", "check", "request"} => policy.present

OneToComplete ==
    \A d \in Annual!Dates :
        IsRequested(d) /\ ~WasCompleted(d) =>
            /\ d <= day /\ \A c \in completions : c.at + Year <= d
            /\ \A e \in Annual!Dates : IsRequested(e) /\ ~WasCompleted(e) => d = e

CompletedToday == \A c \in completions : IsActive(c.cycle) => c.at = day

DatesAreInOrder ==
    /\ DueInOrder(policy.next)
    /\ planner.at # "idle" => DueInOrder(planner.policy.next)
    /\ \A e \in Annual!Dates : IsReady(e) => DueInOrder(checkup[e].completed + Year)

NoneSkipped ==
    \A e, f \in Annual!Dates :
        IsReady(e) /\ IsReady(f) /\ checkup[e].completed < checkup[f].completed =>
            IsRequested(checkup[e].completed + Year)

PlannerFollows ==
    /\ planner.at \in {"sync", "check", "request"} => FollowsLast(planner.policy)
    /\ planner.at = "list" => FollowsLast(policy)
    /\ planner.at \in {"check", "request"} =>
          /\ planner.policy.enabled /\ planner.policy.next <= day
          /\ ~IsRequested(planner.policy.next) => policy.next = planner.policy.next

CheckupInv ==
    /\ Annual!CheckupsTypeOK /\ RowsAreSound
    /\ \A w \in Actors : RunIsSound(run[w])
    /\ Annual!OncePerYear
    /\ ~redone => OneToComplete /\ CompletedToday /\ DatesAreInOrder /\ NoneSkipped /\ PlannerFollows

LEMMA AnnualFacts ==
    /\ Year \in Nat /\ Year > 0 /\ MaxAttempts \in Nat /\ MaxAttempts > 0 /\ MaxCheckupClock \in Nat
    /\ MaxFaults \in Nat /\ MaxChanges \in Nat
    /\ FirstDue \in Annual!Dates /\ 0 \in Annual!Dates /\ Annual!Dates \subseteq Nat
    /\ \A n \in 0 .. MaxCheckupClock : n \in Nat /\ n \in Annual!Dates /\ n + Year \in Annual!Dates
    /\ Annual!IdleRun \in Annual!Run /\ Annual!IdleRun.at = "idle"
    /\ Annual!NoPolicy \in Annual!Policy /\ Annual!NoPolicy.next = 0
    /\ Annual!NoCheckup \in Annual!Checkup /\ Annual!NoCheckup.status = "none"
    /\ Annual!IdlePlanner \in Annual!Planner /\ Annual!IdlePlanner.at = "idle"
<1>1. /\ Year \in Nat /\ Year > 0 /\ MaxAttempts \in Nat /\ MaxAttempts > 0 /\ MaxCheckupClock \in Nat
      /\ MaxFaults \in Nat /\ MaxChanges \in Nat /\ FirstDue \in Nat /\ FirstDue <= Year
  BY SiteAssumption DEF Annual!CheckupAssumption
<1>2. FirstDue \in Annual!Dates /\ 0 \in Annual!Dates /\ Annual!Dates \subseteq Nat
  BY <1>1 DEF Annual!Dates
<1>3. \A n \in 0 .. MaxCheckupClock : n \in Nat /\ n \in Annual!Dates /\ n + Year \in Annual!Dates
  BY <1>1 DEF Annual!Dates
<1>4. Annual!NoPolicy \in Annual!Policy /\ Annual!NoPolicy.next = 0
  BY <1>2 DEF Annual!NoPolicy, Annual!Policy
<1>5. Annual!IdleRun \in Annual!Run /\ Annual!IdleRun.at = "idle"
  BY <1>2, <1>4 DEF Annual!IdleRun, Annual!Run
<1>6. Annual!NoCheckup \in Annual!Checkup /\ Annual!NoCheckup.status = "none"
  BY <1>2 DEF Annual!NoCheckup, Annual!Checkup
<1>7. Annual!IdlePlanner \in Annual!Planner /\ Annual!IdlePlanner.at = "idle"
  BY <1>4 DEF Annual!IdlePlanner, Annual!Planner
<1> QED
  BY <1>1, <1>2, <1>3, <1>4, <1>5, <1>6, <1>7

LEMMA AnnualTypes ==
    ASSUME CheckupInv
    PROVE  /\ day \in 0 .. MaxCheckupClock /\ day \in Nat /\ entitled \in BOOLEAN /\ redone \in BOOLEAN
           /\ policy \in Annual!Policy /\ planner \in Annual!Planner
           /\ checkup \in [Annual!Dates -> Annual!Checkup] /\ reviewed \subseteq Annual!Dates
           /\ collection \in [Annual!Dates -> Annual!Job] /\ run \in [Actors -> Annual!Run]
           /\ faults \in 0 .. MaxFaults /\ lapses \in 0 .. MaxChanges
           /\ completions \subseteq [cycle : Annual!Dates, at : Annual!Dates]
<1>1. Annual!CheckupsTypeOK
  BY DEF CheckupInv
<1> QED
  BY <1>1, AnnualFacts DEF Annual!CheckupsTypeOK

LEMMA AnnualRecords ==
    /\ \A p \in Annual!Policy : p.present \in BOOLEAN /\ p.enabled \in BOOLEAN /\ p.next \in Annual!Dates
    /\ \A r \in Annual!Run : r.cycle \in Annual!Dates /\ r.policy \in Annual!Policy
    /\ \A p \in Annual!Planner : p.policy \in Annual!Policy
    /\ \A k \in Annual!Checkup : k.completed \in Annual!Dates
    /\ \A j \in Annual!Job : j.attempts \in 0 .. MaxAttempts /\ j.holder \in Actors \cup {nobody}
BY DEF Annual!Policy, Annual!Run, Annual!Planner, Annual!Checkup, Annual!Job

\* A year after a checkup was completed is a date.
LEMMA ReadyDates ==
    ASSUME CheckupInv, NEW e \in Annual!Dates, IsReady(e)
    PROVE  /\ checkup[e].completed \in Nat /\ checkup[e].completed <= day
           /\ checkup[e].completed + Year \in Annual!Dates
<1>1. checkup[e].completed \in Nat
  BY AnnualTypes, AnnualRecords, AnnualFacts
<1>2. checkup[e].completed <= day
  BY DEF CheckupInv, RowsAreSound
<1>3. checkup[e].completed \in 0 .. MaxCheckupClock
  BY <1>1, <1>2, AnnualTypes, AnnualFacts
<1> QED
  BY <1>1, <1>2, <1>3, AnnualFacts

\* A run or a job goes on: cycles are not requested, completed or taken up.
LEMMA WorkGoesOn ==
    ASSUME CheckupInv, UNCHANGED <<day, policy, planner, completions, redone>>,
           entitled' \in BOOLEAN, run' \in [Actors -> Annual!Run], collection' \in [Annual!Dates -> Annual!Job],
           checkup' \in [Annual!Dates -> Annual!Checkup], reviewed' \subseteq Annual!Dates,
           faults' \in 0 .. MaxFaults, lapses' \in 0 .. MaxChanges,
           reviewed \subseteq reviewed',
           \A d \in Annual!Dates : checkup'[d].status = "none" <=> checkup[d].status = "none",
           \A d \in Annual!Dates : checkup'[d].status = "draft-ready" => checkup'[d] = checkup[d],
           \A w \in Actors : RunIsSound(run[w])',
           \A d \in Annual!Dates :
               /\ collection'[d].status = "queued" => collection'[d].attempts < MaxAttempts
               /\ checkup[d].status = "none" <=> collection'[d].status = "none"
               /\ checkup[d].status = "none" => collection'[d].attempts = 0,
           \A d \in Annual!Dates : IsActive(d)' => IsActive(d)
    PROVE  CheckupInv'
<1>1. \A d \in Annual!Dates : IsRequested(d)' <=> IsRequested(d)
  BY DEF IsRequested
<1>2. \A d \in Annual!Dates : IsReady(d)' => IsReady(d) /\ checkup'[d] = checkup[d]
  BY DEF IsReady
<1>3. \A d : WasCompleted(d)' <=> WasCompleted(d)
  BY DEF WasCompleted
<1>4. Annual!CheckupsTypeOK'
  BY AnnualTypes DEF Annual!CheckupsTypeOK
<1>5. \A c \in completions : c.cycle \in Annual!Dates
  BY AnnualTypes
<1>6. RowsAreSound'
  <2>1. RowsAreSound
    BY DEF CheckupInv
  <2>2. ASSUME NEW d \in Annual!Dates
        PROVE  /\ collection'[d].status = "queued" => collection'[d].attempts < MaxAttempts
               /\ ~IsRequested(d)' <=> collection'[d].status = "none"
               /\ ~IsRequested(d)' => collection'[d].attempts = 0
               /\ IsReady(d)' => d \in reviewed' /\ WasCompleted(d)' /\ checkup'[d].completed <= day'
    BY <1>1, <1>2, <1>3, <2>1 DEF RowsAreSound, IsRequested
  <2>3. \A c \in completions' : IsRequested(c.cycle)' /\ c.at <= day'
    BY <1>1, <1>5, <2>1 DEF RowsAreSound
  <2>4. policy'.present \/ \A d \in Annual!Dates : ~IsRequested(d)'
    BY <1>1, <2>1 DEF RowsAreSound
  <2>5. (planner'.at = "sync" => planner'.policy.present) /\ (planner'.at \in {"list", "check", "request"} => policy'.present)
    BY <2>1 DEF RowsAreSound
  <2> QED
    BY <2>2, <2>3, <2>4, <2>5 DEF RowsAreSound
<1>7. Annual!OncePerYear'
  BY DEF CheckupInv, Annual!OncePerYear
<1>8. ASSUME ~redone' PROVE OneToComplete' /\ CompletedToday' /\ DatesAreInOrder' /\ NoneSkipped' /\ PlannerFollows'
  <2>1. OneToComplete /\ CompletedToday /\ DatesAreInOrder /\ NoneSkipped /\ PlannerFollows
    BY <1>8 DEF CheckupInv
  <2>2. OneToComplete'
    BY <1>1, <1>3, <2>1 DEF OneToComplete
  <2>3. CompletedToday'
    BY <1>5, <2>1 DEF CompletedToday
  <2>4. \A n \in Annual!Dates : DueInOrder(n) => DueInOrder(n)'
    BY <1>1, <1>3 DEF DueInOrder
  <2>5. policy.next \in Annual!Dates /\ planner.policy.next \in Annual!Dates
    BY AnnualTypes, AnnualRecords
  <2>6. ASSUME NEW e \in Annual!Dates, IsReady(e)'
        PROVE  /\ IsReady(e) /\ checkup'[e].completed = checkup[e].completed
               /\ checkup[e].completed + Year \in Annual!Dates
    BY <1>2, <2>6, ReadyDates
  <2>7. DatesAreInOrder'
    <3>1. DueInOrder(policy.next)'
      <4>1. PICK n \in Annual!Dates : n = policy.next
        BY <2>5
      <4> QED
        BY <2>1, <2>4, <4>1 DEF DatesAreInOrder
    <3>2. planner'.at # "idle" => DueInOrder(planner.policy.next)'
      <4>1. PICK n \in Annual!Dates : n = planner.policy.next
        BY <2>5
      <4> QED
        BY <2>1, <2>4, <4>1 DEF DatesAreInOrder
    <3>3. ASSUME NEW e \in Annual!Dates, IsReady(e)' PROVE DueInOrder(checkup[e].completed + Year)'
      <4>1. PICK n \in Annual!Dates : n = checkup[e].completed + Year
        BY <2>6, <3>3
      <4> QED
        BY <2>1, <2>4, <2>6, <3>3, <4>1 DEF DatesAreInOrder
    <3> QED
      BY <3>1, <3>2, <3>3 DEF DatesAreInOrder
  <2>8. NoneSkipped'
    BY <1>1, <2>1, <2>6 DEF NoneSkipped
  <2>9. \A p \in Annual!Policy : FollowsLast(p) => FollowsLast(p)'
    BY <1>1, <2>6, AnnualRecords DEF FollowsLast
  <2>10. PlannerFollows'
    <3>1. PICK p, q : p = policy /\ q = planner.policy
      OBVIOUS
    <3>2. /\ p \in Annual!Policy /\ q \in Annual!Policy /\ p = policy' /\ q = planner'.policy
          /\ (FollowsLast(p) => FollowsLast(p)') /\ (FollowsLast(q) => FollowsLast(q)')
      BY <2>9, <3>1, AnnualTypes, AnnualRecords
    <3>3. /\ planner.at \in {"sync", "check", "request"} => FollowsLast(q)
          /\ planner.at = "list" => FollowsLast(p)
          /\ planner.at \in {"check", "request"} =>
                q.enabled /\ q.next <= day /\ (~IsRequested(q.next) => p.next = q.next)
      BY <2>1, <3>1 DEF PlannerFollows
    <3>4. IsRequested(q.next)' <=> IsRequested(q.next)
      BY <1>1, <3>2, AnnualRecords
    <3> QED
      BY <3>2, <3>3, <3>4 DEF PlannerFollows
  <2> QED
    BY <2>2, <2>3, <2>7, <2>8, <2>10
<1>9. \A w \in Actors : RunIsSound(run[w])'
  OBVIOUS
<1> QED
  BY <1>4, <1>6, <1>7, <1>8, <1>9 DEF CheckupInv

\* A worker takes the next step of its run.
LEMMA RunGoesOn ==
    ASSUME CheckupInv, NEW w \in Actors, NEW r \in Annual!Run, run' = [run EXCEPT ![w] = r], run[w].at # "idle",
           r.at # "idle" => r.cycle = run[w].cycle, RunIsSound(r)',
           UNCHANGED <<day, entitled, policy, planner, completions, redone, collection, lapses>>,
           faults' \in 0 .. MaxFaults, reviewed' \subseteq Annual!Dates, reviewed \subseteq reviewed',
           checkup' \in [Annual!Dates -> Annual!Checkup],
           \A d \in Annual!Dates : checkup'[d].status = "none" <=> checkup[d].status = "none",
           \A d \in Annual!Dates : checkup'[d].status = "draft-ready" => checkup'[d] = checkup[d]
    PROVE  CheckupInv'
<1>1. /\ run' \in [Actors -> Annual!Run] /\ run'[w] = r
      /\ \A v \in Actors \ {w} : run'[v] = run[v]
  BY AnnualTypes
<1>2. ASSUME NEW v \in Actors PROVE RunIsSound(run[v])'
  <2>1. CASE v = w
    BY <1>1, <2>1
  <2>2. CASE v # w
    <3>1. PICK s : s = run[v]
      OBVIOUS
    <3>2. RunIsSound(s) /\ s = run'[v] /\ s.cycle \in Annual!Dates
      BY <1>1, <2>2, <3>1, AnnualTypes, AnnualRecords DEF CheckupInv
    <3>3. RunIsSound(s)'
      BY <3>2 DEF RunIsSound, IsRequested, WasCompleted
    <3> QED
      BY <3>2, <3>3
  <2> QED
    BY <2>1, <2>2
<1>3. ASSUME NEW d \in Annual!Dates, IsActive(d)' PROVE IsActive(d)
  <2>1. CASE collection'[d].status \in {"queued", "leased"}
    BY <2>1 DEF IsActive
  <2>2. CASE \E v \in Actors : run'[v].at # "idle" /\ run'[v].cycle = d
    BY <1>1, <2>2 DEF IsActive
  <2> QED
    BY <1>3, <2>1, <2>2 DEF IsActive
<1>4. ASSUME NEW d \in Annual!Dates
      PROVE  /\ collection'[d].status = "queued" => collection'[d].attempts < MaxAttempts
             /\ checkup[d].status = "none" <=> collection'[d].status = "none"
             /\ checkup[d].status = "none" => collection'[d].attempts = 0
  BY DEF CheckupInv, RowsAreSound, IsRequested
<1>5. entitled' \in BOOLEAN /\ collection' \in [Annual!Dates -> Annual!Job] /\ lapses' \in 0 .. MaxChanges
  BY AnnualTypes
<1> QED
  BY <1>1, <1>2, <1>3, <1>4, <1>5, WorkGoesOn

\* A run reads, marks the checkup as running, cancelled or failed, and makes the draft.
LEMMA RunsKeepCheckups ==
    \A w \in Actors :
        CheckupInv /\ (\/ Annual!ReadCheckup(w) \/ Annual!CancelCheckup(w) \/ Annual!Begin(w) \/ Annual!Collect(w)
                       \/ Annual!ReadPolicy(w) \/ Annual!Throw(w) \/ Annual!FailCheckup(w))
            => CheckupInv'
<1>1. SUFFICES ASSUME NEW w \in Actors, CheckupInv,
                      \/ Annual!ReadCheckup(w) \/ Annual!CancelCheckup(w) \/ Annual!Begin(w) \/ Annual!Collect(w)
                      \/ Annual!ReadPolicy(w) \/ Annual!Throw(w) \/ Annual!FailCheckup(w)
               PROVE  CheckupInv'
  OBVIOUS
<1>2. PICK o, d : o = run[w] /\ d = o.cycle
  OBVIOUS
<1>3. o \in Annual!Run /\ RunIsSound(o) /\ d \in Annual!Dates /\ o.policy \in Annual!Policy
  BY <1>1, <1>2, AnnualTypes, AnnualRecords DEF CheckupInv
<1>4. /\ o.at # "idle" /\ UNCHANGED <<day, entitled, policy, planner, completions, redone, collection, lapses>>
      /\ faults' \in 0 .. MaxFaults
  <2>1. faults \in 0 .. MaxFaults
    BY <1>1, AnnualTypes
  <2> QED
    BY <1>1, <1>2, <2>1, AnnualFacts DEF Annual!ReadCheckup, Annual!CancelCheckup, Annual!Begin, Annual!Collect,
       Annual!ReadPolicy, Annual!Throw, Annual!FailCheckup, Annual!Goto, Annual!rows, Annual!history
<1>5. /\ checkup \in [Annual!Dates -> Annual!Checkup] /\ reviewed \subseteq Annual!Dates
      /\ checkup[d].status # "none" /\ day \in Annual!Dates
  <2>1. checkup[d].status # "none"
    BY <1>2, <1>3, <1>4 DEF RunIsSound, IsRequested
  <2>2. day \in 0 .. MaxCheckupClock
    BY <1>1, AnnualTypes
  <2> QED
    BY <1>1, <2>1, <2>2, AnnualTypes, AnnualFacts
<1>6. ASSUME NEW r \in Annual!Run, run' = [run EXCEPT ![w] = r], r.cycle = d, UNCHANGED <<checkup, reviewed>>,
             RunIsSound(r)
      PROVE  CheckupInv'
  <2>1. RunIsSound(r)'
    BY <1>3, <1>4, <1>6 DEF RunIsSound, IsRequested, WasCompleted
  <2> QED
    BY <1>1, <1>2, <1>4, <1>5, <1>6, <2>1, RunGoesOn
<1>7. CASE Annual!ReadCheckup(w)
  <2>1. PICK r : r = [o EXCEPT !.at = CASE checkup[d].status = "draft-ready" -> "done"
                                        [] checkup[d].status = "cancelled" -> "throw"
                                        [] OTHER -> IF entitled THEN "begin" ELSE "cancel"]
    OBVIOUS
  <2>2. r.at \in {"done", "throw", "begin", "cancel"}
    BY <1>3, <2>1 DEF Annual!Run
  <2>3. r \in Annual!Run /\ r.cycle = d
    BY <1>2, <1>3, <2>1, <2>2 DEF Annual!Run
  <2>4. RunIsSound(r)
    BY <1>5, <2>2, <2>3 DEF RunIsSound, IsRequested
  <2>5. run' = [run EXCEPT ![w] = r] /\ UNCHANGED <<checkup, reviewed>>
    BY <1>2, <1>7, <2>1 DEF Annual!ReadCheckup, Annual!Goto, Annual!rows
  <2> QED
    BY <1>6, <2>3, <2>4, <2>5
<1>8. CASE Annual!ReadPolicy(w)
  <2>1. PICK r : r = [o EXCEPT !.at = "save", !.policy = policy]
    OBVIOUS
  <2>2. r \in Annual!Run /\ r.cycle = d /\ r.at = "save"
    BY <1>1, <1>2, <1>3, <2>1, AnnualTypes DEF Annual!Run
  <2>3. o.at = "policy" /\ run' = [run EXCEPT ![w] = r] /\ UNCHANGED <<checkup, reviewed>>
    BY <1>2, <1>8, <2>1 DEF Annual!ReadPolicy, Annual!rows
  <2>4. RunIsSound(r)
    BY <1>2, <1>3, <2>2, <2>3 DEF RunIsSound
  <2> QED
    BY <1>6, <2>2, <2>3, <2>4
<1>9. CASE Annual!Throw(w)
  <2>1. PICK r : r = [o EXCEPT !.at = "fail"]
    OBVIOUS
  <2>2. r \in Annual!Run /\ r.cycle = d /\ r.at = "fail"
    BY <1>2, <1>3, <2>1 DEF Annual!Run
  <2>3. run' = [run EXCEPT ![w] = r] /\ UNCHANGED <<checkup, reviewed>>
    BY <1>2, <1>9, <2>1 DEF Annual!Throw, Annual!Goto, Annual!rows
  <2>4. RunIsSound(r)
    BY <1>5, <2>2 DEF RunIsSound, IsRequested
  <2> QED
    BY <1>6, <2>2, <2>3, <2>4
<1>10. CASE Annual!Collect(w)
  <2>1. PICK r : r = [o EXCEPT !.at = "complete"]
    OBVIOUS
  <2>2. r \in Annual!Run /\ r.cycle = d /\ r.at = "complete"
    BY <1>2, <1>3, <2>1 DEF Annual!Run
  <2>3. run' = [run EXCEPT ![w] = r] /\ checkup' = checkup /\ reviewed' = reviewed \cup {d}
    BY <1>2, <1>10, <2>1 DEF Annual!Collect, Annual!Goto, Annual!WithDraft
  <2>4. RunIsSound(r)'
    BY <1>5, <2>2, <2>3 DEF RunIsSound, IsRequested
  <2>5. reviewed' \subseteq Annual!Dates /\ reviewed \subseteq reviewed'
    BY <1>3, <1>5, <2>3
  <2> QED
    BY <1>1, <1>2, <1>4, <1>5, <2>2, <2>3, <2>4, <2>5, RunGoesOn
<1>11. CASE Annual!CancelCheckup(w) \/ Annual!Begin(w) \/ Annual!FailCheckup(w)
  <2>1. PICK step \in {"done", "collect", "throw"}, status \in {"cancelled", "running", "failed"},
             when \in Annual!Dates :
             /\ run' = [run EXCEPT ![w].at = step] /\ reviewed' = reviewed
             /\ checkup' = [checkup EXCEPT ![d] = [status |-> status, completed |-> when]]
    <3>1. CASE Annual!CancelCheckup(w)
      BY <1>2, <1>5, <3>1 DEF Annual!CancelCheckup, Annual!Goto
    <3>2. CASE Annual!Begin(w)
      BY <1>2, <3>2, AnnualFacts DEF Annual!Begin, Annual!Goto
    <3>3. CASE Annual!FailCheckup(w)
      BY <1>2, <1>5, <3>3 DEF Annual!FailCheckup, Annual!Goto
    <3> QED
      BY <1>11, <3>1, <3>2, <3>3
  <2>2. PICK r : r = [o EXCEPT !.at = step]
    OBVIOUS
  <2>3. r \in Annual!Run /\ r.cycle = d /\ r.at = step
    BY <1>2, <1>3, <2>1, <2>2 DEF Annual!Run
  <2>4. run' = [run EXCEPT ![w] = r]
    BY <1>2, <2>1, <2>2
  <2>5. PICK mark : mark = [status |-> status, completed |-> when]
    OBVIOUS
  <2>6. mark \in Annual!Checkup /\ mark.status \notin {"none", "draft-ready"}
    BY <2>1, <2>5 DEF Annual!Checkup
  <2>7. /\ checkup' \in [Annual!Dates -> Annual!Checkup] /\ checkup'[d] = mark
        /\ \A e \in Annual!Dates \ {d} : checkup'[e] = checkup[e]
    BY <1>3, <1>5, <2>1, <2>5, <2>6
  <2>8. /\ \A e \in Annual!Dates : checkup'[e].status = "none" <=> checkup[e].status = "none"
        /\ \A e \in Annual!Dates : checkup'[e].status = "draft-ready" => checkup'[e] = checkup[e]
    BY <1>5, <2>6, <2>7
  <2>9. RunIsSound(r)'
    BY <2>3, <2>6, <2>7 DEF RunIsSound, IsRequested
  <2>10. reviewed' \subseteq Annual!Dates /\ reviewed \subseteq reviewed'
    BY <1>5, <2>1
  <2>11. r.at # "idle" => r.cycle = run[w].cycle
    BY <1>2, <2>3
  <2>12. run[w].at # "idle"
    BY <1>2, <1>4
  <2> QED
    BY <1>1, <1>4, <2>3, <2>4, <2>7, <2>8, <2>9, <2>10, <2>11, <2>12, RunGoesOn
<1> QED
  BY <1>1, <1>7, <1>8, <1>9, <1>10, <1>11

\* A worker takes up a pending job, its outcome is reported or its lease expires.
LEMMA JobsKeepCheckups ==
    CheckupInv /\ (\/ \E w \in Actors, d \in Annual!Dates : Annual!Lease(w, d)
                   \/ \E w \in Actors : Annual!Report(w)
                   \/ \E d \in Annual!Dates : Annual!Recover(d))
        => CheckupInv'
<1>1. SUFFICES ASSUME CheckupInv,
                      \/ \E w \in Actors, d \in Annual!Dates : Annual!Lease(w, d)
                      \/ \E w \in Actors : Annual!Report(w)
                      \/ \E d \in Annual!Dates : Annual!Recover(d)
               PROVE  CheckupInv'
  OBVIOUS
<1>2. /\ UNCHANGED <<day, policy, planner, completions, redone, entitled, checkup, reviewed, lapses>>
      /\ faults' \in 0 .. MaxFaults
  <2>1. faults \in 0 .. MaxFaults
    BY <1>1, AnnualTypes
  <2>2. CASE \E w \in Actors, d \in Annual!Dates : Annual!Lease(w, d)
    BY <2>1, <2>2 DEF Annual!Lease, Annual!history
  <2>3. CASE \E w \in Actors : Annual!Report(w)
    BY <2>1, <2>3 DEF Annual!Report, Annual!history
  <2>4. CASE \E d \in Annual!Dates : Annual!Recover(d)
    <3>1. faults' = faults \/ (faults < MaxFaults /\ faults' = faults + 1)
      BY <2>4 DEF Annual!Recover
    <3>2. faults' \in 0 .. MaxFaults
      BY <2>1, <3>1, AnnualFacts
    <3> QED
      BY <2>4, <3>2 DEF Annual!Recover
  <2> QED
    BY <1>1, <2>2, <2>3, <2>4
<1>3. /\ entitled' \in BOOLEAN /\ lapses' \in 0 .. MaxChanges /\ checkup' \in [Annual!Dates -> Annual!Checkup]
      /\ reviewed' \subseteq Annual!Dates /\ reviewed \subseteq reviewed'
      /\ \A d \in Annual!Dates : checkup'[d].status = "none" <=> checkup[d].status = "none"
      /\ \A d \in Annual!Dates : checkup'[d].status = "draft-ready" => checkup'[d] = checkup[d]
  BY <1>1, <1>2, AnnualTypes
<1>4. ASSUME run' \in [Actors -> Annual!Run], collection' \in [Annual!Dates -> Annual!Job],
             \A w \in Actors : run'[w] = run[w] \/ RunIsSound(run'[w]),
             \A d \in Annual!Dates :
                 \/ collection'[d] = collection[d]
                 \/ /\ collection[d].status # "none" /\ collection'[d].status # "none"
                    /\ collection'[d].status = "queued" => collection'[d].attempts < MaxAttempts,
             \A d \in Annual!Dates : IsActive(d)' => IsActive(d)
      PROVE  CheckupInv'
  <2>1. ASSUME NEW w \in Actors PROVE RunIsSound(run[w])'
    <3>1. PICK r : r = run'[w]
      OBVIOUS
    <3>2. RunIsSound(r)
      BY <1>1, <1>4, <3>1 DEF CheckupInv
    <3> QED
      BY <1>2, <3>1, <3>2 DEF RunIsSound, IsRequested, WasCompleted
  <2>2. ASSUME NEW d \in Annual!Dates
        PROVE  /\ collection'[d].status = "queued" => collection'[d].attempts < MaxAttempts
               /\ checkup[d].status = "none" <=> collection'[d].status = "none"
               /\ checkup[d].status = "none" => collection'[d].attempts = 0
    <3>1. /\ collection[d].status = "queued" => collection[d].attempts < MaxAttempts
          /\ checkup[d].status = "none" <=> collection[d].status = "none"
          /\ checkup[d].status = "none" => collection[d].attempts = 0
      BY <1>1 DEF CheckupInv, RowsAreSound, IsRequested
    <3> QED
      BY <1>4, <3>1
  <2> QED
    BY <1>1, <1>2, <1>3, <1>4, <2>1, <2>2, WorkGoesOn
<1>5. ASSUME NEW d \in Annual!Dates, collection[d].status # "none", collection[d].attempts \in 0 .. MaxAttempts
      PROVE  /\ Annual!AfterFailure(collection[d]) \in Annual!Job
             /\ Annual!AfterFailure(collection[d]).status # "none"
             /\ Annual!AfterFailure(collection[d]).status = "queued" => Annual!AfterFailure(collection[d]).attempts < MaxAttempts
  <2>1. PICK k : k = collection[d]
    OBVIOUS
  <2>2. k \in Annual!Job
    BY <1>1, <2>1, AnnualTypes
  <2>3. PICK status \in {"queued", "failed"} :
             /\ Annual!AfterFailure(k) = [k EXCEPT !.status = status, !.holder = nobody]
             /\ status = "queued" => k.attempts < MaxAttempts
    BY DEF Annual!AfterFailure
  <2>4. [k EXCEPT !.status = status, !.holder = nobody] \in Annual!Job
    BY <2>2, <2>3 DEF Annual!Job
  <2>5. /\ [k EXCEPT !.status = status, !.holder = nobody].status = status
        /\ [k EXCEPT !.status = status, !.holder = nobody].attempts = k.attempts
    BY <2>2 DEF Annual!Job
  <2> QED
    BY <2>1, <2>3, <2>4, <2>5
<1>6. ASSUME NEW w \in Actors, NEW d \in Annual!Dates, Annual!Lease(w, d) PROVE CheckupInv'
  <2>1. PICK k : k = [collection[d] EXCEPT !.status = "leased", !.attempts = collection[d].attempts + 1, !.holder = w]
    OBVIOUS
  <2>2. collection[d] \in Annual!Job /\ collection[d].status = "queued" /\ collection[d].attempts < MaxAttempts
    BY <1>1, <1>6, AnnualTypes DEF CheckupInv, RowsAreSound, Annual!Lease
  <2>3. collection[d].attempts + 1 \in 0 .. MaxAttempts
    BY <2>2, AnnualRecords, AnnualFacts
  <2>4. k \in Annual!Job /\ k.status = "leased"
    BY <2>1, <2>2, <2>3 DEF Annual!Job
  <2>5. collection' = [collection EXCEPT ![d] = k]
    <3>1. collection[d] = [status |-> collection[d].status, attempts |-> collection[d].attempts, holder |-> collection[d].holder]
      BY <2>2 DEF Annual!Job
    <3>2. k = [status |-> "leased", attempts |-> collection[d].attempts + 1, holder |-> w]
      BY <2>1, <3>1
    <3> QED
      BY <1>6, <3>2 DEF Annual!Lease
  <2>6. PICK r : r = [Annual!IdleRun EXCEPT !.at = "read", !.cycle = d]
    OBVIOUS
  <2>7. r \in Annual!Run /\ r.at = "read" /\ r.cycle = d
    BY <2>6, AnnualFacts DEF Annual!Run
  <2>8. run' = [run EXCEPT ![w] = r]
    BY <1>6, <2>6 DEF Annual!Lease
  <2>9. RunIsSound(r)
    <3>1. IsRequested(d)
      BY <1>1, <2>2 DEF CheckupInv, RowsAreSound
    <3> QED
      BY <2>7, <3>1 DEF RunIsSound
  <2>10. /\ run' \in [Actors -> Annual!Run] /\ run'[w] = r /\ \A v \in Actors \ {w} : run'[v] = run[v]
         /\ collection' \in [Annual!Dates -> Annual!Job] /\ collection'[d] = k
         /\ \A e \in Annual!Dates \ {d} : collection'[e] = collection[e]
    BY <1>1, <2>4, <2>5, <2>7, <2>8, AnnualTypes
  <2>11. ASSUME NEW e \in Annual!Dates, IsActive(e)' PROVE IsActive(e)
    <3>1. CASE e = d
      BY <2>2, <3>1 DEF IsActive
    <3>2. CASE e # d
      BY <2>7, <2>10, <2>11, <3>2 DEF IsActive
    <3> QED
      BY <3>1, <3>2
  <2>12. \A v \in Actors : run'[v] = run[v] \/ RunIsSound(run'[v])
    BY <2>9, <2>10
  <2>13. \A e \in Annual!Dates :
            \/ collection'[e] = collection[e]
            \/ /\ collection[e].status # "none" /\ collection'[e].status # "none"
               /\ collection'[e].status = "queued" => collection'[e].attempts < MaxAttempts
    BY <2>2, <2>4, <2>10
  <2> QED
    BY <1>4, <2>10, <2>11, <2>12, <2>13
<1>7. ASSUME NEW w \in Actors, Annual!Report(w) PROVE CheckupInv'
  <2>1. PICK d : d = run[w].cycle
    OBVIOUS
  <2>2. d \in Annual!Dates /\ run[w].at \in {"done", "throw"} /\ IsActive(d)
    BY <1>1, <1>7, <2>1, AnnualTypes, AnnualRecords DEF Annual!Report, IsActive
  <2>3. collection[d].status # "none" /\ collection[d] \in Annual!Job
    <3>1. IsRequested(d)
      BY <1>1, <2>1, <2>2 DEF CheckupInv, RunIsSound
    <3> QED
      BY <1>1, <2>2, <3>1, AnnualTypes DEF CheckupInv, RowsAreSound
  <2>4. run' = [run EXCEPT ![w] = Annual!IdleRun]
    BY <1>7 DEF Annual!Report
  <2>5. /\ run' \in [Actors -> Annual!Run] /\ run'[w].at = "idle" /\ \A v \in Actors \ {w} : run'[v] = run[v]
    BY <1>1, <2>4, AnnualTypes, AnnualFacts
  <2>6. \A v \in Actors : run'[v] = run[v] \/ RunIsSound(run'[v])
    BY <2>5 DEF RunIsSound
  <2>7. CASE collection' = collection
    <3>1. ASSUME NEW e \in Annual!Dates, IsActive(e)' PROVE IsActive(e)
      BY <2>5, <2>7, <3>1 DEF IsActive
    <3>2. collection' \in [Annual!Dates -> Annual!Job]
      BY <1>1, <2>7, AnnualTypes
    <3>3. \A e \in Annual!Dates :
             \/ collection'[e] = collection[e]
             \/ /\ collection[e].status # "none" /\ collection'[e].status # "none"
                /\ collection'[e].status = "queued" => collection'[e].attempts < MaxAttempts
      BY <2>7
    <3> QED
      BY <1>4, <2>5, <2>6, <3>1, <3>2, <3>3
  <2>8. CASE collection[d].holder = w
    <3>1. collection[d].attempts \in 0 .. MaxAttempts
      BY <2>3, AnnualRecords
    <3>2. PICK k : k = IF run[w].at = "throw" THEN Annual!AfterFailure(collection[d])
                       ELSE [collection[d] EXCEPT !.status = "succeeded", !.holder = nobody]
      OBVIOUS
    <3>3. k \in Annual!Job /\ k.status # "none" /\ (k.status = "queued" => k.attempts < MaxAttempts)
      <4>1. PICK j : j = [collection[d] EXCEPT !.status = "succeeded", !.holder = nobody]
        OBVIOUS
      <4>2. j \in Annual!Job /\ j.status = "succeeded"
        BY <2>3, <4>1 DEF Annual!Job
      <4> QED
        BY <1>5, <2>2, <2>3, <3>1, <3>2, <4>1, <4>2
    <3>4. collection' = [collection EXCEPT ![d] = k]
      BY <1>7, <2>1, <2>8, <3>2 DEF Annual!Report
    <3>5. /\ collection' \in [Annual!Dates -> Annual!Job] /\ collection'[d] = k
          /\ \A e \in Annual!Dates \ {d} : collection'[e] = collection[e]
      BY <1>1, <2>2, <3>3, <3>4, AnnualTypes
    <3>6. ASSUME NEW e \in Annual!Dates, IsActive(e)' PROVE IsActive(e)
      <4>1. CASE e = d
        BY <2>2, <4>1
      <4>2. CASE e # d
        BY <2>5, <3>5, <3>6, <4>2 DEF IsActive
      <4> QED
        BY <4>1, <4>2
    <3>7. \A e \in Annual!Dates :
             \/ collection'[e] = collection[e]
             \/ /\ collection[e].status # "none" /\ collection'[e].status # "none"
                /\ collection'[e].status = "queued" => collection'[e].attempts < MaxAttempts
      BY <2>3, <3>3, <3>5
    <3> QED
      BY <1>4, <2>5, <2>6, <3>5, <3>6, <3>7
  <2> QED
    BY <1>7, <2>1, <2>7, <2>8 DEF Annual!Report
<1>8. ASSUME NEW d \in Annual!Dates, Annual!Recover(d) PROVE CheckupInv'
  <2>1. collection[d] \in Annual!Job /\ collection[d].status = "leased" /\ run' = run
    BY <1>1, <1>8, AnnualTypes DEF Annual!Recover
  <2>2. PICK k : k = Annual!AfterFailure(collection[d])
    OBVIOUS
  <2>3. k \in Annual!Job /\ k.status # "none" /\ (k.status = "queued" => k.attempts < MaxAttempts)
    BY <1>5, <2>1, <2>2, AnnualRecords
  <2>4. collection' = [collection EXCEPT ![d] = k]
    BY <1>8, <2>2 DEF Annual!Recover
  <2>5. /\ collection' \in [Annual!Dates -> Annual!Job] /\ collection'[d] = k
        /\ \A e \in Annual!Dates \ {d} : collection'[e] = collection[e]
    BY <1>1, <2>3, <2>4, AnnualTypes
  <2>6. ASSUME NEW e \in Annual!Dates, IsActive(e)' PROVE IsActive(e)
    <3>1. CASE e = d
      BY <2>1, <3>1 DEF IsActive
    <3>2. CASE e # d
      BY <2>1, <2>5, <2>6, <3>2 DEF IsActive
    <3> QED
      BY <3>1, <3>2
  <2>7. \A v \in Actors : run'[v] = run[v] \/ RunIsSound(run'[v])
    BY <2>1
  <2>8. \A e \in Annual!Dates :
           \/ collection'[e] = collection[e]
           \/ /\ collection[e].status # "none" /\ collection'[e].status # "none"
              /\ collection'[e].status = "queued" => collection'[e].attempts < MaxAttempts
    BY <2>1, <2>3, <2>5
  <2>9. run' \in [Actors -> Annual!Run]
    BY <1>1, <2>1, AnnualTypes
  <2> QED
    BY <1>4, <2>5, <2>6, <2>7, <2>8, <2>9
<1> QED
  BY <1>1, <1>6, <1>7, <1>8

\* The first completion of a cycle is a year after every other, and the date of the
\* next cycle is a year after it.
LEMMA CompleteKeepsCheckups ==
    \A w \in Actors : CheckupInv /\ Annual!Complete(w) => CheckupInv'
<1>1. SUFFICES ASSUME NEW w \in Actors, CheckupInv, Annual!Complete(w) PROVE CheckupInv'
  OBVIOUS
<1>2. PICK o, d : o = run[w] /\ d = o.cycle
  OBVIOUS
<1>3. /\ o \in Annual!Run /\ o.at = "complete" /\ d \in Annual!Dates /\ d \in Nat /\ day \in Annual!Dates /\ day \in Nat
      /\ UNCHANGED <<day, entitled, policy, planner, redone, collection, lapses, faults, reviewed>>
  BY <1>1, <1>2, AnnualTypes, AnnualRecords, AnnualFacts DEF Annual!Complete, Annual!history
<1>4. IsRequested(d) /\ IsActive(d) /\ d \in reviewed
  <2>1. RunIsSound(o)
    BY <1>1, <1>2 DEF CheckupInv
  <2> QED
    BY <1>2, <1>3, <2>1 DEF RunIsSound, IsActive
<1>5. PICK ready, new : /\ ready = [status |-> "draft-ready", completed |-> day]
                        /\ new = [cycle |-> d, at |-> day]
  OBVIOUS
<1>6. /\ checkup' = [checkup EXCEPT ![d] = ready]
      /\ completions' = IF WasCompleted(d) THEN completions ELSE completions \cup {new}
  BY <1>1, <1>2, <1>5 DEF Annual!Complete, WasCompleted
<1>7. /\ checkup' \in [Annual!Dates -> Annual!Checkup] /\ checkup'[d] = ready
      /\ \A e \in Annual!Dates \ {d} : checkup'[e] = checkup[e]
      /\ ready.status = "draft-ready" /\ ready.completed = day
  <2>1. ready \in Annual!Checkup
    BY <1>3, <1>5 DEF Annual!Checkup
  <2> QED
    BY <1>1, <1>3, <1>5, <1>6, <2>1, AnnualTypes
<1>8. PICK r : r = [o EXCEPT !.at = "policy"]
  OBVIOUS
<1>9. r \in Annual!Run /\ r.at = "policy" /\ r.cycle = d /\ run' = [run EXCEPT ![w] = r]
  BY <1>1, <1>2, <1>3, <1>8 DEF Annual!Run, Annual!Complete, Annual!Goto
<1>10. run' \in [Actors -> Annual!Run] /\ run'[w] = r /\ \A v \in Actors \ {w} : run'[v] = run[v]
  BY <1>1, <1>9, AnnualTypes
<1>11. /\ completions' \subseteq [cycle : Annual!Dates, at : Annual!Dates] /\ completions \subseteq completions'
       /\ \A c \in completions' : c \in completions \/ (c = new /\ ~WasCompleted(d))
       /\ new.cycle = d /\ new.at = day
  BY <1>1, <1>3, <1>5, <1>6, AnnualTypes
<1>12. /\ \A e \in Annual!Dates : IsRequested(e)' <=> IsRequested(e)
       /\ \A e \in Annual!Dates : WasCompleted(e)' <=> WasCompleted(e) \/ e = d
       /\ \A e \in Annual!Dates : IsReady(e)' => e = d \/ IsReady(e)
       /\ \A e \in Annual!Dates : IsActive(e)' => IsActive(e)
  <2>1. \A e \in Annual!Dates : IsRequested(e)' <=> IsRequested(e)
    BY <1>4, <1>7 DEF IsRequested
  <2>2. \A e \in Annual!Dates : IsReady(e)' => e = d \/ IsReady(e)
    BY <1>7 DEF IsReady
  <2>3. WasCompleted(d)'
    BY <1>6, <1>11 DEF WasCompleted
  <2>4. ASSUME NEW e \in Annual!Dates, e # d PROVE WasCompleted(e)' <=> WasCompleted(e)
    BY <1>11, <2>4 DEF WasCompleted
  <2>5. ASSUME NEW e \in Annual!Dates, IsActive(e)' PROVE IsActive(e)
    <3>1. CASE e = d
      BY <1>4, <3>1
    <3>2. CASE e # d
      BY <1>3, <1>9, <1>10, <2>5, <3>2 DEF IsActive
    <3> QED
      BY <3>1, <3>2
  <2> QED
    BY <2>1, <2>2, <2>3, <2>4, <2>5
<1>13. Annual!CheckupsTypeOK'
  <2>1. Annual!CheckupsTypeOK
    BY <1>1 DEF CheckupInv
  <2> QED
    BY <1>3, <1>7, <1>10, <1>11, <2>1 DEF Annual!CheckupsTypeOK
<1>14. RowsAreSound'
  <2>1. RowsAreSound
    BY <1>1 DEF CheckupInv
  <2>2. ASSUME NEW e \in Annual!Dates
        PROVE  /\ collection'[e].status = "queued" => collection'[e].attempts < MaxAttempts
               /\ ~IsRequested(e)' <=> collection'[e].status = "none"
               /\ ~IsRequested(e)' => collection'[e].attempts = 0
    BY <1>3, <1>12, <2>1 DEF RowsAreSound
  <2>3. ASSUME NEW e \in Annual!Dates, IsReady(e)' PROVE e \in reviewed' /\ WasCompleted(e)' /\ checkup'[e].completed <= day'
    <3>1. CASE e = d
      BY <1>3, <1>4, <1>7, <1>12, <3>1
    <3>2. CASE e # d
      BY <1>3, <1>7, <1>12, <2>1, <2>3, <3>2 DEF RowsAreSound
    <3> QED
      BY <3>1, <3>2
  <2>4. ASSUME NEW c \in completions' PROVE IsRequested(c.cycle)' /\ c.at <= day'
    <3>1. CASE c = new
      BY <1>3, <1>4, <1>11, <1>12, <3>1
    <3>2. CASE c \in completions
      <4>1. c.cycle \in Annual!Dates
        BY <1>11, <2>4
      <4> QED
        BY <1>3, <1>12, <2>1, <3>2, <4>1 DEF RowsAreSound
    <3> QED
      BY <1>11, <3>1, <3>2
  <2>5. policy'.present \/ \A e \in Annual!Dates : ~IsRequested(e)'
    BY <1>3, <1>12, <2>1 DEF RowsAreSound
  <2>6. (planner'.at = "sync" => planner'.policy.present) /\ (planner'.at \in {"list", "check", "request"} => policy'.present)
    BY <1>3, <2>1 DEF RowsAreSound
  <2> QED
    BY <2>2, <2>3, <2>4, <2>5, <2>6 DEF RowsAreSound
<1>15. ASSUME NEW v \in Actors PROVE RunIsSound(run[v])'
  <2>1. CASE v = w
    BY <1>3, <1>4, <1>9, <1>10, <1>12, <2>1 DEF RunIsSound
  <2>2. CASE v # w
    <3>1. PICK s : s = run[v]
      OBVIOUS
    <3>2. RunIsSound(s) /\ s = run'[v] /\ s.cycle \in Annual!Dates
      BY <1>1, <1>10, <2>2, <3>1, AnnualTypes, AnnualRecords DEF CheckupInv
    <3>3. RunIsSound(s)'
      BY <1>3, <1>12, <3>2 DEF RunIsSound
    <3> QED
      BY <3>2, <3>3
  <2> QED
    BY <2>1, <2>2
<1>16. ASSUME ~redone'
       PROVE  Annual!OncePerYear' /\ OneToComplete' /\ CompletedToday' /\ DatesAreInOrder' /\ NoneSkipped' /\ PlannerFollows'
  <2>1. /\ ~redone /\ Annual!OncePerYear /\ OneToComplete /\ CompletedToday /\ DatesAreInOrder /\ NoneSkipped
        /\ PlannerFollows /\ RowsAreSound
    BY <1>1, <1>3, <1>16 DEF CheckupInv
  <2>2. \A c \in completions : c.cycle \in Annual!Dates /\ c.at \in Nat /\ c.at <= day
    BY <1>1, <2>1, AnnualTypes, AnnualFacts DEF RowsAreSound
  \* What was completed before this cycle was completed a year ago, or today if it is this cycle.
  <2>3. \A c \in completions : c.cycle = d => c.at = day
    BY <1>4, <2>1 DEF CompletedToday
  <2>4. ~WasCompleted(d) => d <= day /\ \A c \in completions : c.at + Year <= d
    BY <1>3, <1>4, <2>1 DEF OneToComplete
  <2>5. Annual!OncePerYear'
    <3>1. ASSUME NEW c \in completions, c.cycle # d, ~WasCompleted(d) PROVE c.at + Year <= day
      <4>1. c.at \in Nat /\ d \in Nat /\ d <= day /\ c.at + Year <= d
        BY <1>3, <2>2, <2>4, <3>1
      <4> QED
        BY <1>3, <4>1, AnnualFacts
    <3> QED
      BY <1>11, <2>1, <3>1 DEF Annual!OncePerYear
  <2>6. OneToComplete'
    <3>1. SUFFICES ASSUME NEW e \in Annual!Dates, IsRequested(e)', ~WasCompleted(e)'
                   PROVE  /\ e <= day' /\ \A c \in completions' : c.at + Year <= e
                          /\ \A f \in Annual!Dates : IsRequested(f)' /\ ~WasCompleted(f)' => e = f
      BY DEF OneToComplete
    <3>2. IsRequested(e) /\ ~WasCompleted(e) /\ e # d
      BY <1>12, <3>1
    <3>3. WasCompleted(d)
      BY <1>3, <1>4, <2>1, <3>2 DEF OneToComplete
    <3>4. completions' = completions
      BY <1>6, <3>3
    <3> QED
      BY <1>3, <1>12, <2>1, <3>2, <3>4 DEF OneToComplete
  <2>7. CompletedToday'
    BY <1>3, <1>11, <1>12, <2>1, <2>2 DEF CompletedToday
  <2>8. \A n \in Annual!Dates : DueInOrder(n) => DueInOrder(n)'
    <3>1. SUFFICES ASSUME NEW n \in Annual!Dates, DueInOrder(n), ~IsRequested(n)'
                   PROVE  /\ \A e \in Annual!Dates : IsRequested(e)' => WasCompleted(e)'
                          /\ \A c \in completions' : c.at + Year <= n
      BY DEF DueInOrder
    <3>2. /\ \A e \in Annual!Dates : IsRequested(e) => WasCompleted(e)
          /\ \A c \in completions : c.at + Year <= n
      BY <1>12, <3>1 DEF DueInOrder
    <3> QED
      BY <1>3, <1>4, <1>6, <1>12, <3>2
  \* A year from now is in order, and so is a year after what was completed.
  <2>9. DueInOrder(day + Year)'
    <3>1. \A e \in Annual!Dates : IsRequested(e) => WasCompleted(e) \/ e = d
      <4>1. SUFFICES ASSUME NEW e \in Annual!Dates, IsRequested(e), ~WasCompleted(e), e # d PROVE FALSE
        OBVIOUS
      <4>2. WasCompleted(d)
        BY <1>3, <1>4, <2>1, <4>1 DEF OneToComplete
      <4>3. PICK c \in completions : c.cycle = d
        BY <4>2 DEF WasCompleted
      <4>4. c.at = day /\ e <= day /\ c.at + Year <= e /\ e \in Nat
        BY <2>1, <2>3, <4>1, <4>3, AnnualFacts DEF OneToComplete
      <4> QED
        BY <1>3, <4>4, AnnualFacts
    <3>2. \A c \in completions' : c.at + Year <= day + Year
      <4>1. ASSUME NEW c \in completions' PROVE c.at \in Nat /\ c.at <= day
        BY <1>3, <1>11, <2>2
      <4> QED
        BY <1>3, <4>1, AnnualFacts
    <3> QED
      BY <1>3, <1>12, <3>1, <3>2 DEF DueInOrder
  <2>10. DatesAreInOrder'
    <3>1. PICK n, m : n = policy.next /\ m = planner.policy.next
      OBVIOUS
    <3>2. n \in Annual!Dates /\ m \in Annual!Dates
      BY <1>1, <3>1, AnnualTypes, AnnualRecords
    <3>3. DueInOrder(policy.next)'
      BY <1>3, <2>1, <2>8, <3>1, <3>2 DEF DatesAreInOrder
    <3>4. planner'.at # "idle" => DueInOrder(planner.policy.next)'
      BY <1>3, <2>1, <2>8, <3>1, <3>2 DEF DatesAreInOrder
    <3>5. ASSUME NEW e \in Annual!Dates, IsReady(e)' PROVE DueInOrder(checkup[e].completed + Year)'
      <4>1. CASE e = d
        BY <1>3, <1>7, <2>9, <4>1
      <4>2. CASE e # d
        <5>1. IsReady(e) /\ checkup'[e] = checkup[e]
          BY <1>7, <1>12, <3>5, <4>2
        <5>2. PICK k \in Annual!Dates : k = checkup[e].completed + Year
          BY <1>1, <5>1, ReadyDates
        <5> QED
          BY <2>1, <2>8, <5>1, <5>2 DEF DatesAreInOrder
      <4> QED
        BY <4>1, <4>2
    <3> QED
      BY <3>3, <3>4, <3>5 DEF DatesAreInOrder
  \* While this cycle was not completed every date was of a requested cycle.
  <2>11. ASSUME NEW e \in Annual!Dates, IsReady(e), e # d, checkup[e].completed < day
         PROVE  IsRequested(checkup[e].completed + Year)
    <3>1. PICK k \in Annual!Dates : k = checkup[e].completed + Year
      BY <1>1, <2>11, ReadyDates
    <3>2. DueInOrder(k)
      BY <2>1, <2>11, <3>1 DEF DatesAreInOrder
    <3>3. CASE ~WasCompleted(d)
      BY <1>3, <1>4, <3>1, <3>2, <3>3 DEF DueInOrder
    <3>4. CASE WasCompleted(d)
      <4>1. PICK c \in completions : c.cycle = d
        BY <3>4 DEF WasCompleted
      <4>2. c.at = day /\ ~(c.at + Year <= k)
        BY <1>1, <1>3, <2>3, <2>11, <3>1, <4>1, ReadyDates, AnnualFacts
      <4> QED
        BY <3>1, <3>2, <4>1, <4>2 DEF DueInOrder
    <3> QED
      BY <3>3, <3>4
  <2>12. NoneSkipped'
    <3>1. SUFFICES ASSUME NEW e \in Annual!Dates, NEW f \in Annual!Dates, IsReady(e)', IsReady(f)',
                          checkup'[e].completed < checkup'[f].completed
                   PROVE  IsRequested(checkup[e].completed + Year)'
      BY DEF NoneSkipped
    <3>2. e # d
      <4>1. checkup'[f].completed <= day /\ checkup'[f].completed \in Nat
        BY <1>1, <1>3, <1>7, <1>12, <3>1, ReadyDates
      <4> QED
        BY <1>3, <1>7, <3>1, <4>1
    <3>3. IsReady(e) /\ checkup'[e] = checkup[e]
      BY <1>7, <1>12, <3>1, <3>2
    <3>4. PICK k \in Annual!Dates : k = checkup[e].completed + Year
      BY <1>1, <3>3, ReadyDates
    <3>5. IsRequested(k)
      <4>1. CASE f = d
        BY <1>7, <2>11, <3>1, <3>2, <3>3, <3>4, <4>1
      <4>2. CASE f # d
        BY <1>7, <1>12, <2>1, <3>1, <3>3, <3>4, <4>2 DEF NoneSkipped
      <4> QED
        BY <4>1, <4>2
    <3> QED
      BY <1>12, <3>3, <3>4, <3>5
  \* A date that is due today and of no requested cycle cannot be: this cycle is completed today.
  <2>13. \A n \in Annual!Dates : DueInOrder(n) /\ n <= day => IsRequested(n)
    <3>1. SUFFICES ASSUME NEW n \in Annual!Dates, DueInOrder(n), n <= day, ~IsRequested(n) PROVE FALSE
      OBVIOUS
    <3>2. WasCompleted(d) /\ \A c \in completions : c.at + Year <= n
      BY <1>3, <1>4, <3>1 DEF DueInOrder
    <3>3. PICK c \in completions : c.cycle = d
      BY <3>2 DEF WasCompleted
    <3>4. c.at = day /\ c.at + Year <= n /\ n \in Nat
      BY <2>3, <3>2, <3>3, AnnualFacts
    <3> QED
      BY <1>3, <3>1, <3>4, AnnualFacts
  <2>14. \A p \in Annual!Policy : DueInOrder(p.next) => FollowsLast(p)'
    <3>1. SUFFICES ASSUME NEW p \in Annual!Policy, DueInOrder(p.next), p.next <= day', ~IsRequested(p.next)' PROVE FALSE
      BY DEF FollowsLast
    <3>2. p.next \in Annual!Dates
      BY AnnualRecords
    <3> QED
      BY <1>3, <1>12, <2>13, <3>1, <3>2
  <2>15. PlannerFollows'
    <3>1. PICK p, q : p = policy /\ q = planner.policy
      OBVIOUS
    <3>2. p \in Annual!Policy /\ q \in Annual!Policy /\ p = policy' /\ q = planner'.policy /\ planner' = planner
      BY <1>1, <1>3, <3>1, AnnualTypes, AnnualRecords
    <3>3. FollowsLast(p)' /\ (planner.at # "idle" => FollowsLast(q)')
      BY <2>1, <2>14, <3>1, <3>2 DEF DatesAreInOrder
    <3>4. planner.at \in {"check", "request"} =>
             q.enabled /\ q.next <= day /\ (~IsRequested(q.next) => p.next = q.next)
      BY <2>1, <3>1 DEF PlannerFollows
    <3>5. IsRequested(q.next)' <=> IsRequested(q.next)
      BY <1>12, <3>2, AnnualRecords
    <3> QED
      BY <1>3, <3>2, <3>3, <3>4, <3>5 DEF PlannerFollows
  <2> QED
    BY <2>5, <2>6, <2>7, <2>10, <2>12, <2>15
<1>17. redone' => Annual!OncePerYear'
  BY DEF Annual!OncePerYear
<1> QED
  BY <1>13, <1>14, <1>15, <1>16, <1>17 DEF CheckupInv

\* A year from now is in order while the cycle completed today is active, and
\* every date that is due is of a requested cycle.
LEMMA YearFromNow ==
    ASSUME CheckupInv, ~redone, NEW d \in Annual!Dates, IsActive(d), IsRequested(d), WasCompleted(d)
    PROVE  /\ DueInOrder(day + Year)
           /\ \A n \in Annual!Dates : DueInOrder(n) /\ n <= day => IsRequested(n)
<1>1. OneToComplete /\ CompletedToday /\ RowsAreSound /\ day \in Nat
  BY AnnualTypes DEF CheckupInv
<1>2. PICK c \in completions : c.cycle = d
  BY DEF WasCompleted
<1>3. c.at = day
  BY <1>1, <1>2 DEF CompletedToday
<1>4. \A b \in completions : b.at \in Nat /\ b.at <= day
  BY <1>1, AnnualTypes, AnnualFacts DEF RowsAreSound
<1>5. ASSUME NEW e \in Annual!Dates, IsRequested(e), ~WasCompleted(e) PROVE FALSE
  <2>1. e <= day /\ c.at + Year <= e /\ e \in Nat
    BY <1>1, <1>2, <1>5, AnnualFacts DEF OneToComplete
  <2> QED
    BY <1>1, <1>3, <2>1, AnnualFacts
<1>6. \A b \in completions : b.at + Year <= day + Year
  BY <1>1, <1>4, AnnualFacts
<1>7. ASSUME NEW n \in Annual!Dates, DueInOrder(n), n <= day, ~IsRequested(n) PROVE FALSE
  <2>1. c.at + Year <= n /\ n \in Nat
    BY <1>2, <1>7, AnnualFacts DEF DueInOrder
  <2> QED
    BY <1>1, <1>3, <1>7, <2>1, AnnualFacts
<1> QED
  BY <1>5, <1>6, <1>7 DEF DueInOrder

\* The planner goes on or the policy is written: cycles stay as they are.
LEMMA PlanGoesOn ==
    ASSUME CheckupInv, NEW p \in Annual!Policy, NEW q \in Annual!Planner, policy' = p, planner' = q,
           UNCHANGED <<day, entitled, checkup, reviewed, collection, completions, redone, lapses>>,
           run' \in [Actors -> Annual!Run], faults' \in 0 .. MaxFaults,
           \A w \in Actors : RunIsSound(run[w])',
           \A d \in Annual!Dates : IsActive(d)' => IsActive(d),
           p.present \/ ~policy.present,
           q.at = "sync" => q.policy.present,
           q.at \in {"list", "check", "request"} => p.present,
           ~redone => /\ DueInOrder(p.next) /\ (q.at # "idle" => DueInOrder(q.policy.next))
                      /\ q.at \in {"sync", "check", "request"} => FollowsLast(q.policy)
                      /\ q.at = "list" => FollowsLast(p)
                      /\ q.at \in {"check", "request"} =>
                            /\ q.policy.enabled /\ q.policy.next <= day
                            /\ ~IsRequested(q.policy.next) => p.next = q.policy.next
    PROVE  CheckupInv'
<1>1. Annual!CheckupsTypeOK'
  <2>1. Annual!CheckupsTypeOK
    BY DEF CheckupInv
  <2> QED
    BY <2>1 DEF Annual!CheckupsTypeOK
<1>2. RowsAreSound'
  BY DEF CheckupInv, RowsAreSound, IsRequested, IsReady, WasCompleted
<1>3. Annual!OncePerYear'
  BY DEF CheckupInv, Annual!OncePerYear
<1>4. ASSUME ~redone' PROVE OneToComplete' /\ CompletedToday' /\ DatesAreInOrder' /\ NoneSkipped' /\ PlannerFollows'
  <2>1. OneToComplete /\ CompletedToday /\ DatesAreInOrder /\ NoneSkipped /\ ~redone
    BY <1>4 DEF CheckupInv
  <2>2. OneToComplete' /\ NoneSkipped'
    BY <2>1 DEF OneToComplete, NoneSkipped, IsRequested, IsReady, WasCompleted
  <2>3. CompletedToday'
    <3>1. \A c \in completions : c.cycle \in Annual!Dates
      BY AnnualTypes
    <3> QED
      BY <2>1, <3>1 DEF CompletedToday
  <2>4. \A n : DueInOrder(n) => DueInOrder(n)'
    BY DEF DueInOrder, IsRequested, WasCompleted
  <2>5. DatesAreInOrder'
    <3>1. PICK n, m : n = p.next /\ m = q.policy.next
      OBVIOUS
    <3>2. DueInOrder(policy.next)' /\ (planner'.at # "idle" => DueInOrder(planner.policy.next)')
      BY <2>1, <2>4, <3>1
    <3>3. ASSUME NEW e \in Annual!Dates, IsReady(e)' PROVE DueInOrder(checkup[e].completed + Year)'
      <4>1. PICK k : k = checkup[e].completed + Year
        OBVIOUS
      <4>2. DueInOrder(k)
        BY <2>1, <3>3, <4>1 DEF DatesAreInOrder, IsReady
      <4> QED
        BY <2>4, <4>1, <4>2
    <3> QED
      BY <3>2, <3>3 DEF DatesAreInOrder
  <2>6. \A r : FollowsLast(r) => FollowsLast(r)'
    BY DEF FollowsLast, IsRequested, IsReady
  <2>7. PlannerFollows'
    <3>1. PICK r : r = q.policy
      OBVIOUS
    <3>2. /\ q.at \in {"sync", "check", "request"} => FollowsLast(r)'
          /\ q.at = "list" => FollowsLast(p)'
      BY <2>1, <2>6, <3>1
    <3>3. q.at \in {"check", "request"} =>
             r.enabled /\ r.next <= day' /\ (~IsRequested(r.next)' => p.next = r.next)
      BY <2>1, <3>1 DEF IsRequested
    <3> QED
      BY <3>1, <3>2, <3>3 DEF PlannerFollows
  <2> QED
    BY <2>2, <2>3, <2>5, <2>7
<1>5. \A w \in Actors : RunIsSound(run[w])'
  OBVIOUS
<1> QED
  BY <1>1, <1>2, <1>3, <1>4, <1>5 DEF CheckupInv

LEMMA SavePolicyKeepsCheckups ==
    \A w \in Actors : CheckupInv /\ Annual!SavePolicy(w) => CheckupInv'
<1>1. SUFFICES ASSUME NEW w \in Actors, CheckupInv, Annual!SavePolicy(w) PROVE CheckupInv'
  OBVIOUS
<1>2. PICK o, d : o = run[w] /\ d = o.cycle
  OBVIOUS
<1>3. /\ o \in Annual!Run /\ o.at = "save" /\ d \in Annual!Dates /\ day \in 0 .. MaxCheckupClock /\ day \in Nat
      /\ policy \in Annual!Policy /\ planner \in Annual!Planner /\ o.policy \in Annual!Policy
      /\ UNCHANGED <<day, entitled, checkup, reviewed, collection, completions, redone, lapses>>
      /\ planner' = planner /\ faults' = faults
  BY <1>1, <1>2, AnnualTypes, AnnualRecords DEF Annual!SavePolicy, Annual!history
<1>4. IsRequested(d) /\ WasCompleted(d) /\ IsActive(d)
  <2>1. RunIsSound(o)
    BY <1>1, <1>2 DEF CheckupInv
  <2> QED
    BY <1>1, <1>2, <1>3, <2>1 DEF RunIsSound, IsActive
<1>5. PICK p : p = [present |-> TRUE, next |-> day + Year,
                    enabled |-> IF o.policy.present THEN o.policy.enabled ELSE TRUE]
  OBVIOUS
<1>6. policy' = p
  BY <1>1, <1>2, <1>5 DEF Annual!SavePolicy
<1>7. p \in Annual!Policy /\ p.present /\ p.next = day + Year
  <2>1. o.policy.present \in BOOLEAN /\ o.policy.enabled \in BOOLEAN
    BY <1>3, AnnualRecords
  <2>2. day + Year \in Annual!Dates
    BY <1>3, AnnualFacts
  <2>3. PICK enabled \in BOOLEAN : enabled = IF o.policy.present THEN o.policy.enabled ELSE TRUE
    BY <2>1
  <2> QED
    BY <1>5, <2>2, <2>3 DEF Annual!Policy
<1>8. PICK r : r = [o EXCEPT !.at = "done"]
  OBVIOUS
<1>9. r \in Annual!Run /\ r.at = "done" /\ r.cycle = d /\ run' = [run EXCEPT ![w] = r]
  BY <1>1, <1>2, <1>3, <1>8 DEF Annual!Run, Annual!SavePolicy, Annual!Goto
<1>10. run' \in [Actors -> Annual!Run] /\ run'[w] = r /\ \A v \in Actors \ {w} : run'[v] = run[v]
  BY <1>1, <1>9, AnnualTypes
<1>11. ASSUME NEW v \in Actors PROVE RunIsSound(run[v])'
  <2>1. CASE v = w
    BY <1>3, <1>4, <1>9, <1>10, <2>1 DEF RunIsSound, IsRequested
  <2>2. CASE v # w
    <3>1. RunIsSound(run[v]) /\ run'[v] = run[v]
      BY <1>1, <1>10, <2>2 DEF CheckupInv
    <3> QED
      BY <1>3, <3>1 DEF RunIsSound, IsRequested, WasCompleted
  <2> QED
    BY <2>1, <2>2
<1>12. ASSUME NEW e \in Annual!Dates, IsActive(e)' PROVE IsActive(e)
  <2>1. CASE e = d
    BY <1>4, <2>1
  <2>2. CASE e # d
    BY <1>3, <1>9, <1>10, <1>12, <2>2 DEF IsActive
  <2> QED
    BY <2>1, <2>2
<1>13. RowsAreSound
  BY <1>1 DEF CheckupInv
<1>14. ASSUME ~redone
       PROVE  /\ DueInOrder(p.next) /\ (planner.at # "idle" => DueInOrder(planner.policy.next))
              /\ planner.at \in {"sync", "check", "request"} => FollowsLast(planner.policy)
              /\ planner.at = "list" => FollowsLast(p)
              /\ planner.at \in {"check", "request"} =>
                    /\ planner.policy.enabled /\ planner.policy.next <= day
                    /\ ~IsRequested(planner.policy.next) => p.next = planner.policy.next
  <2>1. DatesAreInOrder /\ PlannerFollows
    BY <1>1, <1>14 DEF CheckupInv
  <2>2. DueInOrder(p.next)
    BY <1>1, <1>3, <1>4, <1>7, <1>14, YearFromNow
  <2>3. FollowsLast(p)
    BY <1>3, <1>7, AnnualFacts DEF FollowsLast
  <2>4. planner.at # "idle" => DueInOrder(planner.policy.next)
    BY <2>1 DEF DatesAreInOrder
  <2>5. planner.at \in {"check", "request"} => planner.policy.enabled /\ planner.policy.next <= day /\ IsRequested(planner.policy.next)
    <3>1. planner.policy.next \in Annual!Dates
      BY <1>3, AnnualRecords
    <3> QED
      BY <1>1, <1>3, <1>4, <1>14, <2>1, <2>4, <3>1, YearFromNow DEF PlannerFollows
  <2> QED
    BY <2>1, <2>2, <2>3, <2>4, <2>5 DEF PlannerFollows
<1>15. /\ planner.at = "sync" => planner.policy.present
       /\ planner.at \in {"list", "check", "request"} => p.present
       /\ p.present \/ ~policy.present
       /\ faults' \in 0 .. MaxFaults
  BY <1>1, <1>3, <1>7, <1>13, AnnualTypes DEF RowsAreSound
<1> QED
  BY <1>1, <1>3, <1>6, <1>7, <1>10, <1>11, <1>12, <1>14, <1>15, PlanGoesOn

\* If a checkup is ready one of them was completed last.
LEMMA LatestExists ==
    ASSUME CheckupInv, NEW d \in Annual!Dates, IsReady(d)
    PROVE  Annual!Latest # {}
<1>1. PICK T : T = {day - checkup[e].completed : e \in {f \in Annual!Dates : IsReady(f)}}
  OBVIOUS
<1>2. \A e \in Annual!Dates : IsReady(e) => checkup[e].completed \in Nat /\ day - checkup[e].completed \in Nat
  <2>1. SUFFICES ASSUME NEW e \in Annual!Dates, IsReady(e)
                 PROVE  checkup[e].completed \in Nat /\ day - checkup[e].completed \in Nat
    OBVIOUS
  <2>2. checkup[e].completed \in Nat /\ checkup[e].completed <= day /\ day \in Nat
    BY <2>1, ReadyDates, AnnualTypes
  <2> QED
    BY <2>2
<1>3. T \in SUBSET Nat /\ T # {}
  BY <1>1, <1>2
<1>4. PICK t \in T : \A s \in T : t <= s
  BY <1>3, LeastNatural
<1>5. PICK e \in Annual!Dates : IsReady(e) /\ t = day - checkup[e].completed
  BY <1>1, <1>4
<1>6. ASSUME NEW f \in Annual!Dates, IsReady(f) PROVE checkup[f].completed <= checkup[e].completed
  <2>1. t <= day - checkup[f].completed
    BY <1>1, <1>4, <1>6
  <2>2. checkup[f].completed \in Nat /\ checkup[e].completed \in Nat /\ day \in Nat
    BY <1>2, <1>5, <1>6, AnnualTypes
  <2> QED
    BY <1>5, <2>1, <2>2
<1>7. e \in Annual!Latest
  BY <1>5, <1>6 DEF Annual!Latest, Annual!InStatus, IsReady
<1> QED
  BY <1>7

\* The date the planner finds is a date in order, and follows what was completed last.
LEMMA NextDueIsInOrder ==
    ASSUME CheckupInv
    PROVE  /\ Annual!NextDue \in Annual!Dates
           /\ ~redone =>
                 /\ DueInOrder(Annual!NextDue)
                 /\ \A e \in Annual!Dates :
                       IsReady(e) => \/ IsRequested(checkup[e].completed + Year)
                                     \/ checkup[e].completed + Year = Annual!NextDue
<1>1. CASE Annual!Latest # {}
  <2>1. PICK e : e = CHOOSE d \in Annual!Latest : TRUE
    OBVIOUS
  <2>2. e \in Annual!Latest
    BY <1>1, <2>1
  <2>3. /\ e \in Annual!Dates /\ IsReady(e)
        /\ \A f \in Annual!Dates : IsReady(f) => checkup[f].completed <= checkup[e].completed
    BY <2>2 DEF Annual!Latest, Annual!InStatus, IsReady
  <2>4. Annual!NextDue = checkup[e].completed + Year
    BY <1>1, <2>1 DEF Annual!NextDue, Annual!YearAfter
  <2>5. Annual!NextDue \in Annual!Dates
    BY <2>3, <2>4, ReadyDates
  <2>6. ASSUME ~redone PROVE DueInOrder(Annual!NextDue)
    BY <2>3, <2>4, <2>6 DEF CheckupInv, DatesAreInOrder
  <2>7. ASSUME ~redone, NEW f \in Annual!Dates, IsReady(f)
        PROVE  IsRequested(checkup[f].completed + Year) \/ checkup[f].completed + Year = Annual!NextDue
    <3>1. CASE checkup[f].completed = checkup[e].completed
      BY <2>4, <3>1
    <3>2. CASE checkup[f].completed < checkup[e].completed
      BY <2>3, <2>7, <3>2 DEF CheckupInv, NoneSkipped
    <3>3. checkup[f].completed \in Nat /\ checkup[e].completed \in Nat /\ checkup[f].completed <= checkup[e].completed
      BY <2>3, <2>7, ReadyDates
    <3> QED
      BY <3>1, <3>2, <3>3
  <2> QED
    BY <2>5, <2>6, <2>7
<1>2. CASE Annual!Latest = {}
  <2>1. \A e \in Annual!Dates : ~IsReady(e)
    BY <1>2, LatestExists
  <2>2. CASE policy.present
    <3>1. Annual!NextDue = policy.next
      BY <1>2, <2>2 DEF Annual!NextDue
    <3> QED
      BY <2>1, <3>1, AnnualTypes, AnnualRecords DEF CheckupInv, DatesAreInOrder
  <2>3. CASE ~policy.present
    <3>1. Annual!NextDue = FirstDue
      BY <1>2, <2>3 DEF Annual!NextDue
    <3>2. \A d \in Annual!Dates : ~IsRequested(d)
      BY <2>3 DEF CheckupInv, RowsAreSound
    <3>3. completions = {}
      <4>1. \A c \in completions : c.cycle \in Annual!Dates /\ IsRequested(c.cycle)
        BY AnnualTypes DEF CheckupInv, RowsAreSound
      <4> QED
        BY <3>2, <4>1
    <3>4. DueInOrder(FirstDue)
      BY <3>2, <3>3 DEF DueInOrder
    <3> QED
      BY <2>1, <3>1, <3>4, AnnualFacts
  <2> QED
    BY <2>2, <2>3
<1> QED
  BY <1>1, <1>2

\* What planDueAnnualCheckups reads and writes before it requests a checkup.
LEMMA PlanningKeepsCheckups ==
    CheckupInv /\ (Annual!ReadSync \/ Annual!SaveSync \/ Annual!ListDue \/ Annual!Check) => CheckupInv'
<1>1. SUFFICES ASSUME CheckupInv, Annual!ReadSync \/ Annual!SaveSync \/ Annual!ListDue \/ Annual!Check
               PROVE  CheckupInv'
  OBVIOUS
<1>2. /\ UNCHANGED <<day, entitled, checkup, reviewed, collection, completions, redone, lapses>>
      /\ run' = run /\ faults' = faults
  BY <1>1 DEF Annual!ReadSync, Annual!SaveSync, Annual!ListDue, Annual!Check, Annual!rows, Annual!history
<1>3. /\ run' \in [Actors -> Annual!Run] /\ faults' \in 0 .. MaxFaults
      /\ policy \in Annual!Policy /\ planner \in Annual!Planner /\ planner.policy \in Annual!Policy
      /\ policy.next \in Annual!Dates /\ planner.policy.next \in Annual!Dates /\ day \in Nat /\ entitled \in BOOLEAN
  BY <1>1, <1>2, AnnualTypes, AnnualRecords
<1>4. ASSUME NEW w \in Actors PROVE RunIsSound(run[w])'
  <2>1. RunIsSound(run[w])
    BY <1>1 DEF CheckupInv
  <2> QED
    BY <1>2, <2>1 DEF RunIsSound, IsRequested, WasCompleted
<1>5. \A d \in Annual!Dates : IsActive(d)' => IsActive(d)
  BY <1>2 DEF IsActive
<1>6. RowsAreSound
  BY <1>1 DEF CheckupInv
<1>7. ~redone => /\ DueInOrder(policy.next) /\ (planner.at # "idle" => DueInOrder(planner.policy.next)) /\ PlannerFollows
  BY <1>1 DEF CheckupInv, DatesAreInOrder
<1>8. CASE Annual!ReadSync
  <2>1. PICK q : q = [at |-> "sync",
                      policy |-> [present |-> TRUE, enabled |-> entitled,
                                  next |-> IF entitled \/ ~policy.present THEN Annual!NextDue ELSE policy.next]]
    OBVIOUS
  <2>2. PICK n \in Annual!Dates : n = IF entitled \/ ~policy.present THEN Annual!NextDue ELSE policy.next
    BY <1>1, <1>3, NextDueIsInOrder
  <2>3. /\ q \in Annual!Planner /\ q.at = "sync" /\ q.policy.present /\ q.policy.next = n
        /\ q.policy.enabled = entitled
    BY <1>3, <2>1, <2>2 DEF Annual!Planner, Annual!Policy
  <2>4. planner' = q /\ policy' = policy
    BY <1>8, <2>1 DEF Annual!ReadSync, Annual!rows
  <2>5. ASSUME ~redone PROVE DueInOrder(n)
    BY <1>1, <1>7, <2>2, <2>5, NextDueIsInOrder
  <2>6. ASSUME ~redone PROVE FollowsLast(q.policy)
    <3>1. CASE ~entitled
      BY <2>3, <3>1 DEF FollowsLast
    <3>2. CASE entitled
      BY <1>1, <2>2, <2>3, <2>6, <3>2, NextDueIsInOrder DEF FollowsLast
    <3> QED
      BY <3>1, <3>2
  <2>7. ~redone => /\ DueInOrder(policy.next) /\ (q.at # "idle" => DueInOrder(q.policy.next))
                   /\ q.at \in {"sync", "check", "request"} => FollowsLast(q.policy)
                   /\ q.at = "list" => FollowsLast(policy)
                   /\ q.at \in {"check", "request"} =>
                         /\ q.policy.enabled /\ q.policy.next <= day
                         /\ ~IsRequested(q.policy.next) => policy.next = q.policy.next
    BY <1>7, <2>3, <2>5, <2>6
  <2> QED
    BY <1>1, <1>2, <1>3, <1>4, <1>5, <2>3, <2>4, <2>7, PlanGoesOn
<1>9. CASE Annual!SaveSync
  <2>1. PICK q : q = [planner EXCEPT !.at = "list"]
    OBVIOUS
  <2>2. q \in Annual!Planner /\ q.at = "list" /\ q.policy = planner.policy
    BY <1>3, <2>1 DEF Annual!Planner
  <2>3. PICK p \in Annual!Policy : p = planner.policy
    BY <1>3
  <2>4. planner' = q /\ policy' = p /\ planner.at = "sync"
    BY <1>9, <2>1, <2>3 DEF Annual!SaveSync
  <2>5. p.present
    BY <1>6, <2>3, <2>4 DEF RowsAreSound
  <2>6. ~redone => /\ DueInOrder(p.next) /\ (q.at # "idle" => DueInOrder(q.policy.next))
                   /\ q.at \in {"sync", "check", "request"} => FollowsLast(q.policy)
                   /\ q.at = "list" => FollowsLast(p)
                   /\ q.at \in {"check", "request"} =>
                         /\ q.policy.enabled /\ q.policy.next <= day
                         /\ ~IsRequested(q.policy.next) => p.next = q.policy.next
    BY <1>7, <2>2, <2>3, <2>4 DEF PlannerFollows
  <2> QED
    BY <1>1, <1>2, <1>3, <1>4, <1>5, <2>2, <2>4, <2>5, <2>6, PlanGoesOn
<1>10. ASSUME NEW q \in Annual!Planner, planner' = q, policy' = policy,
              \/ q.at = "idle"
              \/ /\ q.at = "check" /\ q.policy = policy /\ planner.at = "list" /\ policy.enabled /\ policy.next <= day
              \/ q.at = "request" /\ q.policy = planner.policy /\ planner.at = "check"
       PROVE  CheckupInv'
  <2>1. ~redone => /\ DueInOrder(policy.next) /\ (q.at # "idle" => DueInOrder(q.policy.next))
                   /\ q.at \in {"sync", "check", "request"} => FollowsLast(q.policy)
                   /\ q.at = "list" => FollowsLast(policy)
                   /\ q.at \in {"check", "request"} =>
                         /\ q.policy.enabled /\ q.policy.next <= day
                         /\ ~IsRequested(q.policy.next) => policy.next = q.policy.next
    BY <1>7, <1>10 DEF PlannerFollows
  <2>2. q.at # "sync" /\ (q.at \in {"list", "check", "request"} => policy.present)
    BY <1>6, <1>10 DEF RowsAreSound
  <2> QED
    BY <1>1, <1>2, <1>3, <1>4, <1>5, <1>10, <2>1, <2>2, PlanGoesOn
<1>11. CASE Annual!ListDue
  <2>1. CASE policy.enabled /\ policy.next <= day
    <3>1. PICK q : q = [at |-> "check", policy |-> policy]
      OBVIOUS
    <3>2. q \in Annual!Planner /\ q.at = "check" /\ q.policy = policy
      BY <1>3, <3>1 DEF Annual!Planner
    <3>3. planner' = q /\ policy' = policy /\ planner.at = "list"
      BY <1>11, <2>1, <3>1 DEF Annual!ListDue, Annual!rows
    <3> QED
      BY <1>10, <2>1, <3>2, <3>3
  <2>2. CASE ~(policy.enabled /\ policy.next <= day)
    <3>1. planner' = Annual!IdlePlanner /\ policy' = policy
      BY <1>11, <2>2 DEF Annual!ListDue, Annual!rows
    <3> QED
      BY <1>10, <3>1, AnnualFacts
  <2> QED
    BY <2>1, <2>2
<1>12. CASE Annual!Check
  <2>1. CASE planner' = Annual!IdlePlanner
    BY <1>10, <1>12, <2>1, AnnualFacts DEF Annual!Check, Annual!rows
  <2>2. CASE planner' = [planner EXCEPT !.at = "request"]
    <3>1. PICK q : q = [planner EXCEPT !.at = "request"]
      OBVIOUS
    <3>2. q \in Annual!Planner /\ q.at = "request" /\ q.policy = planner.policy
      BY <1>3, <3>1 DEF Annual!Planner
    <3>3. planner' = q /\ policy' = policy /\ planner.at = "check"
      BY <1>12, <2>2, <3>1 DEF Annual!Check, Annual!rows
    <3> QED
      BY <1>10, <3>2, <3>3
  <2> QED
    BY <1>12, <2>1, <2>2 DEF Annual!Check
<1> QED
  BY <1>1, <1>8, <1>9, <1>11, <1>12

\* The cycle that is requested is a year after the last, and the only one left to complete.
LEMMA RequestKeepsCheckups == CheckupInv /\ Annual!RequestCheckup => CheckupInv'
<1>1. SUFFICES ASSUME CheckupInv, Annual!RequestCheckup PROVE CheckupInv'
  OBVIOUS
<1>2. PICK d : d = planner.policy.next
  OBVIOUS
<1>3. /\ d \in Annual!Dates /\ d \in Nat /\ day \in Nat /\ planner.at = "request" /\ planner.policy \in Annual!Policy
      /\ planner' = Annual!IdlePlanner /\ run' = run /\ policy' = policy
      /\ UNCHANGED <<day, entitled, policy, reviewed, completions, redone, lapses, faults>>
  BY <1>1, <1>2, AnnualTypes, AnnualRecords, AnnualFacts DEF Annual!RequestCheckup, Annual!history
<1>4. RowsAreSound
  BY <1>1 DEF CheckupInv
<1>5. /\ policy \in Annual!Policy /\ planner' \in Annual!Planner /\ planner'.at = "idle"
      /\ run' \in [Actors -> Annual!Run] /\ faults' \in 0 .. MaxFaults
  BY <1>1, <1>3, AnnualTypes, AnnualFacts
<1>6. CASE UNCHANGED <<checkup, collection>>
  <2>1. ASSUME NEW w \in Actors PROVE RunIsSound(run[w])'
    <3>1. RunIsSound(run[w])
      BY <1>1 DEF CheckupInv
    <3> QED
      BY <1>3, <1>6, <3>1 DEF RunIsSound, IsRequested, WasCompleted
  <2>2. \A e \in Annual!Dates : IsActive(e)' => IsActive(e)
    BY <1>3, <1>6 DEF IsActive
  <2>3. PICK q \in Annual!Planner : q = planner' /\ q.at = "idle"
    BY <1>5
  <2>4. ~redone => /\ DueInOrder(policy.next) /\ (q.at # "idle" => DueInOrder(q.policy.next))
                   /\ q.at \in {"sync", "check", "request"} => FollowsLast(q.policy)
                   /\ q.at = "list" => FollowsLast(policy)
                   /\ q.at \in {"check", "request"} =>
                         /\ q.policy.enabled /\ q.policy.next <= day
                         /\ ~IsRequested(q.policy.next) => policy.next = q.policy.next
    BY <1>1, <2>3 DEF CheckupInv, DatesAreInOrder
  <2> QED
    BY <1>1, <1>3, <1>5, <1>6, <2>1, <2>2, <2>3, <2>4, PlanGoesOn
<1>7. CASE ~IsRequested(d) /\ checkup' = [checkup EXCEPT ![d].status = "queued"]
           /\ collection' = [collection EXCEPT ![d].status = "queued"]
  <2>1. PICK k, j : k = [checkup[d] EXCEPT !.status = "queued"] /\ j = [collection[d] EXCEPT !.status = "queued"]
    OBVIOUS
  <2>2. /\ k \in Annual!Checkup /\ k.status = "queued"
        /\ j \in Annual!Job /\ j.status = "queued" /\ j.attempts = collection[d].attempts
    BY <1>1, <1>3, <2>1, AnnualTypes DEF Annual!Checkup, Annual!Job
  <2>3. /\ checkup' \in [Annual!Dates -> Annual!Checkup] /\ checkup'[d] = k
        /\ \A e \in Annual!Dates \ {d} : checkup'[e] = checkup[e]
        /\ collection' \in [Annual!Dates -> Annual!Job] /\ collection'[d] = j
        /\ \A e \in Annual!Dates \ {d} : collection'[e] = collection[e]
    BY <1>1, <1>3, <1>7, <2>1, <2>2, AnnualTypes
  <2>4. /\ \A e \in Annual!Dates : IsRequested(e)' <=> IsRequested(e) \/ e = d
        /\ \A e : WasCompleted(e)' <=> WasCompleted(e)
        /\ \A e \in Annual!Dates : IsReady(e)' <=> IsReady(e)
        /\ \A e \in Annual!Dates : IsReady(e) => checkup'[e] = checkup[e]
        /\ \A e \in Annual!Dates : IsActive(e)' => IsActive(e) \/ e = d
    <3>1. \A e \in Annual!Dates : IsRequested(e)' <=> IsRequested(e) \/ e = d
      BY <2>2, <2>3 DEF IsRequested
    <3>2. \A e : WasCompleted(e)' <=> WasCompleted(e)
      BY <1>3 DEF WasCompleted
    <3>3. /\ \A e \in Annual!Dates : IsReady(e)' <=> IsReady(e)
          /\ \A e \in Annual!Dates : IsReady(e) => checkup'[e] = checkup[e]
      BY <1>7, <2>2, <2>3 DEF IsReady, IsRequested
    <3>4. \A e \in Annual!Dates : IsActive(e)' => IsActive(e) \/ e = d
      BY <1>3, <2>3 DEF IsActive
    <3> QED
      BY <3>1, <3>2, <3>3, <3>4
  <2>5. ~WasCompleted(d)
    BY <1>4, <1>7 DEF WasCompleted, RowsAreSound
  <2>6. Annual!CheckupsTypeOK'
    <3>1. Annual!CheckupsTypeOK
      BY <1>1 DEF CheckupInv
    <3> QED
      BY <1>3, <1>5, <2>3, <3>1 DEF Annual!CheckupsTypeOK
  <2>7. RowsAreSound'
    <3>1. ASSUME NEW e \in Annual!Dates
          PROVE  /\ collection'[e].status = "queued" => collection'[e].attempts < MaxAttempts
                 /\ ~IsRequested(e)' <=> collection'[e].status = "none"
                 /\ ~IsRequested(e)' => collection'[e].attempts = 0
      <4>1. CASE e = d
        BY <1>3, <1>4, <1>7, <2>2, <2>3, <2>4, <4>1, AnnualFacts DEF RowsAreSound
      <4>2. CASE e # d
        BY <1>4, <2>3, <2>4, <4>2 DEF RowsAreSound
      <4> QED
        BY <4>1, <4>2
    <3>2. \A e \in Annual!Dates : IsReady(e)' => e \in reviewed' /\ WasCompleted(e)' /\ checkup'[e].completed <= day'
      BY <1>3, <1>4, <2>4 DEF RowsAreSound
    <3>3. ASSUME NEW c \in completions' PROVE IsRequested(c.cycle)' /\ c.at <= day'
      <4>1. c.cycle \in Annual!Dates /\ c \in completions
        BY <1>1, <1>3, <3>3, AnnualTypes
      <4> QED
        BY <1>3, <1>4, <2>4, <4>1 DEF RowsAreSound
    <3>4. policy'.present /\ planner'.at = "idle"
      BY <1>3, <1>4, <1>5 DEF RowsAreSound
    <3> QED
      BY <3>1, <3>2, <3>3, <3>4 DEF RowsAreSound
  <2>8. ASSUME NEW w \in Actors PROVE RunIsSound(run[w])'
    <3>1. RunIsSound(run[w]) /\ run[w].cycle \in Annual!Dates
      BY <1>1, AnnualTypes, AnnualRecords DEF CheckupInv
    <3>2. PICK r : r = run[w] /\ r = run'[w]
      BY <1>3
    <3>3. RunIsSound(r)'
      BY <1>3, <2>4, <3>1, <3>2 DEF RunIsSound
    <3> QED
      BY <3>2, <3>3
  <2>9. Annual!OncePerYear'
    BY <1>1, <1>3 DEF CheckupInv, Annual!OncePerYear
  <2>10. ASSUME ~redone' PROVE OneToComplete' /\ CompletedToday' /\ DatesAreInOrder' /\ NoneSkipped' /\ PlannerFollows'
    <3>1. OneToComplete /\ CompletedToday /\ DatesAreInOrder /\ NoneSkipped /\ PlannerFollows
      BY <1>1, <1>3, <2>10 DEF CheckupInv
    <3>2. d <= day /\ policy.next = d /\ DueInOrder(d) /\ FollowsLast(planner.policy) /\ planner.policy.enabled
      BY <1>2, <1>3, <1>7, <3>1 DEF PlannerFollows, DatesAreInOrder
    <3>3. /\ \A e \in Annual!Dates : IsRequested(e) => WasCompleted(e)
          /\ \A c \in completions : c.at + Year <= d
      BY <1>7, <3>2 DEF DueInOrder
    <3>4. OneToComplete'
      BY <1>3, <2>4, <3>2, <3>3 DEF OneToComplete
    <3>5. CompletedToday'
      <4>1. ASSUME NEW c \in completions PROVE c.cycle \in Annual!Dates /\ c.cycle # d
        BY <1>1, <2>5, <4>1, AnnualTypes DEF WasCompleted
      <4> QED
        BY <1>3, <2>4, <3>1, <4>1 DEF CompletedToday
    <3>6. \A e \in Annual!Dates : IsReady(e) => IsRequested(checkup[e].completed + Year) \/ checkup[e].completed + Year = d
      BY <1>2, <1>3, <1>7, <3>2 DEF FollowsLast
    <3>7. \A e \in Annual!Dates : IsReady(e)' => IsRequested(checkup[e].completed + Year)'
      <4>1. SUFFICES ASSUME NEW e \in Annual!Dates, IsReady(e)' PROVE IsRequested(checkup[e].completed + Year)'
        OBVIOUS
      <4>2. IsReady(e) /\ checkup'[e] = checkup[e]
        BY <2>4, <4>1
      <4>3. PICK n \in Annual!Dates : n = checkup[e].completed + Year
        BY <1>1, <4>2, ReadyDates
      <4>4. IsRequested(n)'
        BY <2>4, <3>6, <4>2, <4>3
      <4> QED
        BY <4>2, <4>3, <4>4
    <3>8. NoneSkipped'
      BY <3>7 DEF NoneSkipped
    <3>9. DatesAreInOrder'
      <4>1. DueInOrder(policy.next)'
        BY <1>3, <2>4, <3>2 DEF DueInOrder
      <4>2. \A e \in Annual!Dates : IsReady(e)' => DueInOrder(checkup[e].completed + Year)'
        BY <3>7 DEF DueInOrder
      <4> QED
        BY <1>5, <4>1, <4>2 DEF DatesAreInOrder
    <3>10. PlannerFollows'
      BY <1>5 DEF PlannerFollows
    <3> QED
      BY <3>4, <3>5, <3>8, <3>9, <3>10
  <2> QED
    BY <2>6, <2>7, <2>8, <2>9, <2>10 DEF CheckupInv
<1>8. (~IsRequested(d) /\ checkup' = [checkup EXCEPT ![d].status = "queued"]
           /\ collection' = [collection EXCEPT ![d].status = "queued"]) \/ UNCHANGED <<checkup, collection>>
  BY <1>1, <1>2 DEF Annual!RequestCheckup, IsRequested
<1> QED
  BY <1>6, <1>7, <1>8

\* A failed checkup is given another attempt: if it was completed before, that is noted.
LEMMA RetryKeepsCheckups == \A d \in Annual!Dates : CheckupInv /\ Annual!Retry(d) => CheckupInv'
<1>1. SUFFICES ASSUME NEW d \in Annual!Dates, CheckupInv, Annual!Retry(d) PROVE CheckupInv'
  OBVIOUS
<1>2. /\ collection[d].status = "failed" /\ redone' = (redone \/ WasCompleted(d))
      /\ UNCHANGED <<day, entitled, policy, checkup, reviewed, completions, planner, run, faults>>
  BY <1>1 DEF Annual!Retry, WasCompleted
<1>3. PICK j : j = [collection[d] EXCEPT !.status = "queued", !.attempts = MaxAttempts - 1]
  OBVIOUS
<1>4. MaxAttempts - 1 \in 0 .. MaxAttempts /\ MaxAttempts - 1 < MaxAttempts
  BY AnnualFacts
<1>5. j \in Annual!Job /\ j.status = "queued" /\ j.attempts = MaxAttempts - 1
  BY <1>1, <1>3, <1>4, AnnualTypes DEF Annual!Job
<1>6. collection' = [collection EXCEPT ![d] = j]
  BY <1>1, <1>3 DEF Annual!Retry
<1>7. /\ collection' \in [Annual!Dates -> Annual!Job] /\ collection'[d] = j
      /\ \A e \in Annual!Dates \ {d} : collection'[e] = collection[e]
  BY <1>1, <1>5, <1>6, AnnualTypes
<1>8. Annual!CheckupsTypeOK'
  <2>1. lapses' \in 0 .. MaxChanges
    <3>1. lapses \in 0 .. MaxChanges /\ lapses < MaxChanges /\ lapses' = lapses + 1
      BY <1>1, AnnualTypes DEF Annual!Retry
    <3> QED
      BY <3>1, AnnualFacts
  <2>2. redone' \in BOOLEAN
    BY <1>2
  <2>3. Annual!CheckupsTypeOK
    BY <1>1 DEF CheckupInv
  <2> QED
    BY <1>2, <1>7, <2>1, <2>2, <2>3 DEF Annual!CheckupsTypeOK
<1>9. RowsAreSound'
  <2>1. RowsAreSound
    BY <1>1 DEF CheckupInv
  <2>2. ASSUME NEW e \in Annual!Dates
        PROVE  /\ collection'[e].status = "queued" => collection'[e].attempts < MaxAttempts
               /\ ~IsRequested(e) <=> collection'[e].status = "none"
               /\ ~IsRequested(e) => collection'[e].attempts = 0
    <3>1. CASE e = d
      <4>1. IsRequested(d)
        BY <1>2, <2>1 DEF RowsAreSound
      <4> QED
        BY <1>4, <1>5, <1>7, <3>1, <4>1
    <3>2. CASE e # d
      BY <1>7, <2>1, <3>2 DEF RowsAreSound
    <3> QED
      BY <3>1, <3>2
  <2> QED
    BY <1>2, <2>1, <2>2 DEF RowsAreSound, IsRequested, IsReady, WasCompleted
<1>10. ASSUME NEW w \in Actors PROVE RunIsSound(run[w])'
  <2>1. RunIsSound(run[w])
    BY <1>1 DEF CheckupInv
  <2> QED
    BY <1>2, <2>1 DEF RunIsSound, IsRequested, WasCompleted
<1>11. Annual!OncePerYear'
  BY <1>1, <1>2 DEF CheckupInv, Annual!OncePerYear
<1>12. ASSUME ~redone' PROVE OneToComplete' /\ CompletedToday' /\ DatesAreInOrder' /\ NoneSkipped' /\ PlannerFollows'
  <2>1. /\ ~redone /\ ~WasCompleted(d)
        /\ OneToComplete /\ CompletedToday /\ DatesAreInOrder /\ NoneSkipped /\ PlannerFollows
    BY <1>1, <1>2, <1>12 DEF CheckupInv
  <2>2. OneToComplete' /\ NoneSkipped'
    BY <1>2, <2>1 DEF OneToComplete, NoneSkipped, IsRequested, IsReady, WasCompleted
  <2>3. CompletedToday'
    <3>1. ASSUME NEW c \in completions, IsActive(c.cycle)' PROVE c.at = day
      <4>1. c.cycle \in Annual!Dates /\ c.cycle # d
        BY <1>1, <2>1, <3>1, AnnualTypes DEF WasCompleted
      <4>2. IsActive(c.cycle)
        BY <1>2, <1>7, <3>1, <4>1 DEF IsActive
      <4> QED
        BY <2>1, <3>1, <4>2 DEF CompletedToday
    <3> QED
      BY <1>2, <3>1 DEF CompletedToday
  <2>4. DatesAreInOrder'
    BY <1>2, <2>1 DEF DatesAreInOrder, DueInOrder, IsRequested, IsReady, WasCompleted
  <2>5. PlannerFollows'
    BY <1>2, <2>1 DEF PlannerFollows, FollowsLast, IsRequested, IsReady
  <2> QED
    BY <2>2, <2>3, <2>4, <2>5
<1> QED
  BY <1>8, <1>9, <1>10, <1>11, <1>12 DEF CheckupInv

\* Months pass when nothing is active.
LEMMA TimeKeepsCheckups == CheckupInv /\ Annual!TimePasses => CheckupInv'
<1>1. SUFFICES ASSUME CheckupInv, Annual!TimePasses PROVE CheckupInv'
  OBVIOUS
<1>2. /\ day < MaxCheckupClock /\ day' = day + 1 /\ planner.at = "idle" /\ planner' = planner
      /\ UNCHANGED <<entitled, policy, checkup, reviewed, collection, completions, redone, lapses, faults>> /\ run' = run
  BY <1>1 DEF Annual!TimePasses, Annual!rows, Annual!history
<1>3. \A d \in Annual!Dates : ~IsActive(d)
  BY <1>1 DEF Annual!TimePasses, IsActive
<1>4. day \in Nat /\ day' \in Nat /\ day' \in 0 .. MaxCheckupClock
  <2>1. day \in 0 .. MaxCheckupClock
    BY <1>1, AnnualTypes
  <2> QED
    BY <1>2, <2>1, AnnualFacts
<1>5. Annual!CheckupsTypeOK'
  <2>1. Annual!CheckupsTypeOK
    BY <1>1 DEF CheckupInv
  <2> QED
    BY <1>2, <1>4, <2>1 DEF Annual!CheckupsTypeOK
<1>6. RowsAreSound'
  <2>1. RowsAreSound
    BY <1>1 DEF CheckupInv
  <2>2. ASSUME NEW e \in Annual!Dates, IsReady(e) PROVE checkup[e].completed <= day'
    BY <1>1, <1>2, <1>4, <2>2, ReadyDates
  <2>3. ASSUME NEW c \in completions PROVE c.at <= day'
    <3>1. c.at \in Nat /\ c.at <= day
      BY <1>1, <2>1, <2>3, AnnualTypes, AnnualFacts DEF RowsAreSound
    <3> QED
      BY <1>2, <1>4, <3>1
  <2> QED
    BY <1>2, <2>1, <2>2, <2>3 DEF RowsAreSound, IsRequested, IsReady, WasCompleted
<1>7. ASSUME NEW w \in Actors PROVE RunIsSound(run[w])'
  <2>1. RunIsSound(run[w])
    BY <1>1 DEF CheckupInv
  <2> QED
    BY <1>2, <2>1 DEF RunIsSound, IsRequested, WasCompleted
<1>8. Annual!OncePerYear'
  BY <1>1, <1>2 DEF CheckupInv, Annual!OncePerYear
<1>9. ASSUME ~redone' PROVE OneToComplete' /\ CompletedToday' /\ DatesAreInOrder' /\ NoneSkipped' /\ PlannerFollows'
  <2>1. OneToComplete /\ CompletedToday /\ DatesAreInOrder /\ NoneSkipped /\ PlannerFollows
    BY <1>1, <1>2, <1>9 DEF CheckupInv
  <2>2. OneToComplete'
    <3>1. \A e \in Annual!Dates : e <= day => e <= day'
      BY <1>2, <1>4, AnnualFacts
    <3> QED
      BY <1>2, <2>1, <3>1 DEF OneToComplete, IsRequested, WasCompleted
  <2>3. CompletedToday'
    <3>1. \A c \in completions : c.cycle \in Annual!Dates
      BY <1>1, AnnualTypes
    <3> QED
      BY <1>2, <1>3, <3>1 DEF CompletedToday, IsActive
  <2>4. NoneSkipped'
    BY <1>2, <2>1 DEF NoneSkipped, IsRequested, IsReady
  <2>5. DatesAreInOrder'
    BY <1>2, <2>1 DEF DatesAreInOrder, DueInOrder, IsRequested, IsReady, WasCompleted
  <2>6. PlannerFollows'
    BY <1>2 DEF PlannerFollows
  <2> QED
    BY <2>2, <2>3, <2>4, <2>5, <2>6
<1> QED
  BY <1>5, <1>6, <1>7, <1>8, <1>9 DEF CheckupInv

\* A worker or the planner ends between two statements, or the entitlement changes.
LEMMA FaultsKeepCheckups == CheckupInv /\ (Annual!Crash \/ Annual!ChangeEntitlement) => CheckupInv'
<1>1. SUFFICES ASSUME CheckupInv, Annual!Crash \/ Annual!ChangeEntitlement PROVE CheckupInv'
  OBVIOUS
<1>2. UNCHANGED <<day, policy, checkup, reviewed, collection, completions, redone>>
  BY <1>1 DEF Annual!Crash, Annual!ChangeEntitlement, Annual!rows
<1>3. /\ checkup' \in [Annual!Dates -> Annual!Checkup] /\ reviewed' \subseteq Annual!Dates /\ reviewed \subseteq reviewed'
      /\ collection' \in [Annual!Dates -> Annual!Job]
      /\ \A d \in Annual!Dates : checkup'[d].status = "none" <=> checkup[d].status = "none"
      /\ \A d \in Annual!Dates : checkup'[d].status = "draft-ready" => checkup'[d] = checkup[d]
  BY <1>1, <1>2, AnnualTypes
<1>4. ASSUME Annual!Crash PROVE CheckupInv'
  <2>1. UNCHANGED <<entitled, lapses>> /\ faults' \in 0 .. MaxFaults
    <3>1. faults \in 0 .. MaxFaults /\ faults < MaxFaults /\ faults' = faults + 1
      BY <1>1, <1>4, AnnualTypes DEF Annual!Crash
    <3> QED
      BY <1>4, <3>1, AnnualFacts DEF Annual!Crash
  <2>2. ASSUME NEW w \in Actors, run[w].at # "idle", run' = [run EXCEPT ![w] = Annual!IdleRun], planner' = planner
        PROVE  CheckupInv'
    <3>1. PICK r \in Annual!Run : r = Annual!IdleRun /\ r.at = "idle"
      BY AnnualFacts
    <3>2. RunIsSound(r)'
      BY <3>1 DEF RunIsSound
    <3> QED
      BY <1>1, <1>2, <1>3, <2>1, <2>2, <3>1, <3>2, RunGoesOn
  <2>3. ASSUME planner' = Annual!IdlePlanner, run' = run PROVE CheckupInv'
    <3>1. PICK q \in Annual!Planner : q = planner' /\ q.at = "idle"
      BY <2>3, AnnualFacts
    <3>2. ASSUME NEW w \in Actors PROVE RunIsSound(run[w])'
      <4>1. RunIsSound(run[w])
        BY <1>1 DEF CheckupInv
      <4> QED
        BY <1>2, <2>3, <4>1 DEF RunIsSound, IsRequested, WasCompleted
    <3>3. \A e \in Annual!Dates : IsActive(e)' => IsActive(e)
      BY <1>2, <2>3 DEF IsActive
    <3>4. ~redone => /\ DueInOrder(policy.next) /\ (q.at # "idle" => DueInOrder(q.policy.next))
                     /\ q.at \in {"sync", "check", "request"} => FollowsLast(q.policy)
                     /\ q.at = "list" => FollowsLast(policy)
                     /\ q.at \in {"check", "request"} =>
                           /\ q.policy.enabled /\ q.policy.next <= day
                           /\ ~IsRequested(q.policy.next) => policy.next = q.policy.next
      BY <1>1, <3>1 DEF CheckupInv, DatesAreInOrder
    <3>5. policy \in Annual!Policy /\ run' \in [Actors -> Annual!Run] /\ policy' = policy
      BY <1>1, <1>2, <2>3, AnnualTypes
    <3> QED
      BY <1>1, <1>2, <2>1, <3>1, <3>2, <3>3, <3>4, <3>5, PlanGoesOn
  <2> QED
    BY <1>4, <2>2, <2>3 DEF Annual!Crash
<1>5. ASSUME Annual!ChangeEntitlement PROVE CheckupInv'
  <2>1. /\ entitled' \in BOOLEAN /\ run' = run /\ planner' = planner /\ faults' \in 0 .. MaxFaults
        /\ run' \in [Actors -> Annual!Run]
    BY <1>1, <1>5, AnnualTypes DEF Annual!ChangeEntitlement
  <2>2. lapses' \in 0 .. MaxChanges
    <3>1. lapses \in 0 .. MaxChanges /\ lapses < MaxChanges /\ lapses' = lapses + 1
      BY <1>1, <1>5, AnnualTypes DEF Annual!ChangeEntitlement
    <3> QED
      BY <3>1, AnnualFacts
  <2>3. ASSUME NEW w \in Actors PROVE RunIsSound(run[w])'
    <3>1. RunIsSound(run[w])
      BY <1>1 DEF CheckupInv
    <3> QED
      BY <1>2, <2>1, <3>1 DEF RunIsSound, IsRequested, WasCompleted
  <2>4. \A e \in Annual!Dates : IsActive(e)' => IsActive(e)
    BY <1>2, <2>1 DEF IsActive
  <2>5. \A d \in Annual!Dates :
           /\ collection'[d].status = "queued" => collection'[d].attempts < MaxAttempts
           /\ checkup[d].status = "none" <=> collection'[d].status = "none"
           /\ checkup[d].status = "none" => collection'[d].attempts = 0
    BY <1>1, <1>2 DEF CheckupInv, RowsAreSound, IsRequested
  <2> QED
    BY <1>1, <1>2, <1>3, <2>1, <2>2, <2>3, <2>4, <2>5, WorkGoesOn
<1> QED
  BY <1>1, <1>4, <1>5

LEMMA CheckupStarts == Annual!Init => CheckupInv
<1>1. SUFFICES ASSUME Annual!Init PROVE CheckupInv
  OBVIOUS
<1>2. PICK j, r : j = [status |-> "none", attempts |-> 0, holder |-> nobody] /\ r = Annual!IdleRun
  OBVIOUS
<1>3. /\ day = 0 /\ entitled = TRUE /\ policy = Annual!NoPolicy /\ reviewed = {} /\ planner = Annual!IdlePlanner
      /\ faults = 0 /\ lapses = 0 /\ completions = {} /\ redone = FALSE
      /\ checkup = [d \in Annual!Dates |-> Annual!NoCheckup] /\ collection = [d \in Annual!Dates |-> j]
      /\ run = [w \in Actors |-> r]
  BY <1>1, <1>2 DEF Annual!Init
<1>4. j \in Annual!Job /\ j.status = "none" /\ j.attempts = 0
  BY <1>2, AnnualFacts DEF Annual!Job
<1>5. /\ checkup \in [Annual!Dates -> Annual!Checkup] /\ \A d \in Annual!Dates : checkup[d].status = "none"
      /\ collection \in [Annual!Dates -> Annual!Job]
      /\ \A d \in Annual!Dates : collection[d].status = "none" /\ collection[d].attempts = 0
      /\ run \in [Actors -> Annual!Run] /\ \A w \in Actors : run[w].at = "idle"
      /\ policy \in Annual!Policy /\ policy.next = 0 /\ planner \in Annual!Planner /\ planner.at = "idle"
  BY <1>2, <1>3, <1>4, AnnualFacts
<1>6. Annual!CheckupsTypeOK
  <2>1. day \in 0 .. MaxCheckupClock /\ faults \in 0 .. MaxFaults /\ lapses \in 0 .. MaxChanges
    BY <1>3, AnnualFacts
  <2>2. entitled \in BOOLEAN /\ redone \in BOOLEAN
    BY <1>3
  <2>3. reviewed \subseteq Annual!Dates /\ completions \subseteq [cycle : Annual!Dates, at : Annual!Dates]
    BY <1>3
  <2> QED
    BY <1>5, <2>1, <2>2, <2>3 DEF Annual!CheckupsTypeOK
<1>7. RowsAreSound
  BY <1>3, <1>5 DEF RowsAreSound, IsRequested, IsReady
<1>8. \A w \in Actors : RunIsSound(run[w])
  BY <1>5 DEF RunIsSound
<1>9. Annual!OncePerYear
  BY <1>3 DEF Annual!OncePerYear
<1>10. OneToComplete /\ CompletedToday /\ NoneSkipped /\ PlannerFollows
  BY <1>3, <1>5 DEF OneToComplete, CompletedToday, NoneSkipped, PlannerFollows, IsRequested, IsReady
<1>11. DatesAreInOrder
  BY <1>3, <1>5 DEF DatesAreInOrder, DueInOrder, IsRequested, IsReady
<1> QED
  BY <1>6, <1>7, <1>8, <1>9, <1>10, <1>11 DEF CheckupInv

CheckupsInv == part = "checkups" => CheckupInv

LEMMA CheckupsKept ==
    /\ Init => CheckupsInv
    /\ CheckupsInv /\ [Next]_vars => CheckupsInv'
<1>1. Init => CheckupsInv
  BY CheckupStarts DEF Init, CheckupsInv
<1>2. ASSUME CheckupsInv, [Next]_vars PROVE CheckupsInv'
  <2>1. part' = part
    BY <1>2 DEF Next, vars
  <2>2. SUFFICES ASSUME part = "checkups", CheckupInv PROVE CheckupInv'
    BY <1>2, <2>1 DEF CheckupsInv
  <2>3. CASE UNCHANGED checkups
    <3>1. UNCHANGED <<day, entitled, policy, checkup, reviewed, collection, planner, run, faults, lapses, completions, redone>>
      BY <2>3 DEF checkups
    <3>2. Annual!CheckupsTypeOK' /\ Annual!OncePerYear'
      BY <2>2, <3>1 DEF CheckupInv, Annual!CheckupsTypeOK, Annual!OncePerYear
    <3>3. RowsAreSound'
      BY <2>2, <3>1 DEF CheckupInv, RowsAreSound, IsRequested, IsReady, WasCompleted
    <3>4. \A w \in Actors : RunIsSound(run[w])'
      BY <2>2, <3>1 DEF CheckupInv, RunIsSound, IsRequested, WasCompleted
    <3>5. ASSUME ~redone' PROVE OneToComplete' /\ CompletedToday' /\ DatesAreInOrder' /\ NoneSkipped' /\ PlannerFollows'
      <4>1. OneToComplete /\ CompletedToday /\ DatesAreInOrder /\ NoneSkipped /\ PlannerFollows
        BY <2>2, <3>1, <3>5 DEF CheckupInv
      <4>2. OneToComplete' /\ NoneSkipped'
        BY <3>1, <4>1 DEF OneToComplete, NoneSkipped, IsRequested, IsReady, WasCompleted
      <4>3. CompletedToday'
        BY <3>1, <4>1 DEF CompletedToday, IsActive
      <4>4. DatesAreInOrder'
        BY <3>1, <4>1 DEF DatesAreInOrder, DueInOrder, IsRequested, IsReady, WasCompleted
      <4>5. PlannerFollows'
        BY <3>1, <4>1 DEF PlannerFollows, FollowsLast, IsRequested, IsReady
      <4> QED
        BY <4>2, <4>3, <4>4, <4>5
    <3> QED
      BY <3>2, <3>3, <3>4, <3>5 DEF CheckupInv
  <2>4. CASE Annual!Next
    <3>1. CASE Annual!Plan
      BY <2>2, <3>1, PlanningKeepsCheckups, RequestKeepsCheckups DEF Annual!Plan
    <3>2. CASE \E w \in Actors : Annual!RunCheckup(w)
      BY <2>2, <3>2, RunsKeepCheckups, JobsKeepCheckups, CompleteKeepsCheckups, SavePolicyKeepsCheckups DEF Annual!RunCheckup
    <3>3. CASE \E d \in Annual!Dates : Annual!Recover(d)
      BY <2>2, <3>3, JobsKeepCheckups
    <3>4. CASE \E w \in Actors : Annual!Throw(w)
      BY <2>2, <3>4, RunsKeepCheckups
    <3>5. CASE \E d \in Annual!Dates : Annual!Retry(d)
      BY <2>2, <3>5, RetryKeepsCheckups
    <3>6. CASE Annual!Crash \/ Annual!ChangeEntitlement \/ Annual!TimePasses
      BY <2>2, <3>6, FaultsKeepCheckups, TimeKeepsCheckups
    <3> QED
      BY <2>4, <3>1, <3>2, <3>3, <3>4, <3>5, <3>6 DEF Annual!Next, Annual!Work
  <2>5. Annual!Next \/ UNCHANGED checkups
    BY <1>2, <2>2 DEF Next, vars
  <2> QED
    BY <2>3, <2>4, <2>5
<1> QED
  BY <1>1, <1>2

\* However planner and runs overwrite the policy, lose their leases or end half-way, a
\* draft-ready checkup has its review and two cycles are completed a year apart, unless
\* a checkup that had been completed is run again.
THEOREM CheckupsAreYearly == Spec => []YearlyWithReview
<1>1. CheckupsInv => YearlyWithReview
  BY DEF CheckupsInv, CheckupInv, RowsAreSound, YearlyWithReview, Annual!YearlyWithReview, Annual!DraftReadyHasReview,
     Annual!InStatus, IsReady
<1> QED
  BY <1>1, CheckupsKept, PTL DEF Spec

--------------------------------------------------------------------------------
(* Notifications: recipients *)

\* The message a call turns to next.
FirstOf(messages) == CHOOSE m \in messages : \A n \in messages : m.email <= n.email

Teller == [at : Notify!Place, id : {0} \cup Notify!Ids, input : Notify!Recipient \cup {Notify!NoRecipient},
           todo : SUBSET Notify!Message, queued : SUBSET Notify!Message,
           always : SUBSET Notify!Message, ever : SUBSET Notify!Message, free : SUBSET Addresses]

RecipientRows ==
    /\ recipient \in [Notify!Ids -> Notify!Recipient \cup {Notify!NoRecipient}] /\ ids \in 0 .. MaxRecipients
    /\ suppressed \subseteq Addresses /\ outbox \subseteq Notify!Message
    /\ submitted \in [Notify!Ids -> SUBSET Notify!Recipient] /\ gone \subseteq Notify!Ids
    /\ readdressed \in BOOLEAN
    /\ telling \in [Actors -> Teller]

\* Recipients are added in order, and none that is gone is being saved.
AddedInOrder ==
    /\ \A i \in Notify!Ids : recipient[i] # Notify!NoRecipient => i <= ids
    /\ \A i \in gone : i <= ids /\ recipient[i] = Notify!NoRecipient

\* A row is what was submitted, and so is what is to be stored in it.
RowsAreSubmitted ==
    /\ \A i \in Notify!Ids : recipient[i] \in submitted[i] \cup {Notify!NoRecipient}
    /\ \A c \in Actors : telling[c].at \in {"found", "written"} =>
          /\ telling[c].id \in Notify!Ids /\ telling[c].id <= ids /\ telling[c].id \notin gone
          /\ telling[c].input \in submitted[telling[c].id]

\* No two rows share an address, nor would they if the saves that hold one committed.
AddressesApart ==
    /\ \A i, j \in Notify!Ids :
          i # j /\ recipient[i].email = recipient[j].email => recipient[i] = Notify!NoRecipient
    /\ \A c \in Actors : telling[c].at = "written" =>
          /\ \A j \in Notify!Ids \ {telling[c].id} : recipient[j].email # telling[c].input.email
          /\ \A d \in Actors \ {c} : telling[d].at = "written" =>
                telling[d].id # telling[c].id /\ telling[d].input.email # telling[c].input.email

UniqueIds(messages) == \A m, n \in messages : m.id = n.id => m = n

\* Who is still to be told and who has been, by a call that queues messages.
TellerIsSound(t, rows, barred, told) ==
    /\ t.at \notin {"listed", "checked"} => t.todo = {} /\ t.queued = {}
    /\ t.at \in {"begun", "listed", "checked"} =>
          /\ t.always \subseteq Notify!Due(rows, barred) /\ Notify!Due(rows, {}) \subseteq t.ever
          /\ Addresses \ barred \subseteq t.free
    /\ t.at \in {"listed", "checked"} =>
          /\ \A m \in t.always : m \in t.todo \/ \E n \in told \cup t.queued : n.id = m.id
          /\ t.todo \subseteq t.ever /\ \A m \in t.queued : m \in t.ever /\ m.email \in t.free
    /\ t.at = "checked" => t.todo # {} /\ FirstOf(t.todo).email \in t.free
    /\ UniqueIds(t.todo \cup t.queued) /\ t.todo \cap t.queued = {}
    /\ \A m \in t.queued, n \in told : m.id # n.id

TellersAreSound == \A c \in Actors : TellerIsSound(telling[c], recipient, suppressed, outbox)

QueuesApart ==
    /\ UniqueIds(outbox)
    /\ \A c, d \in Actors : c # d => \A m \in telling[c].queued, n \in telling[d].queued : m.id # n.id

\* Until an address is given up, messages go to the address of their recipient.
MessagesAreAddressed ==
    ~readdressed =>
        /\ \A m \in outbox : recipient[m.id].email = m.email
        /\ \A c \in Actors : \A m \in telling[c].todo \cup telling[c].queued : recipient[m.id].email = m.email

RecipientsInv ==
    RecipientRows /\ AddedInOrder /\ RowsAreSubmitted /\ AddressesApart /\ TellersAreSound
    /\ QueuesApart /\ MessagesAreAddressed

RowsOf == [Notify!Ids -> Notify!Recipient \cup {Notify!NoRecipient}]

LEMMA NotificationFacts ==
    /\ Addresses \subseteq Nat \ {0} /\ Addresses # {} /\ Category \in Categories
    /\ MaxNotifications \in Nat /\ MaxSecrets \in Nat /\ MaxRecipients \in Nat \ {0}
    /\ Notify!Ids \subseteq Nat \ {0} /\ Notify!NoRecipient \notin Notify!Recipient
    /\ Notify!NoRecipient.email = 0 /\ Notify!NoRecipient.enabled = FALSE
    /\ \A r \in Notify!Recipient : r.email \in Addresses
BY SiteAssumption DEF Notify!NotificationAssumption, Notify!Ids, Notify!NoRecipient, Notify!Recipient

\* Who is due a message, by id and address.
LEMMA DueIsSubscribed ==
    ASSUME NEW rows \in RowsOf, NEW barred \in SUBSET Addresses
    PROVE  /\ Notify!Due(rows, barred) \subseteq Notify!Message
           /\ Notify!Due(rows, {}) = Notify!Listed(rows)
           /\ Notify!Due(rows, barred) = {m \in Notify!Listed(rows) : m.email \notin barred}
           /\ \A m \in Notify!Listed(rows) : m.email = rows[m.id].email
           /\ UniqueIds(Notify!Listed(rows))
<1>1. \A i \in Notify!Ids : rows[i].enabled => rows[i] \in Notify!Recipient /\ rows[i].email \in Addresses
  BY NotificationFacts DEF RowsOf
<1>2. \A m : m \in Notify!Listed(rows) <=> \E i \in Notify!Ids :
                 rows[i].enabled /\ Category \in rows[i].categories /\ m = [id |-> i, email |-> rows[i].email]
  BY DEF Notify!Listed, Notify!Told
<1>3. \A m : m \in Notify!Due(rows, barred) <=> \E i \in Notify!Ids :
                 /\ rows[i].enabled /\ Category \in rows[i].categories /\ rows[i].email \notin barred
                 /\ m = [id |-> i, email |-> rows[i].email]
  BY DEF Notify!Due, Notify!Told
<1>4. \A m : m \in Notify!Due(rows, {}) <=> \E i \in Notify!Ids :
                 rows[i].enabled /\ Category \in rows[i].categories /\ m = [id |-> i, email |-> rows[i].email]
  BY DEF Notify!Due, Notify!Told
<1>5. Notify!Listed(rows) \subseteq Notify!Message
  BY <1>1, <1>2 DEF Notify!Message
<1>6. Notify!Due(rows, {}) = Notify!Listed(rows)
  BY <1>2, <1>4
<1>7. \A m : m \in Notify!Due(rows, barred) <=> m \in Notify!Listed(rows) /\ m.email \notin barred
  BY <1>2, <1>3
<1>8. Notify!Due(rows, barred) = {m \in Notify!Listed(rows) : m.email \notin barred}
  BY <1>7
<1>9. UniqueIds(Notify!Listed(rows))
  BY <1>2 DEF UniqueIds
<1>10. \A m \in Notify!Listed(rows) : m.email = rows[m.id].email
  BY <1>2
<1> QED
  BY <1>5, <1>6, <1>8, <1>9, <1>10

LEMMA FirstIsOne ==
    ASSUME NEW messages \in SUBSET Notify!Message, messages # {}
    PROVE  FirstOf(messages) \in messages
<1>1. PICK all : all = {m.email : m \in messages}
  OBVIOUS
<1>2. all \in SUBSET Nat /\ all # {}
  BY <1>1, NotificationFacts DEF Notify!Message
<1>3. PICK e \in all : \A a \in all : e <= a
  BY <1>2, LeastNatural
<1>4. PICK m \in messages : m.email = e
  BY <1>1, <1>3
<1>5. \A n \in messages : m.email <= n.email
  BY <1>1, <1>3, <1>4
<1> QED
  BY <1>5 DEF FirstOf

LEMMA IdleTeller == Notify!IdleCall \in Teller
    /\ Notify!IdleCall.at = "idle" /\ Notify!IdleCall.todo = {} /\ Notify!IdleCall.queued = {}
BY DEF Notify!IdleCall, Teller, Notify!Place

LEMMA IdleIsSound ==
    ASSUME NEW rows, NEW barred, NEW told, NEW t, t.at \in {"idle", "found", "written"}, t.todo = {}, t.queued = {}
    PROVE  TellerIsSound(t, rows, barred, told)
BY DEF TellerIsSound, UniqueIds

\* What watching the rows does to a call.
LEMMA WatchedFields ==
    ASSUME NEW calls \in [Actors -> Teller], NEW rows \in RowsOf, NEW barred \in SUBSET Addresses, NEW c \in Actors,
           NEW w, w = Notify!Watched(calls, rows, barred)[c]
    PROVE  /\ w \in Teller /\ w.at = calls[c].at /\ w.id = calls[c].id /\ w.input = calls[c].input
           /\ w.todo = calls[c].todo /\ w.queued = calls[c].queued
           /\ w.at \in {"begun", "listed", "checked"} =>
                 /\ w.always = calls[c].always \cap Notify!Due(rows, barred)
                 /\ w.ever = calls[c].ever \cup Notify!Due(rows, {})
                 /\ w.free = calls[c].free \cup (Addresses \ barred)
<1>1. PICK t \in Teller : t = calls[c]
  OBVIOUS
<1>2. Notify!Due(rows, barred) \subseteq Notify!Message /\ Notify!Due(rows, {}) \subseteq Notify!Message
  BY DueIsSubscribed
<1>3. CASE t.at \in {"begun", "listed", "checked"}
  <2>1. w = [t EXCEPT !.always = @ \cap Notify!Due(rows, barred), !.ever = @ \cup Notify!Due(rows, {}),
                      !.free = @ \cup (Addresses \ barred)]
    BY <1>1, <1>3 DEF Notify!Watched
  <2>2. PICK a, e, f : a = t.always \cap Notify!Due(rows, barred) /\ e = t.ever \cup Notify!Due(rows, {})
                       /\ f = t.free \cup (Addresses \ barred)
    OBVIOUS
  <2>3. a \subseteq Notify!Message /\ e \subseteq Notify!Message /\ f \subseteq Addresses
    BY <1>2, <2>2 DEF Teller
  <2>4. w = [t EXCEPT !.always = a, !.ever = e, !.free = f]
    BY <2>1, <2>2
  <2>5. w \in Teller /\ w.at = t.at /\ w.id = t.id /\ w.input = t.input /\ w.todo = t.todo /\ w.queued = t.queued
        /\ w.always = a /\ w.ever = e /\ w.free = f
    BY <2>3, <2>4 DEF Teller
  <2> QED
    BY <1>1, <2>2, <2>5
<1>4. CASE t.at \notin {"begun", "listed", "checked"}
  <2>1. w = t
    BY <1>1, <1>4 DEF Notify!Watched
  <2> QED
    BY <1>1, <1>4, <2>1
<1> QED
  BY <1>3, <1>4

LEMMA WatchedIsSound ==
    ASSUME NEW calls \in [Actors -> Teller], NEW rows \in RowsOf, NEW barred \in SUBSET Addresses, NEW c \in Actors,
           NEW before, NEW open, NEW told, TellerIsSound(calls[c], before, open, told),
           NEW w, w = Notify!Watched(calls, rows, barred)[c]
    PROVE  TellerIsSound(w, rows, barred, told)
<1>1. PICK t \in Teller : t = calls[c]
  OBVIOUS
<1>2. w.at = t.at /\ w.todo = t.todo /\ w.queued = t.queued
      /\ (w.at \in {"begun", "listed", "checked"} =>
                 /\ w.always = t.always \cap Notify!Due(rows, barred)
                 /\ w.ever = t.ever \cup Notify!Due(rows, {})
                 /\ w.free = t.free \cup (Addresses \ barred))
  BY <1>1, WatchedFields
<1>3. TellerIsSound(t, before, open, told)
  BY <1>1
<1>4. w.at \in {"begun", "listed", "checked"} =>
          /\ w.always \subseteq Notify!Due(rows, barred) /\ Notify!Due(rows, {}) \subseteq w.ever
          /\ Addresses \ barred \subseteq w.free
          /\ w.always \subseteq t.always /\ t.ever \subseteq w.ever /\ t.free \subseteq w.free
  BY <1>2
<1>5. w.at \in {"listed", "checked"} =>
          /\ \A m \in w.always : m \in w.todo \/ \E n \in told \cup w.queued : n.id = m.id
          /\ w.todo \subseteq w.ever /\ \A m \in w.queued : m \in w.ever /\ m.email \in w.free
  BY <1>2, <1>3, <1>4 DEF TellerIsSound
<1>6. w.at = "checked" => w.todo # {} /\ FirstOf(w.todo).email \in w.free
  BY <1>2, <1>3, <1>4 DEF TellerIsSound
<1> QED
  BY <1>2, <1>3, <1>4, <1>5, <1>6 DEF TellerIsSound

\* A step of one call that leaves the rows alone.
LEMMA TellerGoesOn ==
    ASSUME RecipientsInv, NEW c \in Actors, NEW t \in Teller, telling' = [telling EXCEPT ![c] = t],
           UNCHANGED <<recipient, suppressed, outbox, gone, readdressed>>,
           ids' \in 0 .. MaxRecipients, ids <= ids',
           submitted' \in [Notify!Ids -> SUBSET Notify!Recipient],
           \A i \in Notify!Ids : submitted[i] \subseteq submitted'[i],
           t.at \in {"found", "written"} =>
               t.id \in Notify!Ids /\ t.id <= ids' /\ t.id \notin gone /\ t.input \in submitted'[t.id],
           t.at = "written" =>
               /\ \A j \in Notify!Ids \ {t.id} : recipient[j].email # t.input.email
               /\ \A d \in Actors \ {c} : telling[d].at = "written" =>
                     telling[d].id # t.id /\ telling[d].input.email # t.input.email,
           TellerIsSound(t, recipient, suppressed, outbox),
           \A d \in Actors \ {c} : \A m \in t.queued, n \in telling[d].queued : m.id # n.id,
           ~readdressed => \A m \in t.todo \cup t.queued : recipient[m.id].email = m.email
    PROVE  RecipientsInv'
<1>1. /\ recipient' = recipient /\ suppressed' = suppressed /\ outbox' = outbox /\ gone' = gone
      /\ readdressed' = readdressed
  OBVIOUS
<1>2. /\ telling' \in [Actors -> Teller] /\ telling'[c] = t
      /\ \A d \in Actors \ {c} : telling'[d] = telling[d]
  BY DEF RecipientsInv, RecipientRows
<1>3. RecipientRows'
  BY <1>1, <1>2 DEF RecipientsInv, RecipientRows
<1>4. AddedInOrder'
  BY <1>1, <1>3, NotificationFacts DEF RecipientsInv, AddedInOrder, RecipientRows
<1>5. RowsAreSubmitted'
  <2>1. \A i \in Notify!Ids : recipient'[i] \in submitted'[i] \cup {Notify!NoRecipient}
    BY <1>1 DEF RecipientsInv, RowsAreSubmitted
  <2>2. ASSUME NEW d \in Actors, telling'[d].at \in {"found", "written"}
        PROVE  /\ telling'[d].id \in Notify!Ids /\ telling'[d].id <= ids' /\ telling'[d].id \notin gone'
               /\ telling'[d].input \in submitted'[telling'[d].id]
    <3>1. CASE d = c
      BY <1>1, <1>2, <2>2, <3>1
    <3>2. CASE d # c
      <4>1. /\ telling[d].id \in Notify!Ids /\ telling[d].id <= ids /\ telling[d].id \notin gone
            /\ telling[d].input \in submitted[telling[d].id]
        BY <1>2, <2>2, <3>2 DEF RecipientsInv, RowsAreSubmitted
      <4>2. telling[d].id \in Nat /\ MaxRecipients \in Nat
        BY <4>1, NotificationFacts
      <4>3. ids \in 0 .. MaxRecipients
        BY DEF RecipientsInv, RecipientRows
      <4>4. telling[d].id <= ids'
        BY <4>1, <4>2, <4>3
      <4> QED
        BY <1>1, <1>2, <3>2, <4>1, <4>4
    <3> QED
      BY <3>1, <3>2
  <2> QED
    BY <2>1, <2>2 DEF RowsAreSubmitted
<1>6. AddressesApart'
  <2>1. \A i, j \in Notify!Ids :
            i # j /\ recipient'[i].email = recipient'[j].email => recipient'[i] = Notify!NoRecipient
    BY <1>1 DEF RecipientsInv, AddressesApart
  <2>2. ASSUME NEW b \in Actors, telling'[b].at = "written"
        PROVE  /\ \A j \in Notify!Ids \ {telling'[b].id} : recipient'[j].email # telling'[b].input.email
               /\ \A d \in Actors \ {b} : telling'[d].at = "written" =>
                     telling'[d].id # telling'[b].id /\ telling'[d].input.email # telling'[b].input.email
    <3>1. CASE b = c
      BY <1>1, <1>2, <2>2, <3>1
    <3>2. CASE b # c
      <4>1. telling'[b] = telling[b] /\ telling[b].at = "written"
        BY <1>2, <2>2, <3>2
      <4>2. \A j \in Notify!Ids \ {telling[b].id} : recipient[j].email # telling[b].input.email
        BY <4>1 DEF RecipientsInv, AddressesApart
      <4>3. ASSUME NEW d \in Actors \ {b}, telling'[d].at = "written"
            PROVE  telling'[d].id # telling[b].id /\ telling'[d].input.email # telling[b].input.email
        <5>1. CASE d = c
          BY <1>2, <3>2, <4>1, <4>3, <5>1
        <5>2. CASE d # c
          BY <1>2, <4>1, <4>3, <5>2 DEF RecipientsInv, AddressesApart
        <5> QED
          BY <5>1, <5>2
      <4> QED
        BY <1>1, <4>1, <4>2, <4>3
    <3> QED
      BY <3>1, <3>2
  <2> QED
    BY <2>1, <2>2 DEF AddressesApart
<1>7. TellersAreSound'
  BY <1>1, <1>2 DEF RecipientsInv, TellersAreSound
<1>8. QueuesApart'
  <2>1. UniqueIds(outbox')
    BY <1>1 DEF RecipientsInv, QueuesApart
  <2>2. ASSUME NEW b \in Actors, NEW d \in Actors, b # d, NEW m \in telling'[b].queued, NEW n \in telling'[d].queued
        PROVE  m.id # n.id
    <3>1. CASE b = c
      BY <1>2, <2>2, <3>1
    <3>2. CASE d = c
      BY <1>2, <2>2, <3>2
    <3>3. CASE b # c /\ d # c
      BY <1>2, <2>2, <3>3 DEF RecipientsInv, QueuesApart
    <3> QED
      BY <3>1, <3>2, <3>3
  <2> QED
    BY <2>1, <2>2 DEF QueuesApart
<1>9. MessagesAreAddressed'
  <2>1. ASSUME ~readdressed', NEW d \in Actors, NEW m \in telling'[d].todo \cup telling'[d].queued
        PROVE  recipient'[m.id].email = m.email
    <3>1. CASE d = c
      BY <1>1, <1>2, <2>1, <3>1
    <3>2. CASE d # c
      BY <1>1, <1>2, <2>1, <3>2 DEF RecipientsInv, MessagesAreAddressed
    <3> QED
      BY <3>1, <3>2
  <2>2. ~readdressed' => \A m \in outbox' : recipient'[m.id].email = m.email
    BY <1>1 DEF RecipientsInv, MessagesAreAddressed
  <2> QED
    BY <2>1, <2>2 DEF MessagesAreAddressed
<1> QED
  BY <1>3, <1>4, <1>5, <1>6, <1>7, <1>8, <1>9 DEF RecipientsInv

\* A step after which the calls watch other rows or another set of suppressed addresses.
LEMMA TellersWatch ==
    ASSUME RecipientsInv, NEW calls \in [Actors -> Teller],
           \A d \in Actors : calls[d] = telling[d] \/ calls[d] = Notify!IdleCall,
           telling' = Notify!Watched(calls, recipient', suppressed'),
           UNCHANGED <<ids, outbox, submitted>>,
           recipient' \in RowsOf, suppressed' \subseteq Addresses, gone' \subseteq Notify!Ids, readdressed' \in BOOLEAN,
           AddedInOrder',
           \A i \in Notify!Ids : recipient'[i] \in submitted[i] \cup {Notify!NoRecipient},
           \A d \in Actors : calls[d].at \in {"found", "written"} => calls[d].id \notin gone',
           \A i, j \in Notify!Ids :
               i # j /\ recipient'[i].email = recipient'[j].email => recipient'[i] = Notify!NoRecipient,
           \A d \in Actors : calls[d].at = "written" =>
               \A j \in Notify!Ids \ {calls[d].id} : recipient'[j].email # calls[d].input.email,
           ~readdressed' => ~readdressed
               /\ \A i \in Notify!Ids : recipient[i].email # 0 => recipient'[i].email = recipient[i].email
    PROVE  RecipientsInv'
<1>1. ids' = ids /\ outbox' = outbox /\ submitted' = submitted
  OBVIOUS
<1>2. ASSUME NEW d \in Actors
      PROVE  /\ telling'[d] \in Teller /\ telling'[d].at = calls[d].at /\ telling'[d].id = calls[d].id
             /\ telling'[d].input = calls[d].input /\ telling'[d].todo = calls[d].todo
             /\ telling'[d].queued = calls[d].queued
  <2>1. PICK w : w = Notify!Watched(calls, recipient', suppressed')[d]
    OBVIOUS
  <2>2. w = telling'[d]
    BY <2>1
  <2>3. suppressed' \in SUBSET Addresses
    OBVIOUS
  <2> QED
    BY <2>1, <2>2, <2>3, WatchedFields
<1>3. telling' \in [Actors -> Teller]
  <2>1. DOMAIN Notify!Watched(calls, recipient', suppressed') = Actors
        /\ Notify!Watched(calls, recipient', suppressed')
           = [d \in Actors |-> Notify!Watched(calls, recipient', suppressed')[d]]
    BY DEF Notify!Watched
  <2> QED
    BY <1>2, <2>1
<1>4. RecipientRows'
  BY <1>1, <1>3 DEF RecipientsInv, RecipientRows, RowsOf
<1>5. \A d \in Actors : calls[d].at # "idle" => calls[d] = telling[d]
  BY IdleTeller
<1>6. RowsAreSubmitted'
  <2>1. ASSUME NEW d \in Actors, telling'[d].at \in {"found", "written"}
        PROVE  /\ telling'[d].id \in Notify!Ids /\ telling'[d].id <= ids' /\ telling'[d].id \notin gone'
               /\ telling'[d].input \in submitted'[telling'[d].id]
    <3>1. calls[d] = telling[d] /\ telling[d].at \in {"found", "written"}
      BY <1>2, <1>5, <2>1
    <3>2. /\ telling[d].id \in Notify!Ids /\ telling[d].id <= ids
          /\ telling[d].input \in submitted[telling[d].id]
      BY <3>1 DEF RecipientsInv, RowsAreSubmitted
    <3>3. calls[d].id \notin gone'
      BY <3>1
    <3> QED
      BY <1>1, <1>2, <3>1, <3>2, <3>3
  <2> QED
    BY <1>1, <2>1 DEF RowsAreSubmitted
<1>7. AddressesApart'
  <2>1. ASSUME NEW b \in Actors, telling'[b].at = "written"
        PROVE  /\ \A j \in Notify!Ids \ {telling'[b].id} : recipient'[j].email # telling'[b].input.email
               /\ \A d \in Actors \ {b} : telling'[d].at = "written" =>
                     telling'[d].id # telling'[b].id /\ telling'[d].input.email # telling'[b].input.email
    <3>1. calls[b] = telling[b] /\ telling[b].at = "written"
      BY <1>2, <1>5, <2>1
    <3>2. \A j \in Notify!Ids \ {telling'[b].id} : recipient'[j].email # telling'[b].input.email
      BY <1>2, <3>1
    <3>3. ASSUME NEW d \in Actors \ {b}, telling'[d].at = "written"
          PROVE  telling'[d].id # telling'[b].id /\ telling'[d].input.email # telling'[b].input.email
      <4>1. calls[d] = telling[d] /\ telling[d].at = "written"
        BY <1>2, <1>5, <3>3
      <4>2. telling[d].id # telling[b].id /\ telling[d].input.email # telling[b].input.email
        BY <3>1, <4>1 DEF RecipientsInv, AddressesApart
      <4> QED
        BY <1>2, <3>1, <4>1, <4>2
    <3> QED
      BY <3>2, <3>3
  <2> QED
    BY <2>1 DEF AddressesApart
<1>8. ASSUME NEW d \in Actors PROVE TellerIsSound(telling'[d], recipient', suppressed', outbox')
  <2>1. TellerIsSound(calls[d], recipient, suppressed, outbox)
    <3>1. CASE calls[d] = telling[d]
      BY <3>1 DEF RecipientsInv, TellersAreSound
    <3>2. CASE calls[d] = Notify!IdleCall
      BY <3>2, IdleTeller, IdleIsSound
    <3> QED
      BY <3>1, <3>2
  <2>2. PICK w : w = Notify!Watched(calls, recipient', suppressed')[d]
    OBVIOUS
  <2>3. suppressed' \in SUBSET Addresses
    OBVIOUS
  <2>4. PICK rows, barred : rows = recipient' /\ barred = suppressed'
    OBVIOUS
  <2>5. rows \in RowsOf /\ barred \in SUBSET Addresses /\ w = Notify!Watched(calls, rows, barred)[d]
    BY <2>2, <2>3, <2>4
  <2>6. TellerIsSound(w, rows, barred, outbox)
    BY <2>1, <2>5, WatchedIsSound
  <2>7. w = telling'[d]
    BY <2>2
  <2> QED
    BY <1>1, <2>4, <2>6, <2>7
<1>9. TellersAreSound'
  BY <1>8 DEF TellersAreSound
<1>10. \A d \in Actors : telling'[d].todo \subseteq telling[d].todo /\ telling'[d].queued \subseteq telling[d].queued
  BY <1>2, IdleTeller
<1>11. QueuesApart'
  BY <1>1, <1>10 DEF RecipientsInv, QueuesApart
<1>12. MessagesAreAddressed'
  <2>1. SUFFICES ASSUME ~readdressed'
                 PROVE  /\ \A m \in outbox' : recipient'[m.id].email = m.email
                        /\ \A d \in Actors : \A m \in telling'[d].todo \cup telling'[d].queued :
                              recipient'[m.id].email = m.email
    BY DEF MessagesAreAddressed
  <2>2. ASSUME NEW m \in Notify!Message, recipient[m.id].email = m.email PROVE recipient'[m.id].email = m.email
    <3>1. m.id \in Notify!Ids /\ m.email # 0
      BY <2>2, NotificationFacts DEF Notify!Message
    <3> QED
      BY <2>1, <2>2, <3>1
  <2>3. outbox \subseteq Notify!Message
        /\ \A d \in Actors : telling[d].todo \subseteq Notify!Message /\ telling[d].queued \subseteq Notify!Message
    BY DEF RecipientsInv, RecipientRows, Teller
  <2>4. \A m \in outbox : recipient[m.id].email = m.email
    BY <2>1 DEF RecipientsInv, MessagesAreAddressed
  <2>5. \A d \in Actors : \A m \in telling[d].todo \cup telling[d].queued : recipient[m.id].email = m.email
    BY <2>1 DEF RecipientsInv, MessagesAreAddressed
  <2> QED
    BY <1>1, <1>10, <2>2, <2>3, <2>4, <2>5
<1> QED
  BY <1>4, <1>6, <1>7, <1>9, <1>11, <1>12 DEF RecipientsInv

LEMMA SaveKeepsRecipients ==
    ASSUME RecipientsInv, NEW c \in Actors, Notify!SaveRecipient(c) PROVE RecipientsInv'
<1>1. PICK i \in Notify!Ids, input \in Notify!Recipient :
          /\ i <= ids + 1 /\ (i <= ids => recipient[i] # Notify!NoRecipient)
          /\ ids' = IF i > ids THEN i ELSE ids
          /\ telling' = [telling EXCEPT ![c] = [Notify!IdleCall EXCEPT !.at = "found", !.id = i, !.input = input]]
          /\ submitted' = [submitted EXCEPT ![i] = @ \cup {input}]
  <2>1. PICK i \in 1 .. ids + 1, input \in Notify!Recipient :
          /\ i \in Notify!Ids /\ (i <= ids => recipient[i] # Notify!NoRecipient)
          /\ ids' = IF i > ids THEN i ELSE ids
          /\ telling' = [telling EXCEPT ![c] = [Notify!IdleCall EXCEPT !.at = "found", !.id = i, !.input = input]]
          /\ submitted' = [submitted EXCEPT ![i] = @ \cup {input}]
    BY DEF Notify!SaveRecipient
  <2>2. ids \in Nat /\ i <= ids + 1
    BY <2>1, NotificationFacts DEF RecipientsInv, RecipientRows
  <2> QED
    BY <2>1, <2>2
<1>2. PICK t : t = [Notify!IdleCall EXCEPT !.at = "found", !.id = i, !.input = input]
  OBVIOUS
<1>3. t \in Teller /\ t.at = "found" /\ t.id = i /\ t.input = input /\ t.todo = {} /\ t.queued = {}
  BY <1>1, <1>2 DEF Notify!IdleCall, Teller, Notify!Place
<1>4. telling' = [telling EXCEPT ![c] = t]
  BY <1>1, <1>2
<1>5. UNCHANGED <<recipient, suppressed, outbox, gone, readdressed>>
  BY DEF Notify!SaveRecipient
<1>6. i \in 1 .. MaxRecipients /\ ids \in 0 .. MaxRecipients /\ MaxRecipients \in Nat
  BY NotificationFacts DEF RecipientsInv, RecipientRows, Notify!Ids
<1>7. ids' \in 0 .. MaxRecipients /\ ids <= ids' /\ i <= ids'
  BY <1>1, <1>6
<1>8. submitted \in [Notify!Ids -> SUBSET Notify!Recipient]
  BY DEF RecipientsInv, RecipientRows
<1>9. /\ submitted' \in [Notify!Ids -> SUBSET Notify!Recipient] /\ input \in submitted'[i]
      /\ \A j \in Notify!Ids : submitted[j] \subseteq submitted'[j]
  BY <1>1, <1>8
<1>10. i \notin gone
  <2>1. SUFFICES ASSUME i \in gone PROVE FALSE
    OBVIOUS
  <2>2. i <= ids /\ recipient[i] = Notify!NoRecipient
    BY <2>1 DEF RecipientsInv, AddedInOrder
  <2> QED
    BY <1>1, <2>2
<1>11. t.at \in {"found", "written"} =>
           t.id \in Notify!Ids /\ t.id <= ids' /\ t.id \notin gone /\ t.input \in submitted'[t.id]
  BY <1>3, <1>7, <1>9, <1>10
<1>12. TellerIsSound(t, recipient, suppressed, outbox)
  BY <1>3, IdleIsSound
<1>13. \A d \in Actors \ {c} : \A m \in t.queued, n \in telling[d].queued : m.id # n.id
  BY <1>3
<1>14. ~readdressed => \A m \in t.todo \cup t.queued : recipient[m.id].email = m.email
  BY <1>3
<1>15. t.at = "written" =>
               /\ \A j \in Notify!Ids \ {t.id} : recipient[j].email # t.input.email
               /\ \A d \in Actors \ {c} : telling[d].at = "written" =>
                     telling[d].id # t.id /\ telling[d].input.email # t.input.email
  BY <1>3
<1> QED
  BY <1>3, <1>4, <1>5, <1>7, <1>9, <1>11, <1>12, <1>13, <1>14, <1>15, TellerGoesOn

\* A step of one call that saves nothing and leaves the outbox alone.
LEMMA OnlyTellerGoesOn ==
    ASSUME RecipientsInv, NEW c \in Actors, NEW t \in Teller, telling' = [telling EXCEPT ![c] = t],
           UNCHANGED <<recipient, ids, suppressed, outbox, submitted, gone, readdressed>>,
           t.at \notin {"found", "written"},
           TellerIsSound(t, recipient, suppressed, outbox),
           \A d \in Actors \ {c} : \A m \in t.queued, n \in telling[d].queued : m.id # n.id,
           ~readdressed => \A m \in t.todo \cup t.queued : recipient[m.id].email = m.email
    PROVE  RecipientsInv'
<1>1. UNCHANGED <<recipient, suppressed, outbox, gone, readdressed>>
  OBVIOUS
<1>2. ids' \in 0 .. MaxRecipients /\ ids <= ids'
  <2>1. ids \in 0 .. MaxRecipients /\ MaxRecipients \in Nat /\ ids' = ids
    BY NotificationFacts DEF RecipientsInv, RecipientRows
  <2> QED
    BY <2>1
<1>3. submitted' \in [Notify!Ids -> SUBSET Notify!Recipient] /\ \A i \in Notify!Ids : submitted[i] \subseteq submitted'[i]
  BY DEF RecipientsInv, RecipientRows
<1>4. t.at \in {"found", "written"} =>
           t.id \in Notify!Ids /\ t.id <= ids' /\ t.id \notin gone /\ t.input \in submitted'[t.id]
  OBVIOUS
<1>5. t.at = "written" =>
               /\ \A j \in Notify!Ids \ {t.id} : recipient[j].email # t.input.email
               /\ \A d \in Actors \ {c} : telling[d].at = "written" =>
                     telling[d].id # t.id /\ telling[d].input.email # t.input.email
  OBVIOUS
<1> QED
  BY <1>1, <1>2, <1>3, <1>4, <1>5, TellerGoesOn

LEMMA IdleKeepsRecipients ==
    ASSUME RecipientsInv, NEW c \in Actors, telling' = [telling EXCEPT ![c] = Notify!IdleCall],
           UNCHANGED <<recipient, ids, suppressed, outbox, submitted, gone, readdressed>>
    PROVE  RecipientsInv'
<1>1. PICK t : t = Notify!IdleCall
  OBVIOUS
<1>2. t \in Teller /\ t.at \notin {"found", "written"} /\ t.at = "idle" /\ t.todo = {} /\ t.queued = {}
  BY <1>1, IdleTeller
<1>3. TellerIsSound(t, recipient, suppressed, outbox)
  BY <1>2, IdleIsSound
<1>4. telling' = [telling EXCEPT ![c] = t]
  BY <1>1
<1>5. \A d \in Actors \ {c} : \A m \in t.queued, n \in telling[d].queued : m.id # n.id
  BY <1>2
<1>6. ~readdressed => \A m \in t.todo \cup t.queued : recipient[m.id].email = m.email
  BY <1>2
<1> QED
  BY <1>2, <1>3, <1>4, <1>5, <1>6, OnlyTellerGoesOn

LEMMA UpsertKeepsRecipients ==
    ASSUME RecipientsInv, NEW c \in Actors, Notify!UpsertRecipient(c) PROVE RecipientsInv'
<1>1. UNCHANGED <<recipient, ids, suppressed, outbox, submitted, gone, readdressed>>
  BY DEF Notify!UpsertRecipient
<1>2. CASE Notify!Rivals(c) # {}
  <2>1. telling' = [telling EXCEPT ![c] = Notify!IdleCall]
    BY <1>2 DEF Notify!UpsertRecipient
  <2> QED
    BY <1>1, <2>1, IdleKeepsRecipients
<1>3. CASE Notify!Rivals(c) = {}
  <2>1. PICK old \in Teller : old = telling[c]
    BY DEF RecipientsInv, RecipientRows
  <2>2. PICK t : t = [old EXCEPT !.at = "written"]
    OBVIOUS
  <2>3. t \in Teller /\ t.at = "written" /\ t.id = old.id /\ t.input = old.input /\ t.todo = old.todo
        /\ t.queued = old.queued
    BY <2>2 DEF Teller, Notify!Place
  <2>4. telling' = [telling EXCEPT ![c] = t]
    BY <1>3, <2>1, <2>2 DEF Notify!UpsertRecipient
  <2>5. old.at = "found" /\ ~Notify!Locked(c, old.id)
    BY <2>1 DEF Notify!UpsertRecipient
  <2>6. old.todo = {} /\ old.queued = {}
    BY <2>1, <2>5 DEF RecipientsInv, TellersAreSound, TellerIsSound
  <2>7. old.id \in Notify!Ids /\ old.id <= ids /\ old.id \notin gone /\ old.input \in submitted[old.id]
    BY <2>1, <2>5 DEF RecipientsInv, RowsAreSubmitted
  <2>8. \A i \in Notify!Ids \ {old.id} :
            /\ recipient[i].email # old.input.email
            /\ \A d \in Actors \ {c} : ~(telling[d].at = "written" /\ telling[d].id = i
                                         /\ telling[d].input.email = old.input.email)
    BY <1>3, <2>1 DEF Notify!Rivals
  <2>9. ASSUME NEW d \in Actors \ {c}, telling[d].at = "written"
        PROVE  telling[d].id # t.id /\ telling[d].input.email # t.input.email
    <3>1. telling[d].id # old.id
      BY <2>5, <2>9 DEF Notify!Locked
    <3>2. telling[d].id \in Notify!Ids
      BY <2>9 DEF RecipientsInv, RowsAreSubmitted
    <3>3. telling[d].input.email # old.input.email
      BY <2>8, <2>9, <3>1, <3>2
    <3> QED
      BY <2>3, <3>1, <3>3
  <2>10. t.at = "written" =>
               /\ \A j \in Notify!Ids \ {t.id} : recipient[j].email # t.input.email
               /\ \A d \in Actors \ {c} : telling[d].at = "written" =>
                     telling[d].id # t.id /\ telling[d].input.email # t.input.email
    BY <2>3, <2>8, <2>9
  <2>11. ids' \in 0 .. MaxRecipients /\ ids <= ids'
    <3>1. ids \in 0 .. MaxRecipients /\ MaxRecipients \in Nat /\ ids' = ids
      BY <1>1, NotificationFacts DEF RecipientsInv, RecipientRows
    <3> QED
      BY <3>1
  <2>12. submitted' \in [Notify!Ids -> SUBSET Notify!Recipient] /\ \A i \in Notify!Ids : submitted[i] \subseteq submitted'[i]
    BY <1>1 DEF RecipientsInv, RecipientRows
  <2>13. t.at \in {"found", "written"} =>
           t.id \in Notify!Ids /\ t.id <= ids' /\ t.id \notin gone /\ t.input \in submitted'[t.id]
    BY <1>1, <2>3, <2>7
  <2>14. TellerIsSound(t, recipient, suppressed, outbox)
    BY <2>3, <2>6, IdleIsSound
  <2>15. \A d \in Actors \ {c} : \A m \in t.queued, n \in telling[d].queued : m.id # n.id
    BY <2>3, <2>6
  <2>16. ~readdressed => \A m \in t.todo \cup t.queued : recipient[m.id].email = m.email
    BY <2>3, <2>6
  <2>17. UNCHANGED <<recipient, suppressed, outbox, gone, readdressed>>
    BY <1>1
  <2> QED
    BY <2>3, <2>4, <2>10, <2>11, <2>12, <2>13, <2>14, <2>15, <2>16, <2>17, TellerGoesOn
<1> QED
  BY <1>2, <1>3

LEMMA CommitKeepsRecipients ==
    ASSUME RecipientsInv, NEW c \in Actors, Notify!CommitRecipient(c) PROVE RecipientsInv'
<1>1. PICK i, chosen : i = telling[c].id /\ chosen = telling[c].input
  OBVIOUS
<1>2. telling[c].at = "written"
  BY DEF Notify!CommitRecipient
<1>3. /\ i \in Notify!Ids /\ i <= ids /\ i \notin gone /\ chosen \in submitted[i]
  BY <1>1, <1>2 DEF RecipientsInv, RowsAreSubmitted
<1>4. chosen \in Notify!Recipient /\ recipient \in RowsOf
  BY <1>3 DEF RecipientsInv, RecipientRows, RowsOf
<1>5. PICK calls : calls = [telling EXCEPT ![c] = Notify!IdleCall]
  OBVIOUS
<1>6. /\ recipient' = [recipient EXCEPT ![i] = chosen]
      /\ readdressed' = (readdressed \/ recipient[i].email \notin {0, chosen.email})
      /\ telling' = Notify!Watched(calls, recipient', suppressed)
      /\ UNCHANGED <<ids, suppressed, outbox, submitted, gone>>
  BY <1>1, <1>5 DEF Notify!CommitRecipient, Notify!Replaced
<1>7. /\ recipient'[i] = chosen /\ \A j \in Notify!Ids \ {i} : recipient'[j] = recipient[j]
      /\ recipient' \in RowsOf
  BY <1>3, <1>4, <1>6 DEF RowsOf
<1>8. telling \in [Actors -> Teller]
  BY DEF RecipientsInv, RecipientRows
<1>9. calls \in [Actors -> Teller] /\ calls[c] = Notify!IdleCall /\ \A d \in Actors \ {c} : calls[d] = telling[d]
  BY <1>5, <1>8, IdleTeller
<1>10. \A d \in Actors : calls[d] = telling[d] \/ calls[d] = Notify!IdleCall
  BY <1>9
<1>11. telling' = Notify!Watched(calls, recipient', suppressed')
  BY <1>6
<1>12. UNCHANGED <<ids, outbox, submitted>>
  BY <1>6
<1>13. suppressed' \subseteq Addresses /\ gone' \subseteq Notify!Ids
  BY <1>6 DEF RecipientsInv, RecipientRows
<1>14. readdressed' \in BOOLEAN
  BY <1>6 DEF RecipientsInv, RecipientRows
<1>15. AddedInOrder'
  <2>1. \A j \in Notify!Ids : recipient'[j] # Notify!NoRecipient => j <= ids'
    BY <1>3, <1>6, <1>7 DEF RecipientsInv, AddedInOrder
  <2>2. \A j \in gone' : j <= ids' /\ recipient'[j] = Notify!NoRecipient
    BY <1>3, <1>6, <1>7 DEF RecipientsInv, AddedInOrder, RecipientRows
  <2> QED
    BY <2>1, <2>2 DEF AddedInOrder
<1>16. \A j \in Notify!Ids : recipient'[j] \in submitted[j] \cup {Notify!NoRecipient}
  BY <1>3, <1>7 DEF RecipientsInv, RowsAreSubmitted
<1>17. \A d \in Actors : calls[d].at \in {"found", "written"} => calls[d].id \notin gone'
  BY <1>6, <1>9, IdleTeller DEF RecipientsInv, RowsAreSubmitted
<1>18. \A j \in Notify!Ids \ {i} : recipient[j].email # chosen.email
  BY <1>1, <1>2 DEF RecipientsInv, AddressesApart
<1>19. \A j, k \in Notify!Ids :
               j # k /\ recipient'[j].email = recipient'[k].email => recipient'[j] = Notify!NoRecipient
  <2>1. SUFFICES ASSUME NEW j \in Notify!Ids, NEW k \in Notify!Ids, j # k, recipient'[j].email = recipient'[k].email
                 PROVE  recipient'[j] = Notify!NoRecipient
    OBVIOUS
  <2>2. j # i /\ k # i
    BY <1>7, <1>18, <2>1
  <2> QED
    BY <1>7, <2>1, <2>2 DEF RecipientsInv, AddressesApart
<1>20. ASSUME NEW d \in Actors, calls[d].at = "written"
       PROVE  \A j \in Notify!Ids \ {calls[d].id} : recipient'[j].email # calls[d].input.email
  <2>1. d # c /\ calls[d] = telling[d]
    BY <1>9, <1>20, IdleTeller
  <2>2. telling[d].input.email # chosen.email
    BY <1>1, <1>2, <1>20, <2>1 DEF RecipientsInv, AddressesApart
  <2>3. \A j \in Notify!Ids \ {telling[d].id} : recipient[j].email # telling[d].input.email
    BY <1>20, <2>1 DEF RecipientsInv, AddressesApart
  <2> QED
    BY <1>7, <2>1, <2>2, <2>3
<1>21. ~readdressed' => ~readdressed
               /\ \A j \in Notify!Ids : recipient[j].email # 0 => recipient'[j].email = recipient[j].email
  <2>1. ~readdressed' => ~readdressed /\ recipient[i].email \in {0, chosen.email}
    BY <1>6
  <2> QED
    BY <1>7, <2>1
<1> QED
  BY <1>7, <1>9, <1>10, <1>11, <1>12, <1>13, <1>14, <1>15, <1>16, <1>17, <1>19, <1>20, <1>21, TellersWatch

LEMMA DeleteKeepsRecipients ==
    ASSUME RecipientsInv, NEW c \in Actors, Notify!DeleteRecipient(c) PROVE RecipientsInv'
<1>1. PICK i \in Notify!Ids :
          /\ recipient[i] # Notify!NoRecipient /\ ~Notify!Locked(c, i)
          /\ recipient' = [recipient EXCEPT ![i] = Notify!NoRecipient]
          /\ gone' = IF \E d \in Actors : telling[d].at = "found" /\ telling[d].id = i THEN gone ELSE gone \cup {i}
          /\ telling' = Notify!Watched(telling, recipient', suppressed)
  BY DEF Notify!DeleteRecipient
<1>2. telling[c].at = "idle" /\ readdressed' = TRUE /\ UNCHANGED <<ids, suppressed, outbox, submitted>>
  BY DEF Notify!DeleteRecipient
<1>3. /\ recipient'[i] = Notify!NoRecipient /\ \A j \in Notify!Ids \ {i} : recipient'[j] = recipient[j]
      /\ recipient' \in RowsOf
  BY <1>1 DEF RecipientsInv, RecipientRows, RowsOf
<1>4. telling \in [Actors -> Teller]
  BY DEF RecipientsInv, RecipientRows
<1>5. \A d \in Actors : telling[d] = telling[d] \/ telling[d] = Notify!IdleCall
  OBVIOUS
<1>6. telling' = Notify!Watched(telling, recipient', suppressed')
  BY <1>1, <1>2
<1>7. UNCHANGED <<ids, outbox, submitted>>
  BY <1>2
<1>8. suppressed' \subseteq Addresses /\ gone' \subseteq Notify!Ids /\ readdressed' \in BOOLEAN
  BY <1>1, <1>2 DEF RecipientsInv, RecipientRows
<1>9. AddedInOrder'
  <2>1. \A j \in Notify!Ids : recipient'[j] # Notify!NoRecipient => j <= ids'
    BY <1>2, <1>3 DEF RecipientsInv, AddedInOrder
  <2>2. ASSUME NEW j \in gone' PROVE j <= ids' /\ recipient'[j] = Notify!NoRecipient
    <3>1. j = i \/ j \in gone
      BY <1>1
    <3>2. j \in Notify!Ids
      BY <1>8
    <3> QED
      BY <1>1, <1>2, <1>3, <3>1, <3>2 DEF RecipientsInv, AddedInOrder
  <2> QED
    BY <2>1, <2>2 DEF AddedInOrder
<1>10. \A j \in Notify!Ids : recipient'[j] \in submitted[j] \cup {Notify!NoRecipient}
  BY <1>3 DEF RecipientsInv, RowsAreSubmitted
<1>11. ASSUME NEW d \in Actors, telling[d].at \in {"found", "written"} PROVE telling[d].id \notin gone'
  <2>1. telling[d].id \notin gone
    BY <1>11 DEF RecipientsInv, RowsAreSubmitted
  <2>2. CASE telling[d].at = "found"
    BY <1>1, <2>1, <2>2
  <2>3. CASE telling[d].at = "written"
    <3>1. d # c
      BY <1>2, <2>3
    <3>2. telling[d].id # i
      BY <1>1, <2>3, <3>1 DEF Notify!Locked
    <3> QED
      BY <1>1, <2>1, <3>2
  <2> QED
    BY <1>11, <2>2, <2>3
<1>12. \A j, k \in Notify!Ids :
               j # k /\ recipient'[j].email = recipient'[k].email => recipient'[j] = Notify!NoRecipient
  <2>1. SUFFICES ASSUME NEW j \in Notify!Ids, NEW k \in Notify!Ids, j # k, recipient'[j].email = recipient'[k].email
                 PROVE  recipient'[j] = Notify!NoRecipient
    OBVIOUS
  <2>2. CASE j # i /\ k # i
    BY <1>3, <2>1, <2>2 DEF RecipientsInv, AddressesApart
  <2>3. CASE j = i
    BY <1>3, <2>3
  <2>4. CASE j # i /\ k = i
    <3>1. recipient'[j].email = 0 /\ recipient'[j] \in Notify!Recipient \cup {Notify!NoRecipient}
      BY <1>3, <2>1, <2>4, NotificationFacts DEF RowsOf
    <3> QED
      BY <3>1, NotificationFacts
  <2> QED
    BY <2>2, <2>3, <2>4
<1>13. ASSUME NEW d \in Actors, telling[d].at = "written"
       PROVE  \A j \in Notify!Ids \ {telling[d].id} : recipient'[j].email # telling[d].input.email
  <2>1. telling[d].input.email # 0
    <3>1. telling[d].id \in Notify!Ids /\ telling[d].input \in submitted[telling[d].id]
      BY <1>13 DEF RecipientsInv, RowsAreSubmitted
    <3>2. telling[d].input \in Notify!Recipient
      BY <3>1 DEF RecipientsInv, RecipientRows
    <3> QED
      BY <3>2, NotificationFacts
  <2>2. \A j \in Notify!Ids \ {telling[d].id} : recipient[j].email # telling[d].input.email
    BY <1>13 DEF RecipientsInv, AddressesApart
  <2> QED
    BY <1>3, <2>1, <2>2, NotificationFacts
<1>14. ~readdressed' => ~readdressed
               /\ \A j \in Notify!Ids : recipient[j].email # 0 => recipient'[j].email = recipient[j].email
  BY <1>2
<1> QED
  BY <1>3, <1>4, <1>5, <1>6, <1>7, <1>8, <1>9, <1>10, <1>11, <1>12, <1>13, <1>14, TellersWatch

LEMMA SuppressionsKeepRecipients ==
    ASSUME RecipientsInv, NEW email \in Addresses, Notify!Suppress(email) \/ Notify!LiftSuppression(email)
    PROVE  RecipientsInv'
<1>1. /\ telling' = Notify!Watched(telling, recipient', suppressed')
      /\ suppressed' \subseteq suppressed \cup {email}
      /\ UNCHANGED <<recipient, ids, outbox, submitted, gone, readdressed>>
  BY DEF Notify!Suppress, Notify!LiftSuppression
<1>2. telling \in [Actors -> Teller] /\ recipient \in RowsOf
  BY DEF RecipientsInv, RecipientRows, RowsOf
<1>3. \A d \in Actors : telling[d] = telling[d] \/ telling[d] = Notify!IdleCall
  OBVIOUS
<1>4. UNCHANGED <<ids, outbox, submitted>>
  BY <1>1
<1>5. recipient' \in RowsOf /\ suppressed' \subseteq Addresses /\ gone' \subseteq Notify!Ids /\ readdressed' \in BOOLEAN
  BY <1>1, <1>2 DEF RecipientsInv, RecipientRows
<1>6. AddedInOrder'
  BY <1>1 DEF RecipientsInv, AddedInOrder
<1>7. \A j \in Notify!Ids : recipient'[j] \in submitted[j] \cup {Notify!NoRecipient}
  BY <1>1 DEF RecipientsInv, RowsAreSubmitted
<1>8. \A d \in Actors : telling[d].at \in {"found", "written"} => telling[d].id \notin gone'
  BY <1>1 DEF RecipientsInv, RowsAreSubmitted
<1>9. \A j, k \in Notify!Ids :
               j # k /\ recipient'[j].email = recipient'[k].email => recipient'[j] = Notify!NoRecipient
  BY <1>1 DEF RecipientsInv, AddressesApart
<1>10. \A d \in Actors : telling[d].at = "written" =>
               \A j \in Notify!Ids \ {telling[d].id} : recipient'[j].email # telling[d].input.email
  BY <1>1 DEF RecipientsInv, AddressesApart
<1>11. ~readdressed' => ~readdressed
               /\ \A j \in Notify!Ids : recipient[j].email # 0 => recipient'[j].email = recipient[j].email
  BY <1>1
<1> QED
  BY <1>1, <1>2, <1>3, <1>4, <1>5, <1>6, <1>7, <1>8, <1>9, <1>10, <1>11, TellersWatch

LEMMA EnqueueKeepsRecipients ==
    ASSUME RecipientsInv, NEW c \in Actors, Notify!EnqueueForSite(c) PROVE RecipientsInv'
<1>1. UNCHANGED <<recipient, ids, suppressed, outbox, submitted, gone, readdressed>>
  BY DEF Notify!EnqueueForSite, Notify!unsent
<1>2. recipient \in RowsOf /\ suppressed \in SUBSET Addresses
  BY DEF RecipientsInv, RecipientRows, RowsOf
<1>3. PICK a, e, f : a = Notify!Due(recipient, suppressed) /\ e = Notify!Due(recipient, {}) /\ f = Addresses \ suppressed
  OBVIOUS
<1>4. a \subseteq Notify!Message /\ e \subseteq Notify!Message /\ f \subseteq Addresses
  <2>1. Notify!Due(recipient, {}) \subseteq Notify!Message
    BY <1>2, DueIsSubscribed
  <2>2. Notify!Due(recipient, suppressed) \subseteq Notify!Message
    BY <1>2, DueIsSubscribed
  <2> QED
    BY <1>3, <2>1, <2>2
<1>5. PICK t : t = [Notify!IdleCall EXCEPT !.at = "begun", !.always = a, !.ever = e, !.free = f]
  OBVIOUS
<1>6. t \in Teller /\ t.at = "begun" /\ t.todo = {} /\ t.queued = {} /\ t.always = a /\ t.ever = e /\ t.free = f
  BY <1>4, <1>5 DEF Notify!IdleCall, Teller, Notify!Place
<1>7. telling' = [telling EXCEPT ![c] = t]
  BY <1>3, <1>5 DEF Notify!EnqueueForSite
<1>8. TellerIsSound(t, recipient, suppressed, outbox)
  BY <1>3, <1>6 DEF TellerIsSound, UniqueIds
<1>9. t.at \notin {"found", "written"}
  BY <1>6
<1>10. \A d \in Actors \ {c} : \A m \in t.queued, n \in telling[d].queued : m.id # n.id
  BY <1>6
<1>11. ~readdressed => \A m \in t.todo \cup t.queued : recipient[m.id].email = m.email
  BY <1>6
<1> QED
  BY <1>1, <1>6, <1>7, <1>8, <1>9, <1>10, <1>11, OnlyTellerGoesOn

LEMMA ListKeepsRecipients ==
    ASSUME RecipientsInv, NEW c \in Actors, Notify!ListRecipients(c) PROVE RecipientsInv'
<1>1. UNCHANGED <<recipient, ids, suppressed, outbox, submitted, gone, readdressed>>
  BY DEF Notify!ListRecipients, Notify!unsent
<1>2. recipient \in RowsOf /\ suppressed \in SUBSET Addresses
  BY DEF RecipientsInv, RecipientRows, RowsOf
<1>3. PICK listed : listed = Notify!Listed(recipient)
  OBVIOUS
<1>4. /\ listed \subseteq Notify!Message /\ Notify!Due(recipient, {}) = listed
      /\ \A m \in listed : m.email = recipient[m.id].email
      /\ UniqueIds(listed) /\ Notify!Due(recipient, suppressed) \subseteq listed
  BY <1>2, <1>3, DueIsSubscribed
<1>5. PICK old \in Teller : old = telling[c]
  BY DEF RecipientsInv, RecipientRows
<1>6. PICK t : t = [old EXCEPT !.at = "listed", !.todo = listed]
  OBVIOUS
<1>7. /\ t \in Teller /\ t.at = "listed" /\ t.todo = listed /\ t.queued = old.queued /\ t.always = old.always
      /\ t.ever = old.ever /\ t.free = old.free
  BY <1>4, <1>6 DEF Teller, Notify!Place
<1>8. telling' = [telling EXCEPT ![c] = t]
  BY <1>3, <1>5, <1>6 DEF Notify!ListRecipients
<1>9. old.at = "begun"
  BY <1>5 DEF Notify!ListRecipients
<1>10. TellerIsSound(old, recipient, suppressed, outbox)
  BY <1>5 DEF RecipientsInv, TellersAreSound
<1>11. old.queued = {} /\ old.always \subseteq listed /\ listed \subseteq old.ever
       /\ old.always \subseteq Notify!Due(recipient, suppressed) /\ Addresses \ suppressed \subseteq old.free
  BY <1>4, <1>9, <1>10 DEF TellerIsSound
<1>12. UniqueIds(t.todo \cup t.queued) /\ t.todo \cap t.queued = {}
  BY <1>4, <1>7, <1>11 DEF UniqueIds
<1>13. TellerIsSound(t, recipient, suppressed, outbox)
  BY <1>4, <1>7, <1>11, <1>12 DEF TellerIsSound
<1>14. t.at \notin {"found", "written"}
  BY <1>7
<1>15. \A d \in Actors \ {c} : \A m \in t.queued, n \in telling[d].queued : m.id # n.id
  BY <1>7, <1>11
<1>16. ~readdressed => \A m \in t.todo \cup t.queued : recipient[m.id].email = m.email
  BY <1>4, <1>7, <1>11
<1> QED
  BY <1>1, <1>7, <1>8, <1>13, <1>14, <1>15, <1>16, OnlyTellerGoesOn

\* A call with a message before it.
LEMMA TellerHasNext ==
    ASSUME RecipientsInv, NEW c \in Actors, NEW old \in Teller, old = telling[c],
           old.at \in {"listed", "checked"}, old.todo # {}, NEW m, m = FirstOf(old.todo)
    PROVE  /\ m \in old.todo /\ m \in Notify!Message /\ Notify!NextToTell(c) = m
           /\ TellerIsSound(old, recipient, suppressed, outbox)
<1>1. old.todo \in SUBSET Notify!Message
  BY DEF Teller
<1>2. m \in old.todo
  BY <1>1, FirstIsOne
<1>3. Notify!NextToTell(c) = m
  BY DEF Notify!NextToTell, FirstOf
<1>4. TellerIsSound(old, recipient, suppressed, outbox)
  BY DEF RecipientsInv, TellersAreSound
<1> QED
  BY <1>1, <1>2, <1>3, <1>4

LEMMA CheckKeepsRecipients ==
    ASSUME RecipientsInv, NEW c \in Actors, Notify!CheckSuppressed(c) PROVE RecipientsInv'
<1>1. UNCHANGED <<recipient, ids, suppressed, outbox, submitted, gone, readdressed>>
  BY DEF Notify!CheckSuppressed, Notify!unsent
<1>2. PICK old \in Teller : old = telling[c]
  BY DEF RecipientsInv, RecipientRows
<1>3. old.at = "listed" /\ old.todo # {}
  BY <1>2 DEF Notify!CheckSuppressed
<1>4. PICK m : m = FirstOf(old.todo)
  OBVIOUS
<1>5. /\ m \in old.todo /\ m \in Notify!Message /\ Notify!NextToTell(c) = m
      /\ TellerIsSound(old, recipient, suppressed, outbox)
  BY <1>2, <1>3, <1>4, TellerHasNext
<1>6. recipient \in RowsOf /\ suppressed \in SUBSET Addresses
  BY DEF RecipientsInv, RecipientRows, RowsOf
<1>7. \A d \in Actors \ {c} : \A k \in old.queued, n \in telling[d].queued : k.id # n.id
  BY <1>2 DEF RecipientsInv, QueuesApart
<1>8. ~readdressed => \A k \in old.todo \cup old.queued : recipient[k.id].email = k.email
  BY <1>2 DEF RecipientsInv, MessagesAreAddressed
<1>9. CASE m.email \in suppressed
  <2>1. PICK left : left = old.todo \ {m}
    OBVIOUS
  <2>2. PICK t : t = [old EXCEPT !.todo = left]
    OBVIOUS
  <2>3. /\ t \in Teller /\ t.at = "listed" /\ t.todo = left /\ t.queued = old.queued /\ t.always = old.always
        /\ t.ever = old.ever /\ t.free = old.free
    BY <1>3, <2>1, <2>2 DEF Teller
  <2>4. telling' = [telling EXCEPT ![c] = t]
    BY <1>2, <1>5, <1>9, <2>1, <2>2 DEF Notify!CheckSuppressed
  <2>5. old.always \subseteq Notify!Due(recipient, suppressed)
    BY <1>3, <1>5 DEF TellerIsSound
  <2>6. m \notin old.always
    BY <1>6, <1>9, <2>5, DueIsSubscribed
  <2>7. \A k \in t.always : k \in t.todo \/ \E n \in outbox \cup t.queued : n.id = k.id
    BY <1>3, <1>5, <2>1, <2>3, <2>6 DEF TellerIsSound
  <2>8. UniqueIds(t.todo \cup t.queued) /\ t.todo \cap t.queued = {}
    BY <1>5, <2>1, <2>3 DEF UniqueIds, TellerIsSound
  <2>9. TellerIsSound(t, recipient, suppressed, outbox)
    BY <1>3, <1>5, <2>1, <2>3, <2>7, <2>8 DEF TellerIsSound
  <2>10. t.at \notin {"found", "written"}
    BY <2>3
  <2>11. \A d \in Actors \ {c} : \A k \in t.queued, n \in telling[d].queued : k.id # n.id
    BY <1>7, <2>3
  <2>12. ~readdressed => \A k \in t.todo \cup t.queued : recipient[k.id].email = k.email
    BY <1>8, <2>1, <2>3
  <2> QED
    BY <1>1, <2>3, <2>4, <2>9, <2>10, <2>11, <2>12, OnlyTellerGoesOn
<1>10. CASE m.email \notin suppressed
  <2>1. PICK t : t = [old EXCEPT !.at = "checked"]
    OBVIOUS
  <2>2. /\ t \in Teller /\ t.at = "checked" /\ t.todo = old.todo /\ t.queued = old.queued /\ t.always = old.always
        /\ t.ever = old.ever /\ t.free = old.free
    BY <2>1 DEF Teller, Notify!Place
  <2>3. telling' = [telling EXCEPT ![c] = t]
    BY <1>2, <1>5, <1>10, <2>1 DEF Notify!CheckSuppressed
  <2>4. m.email \in old.free
    BY <1>3, <1>5, <1>10 DEF TellerIsSound, Notify!Message
  <2>5. t.todo # {} /\ FirstOf(t.todo).email \in t.free
    BY <1>3, <1>4, <2>2, <2>4
  <2>6. TellerIsSound(t, recipient, suppressed, outbox)
    BY <1>3, <1>5, <2>2, <2>5 DEF TellerIsSound
  <2>7. t.at \notin {"found", "written"}
    BY <2>2
  <2>8. \A d \in Actors \ {c} : \A k \in t.queued, n \in telling[d].queued : k.id # n.id
    BY <1>7, <2>2
  <2>9. ~readdressed => \A k \in t.todo \cup t.queued : recipient[k.id].email = k.email
    BY <1>8, <2>2
  <2> QED
    BY <1>1, <2>2, <2>3, <2>6, <2>7, <2>8, <2>9, OnlyTellerGoesOn
<1> QED
  BY <1>9, <1>10

LEMMA QueueKeepsRecipients ==
    ASSUME RecipientsInv, NEW c \in Actors, Notify!QueueMessage(c) PROVE RecipientsInv'
<1>1. UNCHANGED <<recipient, ids, suppressed, outbox, submitted, gone, readdressed>>
  BY DEF Notify!QueueMessage, Notify!unsent
<1>2. PICK old \in Teller : old = telling[c]
  BY DEF RecipientsInv, RecipientRows
<1>3. old.at = "checked"
  BY <1>2 DEF Notify!QueueMessage
<1>4. TellerIsSound(old, recipient, suppressed, outbox)
  BY <1>2 DEF RecipientsInv, TellersAreSound
<1>5. old.todo # {}
  BY <1>3, <1>4 DEF TellerIsSound
<1>6. PICK m : m = FirstOf(old.todo)
  OBVIOUS
<1>7. m \in old.todo /\ m \in Notify!Message /\ Notify!NextToTell(c) = m
  BY <1>2, <1>3, <1>5, <1>6, TellerHasNext
<1>8. \A d \in Actors \ {c} : \A n \in telling[d].queued : n.id # m.id
  BY <1>7 DEF Notify!QueueMessage
<1>9. PICK left, queue : /\ left = old.todo \ {m}
                         /\ queue = IF \E n \in outbox : n.id = m.id THEN old.queued ELSE old.queued \cup {m}
  OBVIOUS
<1>10. /\ left \subseteq old.todo /\ m \notin left /\ \A k \in old.todo : k \in left \/ k = m
       /\ old.queued \subseteq queue /\ \A k \in queue : k \in old.queued \/ k = m
       /\ (m \in queue => m \in old.queued \/ \A n \in outbox : n.id # m.id)
       /\ \E n \in outbox \cup queue : n.id = m.id
  BY <1>9
<1>11. left \subseteq Notify!Message /\ queue \subseteq Notify!Message
  BY <1>7, <1>10 DEF Teller
<1>12. PICK t : t = [old EXCEPT !.at = "listed", !.todo = left, !.queued = queue]
  OBVIOUS
<1>13. /\ t \in Teller /\ t.at = "listed" /\ t.todo = left /\ t.queued = queue /\ t.always = old.always
       /\ t.ever = old.ever /\ t.free = old.free
  BY <1>11, <1>12 DEF Teller, Notify!Place
<1>14. telling' = [telling EXCEPT ![c] = t]
  BY <1>2, <1>7, <1>9, <1>12 DEF Notify!QueueMessage
<1>15. m \notin old.queued /\ UniqueIds(old.todo \cup old.queued)
  BY <1>4, <1>7 DEF TellerIsSound
<1>16. UniqueIds(t.todo \cup t.queued) /\ t.todo \cap t.queued = {}
  <2>1. t.todo \cup t.queued \subseteq old.todo \cup old.queued
    BY <1>7, <1>10, <1>13
  <2>2. t.todo \cap t.queued = {}
    BY <1>4, <1>10, <1>13 DEF TellerIsSound
  <2> QED
    BY <1>15, <2>1, <2>2 DEF UniqueIds
<1>17. \A k \in t.always : k \in t.todo \/ \E n \in outbox \cup t.queued : n.id = k.id
  <2>1. SUFFICES ASSUME NEW k \in old.always PROVE k \in left \/ \E n \in outbox \cup queue : n.id = k.id
    BY <1>13
  <2>2. k \in old.todo \/ \E n \in outbox \cup old.queued : n.id = k.id
    BY <1>3, <1>4 DEF TellerIsSound
  <2> QED
    BY <1>10, <2>2
<1>18. t.todo \subseteq t.ever /\ \A k \in t.queued : k \in t.ever /\ k.email \in t.free
  <2>1. /\ old.todo \subseteq old.ever /\ m.email \in old.free
        /\ \A k \in old.queued : k \in old.ever /\ k.email \in old.free
    BY <1>3, <1>4, <1>6 DEF TellerIsSound
  <2> QED
    BY <1>7, <1>10, <1>13, <2>1
<1>19. \A k \in t.queued, n \in outbox : k.id # n.id
  <2>1. \A k \in old.queued, n \in outbox : k.id # n.id
    BY <1>4 DEF TellerIsSound
  <2> QED
    BY <1>10, <1>13, <1>15, <2>1
<1>20. t.always \subseteq Notify!Due(recipient, suppressed) /\ Notify!Due(recipient, {}) \subseteq t.ever
       /\ Addresses \ suppressed \subseteq t.free
  BY <1>3, <1>4, <1>13 DEF TellerIsSound
<1>21. TellerIsSound(t, recipient, suppressed, outbox)
  BY <1>13, <1>16, <1>17, <1>18, <1>19, <1>20 DEF TellerIsSound
<1>22. t.at \notin {"found", "written"}
  BY <1>13
<1>23. \A d \in Actors \ {c} : \A k \in t.queued, n \in telling[d].queued : k.id # n.id
  <2>1. \A d \in Actors \ {c} : \A k \in old.queued, n \in telling[d].queued : k.id # n.id
    BY <1>2 DEF RecipientsInv, QueuesApart
  <2> QED
    BY <1>8, <1>10, <1>13, <2>1
<1>24. ~readdressed => \A k \in t.todo \cup t.queued : recipient[k.id].email = k.email
  <2>1. ~readdressed => \A k \in old.todo \cup old.queued : recipient[k.id].email = k.email
    BY <1>2 DEF RecipientsInv, MessagesAreAddressed
  <2> QED
    BY <1>7, <1>10, <1>13, <2>1
<1> QED
  BY <1>1, <1>13, <1>14, <1>21, <1>22, <1>23, <1>24, OnlyTellerGoesOn

LEMMA CommitQueuedKeepsRecipients ==
    ASSUME RecipientsInv, NEW c \in Actors, Notify!CommitQueued(c) PROVE RecipientsInv'
<1>1. /\ recipient' = recipient /\ ids' = ids /\ suppressed' = suppressed /\ submitted' = submitted
      /\ gone' = gone /\ readdressed' = readdressed
  BY DEF Notify!CommitQueued, Notify!unsent
<1>2. telling' = [telling EXCEPT ![c] = Notify!IdleCall] /\ telling \in [Actors -> Teller]
  BY DEF Notify!CommitQueued, RecipientsInv, RecipientRows
<1>3. /\ telling' \in [Actors -> Teller] /\ telling'[c] = Notify!IdleCall
      /\ \A d \in Actors \ {c} : telling'[d] = telling[d]
  BY <1>2, IdleTeller
<1>4. PICK more : more = telling[c].queued
  OBVIOUS
<1>5. outbox' = outbox \cup more /\ more \subseteq Notify!Message
  BY <1>2, <1>4 DEF Notify!CommitQueued, Teller
<1>6. RecipientRows'
  BY <1>1, <1>3, <1>5 DEF RecipientsInv, RecipientRows
<1>7. AddedInOrder'
  BY <1>1 DEF RecipientsInv, AddedInOrder
<1>8. RowsAreSubmitted'
  BY <1>1, <1>3, IdleTeller DEF RecipientsInv, RowsAreSubmitted
<1>9. AddressesApart'
  <2>1. \A b \in Actors : telling'[b].at = "written" => telling'[b] = telling[b]
    BY <1>3, IdleTeller
  <2> QED
    BY <1>1, <2>1 DEF RecipientsInv, AddressesApart
<1>10. TellerIsSound(telling[c], recipient, suppressed, outbox)
  BY DEF RecipientsInv, TellersAreSound
<1>11. UniqueIds(more) /\ \A m \in more, n \in outbox : m.id # n.id
  BY <1>4, <1>10 DEF TellerIsSound, UniqueIds
<1>12. UniqueIds(outbox')
  <2>1. UniqueIds(outbox)
    BY DEF RecipientsInv, QueuesApart
  <2> QED
    BY <1>5, <1>11, <2>1 DEF UniqueIds
<1>13. ASSUME NEW d \in Actors PROVE TellerIsSound(telling'[d], recipient', suppressed', outbox')
  <2>1. CASE d = c
    BY <1>3, <2>1, IdleTeller, IdleIsSound
  <2>2. CASE d # c
    <3>1. PICK t : t = telling[d]
      OBVIOUS
    <3>2. TellerIsSound(t, recipient, suppressed, outbox) /\ telling'[d] = t
      BY <1>3, <2>2, <3>1 DEF RecipientsInv, TellersAreSound
    <3>3. \A m \in t.queued, n \in more : m.id # n.id
      BY <1>4, <2>2, <3>1 DEF RecipientsInv, QueuesApart
    <3>4. \A m \in t.queued, n \in outbox' : m.id # n.id
      BY <1>5, <3>2, <3>3 DEF TellerIsSound
    <3>5. t.at \in {"listed", "checked"} =>
            \A m \in t.always : m \in t.todo \/ \E n \in outbox' \cup t.queued : n.id = m.id
      BY <1>5, <3>2 DEF TellerIsSound
    <3>6. TellerIsSound(t, recipient, suppressed, outbox')
      BY <3>2, <3>4, <3>5 DEF TellerIsSound
    <3> QED
      BY <1>1, <3>2, <3>6
  <2> QED
    BY <2>1, <2>2
<1>14. TellersAreSound'
  BY <1>13 DEF TellersAreSound
<1>15. \A d \in Actors : telling'[d].todo \subseteq telling[d].todo /\ telling'[d].queued \subseteq telling[d].queued
  BY <1>3, IdleTeller
<1>16. QueuesApart'
  BY <1>12, <1>15 DEF RecipientsInv, QueuesApart
<1>17. MessagesAreAddressed'
  BY <1>1, <1>4, <1>5, <1>15 DEF RecipientsInv, MessagesAreAddressed
<1> QED
  BY <1>6, <1>7, <1>8, <1>9, <1>14, <1>16, <1>17 DEF RecipientsInv

LEMMA DeliverKeepsRecipients == ASSUME RecipientsInv, Notify!Deliver PROVE RecipientsInv'
<1>1. ASSUME NEW c \in Actors, Notify!RollBack(c) PROVE RecipientsInv'
  <2>1. /\ telling' = [telling EXCEPT ![c] = Notify!IdleCall]
        /\ UNCHANGED <<recipient, ids, suppressed, outbox, submitted, gone, readdressed>>
    BY <1>1 DEF Notify!RollBack, Notify!unsent
  <2> QED
    BY <2>1, IdleKeepsRecipients
<1>2. ASSUME NEW c \in Actors,
             \/ Notify!SaveRecipient(c) \/ Notify!UpsertRecipient(c) \/ Notify!CommitRecipient(c)
             \/ Notify!DeleteRecipient(c) \/ Notify!EnqueueForSite(c) \/ Notify!ListRecipients(c)
             \/ Notify!CheckSuppressed(c) \/ Notify!QueueMessage(c) \/ Notify!CommitQueued(c) \/ Notify!RollBack(c)
      PROVE  RecipientsInv'
  BY <1>1, <1>2, SaveKeepsRecipients, UpsertKeepsRecipients, CommitKeepsRecipients, DeleteKeepsRecipients,
     EnqueueKeepsRecipients, ListKeepsRecipients, CheckKeepsRecipients, QueueKeepsRecipients,
     CommitQueuedKeepsRecipients
<1>3. ASSUME NEW email \in Addresses, Notify!Suppress(email) \/ Notify!LiftSuppression(email) PROVE RecipientsInv'
  BY <1>3, SuppressionsKeepRecipients
<1> QED
  BY <1>2, <1>3 DEF Notify!Deliver

LEMMA FirstRecipientIsSaved == Notify!FirstRecipient \in Notify!Recipient
<1>1. (CHOOSE a \in Addresses : TRUE) \in Addresses
  BY NotificationFacts
<1> QED
  BY <1>1 DEF Notify!FirstRecipient, Notify!Recipient

LEMMA RecipientsBegin == Notify!Init => RecipientsInv
<1> SUFFICES ASSUME Notify!Init PROVE RecipientsInv
  OBVIOUS
<1>1. /\ recipient = [i \in Notify!Ids |-> IF i = 1 THEN Notify!FirstRecipient ELSE Notify!NoRecipient] /\ ids = 1
      /\ suppressed = {} /\ outbox = {} /\ telling = [c \in Actors |-> Notify!IdleCall]
      /\ submitted = [i \in Notify!Ids |-> IF i = 1 THEN {Notify!FirstRecipient} ELSE {}] /\ gone = {}
      /\ readdressed = FALSE
  BY DEF Notify!Init
<1>2. telling \in [Actors -> Teller] /\ \A c \in Actors : telling[c] = Notify!IdleCall
  BY <1>1, IdleTeller
<1>3. RecipientRows
  <2>1. ids \in 0 .. MaxRecipients
    BY <1>1, NotificationFacts
  <2> QED
    BY <1>1, <1>2, <2>1, FirstRecipientIsSaved DEF RecipientRows
<1>4. AddedInOrder /\ RowsAreSubmitted
  <2>1. \A i \in Notify!Ids : recipient[i] # Notify!NoRecipient => i <= ids
    BY <1>1, NotificationFacts
  <2>2. \A i \in Notify!Ids : recipient[i] \in submitted[i] \cup {Notify!NoRecipient}
    BY <1>1
  <2> QED
    BY <1>1, <1>2, <2>1, <2>2, IdleTeller DEF AddedInOrder, RowsAreSubmitted
<1>5. AddressesApart
  <2>1. Notify!FirstRecipient.email # 0
    BY FirstRecipientIsSaved, NotificationFacts
  <2>2. \A i, j \in Notify!Ids :
            i # j /\ recipient[i].email = recipient[j].email => recipient[i] = Notify!NoRecipient
    BY <1>1, <2>1, NotificationFacts
  <2> QED
    BY <1>2, <2>2, IdleTeller DEF AddressesApart
<1>6. TellersAreSound
  BY <1>2, IdleTeller, IdleIsSound DEF TellersAreSound
<1>7. QueuesApart /\ MessagesAreAddressed
  BY <1>1, <1>2, IdleTeller DEF QueuesApart, MessagesAreAddressed, UniqueIds
<1> QED
  BY <1>3, <1>4, <1>5, <1>6, <1>7 DEF RecipientsInv

--------------------------------------------------------------------------------
(* Notifications: settings.  What a form is about to store is what it was      *)
(* given and, for what was left blank, what is stored.                        *)

Form == [open : BOOLEAN, key : Notify!Secrets, token : Notify!Secrets, newKey : BOOLEAN, newToken : BOOLEAN]

FormKeeps(f) ==
    /\ ~f.newKey => f.key = configuration.key
    /\ ~f.newToken => f.token = configuration.token

SettingsInv ==
    /\ configuration \in [key : Notify!Secrets, token : Notify!Secrets]
    /\ entered \in [key : Notify!Secrets, token : Notify!Secrets]
    /\ form \in [Actors -> Form] /\ doubled \in BOOLEAN
    /\ ~doubled => configuration = entered /\ \A c \in Actors : form[c].open => FormKeeps(form[c])

LEMMA LatestIsEntered == SettingsInv => Notify!Latest \in Notify!Secrets
<1> SUFFICES ASSUME SettingsInv PROVE Notify!Latest \in Notify!Secrets
  OBVIOUS
<1>1. MaxSecrets \in Nat
  BY NotificationFacts
<1>2. entered.key \in Notify!Secrets /\ entered.token \in Notify!Secrets
  BY DEF SettingsInv
<1>3. PICK all : all = {entered.key, entered.token}
  OBVIOUS
<1>4. \E s \in all : \A t \in all : t <= s
  <2>1. entered.key \in Nat /\ entered.token \in Nat
    BY <1>1, <1>2 DEF Notify!Secrets
  <2>2. CASE entered.key <= entered.token
    BY <1>3, <2>1, <2>2
  <2>3. CASE ~(entered.key <= entered.token)
    BY <1>3, <2>1, <2>3
  <2> QED
    BY <2>2, <2>3
<1>5. Notify!Latest = CHOOSE s \in all : \A t \in all : t <= s
  BY <1>3 DEF Notify!Latest
<1>6. Notify!Latest \in all
  BY <1>4, <1>5
<1> QED
  BY <1>2, <1>3, <1>6

LEMMA ReadProviderKeepsSettings ==
    ASSUME SettingsInv, NEW c \in Actors, Notify!ReadProvider(c) PROVE SettingsInv'
<1>1. PICK newKey \in BOOLEAN, newToken \in BOOLEAN :
          form' = [form EXCEPT ![c] = [open |-> TRUE, newKey |-> newKey, newToken |-> newToken,
                      key |-> Notify!Kept(configuration.key, Notify!Latest + 1, newKey),
                      token |-> Notify!Kept(configuration.token, Notify!Latest + 1, newToken)]]
  BY DEF Notify!ReadProvider
<1>2. Notify!Latest + 1 \in Notify!Secrets
  <2>1. Notify!Latest \in 0 .. MaxSecrets /\ Notify!Latest < MaxSecrets /\ MaxSecrets \in Nat
    BY LatestIsEntered, NotificationFacts DEF Notify!ReadProvider, Notify!Secrets
  <2> QED
    BY <2>1 DEF Notify!Secrets
<1>3. PICK s : s = Notify!Latest + 1
  OBVIOUS
<1>4. PICK f : f = [open |-> TRUE, newKey |-> newKey, newToken |-> newToken,
                    key |-> IF newKey THEN s ELSE configuration.key,
                    token |-> IF newToken THEN s ELSE configuration.token]
  OBVIOUS
<1>5. form' = [form EXCEPT ![c] = f]
  BY <1>1, <1>3, <1>4 DEF Notify!Kept
<1>6. configuration.key \in Notify!Secrets /\ configuration.token \in Notify!Secrets /\ s \in Notify!Secrets
  BY <1>2, <1>3 DEF SettingsInv
<1>7. f \in Form /\ (~f.newKey => f.key = configuration.key) /\ (~f.newToken => f.token = configuration.token)
  BY <1>4, <1>6 DEF Form
<1>8. configuration' = configuration /\ entered' = entered /\ doubled' = doubled
  BY DEF Notify!ReadProvider
<1>9. form' \in [Actors -> Form] /\ form'[c] = f /\ \A d \in Actors \ {c} : form'[d] = form[d]
  BY <1>5, <1>7 DEF SettingsInv
<1>10. ~doubled => \A d \in Actors : form'[d].open => FormKeeps(form'[d])
  BY <1>7, <1>9 DEF SettingsInv, FormKeeps
<1>11. ~doubled' => configuration' = entered' /\ \A d \in Actors : form'[d].open => FormKeeps(form[d])'
  BY <1>8, <1>10 DEF SettingsInv, FormKeeps
<1> QED
  BY <1>8, <1>9, <1>11 DEF SettingsInv

LEMMA WriteProviderKeepsSettings ==
    ASSUME SettingsInv, NEW c \in Actors, Notify!WriteProvider(c) PROVE SettingsInv'
<1>1. PICK f \in Form : f = form[c]
  BY DEF SettingsInv
<1>2. /\ f.open /\ configuration' = [key |-> f.key, token |-> f.token]
      /\ entered' = [key |-> IF f.newKey THEN f.key ELSE entered.key,
                     token |-> IF f.newToken THEN f.token ELSE entered.token]
      /\ doubled' = (doubled \/ \E d \in Actors \ {c} : form[d].open)
      /\ form' = [form EXCEPT ![c] = Notify!Closed]
  BY <1>1 DEF Notify!WriteProvider
<1>3. entered.key \in Notify!Secrets /\ entered.token \in Notify!Secrets
  BY DEF SettingsInv
<1>4. configuration' \in [key : Notify!Secrets, token : Notify!Secrets]
      /\ entered' \in [key : Notify!Secrets, token : Notify!Secrets]
  BY <1>2, <1>3 DEF Form
<1>5. Notify!Closed \in Form /\ Notify!Closed.open = FALSE
  BY NotificationFacts DEF Form, Notify!Closed, Notify!Secrets
<1>6. form' \in [Actors -> Form] /\ form'[c].open = FALSE /\ \A d \in Actors \ {c} : form'[d] = form[d]
  BY <1>2, <1>5 DEF SettingsInv
<1>7. doubled' \in BOOLEAN
  BY <1>2 DEF SettingsInv
<1>8. ASSUME ~doubled' PROVE configuration' = entered' /\ \A d \in Actors : form'[d].open = FALSE
  <2>1. ~doubled /\ \A d \in Actors \ {c} : ~form[d].open
    BY <1>2, <1>8
  <2>2. configuration = entered /\ FormKeeps(f)
    BY <1>1, <1>2, <2>1 DEF SettingsInv
  <2>3. configuration' = entered'
    BY <1>2, <2>2 DEF FormKeeps
  <2>4. \A d \in Actors \ {c} : form[d].open = FALSE
    BY <2>1 DEF SettingsInv, Form
  <2> QED
    BY <1>6, <2>3, <2>4
<1>9. ~doubled' => \A d \in Actors : form'[d].open => FormKeeps(form[d])'
  BY <1>8
<1> QED
  BY <1>4, <1>6, <1>7, <1>8, <1>9 DEF SettingsInv

LEMMA SettingsBegin == Notify!Init => SettingsInv
<1> SUFFICES ASSUME Notify!Init PROVE SettingsInv
  OBVIOUS
<1>1. /\ configuration = [key |-> 0, token |-> 0] /\ entered = [key |-> 0, token |-> 0]
      /\ form = [c \in Actors |-> Notify!Closed] /\ doubled = FALSE
  BY DEF Notify!Init
<1>2. 0 \in Notify!Secrets
  BY NotificationFacts DEF Notify!Secrets
<1>3. Notify!Closed \in Form /\ Notify!Closed.open = FALSE
  BY <1>2 DEF Form, Notify!Closed
<1> QED
  BY <1>1, <1>2, <1>3 DEF SettingsInv

--------------------------------------------------------------------------------

NotificationsInv == part \in {"recipients", "settings"} => RecipientsInv /\ SettingsInv

LEMMA NotificationsKept ==
    /\ Init => NotificationsInv
    /\ NotificationsInv /\ [Next]_vars => NotificationsInv'
<1>1. Init => NotificationsInv
  BY RecipientsBegin, SettingsBegin DEF Init, NotificationsInv
<1>2. ASSUME NotificationsInv, [Next]_vars, part' \in {"recipients", "settings"} PROVE RecipientsInv' /\ SettingsInv'
  <2>1. part' = part
    BY <1>2 DEF Next, vars
  <2>2. RecipientsInv /\ SettingsInv
    BY <1>2, <2>1 DEF NotificationsInv
  <2>3. ASSUME UNCHANGED <<recipient, ids, suppressed, outbox, telling, submitted, gone, readdressed>>
        PROVE  RecipientsInv'
    BY <2>2, <2>3 DEF RecipientsInv, RecipientRows, AddedInOrder, RowsAreSubmitted, AddressesApart,
       TellersAreSound, QueuesApart, MessagesAreAddressed
  <2>4. ASSUME UNCHANGED <<configuration, form, entered, doubled>> PROVE SettingsInv'
    BY <2>2, <2>4 DEF SettingsInv, FormKeeps
  <2>5. CASE Notify!Deliver
    <3>1. UNCHANGED <<configuration, form, entered, doubled>>
      BY <2>5 DEF Notify!Deliver, Notify!SaveRecipient, Notify!UpsertRecipient, Notify!CommitRecipient,
         Notify!DeleteRecipient, Notify!EnqueueForSite, Notify!ListRecipients, Notify!CheckSuppressed,
         Notify!QueueMessage, Notify!CommitQueued, Notify!RollBack, Notify!Suppress, Notify!LiftSuppression,
         Notify!unsent, Notify!settings
    <3> QED
      BY <2>2, <2>4, <2>5, <3>1, DeliverKeepsRecipients
  <2>6. CASE Notify!Configure
    <3>1. UNCHANGED <<recipient, ids, suppressed, outbox, telling, submitted, gone, readdressed>>
      BY <2>6 DEF Notify!Configure, Notify!ReadProvider, Notify!WriteProvider, Notify!delivery
    <3> QED
      BY <2>2, <2>3, <2>6, <3>1, ReadProviderKeepsSettings, WriteProviderKeepsSettings DEF Notify!Configure
  <2>7. CASE UNCHANGED notifications
    <3>1. UNCHANGED <<recipient, ids, suppressed, outbox, telling, submitted, gone, readdressed>>
      BY <2>7 DEF notifications
    <3>2. UNCHANGED <<configuration, form, entered, doubled>>
      BY <2>7 DEF notifications
    <3> QED
      BY <2>3, <2>4, <3>1, <3>2
  <2> QED
    BY <1>2, <2>5, <2>6, <2>7 DEF Next, vars
<1> QED
  BY <1>1, <1>2 DEF NotificationsInv

\* For any recipients, addresses and categories and any number of calls under way: a
\* recipient is as one save left it, who was due a message all the while is told, once, and
\* nobody who was subscribed at no moment, and key and token are those entered last unless two
\* administrators saved at once (NotificationService, EmailConfigurationService).
THEOREM NotificationsAreSound == Spec => []NotificationsSound
<1>1. ASSUME RecipientsInv, SettingsInv PROVE Notify!NotificationsSound
  <2>1. Notify!NotificationTypeOK
    BY <1>1 DEF RecipientsInv, RecipientRows, SettingsInv, Teller, Notify!NotificationTypeOK
  <2>2. Notify!RecipientsAreWhole
    BY <1>1 DEF RecipientsInv, RowsAreSubmitted, AddressesApart, AddedInOrder, Notify!RecipientsAreWhole
  <2>3. Notify!ToldAsWished
    BY <1>1 DEF RecipientsInv, TellersAreSound, TellerIsSound, Notify!ToldAsWished
  <2>4. Notify!ToldOnce
    <3>1. SUFFICES ASSUME NEW m \in outbox, NEW n \in outbox, m # n
                   PROVE  m.id # n.id /\ (m.email = n.email => readdressed)
      BY DEF Notify!ToldOnce
    <3>2. m.id # n.id
      BY <1>1, <3>1 DEF RecipientsInv, QueuesApart, UniqueIds
    <3>3. ASSUME m.email = n.email, ~readdressed PROVE FALSE
      <4>1. m \in Notify!Message /\ n \in Notify!Message
        BY <1>1 DEF RecipientsInv, RecipientRows
      <4>2. recipient[m.id].email = m.email /\ recipient[n.id].email = n.email
        BY <1>1, <3>3 DEF RecipientsInv, MessagesAreAddressed
      <4>3. m.id \in Notify!Ids /\ n.id \in Notify!Ids /\ m.email # 0
        BY <4>1, NotificationFacts DEF Notify!Message
      <4>4. recipient[m.id] = Notify!NoRecipient
        BY <1>1, <3>2, <3>3, <4>2, <4>3 DEF RecipientsInv, AddressesApart
      <4> QED
        BY <4>2, <4>3, <4>4, NotificationFacts
    <3>4. readdressed \in BOOLEAN
      BY <1>1 DEF RecipientsInv, RecipientRows
    <3> QED
      BY <3>2, <3>3, <3>4
  <2>5. Notify!SecretsAreKept
    BY <1>1 DEF SettingsInv, Notify!SecretsAreKept, Notify!Accepts
  <2> QED
    BY <2>1, <2>2, <2>3, <2>4, <2>5 DEF Notify!NotificationsSound
<1>2. NotificationsInv => NotificationsSound
  BY <1>1 DEF NotificationsInv, NotificationsSound
<1> QED
  BY <1>2, NotificationsKept, PTL DEF Spec
=============================================================================
