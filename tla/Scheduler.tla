------------------------------- MODULE Scheduler -------------------------------
(* The persisted schedules of the automation engine and the two things every  *)
(* automation worker does between jobs: registering missing schedules (the    *)
(* ensure* methods of SchedulerService) and tick, which enqueues what is due. *)
(* Several workers do so at once and none holds a lock between statements.    *)
EXTENDS Naturals, FiniteSets

CONSTANTS
    Workers,        \* automation worker processes
    Schedules,      \* the ids system:<name>[:<site>] that are registered
    Interval,       \* interval_seconds, in ticks of the clock
    Limit,          \* schedules a tick takes at most
    MaxClock        \* bound: the clock

SchedulerAssumption ==
    /\ {Interval, Limit, MaxClock} \subseteq Nat
    /\ Interval > 0 /\ Limit > 0

Times == 0 .. MaxClock + Interval

VARIABLES
    clock,
    schedule,       \* automation_schedules by id
    jobs,           \* the jobs enqueued: idempotency key (schedule, due at) and time
    worker,         \* where each worker is, and the time it works with
    registeredTwice \* ghost: schedules a second registration wrote over

vars == <<clock, schedule, jobs, worker, registeredTwice>>

Row == [present : BOOLEAN, next : Times]

NoRow == [present |-> FALSE, next |-> 0]

Job == [schedule : Schedules, due : Times, at : Times]

\* A worker at "save" has found no row for the schedule it is about to register.
Worker == [at : {"idle", "save", "tick"}, schedule : SUBSET Schedules, time : Times]

IdleWorker == [at |-> "idle", schedule |-> {}, time |-> 0]

--------------------------------------------------------------------------------

Goto(w, r) == worker' = [worker EXCEPT ![w] = r]

\* The ensure* methods: a schedule that is there is left alone.
FindSchedule(w) ==
    /\ worker[w].at = "idle"
    /\ \E s \in Schedules :
          /\ ~schedule[s].present
          /\ Goto(w, [at |-> "save", schedule |-> {s}, time |-> clock])
    /\ UNCHANGED <<clock, schedule, jobs, registeredTwice>>

\* Mutant: a new schedule is due after its first period.
FirstRunLater(time) == time + Interval

\* Mutant: a new schedule is never due.
FirstRunNever(time) == MaxClock + Interval + 1

\* The first run of a schedule is due at once.
FirstRun(time) == time

\* The repository's upsert writes every field given but last_enqueued_at.
Upsert(s, next) == schedule' = [schedule EXCEPT ![s] = [present |-> TRUE, next |-> next]]

\* save: an upsert that sets next_run_at whether or not the row is new.
SaveSchedule(w) ==
    /\ worker[w].at = "save"
    /\ \E s \in worker[w].schedule :
          /\ Upsert(s, FirstRun(worker[w].time))
          /\ registeredTwice' = IF schedule[s].present THEN registeredTwice \cup {s} ELSE registeredTwice
    /\ Goto(w, IdleWorker)
    /\ UNCHANGED <<clock, jobs>>

\* tick fixes its time before it reaches the database.
BeginTick(w) ==
    /\ worker[w].at = "idle"
    /\ Goto(w, [at |-> "tick", schedule |-> {}, time |-> clock])
    /\ UNCHANGED <<clock, schedule, jobs, registeredTwice>>

Due(s, time) == schedule[s].present /\ schedule[s].next <= time

\* listDueSchedulesForUpdate: the rows due longest, locked until the commit.  A
\* tick that meets locked rows skips them, one that waits sees what was written.
Claimable(time) ==
    {batch \in SUBSET {s \in Schedules : Due(s, time)} :
        /\ Cardinality(batch) <= Limit
        /\ \A s \in Schedules \ batch :
              Due(s, time) => /\ Cardinality(batch) = Limit
                              /\ \A b \in batch : schedule[b].next <= schedule[s].next}

\* Mutant: one key for every run of a schedule.
KeyWithoutTime(s, due) == <<s>>

\* The idempotency key schedule:<id>:<due-at> of a job.
Key(s, due) == <<s, due>>

HasJob(s, due) == \E j \in jobs : Key(j.schedule, j.due) = Key(s, due)

\* Mutant: the next run is set by the time the tick started from, without a period.
NextRunAtOnce(time) == time

\* next_run_at after a run that was enqueued at the given time.
NextRun(time) == time + Interval

\* One transaction: every claimed row gets its job, unless the key is taken, and
\* its next run.
Tick(w) ==
    LET time == worker[w].time IN
    /\ worker[w].at = "tick"
    /\ \E batch \in Claimable(time) :
          /\ jobs' = jobs \cup {[schedule |-> s, due |-> schedule[s].next, at |-> time] :
                                  s \in {b \in batch : ~HasJob(b, schedule[b].next)}}
          /\ schedule' = [s \in Schedules |->
                            IF s \in batch THEN [schedule[s] EXCEPT !.next = NextRun(time)] ELSE schedule[s]]
    /\ Goto(w, IdleWorker)
    /\ UNCHANGED <<clock, registeredTwice>>

\* The process ends between two statements; an open transaction rolls back.
Crash(w) ==
    /\ worker[w].at # "idle"
    /\ Goto(w, IdleWorker)
    /\ UNCHANGED <<clock, schedule, jobs, registeredTwice>>

TimePasses ==
    /\ clock < MaxClock
    /\ clock' = clock + 1
    /\ UNCHANGED <<schedule, jobs, worker, registeredTwice>>

Init ==
    /\ clock = 0
    /\ schedule = [s \in Schedules |-> NoRow]
    /\ jobs = {}
    /\ worker = [w \in Workers |-> IdleWorker]
    /\ registeredTwice = {}

Step(w) == FindSchedule(w) \/ SaveSchedule(w) \/ BeginTick(w) \/ Tick(w) \/ Crash(w)

Next == TimePasses \/ \E w \in Workers : Step(w)

Spec == Init /\ [][Next]_vars

--------------------------------------------------------------------------------
(* What the scheduler promises *)

\* Rows, jobs and workers have the shape of their tables and loops.
SchedulesTypeOK ==
    /\ clock \in 0 .. MaxClock
    /\ schedule \in [Schedules -> Row]
    /\ jobs \subseteq Job
    /\ worker \in [Workers -> Worker]
    /\ registeredTwice \subseteq Schedules

\* However many workers tick, and however late, two jobs of one schedule are a
\* whole period apart, unless a worker registered a schedule another had made.
PeriodsApart ==
    \A j, k \in jobs :
        j # k /\ j.schedule = k.schedule /\ j.schedule \notin registeredTwice =>
            j.at + Interval <= k.at \/ k.at + Interval <= j.at

\* No period is lost: a schedule is due one interval after its last job.
NextFollowsLast ==
    \A s \in Schedules :
        schedule[s].present /\ s \notin registeredTwice /\ (\E j \in jobs : j.schedule = s) =>
            \E j \in jobs : j.schedule = s /\ schedule[s].next = j.at + Interval

\* A schedule runs once a period, no more and no less, under any number of ticks.
OncePerPeriod == SchedulesTypeOK /\ PeriodsApart /\ NextFollowsLast

\* What is due stays due until the run it is due for has its job, whatever other
\* workers register, enqueue or leave half done in between.
StaysDue ==
    \A s \in Schedules :
        Due(s, clock) =>
            Due(s, clock)' \/ (\E j \in jobs' : j.schedule = s /\ j.due = schedule[s].next)

DueUntilEnqueued == [][StaysDue]_vars

================================================================================
