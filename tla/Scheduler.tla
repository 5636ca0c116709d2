----------------------------- MODULE Scheduler -----------------------------
(***************************************************************************)
(* The daemon's job scheduler (internal/scheduler/scheduler.go) together   *)
(* with the life of the process around it (cmd/.../main.go): cron ticks    *)
(* and manual triggers start runJob goroutines, the `running` map excludes *)
(* two runs of one job NAME, a panicking step becomes an error, Stop waits *)
(* for the runs cron dispatched and then the process exits, taking the     *)
(* manually triggered runs with it.                                        *)
(***************************************************************************)
EXTENDS Naturals, FiniteSets

CONSTANTS
    Names,       \* job names; the key of Scheduler.running and .status
    CronJobs,    \* entries of config.scheduler.jobs that AddJob accepted
    ManualJobs,  \* the "manual:"+step jobs main.go builds for MCP triggers
    NameOf,      \* NameOf[j]: the name of job j (config names may repeat)
    Runs,        \* goroutine slots: bound on simultaneous runJob calls
    MaxStarts,   \* bound on the runJob calls of a behaviour
    NoJob, NoRun, NoStatus

Jobs == CronJobs \cup ManualJobs

ASSUME JobsNamed == NameOf \in [Jobs -> Names]
ASSUME StartsBound == MaxStarts \in Nat
ASSUME Sentinels == /\ NoJob \notin Jobs
                    /\ NoRun \notin Runs
                    /\ NoStatus \notin [start : Nat, outcome : {"ok", "error"}]

VARIABLES
    daemon,    \* "up" | "stopping" (inside Stop) | "exited"
    running,   \* the names for which Scheduler.running holds true
    status,    \* Scheduler.status
    run,       \* run[r]: the goroutine's progress through runJob
    clock,     \* time.Now() as seen by the runs: one tick per started run
    budget     \* runJob calls left in this behaviour (a bound, not code)

vars == <<daemon, running, status, run, clock, budget>>

Outcomes == {"ok", "error"}

NewRun(pc, j, t) == [pc |-> pc, job |-> j, start |-> t, outcome |-> "ok"]

IdleRun == NewRun("idle", NoJob, 0)

\* The points of runJob at which the goroutine owns its job name.
Owning == {"stepping", "returned", "recorded"}

Init ==
    /\ daemon = "up"
    /\ running = {}
    /\ status = [n \in Names |-> NoStatus]
    /\ run = [r \in Runs |-> IdleRun]
    /\ clock = 0
    /\ budget = MaxStarts

Dispatch(r, j) ==
    /\ run[r].pc = "idle"
    /\ budget > 0
    /\ budget' = budget - 1
    /\ run' = [run EXCEPT ![r] = NewRun("dispatched", j, 0)]
    /\ UNCHANGED <<daemon, running, status, clock>>

\* A schedule fires: cron starts the AddFunc closure on a goroutine of its own.
CronTick(r, j) ==
    /\ daemon = "up"
    /\ j \in CronJobs
    /\ Dispatch(r, j)

\* MCP trigger_pipeline.  The server is not shut down by Stop, so a trigger
\* is accepted until the process exits.  A cancelled request or an
\* unregistered step returns an error and starts nothing.
TriggerStep(r, j) ==
    /\ daemon # "exited"
    /\ j \in ManualJobs
    /\ Dispatch(r, j)

\* Mutant of SkipRun: the early return does not count as the end of the run.
SkipRunUncounted(r) ==
    /\ run[r].pc = "dispatched"
    /\ NameOf[run[r].job] \in running
    /\ run' = [run EXCEPT ![r].pc = "skipped"]
    /\ UNCHANGED <<daemon, running, status, clock, budget>>

\* The name is already running: this trigger is dropped.
SkipRun(r) ==
    /\ run[r].pc = "dispatched"
    /\ NameOf[run[r].job] \in running
    /\ run' = [run EXCEPT ![r] = IdleRun]
    /\ UNCHANGED <<daemon, running, status, clock, budget>>

\* Mutant of ClaimRun: the running check is lost.
ClaimRunUnchecked(r) ==
    /\ run[r].pc = "dispatched"
    /\ running' = running \cup {NameOf[run[r].job]}
    /\ clock' = clock + 1
    /\ run' = [run EXCEPT ![r] = NewRun("stepping", run[r].job, clock + 1)]
    /\ UNCHANGED <<daemon, status, budget>>

\* Test and set of running[name] under the mutex, then start := time.Now().
ClaimRun(r) ==
    /\ run[r].pc = "dispatched"
    /\ NameOf[run[r].job] \notin running
    /\ running' = running \cup {NameOf[run[r].job]}
    /\ clock' = clock + 1
    /\ run' = [run EXCEPT ![r] = NewRun("stepping", run[r].job, clock + 1)]
    /\ UNCHANGED <<daemon, status, budget>>

\* runStep: a panicking step becomes an error, so runJob goes on after it.
Recovered(result) == IF result = "panic" THEN "error" ELSE result

\* Mutant of StepEnds: a failed step returns early, past the release.
StepEndsEarlyReturn(r, result) ==
    /\ run[r].pc = "stepping"
    /\ run' = [run EXCEPT ![r] = IF result = "ok"
                                 THEN [@ EXCEPT !.pc = "returned"] ELSE IdleRun]
    /\ UNCHANGED <<daemon, running, status, clock, budget>>

\* Mutant of StepEnds: the name is released before the status is written.
StepEndsReleasing(r, result) ==
    /\ run[r].pc = "stepping"
    /\ running' = running \ {NameOf[run[r].job]}
    /\ run' = [run EXCEPT ![r].pc = "returned", ![r].outcome = Recovered(result)]
    /\ UNCHANGED <<daemon, status, clock, budget>>

\* The step function returns or panics, at the latest with the error its
\* one-hour context makes it return.
StepEnds(r, result) ==
    /\ run[r].pc = "stepping"
    /\ run' = [run EXCEPT ![r].pc = "returned", ![r].outcome = Recovered(result)]
    /\ UNCHANGED <<daemon, running, status, clock, budget>>

RecordStatus(r) ==
    /\ run[r].pc = "returned"
    /\ status' = [status EXCEPT ![NameOf[run[r].job]] =
                     [start |-> run[r].start, outcome |-> run[r].outcome]]
    /\ run' = [run EXCEPT ![r].pc = "recorded"]
    /\ UNCHANGED <<daemon, running, clock, budget>>

\* The deferred delete(running, name), the last thing runJob does.
ReleaseRun(r) ==
    /\ run[r].pc = "recorded"
    /\ running' = running \ {NameOf[run[r].job]}
    /\ run' = [run EXCEPT ![r] = IdleRun]
    /\ UNCHANGED <<daemon, status, clock, budget>>

\* SIGINT or SIGTERM: cron.Stop() stops the ticks; Stop waits in <-ctx.Done().
BeginStop ==
    /\ daemon = "up"
    /\ daemon' = "stopping"
    /\ UNCHANGED <<running, status, run, clock, budget>>

\* Mutant of CronRunLive: Stop waits for nobody.
NobodyWaitedFor == FALSE

CronRunLive == \E r \in Runs : run[r].job \in CronJobs

\* Every run cron dispatched has returned: Stop returns, main returns, and
\* the goroutines still alive (all started by TriggerStep) end with it.
Exit ==
    /\ daemon = "stopping"
    /\ ~CronRunLive
    /\ daemon' = "exited"
    /\ running' = {}
    /\ run' = [r \in Runs |-> IdleRun]
    /\ UNCHANGED <<status, clock, budget>>

\* The container restarts (compose.yml: restart: unless-stopped) and run()
\* builds a new Scheduler with empty maps.
Restart ==
    /\ daemon = "exited"
    /\ daemon' = "up"
    /\ status' = [n \in Names |-> NoStatus]
    /\ UNCHANGED <<running, run, clock, budget>>

RunSteps(r) ==
    \/ SkipRun(r)
    \/ ClaimRun(r)
    \/ \E result \in Outcomes \cup {"panic"} : StepEnds(r, result)
    \/ RecordStatus(r)
    \/ ReleaseRun(r)

Next ==
    \/ \E r \in Runs, j \in CronJobs : CronTick(r, j)
    \/ \E r \in Runs, j \in ManualJobs : TriggerStep(r, j)
    \/ \E r \in Runs : RunSteps(r)
    \/ BeginStop
    \/ Exit
    \/ Restart

\* Goroutines are scheduled and a step returns at the latest when its
\* one-hour context ends, so a run never rests; a stopped daemon does exit.
\* Ticks, triggers, signals and restarts are the environment's choice.
Fairness == /\ \A r \in Runs : WF_vars(RunSteps(r))
            /\ WF_vars(Exit)

Spec == Init /\ [][Next]_vars /\ Fairness

-----------------------------------------------------------------------------
RunState == [pc : {"idle", "dispatched"} \cup Owning,
             job : Jobs \cup {NoJob}, start : Nat, outcome : Outcomes]

\* Type invariant of the scheduler's state.
TypeOK ==
    /\ daemon \in {"up", "stopping", "exited"}
    /\ running \in SUBSET Names
    /\ status \in [Names -> [start : Nat, outcome : Outcomes] \cup {NoStatus}]
    /\ run \in [Runs -> RunState]
    /\ clock \in Nat
    /\ budget \in Nat

\* Single flight: two goroutines never execute a step under the same job
\* name at once, whatever mix of ticks, triggers, panics and restarts led
\* there (runJob's running check, scheduler.go:113-120).
SingleFlight ==
    \A r, s \in Runs :
        run[r].pc \in Owning /\ run[s].pc \in Owning
        /\ NameOf[run[r].job] = NameOf[run[s].job] => r = s

\* A name is marked running exactly while some goroutine owns it: no early
\* return, error or panic leaves a job blocked for the life of the process,
\* and none frees the name of a run still in progress (scheduler.go:121-125).
RunningIsOwned ==
    running = {NameOf[run[r].job] : r \in {q \in Runs : run[q].pc \in Owning}}

\* The status table never goes back in time: a run that started earlier never
\* overwrites the status of one that started later, because the name is
\* released only after the status is written (scheduler.go:159-166 before
\* the deferred delete).
StatusMovesForward ==
    [][\A n \in Names :
          status[n] # NoStatus /\ status'[n] # NoStatus
          => status[n].start <= status'[n].start]_status

\* Stop terminates whatever runs, skipped runs and panicking steps it finds,
\* although manual triggers still arrive while it waits (scheduler.go:188-193).
StopCompletes == (daemon = "stopping") ~> (daemon = "exited")

\* A run cron dispatched that got past the running check reaches the status
\* table even when a stop overtakes it: Stop waits for it.
CronRunsAreRecorded ==
    \A r \in Runs, t \in 1..MaxStarts :
        (run[r].pc = "stepping" /\ run[r].job \in CronJobs /\ run[r].start = t)
        ~> (\E n \in Names : status[n] # NoStatus /\ status[n].start = t)

\* The goroutine that owns each name: the refinement mapping to JobGuard.
Owns(f, r, n) == f[r].pc \in Owning /\ NameOf[f[r].job] = n

OwnerOf(f, n) ==
    IF \E r \in Runs : Owns(f, r, n) THEN CHOOSE r \in Runs : Owns(f, r, n) ELSE NoRun

Holder == [n \in Names |-> OwnerOf(run, n)]

Guard == INSTANCE JobGuard WITH holder <- Holder

\* The scheduler implements the per-name guard of JobGuard.tla.
ImplementsGuard == Guard!GuardSpec
=============================================================================
