----------------------------- MODULE DaemonProofs -----------------------------
(***************************************************************************)
(* Proofs about the daemon: its start on a database (Migrations.tla) and   *)
(* the scheduler it then runs (Scheduler.tla), each for every value of its *)
(* constants.                                                              *)
(***************************************************************************)
EXTENDS Scheduler, Migrations, TLAPS

-----------------------------------------------------------------------------
(* Start-up, on every database and after any number of crashes and         *)
(* restarts.  The strengthening says how far the loops have come: a file   *)
(* is recorded after its SQL, the backfill lists the files in order from   *)
(* the first one, and 001, which creates the column that 008 drops, runs   *)
(* only while nothing is recorded.                                         *)

\* The backfill has listed the files before the one in hand and no others.
ListedSoFar == pc = "backfill" => recorded = 1 .. (next - 1) /\ listed = recorded

\* A file is recorded only after its SQL.
ApplyingIsDone == pc = "record" => next \notin recorded /\ Applied(next)

\* Past the first file that file is recorded, and nothing else is without it.
FirstIsRecorded ==
    /\ pc \in {"apply", "record"} /\ next > 1 => 1 \in recorded
    /\ recorded # {} => 1 \in recorded

\* The inductive invariant.
UpgradeInv ==
    /\ SchemaTypeOK
    /\ RecordedIsApplied
    /\ ListedSoFar
    /\ ApplyingIsDone
    /\ FirstIsRecorded

\* What the files create and remove.  Only 001 creates what another file
\* removes, and what 008 removes is not asked of any file.
LEMMA Effects ==
    /\ \A m \in Migrations : Creates[m] \subseteq Things /\ Removes[m] \subseteq Things
    /\ \A m, n \in Migrations :
          /\ Creates[m] \cap Removes[m] = {}
          /\ (Creates[m] \ Removes[8]) \cap Removes[n] = {}
          /\ Creates[n] \cap Removes[m] # {} => n = 1
<1>1. \A m \in Migrations : Creates[m] \subseteq Things /\ Removes[m] \subseteq Things
  BY DEF Things
<1>2. /\ \A m \in Migrations \ {1} : Creates[m] \cap {"oversized", "embedding"} = {}
      /\ Creates[1] \cap {"oversized", "embedding"} = {"embedding"}
  BY DEF Creates, Migrations
<1>3. /\ \A m \in Migrations : Removes[m] \subseteq {"oversized", "embedding"}
      /\ Removes[8] = {"embedding"} /\ Removes[1] = {}
  BY DEF Removes, Migrations
<1>4. QED
  BY <1>1, <1>2, <1>3

\* What is of the schema of a release.
LEMMA SchemaMembers ==
    ASSUME NEW k, NEW x
    PROVE  x \in SchemaOf(k) <=> /\ \E m \in 1 .. k : x \in Creates[m]
                                /\ \A m \in 1 .. k : x \notin Removes[m]
<1> DEFINE C == UNION {Creates[m] : m \in 1 .. k}
           R == UNION {Removes[m] : m \in 1 .. k}
<1>1. x \in C <=> \E m \in 1 .. k : x \in Creates[m]
  BY Zenon
<1>2. x \in R <=> \E m \in 1 .. k : x \in Removes[m]
  BY Zenon
<1>3. SchemaOf(k) = C \ R
  BY DEF SchemaOf
<1> HIDE DEF C, R
<1>4. QED
  BY <1>1, <1>2, <1>3

\* What an earlier release left is of the schema, and all its files are applied.
LEMMA ReleaseIsApplied ==
    ASSUME NEW k \in 2 .. 8, NEW chunks \in SUBSET {"oversized"}, chunks = {} \/ k = 6,
           schema = SchemaOf(k) \cup chunks
    PROVE  schema \subseteq Things /\ \A m \in 1 .. k : Applied(m)
<1>1. 1 .. k \subseteq Migrations /\ 7 \in Migrations /\ 8 \in Migrations
  BY DEF Migrations
<1>2. Removes[7] = {"oversized"} /\ \A m \in 1 .. 6 : Removes[m] = {}
  BY DEF Removes
<1>3. schema \subseteq Things
  <2>1. SchemaOf(k) \subseteq Things
    BY <1>1, SchemaMembers, Effects
  <2>2. {"oversized"} \subseteq Things
    BY <1>1, <1>2, Effects
  <2>3. QED
    BY <2>1, <2>2
<1>4. ASSUME NEW m \in 1 .. k PROVE Applied(m)
  <2>1. Creates[m] \ Removes[8] \subseteq schema
    <3>1. \A n \in 1 .. k : (Creates[m] \ Removes[8]) \cap Removes[n] = {}
      BY <1>1, Effects
    <3>2. QED
      BY <3>1, SchemaMembers
  <2>2. Removes[m] \cap SchemaOf(k) = {}
    BY SchemaMembers
  <2>3. Removes[m] \cap chunks = {}
    BY <1>2
  <2>4. QED
    BY <2>1, <2>2, <2>3 DEF Applied
<1>5. QED
  BY <1>3, <1>4

\* Every database starts with the invariant.
LEMMA UpgradeInit == StartUpInit => UpgradeInv
<1> SUFFICES ASSUME StartUpInit PROVE UpgradeInv
  OBVIOUS
<1>1. pc = "start" /\ next = 1 /\ crashes = MaxCrashes /\ listed = {}
  BY DEF StartUpInit
<1>2. CASE recorded = {} /\ schema \subseteq Things
  BY <1>1, <1>2, MigrationsAssumption
     DEF UpgradeInv, SchemaTypeOK, RecordedIsApplied, ListedSoFar, ApplyingIsDone,
         FirstIsRecorded
<1>3. CASE \E k \in 2 .. 8, chunks \in SUBSET {"oversized"} :
             /\ chunks = {} \/ k = 6
             /\ schema = SchemaOf(k) \cup chunks /\ recorded = 1 .. k
  <2> PICK k \in 2 .. 8, chunks \in SUBSET {"oversized"} :
             /\ chunks = {} \/ k = 6
             /\ schema = SchemaOf(k) \cup chunks /\ recorded = 1 .. k
    BY <1>3
  <2>1. schema \subseteq Things /\ \A m \in recorded : Applied(m)
    BY ReleaseIsApplied
  <2>2. recorded \subseteq Migrations /\ 1 \in recorded
    BY DEF Migrations
  <2>3. QED
    BY <1>1, <2>1, <2>2, MigrationsAssumption
       DEF UpgradeInv, SchemaTypeOK, RecordedIsApplied, ListedSoFar, ApplyingIsDone,
           FirstIsRecorded
<1>4. {"vector"} \subseteq Things
  <2>1. 1 \in Migrations /\ "vector" \in Creates[1]
    BY DEF Migrations, Creates
  <2>2. QED
    BY <2>1, Effects
<1>5. \A t \in PriorSchemas : t \subseteq Things
  BY DEF PriorSchemas
<1>6. QED
  BY <1>2, <1>3, <1>4, <1>5 DEF StartUpInit

\* Every step of a start, and a crash at any of them, keeps the invariant.
LEMMA UpgradeStep == UpgradeInv /\ [StartUpNext]_startUpVars => UpgradeInv'
<1> SUFFICES ASSUME UpgradeInv, [StartUpNext]_startUpVars PROVE UpgradeInv'
  OBVIOUS
<1> USE MigrationsAssumption
    DEF UpgradeInv, SchemaTypeOK, RecordedIsApplied, ListedSoFar, ApplyingIsDone,
        FirstIsRecorded
<1>1. UNCHANGED schema => \A m \in Migrations : Applied(m) => Applied(m)'
  BY DEF Applied
<1> HIDE DEF Applied
<1>2. CASE Detect
  BY <1>1, <1>2 DEF Detect, Backfills
<1>3. CASE Backfill
  <2>1. /\ next \in Migrations /\ pc = "backfill" /\ UNCHANGED <<schema, pc, crashes>>
        /\ recorded = 1 .. (next - 1) /\ listed = recorded
        /\ recorded' = recorded \cup {next} /\ listed' = recorded'
        /\ next' = next + 1
    BY <1>3 DEF Backfill
  <2>2. recorded' = 1 .. (next' - 1) /\ recorded' \subseteq Migrations /\ 1 \in recorded'
    BY <2>1 DEF Migrations
  <2>3. \A m \in listed' : 1 .. m \subseteq listed'
    BY <2>1, <2>2
  <2>4. QED
    BY <2>1, <2>2, <2>3 DEF Migrations
<1>4. CASE Skip
  BY <1>1, <1>4 DEF Skip, Migrations
<1>5. CASE Apply
  <2>1. /\ next \in Migrations \ recorded /\ pc = "apply"
        /\ UNCHANGED <<recorded, listed, next, crashes>>
    BY <1>5 DEF Apply
  <2>2. CASE schema' = (schema \cup Creates[next]) \ Removes[next] /\ pc' = "record"
    <3>1. recorded # {} => next # 1
      BY <2>1
    <3>2. ASSUME NEW m \in recorded \ listed PROVE Applied(m)'
      <4>1. m \in Migrations /\ Applied(m) /\ next # 1
        BY <3>1
      <4>2. Creates[next] \cap Removes[m] = {}
            /\ (Creates[m] \ Removes[8]) \cap Removes[next] = {}
        BY <2>1, <4>1, Effects
      <4>3. QED
        BY <2>2, <4>1, <4>2 DEF Applied
    <3>3. Applied(next)'
      BY <2>1, <2>2, Effects DEF Applied
    <3>4. schema' \subseteq Things
      BY <2>1, <2>2, Effects
    <3>5. QED
      BY <2>1, <2>2, <3>2, <3>3, <3>4
  <2>3. CASE schema' = schema /\ pc' = "failed"
    BY <1>1, <2>1, <2>3
  <2>4. QED
    BY <1>5, <2>2, <2>3 DEF Apply
<1>6. CASE Record
  BY <1>1, <1>6 DEF Record, Migrations
<1>7. CASE Serve
  BY <1>1, <1>7 DEF Serve
<1>8. CASE StartAgain
  BY <1>1, <1>8 DEF StartAgain
<1>9. CASE StartUpCrash
  BY <1>1, <1>9 DEF StartUpCrash
<1>10. CASE UNCHANGED startUpVars
  BY <1>1, <1>10 DEF startUpVars
<1>11. QED
  BY <1>2, <1>3, <1>4, <1>5, <1>6, <1>7, <1>8, <1>9, <1>10 DEF StartUpNext, StartUpStep

\* The invariant holds of every start.
LEMMA Upgrades == StartUpSpec => []UpgradeInv
  BY UpgradeInit, UpgradeStep, PTL DEF StartUpSpec

\* On every database, after any number of crashes, a file that schema_migrations
\* lists has run, with all that it creates and removes, unless the backfill
\* listed it; and that lists only on a database that tracks none (db.go:94-143).
THEOREM RecordedIsAppliedHolds == StartUpSpec => []RecordedIsApplied
<1>1. UpgradeInv => RecordedIsApplied
  BY DEF UpgradeInv
<1>2. QED
  BY <1>1, Upgrades, PTL

\* Types hold on every database, a fresh one included: a version that is
\* recorded is that of a shipped file, and the loop ends after the last.
THEOREM UpgradeTypeCorrect == StartUpSpec => []SchemaTypeOK
<1>1. UpgradeInv => SchemaTypeOK
  BY DEF UpgradeInv
<1>2. QED
  BY <1>1, Upgrades, PTL

-----------------------------------------------------------------------------
(* The scheduler.  The inductive invariant adds to TypeOK, SingleFlight    *)
(* and RunningIsOwned that an idle slot holds no job, that nothing runs in *)
(* an exited process and that the status of a name is older than the run   *)
(* that will next publish one.                                             *)


BusyHasJob == \A r \in Runs : run[r].pc # "idle" => run[r].job \in Jobs

ExitedIsIdle == daemon = "exited" =>
                    /\ running = {}
                    /\ \A r \in Runs : run[r].pc = "idle"

ClockIsLatest ==
    /\ \A r \in Runs : run[r].start <= clock
    /\ \A n \in Names : status[n] # NoStatus => status[n].start <= clock

\* A goroutine that has yet to publish is newer than what its name shows.
OwnerIsNewer ==
    \A r \in Runs :
        run[r].pc \in {"stepping", "returned"}
        /\ status[NameOf[run[r].job]] # NoStatus
        => status[NameOf[run[r].job]].start < run[r].start

\* The inductive invariant.
IInv ==
    /\ TypeOK
    /\ BusyHasJob
    /\ ExitedIsIdle
    /\ SingleFlight
    /\ RunningIsOwned
    /\ ClockIsLatest
    /\ OwnerIsNewer

\* The scheduler starts with empty maps, no goroutine and no status.
LEMMA InitInv == Init => IInv
<1> SUFFICES ASSUME Init PROVE IInv
  OBVIOUS
<1>1. TypeOK
  BY StartsBound DEF Init, TypeOK, RunState, IdleRun, NewRun, Outcomes
<1>2. QED
  BY <1>1 DEF Init, IInv, BusyHasJob, ExitedIsIdle, SingleFlight, RunningIsOwned,
              ClockIsLatest, OwnerIsNewer, IdleRun, NewRun, Owning, TypeOK

\* Every step of the scheduler keeps the types of its state (all of runJob,
\* TriggerStep, Stop and the restart).
LEMMA TypeStep == ASSUME TypeOK, BusyHasJob, [Next]_vars PROVE TypeOK' /\ BusyHasJob'
<1> USE JobsNamed DEF TypeOK, BusyHasJob, RunState, Outcomes, IdleRun, NewRun, Owning
<1>1. ASSUME NEW r \in Runs, NEW j \in CronJobs, CronTick(r, j) PROVE TypeOK' /\ BusyHasJob'
  BY <1>1 DEF CronTick, Dispatch, Jobs
<1>2. ASSUME NEW r \in Runs, NEW j \in ManualJobs, TriggerStep(r, j) PROVE TypeOK' /\ BusyHasJob'
  BY <1>2 DEF TriggerStep, Dispatch, Jobs
<1>3. ASSUME NEW r \in Runs, RunSteps(r) PROVE TypeOK' /\ BusyHasJob'
  <2>1. CASE SkipRun(r)
    BY <2>1 DEF SkipRun
  <2>2. CASE ClaimRun(r)
    <3>1. clock + 1 \in Nat /\ clock' = clock + 1
      BY <2>2 DEF ClaimRun
    <3>2. run[r].job \in Jobs
      BY <2>2 DEF ClaimRun
    <3>3. run' \in [Runs -> RunState] /\ BusyHasJob'
      BY <2>2, <3>1, <3>2 DEF ClaimRun
    <3>4. NameOf[run[r].job] \in Names
      BY <2>2 DEF ClaimRun
    <3>5. QED
      BY <2>2, <3>1, <3>3, <3>4 DEF ClaimRun
  <2>3. ASSUME NEW o \in Outcomes \cup {"panic"}, StepEnds(r, o) PROVE TypeOK' /\ BusyHasJob'
    <3>1. Recovered(o) \in Outcomes
      BY DEF Recovered
    <3>2. run[r] \in RunState /\ run[r].job \in Jobs
      BY <2>3 DEF StepEnds
    <3>3. [run[r] EXCEPT !.pc = "returned", !.outcome = Recovered(o)] \in RunState
      BY <3>1, <3>2
    <3>4. run' = [run EXCEPT ![r] = [run[r] EXCEPT !.pc = "returned",
                                                   !.outcome = Recovered(o)]]
      BY <2>3 DEF StepEnds
    <3>5. run' \in [Runs -> RunState]
      BY ONLY run \in [Runs -> RunState], <3>3, <3>4
    <3>6. BusyHasJob'
      BY <3>2, <3>4
    <3>7. UNCHANGED <<daemon, running, status, clock, budget>>
      BY <2>3 DEF StepEnds
    <3>8. QED
      BY <3>5, <3>6, <3>7
  <2>4. CASE RecordStatus(r)
    BY <2>4 DEF RecordStatus
  <2>5. CASE ReleaseRun(r)
    BY <2>5 DEF ReleaseRun
  <2>6. QED
    BY ONLY <1>3, <2>1, <2>2, <2>3, <2>4, <2>5 DEF RunSteps
<1>4. CASE BeginStop
  BY <1>4 DEF BeginStop
<1>5. CASE Exit
  BY <1>5 DEF Exit
<1>6. CASE Restart
  BY <1>6 DEF Restart
<1>7. CASE UNCHANGED vars
  BY <1>7 DEF vars
<1>8. QED
  BY ONLY [Next]_vars, <1>1, <1>2, <1>3, <1>4, <1>5, <1>6, <1>7 DEF Next

\* The owners after a step, name by name: an unchanged slot owns what it owned.
LEMMA GuardStep ==
  ASSUME IInv, TypeOK', [Next]_vars
  PROVE  SingleFlight' /\ RunningIsOwned' /\ ExitedIsIdle'
<1> USE DEF IInv, TypeOK, RunState, SingleFlight, RunningIsOwned, ExitedIsIdle, IdleRun, NewRun, Owning
<1>1. ASSUME NEW r \in Runs, NEW j \in Jobs, Dispatch(r, j), daemon # "exited"
      PROVE  SingleFlight' /\ RunningIsOwned' /\ ExitedIsIdle'
  BY <1>1 DEF Dispatch
<1>2. ASSUME NEW r \in Runs, SkipRun(r)
      PROVE  SingleFlight' /\ RunningIsOwned' /\ ExitedIsIdle'
  BY <1>2 DEF SkipRun
<1>3. ASSUME NEW r \in Runs, ClaimRun(r)
      PROVE  SingleFlight' /\ RunningIsOwned' /\ ExitedIsIdle'
  BY <1>3 DEF ClaimRun
<1>4. ASSUME NEW r \in Runs, NEW o, StepEnds(r, o)
      PROVE  SingleFlight' /\ RunningIsOwned' /\ ExitedIsIdle'
  BY <1>4 DEF StepEnds
<1>5. ASSUME NEW r \in Runs, RecordStatus(r)
      PROVE  SingleFlight' /\ RunningIsOwned' /\ ExitedIsIdle'
  BY <1>5 DEF RecordStatus
<1>6. ASSUME NEW r \in Runs, ReleaseRun(r)
      PROVE  SingleFlight' /\ RunningIsOwned' /\ ExitedIsIdle'
  BY <1>6 DEF ReleaseRun
<1>7. CASE BeginStop
  BY <1>7 DEF BeginStop
<1>8. CASE Exit
  BY <1>8 DEF Exit
<1>9. CASE Restart
  BY <1>9 DEF Restart
<1>10. CASE UNCHANGED vars
  BY <1>10 DEF vars
<1>11. QED
  BY ONLY [Next]_vars, <1>1, <1>2, <1>3, <1>4, <1>5, <1>6, <1>7, <1>8, <1>9, <1>10
     DEF Next, RunSteps, CronTick, TriggerStep, Jobs

\* A run is stamped when it claims its name, so what it publishes is newer
\* than what the name's earlier owners published.
LEMMA OrderStep ==
  ASSUME IInv, TypeOK', [Next]_vars
  PROVE  ClockIsLatest' /\ OwnerIsNewer'
<1> USE Sentinels
    DEF IInv, TypeOK, RunState, SingleFlight, BusyHasJob, ClockIsLatest, OwnerIsNewer,
        IdleRun, NewRun, Owning, Outcomes
<1>1. ASSUME NEW r \in Runs, NEW j \in Jobs, Dispatch(r, j)
      PROVE  ClockIsLatest' /\ OwnerIsNewer'
  BY <1>1 DEF Dispatch
<1>2. ASSUME NEW r \in Runs, SkipRun(r)
      PROVE  ClockIsLatest' /\ OwnerIsNewer'
  BY <1>2 DEF SkipRun
<1>3. ASSUME NEW r \in Runs, ClaimRun(r)
      PROVE  ClockIsLatest' /\ OwnerIsNewer'
  <2>1. /\ clock' = clock + 1
        /\ UNCHANGED status
        /\ \A s \in Runs : s # r => run'[s] = run[s]
        /\ run'[r].start = clock + 1 /\ run'[r].job = run[r].job
    BY <1>3 DEF ClaimRun
  <2>2. NameOf[run[r].job] \in Names
    BY <1>3, JobsNamed DEF ClaimRun
  <2>3. ClockIsLatest'
    BY <2>1
  <2>4. OwnerIsNewer'
    BY <2>1, <2>2
  <2>5. QED
    BY <2>3, <2>4
<1>4. ASSUME NEW r \in Runs, NEW o, StepEnds(r, o)
      PROVE  ClockIsLatest' /\ OwnerIsNewer'
  BY <1>4 DEF StepEnds
<1>5. ASSUME NEW r \in Runs, RecordStatus(r)
      PROVE  ClockIsLatest' /\ OwnerIsNewer'
  <2>1. /\ UNCHANGED clock
        /\ \A s \in Runs : run'[s].start = run[s].start /\ run'[s].job = run[s].job
        /\ \A s \in Runs : s # r => run'[s].pc = run[s].pc
        /\ run'[r].pc = "recorded" /\ run[r].pc = "returned"
    BY <1>5 DEF RecordStatus
  <2>2. ASSUME NEW n \in Names
        PROVE  \/ status'[n] = status[n]
               \/ n = NameOf[run[r].job] /\ status'[n].start = run[r].start
    <3>1. CASE n = NameOf[run[r].job]
      BY ONLY <1>5, <3>1, TypeOK DEF RecordStatus, TypeOK
    <3>2. CASE n # NameOf[run[r].job]
      BY ONLY <1>5, <3>2, TypeOK DEF RecordStatus, TypeOK
    <3>3. QED
      BY <3>1, <3>2
  <2>3. ClockIsLatest'
    BY <2>1, <2>2
  <2>4. ASSUME NEW s \in Runs, run'[s].pc \in {"stepping", "returned"}
        PROVE  status'[NameOf[run'[s].job]] = status[NameOf[run[s].job]]
    <3>1. s # r /\ run[s].pc \in Owning /\ run'[s].job = run[s].job
      BY <2>1, <2>4
    <3>2. NameOf[run[s].job] # NameOf[run[r].job]
      BY <2>1, <3>1
    <3>3. QED
      BY <1>5, <3>1, <3>2 DEF RecordStatus
  <2>5. OwnerIsNewer'
    BY <2>1, <2>4
  <2>6. QED
    BY <2>3, <2>5
<1>6. ASSUME NEW r \in Runs, ReleaseRun(r)
      PROVE  ClockIsLatest' /\ OwnerIsNewer'
  BY <1>6 DEF ReleaseRun
<1>7. CASE BeginStop
  BY <1>7 DEF BeginStop
<1>8. CASE Exit
  BY <1>8 DEF Exit
<1>9. CASE Restart
  BY <1>9, JobsNamed DEF Restart
<1>10. CASE UNCHANGED vars
  BY <1>10 DEF vars
<1>11. QED
  BY ONLY [Next]_vars, <1>1, <1>2, <1>3, <1>4, <1>5, <1>6, <1>7, <1>8, <1>9, <1>10
     DEF Next, RunSteps, CronTick, TriggerStep, Jobs

\* The invariant is inductive.
LEMMA InvStep == IInv /\ [Next]_vars => IInv'
<1> SUFFICES ASSUME IInv, [Next]_vars PROVE IInv'
  OBVIOUS
<1>1. TypeOK' /\ BusyHasJob'
  BY TypeStep DEF IInv
<1>2. SingleFlight' /\ RunningIsOwned' /\ ExitedIsIdle'
  BY <1>1, GuardStep
<1>3. ClockIsLatest' /\ OwnerIsNewer'
  BY <1>1, OrderStep
<1>4. QED
  BY <1>1, <1>2, <1>3 DEF IInv

\* Every reachable state satisfies the inductive invariant.
LEMMA Invariance == Spec => []IInv
<1>1. QED
  BY InitInv, InvStep, PTL DEF Spec

\* The scheduler's state always has its type.
THEOREM TypeCorrect == Spec => []TypeOK
<1>1. IInv => TypeOK
  BY DEF IInv
<1>2. QED
  BY <1>1, Invariance, PTL

\* No two goroutines ever run a step under one job name: the check and the
\* set of running[name] are one critical section, and the name is given back
\* by the goroutine that took it.
THEOREM SingleFlightHolds == Spec => []SingleFlight
<1>1. IInv => SingleFlight
  BY DEF IInv
<1>2. QED
  BY <1>1, Invariance, PTL

\* running[name] is true exactly while a goroutine owns the name.
THEOREM RunningIsOwnedHolds == Spec => []RunningIsOwned
<1>1. IInv => RunningIsOwned
  BY DEF IInv
<1>2. QED
  BY <1>1, Invariance, PTL

\* The status of a name never goes back to that of an earlier run.
THEOREM StatusMovesForwardHolds == Spec => StatusMovesForward
<1> DEFINE Forward == \A n \in Names :
                         status[n] # NoStatus /\ status'[n] # NoStatus
                         => status[n].start <= status'[n].start
<1>1. IInv /\ [Next]_vars => [Forward]_status
  <2> SUFFICES ASSUME IInv, Next PROVE UNCHANGED status \/ Forward
    BY DEF vars
  <2>1. ASSUME NEW r \in Runs, RecordStatus(r) PROVE Forward
    <3> SUFFICES ASSUME NEW n \in Names, status[n] # NoStatus, status'[n] # NoStatus
                 PROVE  status[n].start <= status'[n].start
      OBVIOUS
    <3> USE DEF IInv, TypeOK, RunState
    <3>1. CASE n = NameOf[run[r].job]
      <4>1. run[r].pc = "returned" /\ status'[n].start = run[r].start
        BY ONLY <2>1, <3>1, TypeOK DEF RecordStatus, TypeOK
      <4>2. status[n].start < run[r].start
        BY <3>1, <4>1 DEF OwnerIsNewer
      <4>3. status[n] \in [start : Nat, outcome : Outcomes] /\ run[r] \in RunState
        OBVIOUS
      <4>4. status[n].start \in Nat /\ run[r].start \in Nat
        BY <4>3
      <4>5. QED
        BY <4>1, <4>2, <4>4
    <3>2. CASE n # NameOf[run[r].job]
      <4>1. status'[n] = status[n]
        BY ONLY <2>1, <3>2, TypeOK DEF RecordStatus, TypeOK
      <4>2. status[n] \in [start : Nat, outcome : Outcomes]
        OBVIOUS
      <4>3. status[n].start \in Nat
        BY <4>2
      <4>4. QED
        BY <4>1, <4>3
    <3>3. QED
      BY <3>1, <3>2
  <2>2. CASE Restart
    BY <2>2 DEF Restart
  <2>3. QED
    BY <2>1, <2>2 DEF Next, RunSteps, CronTick, TriggerStep, Dispatch, SkipRun, ClaimRun,
                      StepEnds, ReleaseRun, BeginStop, Exit
<1>2. QED
  BY <1>1, Invariance, PTL DEF Spec, StatusMovesForward

-----------------------------------------------------------------------------
(***************************************************************************)
(* Refinement of JobGuard.                                                 *)
(***************************************************************************)

\* OwnerOf picks the owner when there is exactly one, NoRun when there is none.
LEMMA OwnerOfOne ==
  ASSUME NEW f, NEW n, NEW r \in Runs, Owns(f, r, n),
         \A s \in Runs : Owns(f, s, n) => s = r
  PROVE  OwnerOf(f, n) = r
BY DEF OwnerOf

\* A name that no slot owns has owner NoRun.
LEMMA OwnerOfNone ==
  ASSUME NEW f, NEW n, \A s \in Runs : ~Owns(f, s, n)
  PROVE  OwnerOf(f, n) = NoRun
BY DEF OwnerOf

\* The owner of a name depends only on which slots own it.
LEMMA OwnerOfSame ==
  ASSUME NEW f, NEW g, NEW n, \A s \in Runs : Owns(f, s, n) <=> Owns(g, s, n)
  PROVE  OwnerOf(f, n) = OwnerOf(g, n)
BY DEF OwnerOf

\* What a step does to one slot leaves the owners of the other names alone.
LEMMA OtherNames ==
  ASSUME TypeOK, NEW r \in Runs, NEW n,
         \A s \in Runs : s # r => run'[s] = run[s],
         ~Owns(run, r, n), ~Owns(run', r, n)
  PROVE  OwnerOf(run', n) = OwnerOf(run, n)
<1>1. \A s \in Runs : Owns(run, s, n) <=> Owns(run', s, n)
  BY DEF Owns
<1>2. QED
  BY <1>1, OwnerOfSame

\* Every step of the scheduler is a step of the guard or changes neither its
\* holders nor its statuses.
LEMMA RefinementStep ==
  ASSUME IInv, IInv', [Next]_vars
  PROVE  [Guard!GuardNext]_<<Holder, status>>
<1> DEFINE Same == Holder' = Holder /\ status' = status
<1>1. ASSUME NEW r \in Runs, run[r].pc \notin Owning, run'[r].pc \notin Owning,
             \A s \in Runs : s # r => run'[s] = run[s]
      PROVE  Holder' = Holder
  BY <1>1, OtherNames DEF Holder, Owns, IInv
<1>2. ASSUME NEW r \in Runs, NEW j \in Jobs, Dispatch(r, j)
      PROVE  Same
  <2>1. run[r].pc = "idle" /\ run'[r].pc = "dispatched"
    BY <1>2 DEF Dispatch, IInv, TypeOK, NewRun
  <2>2. QED
    BY <1>1, <1>2, <2>1 DEF Dispatch, IInv, TypeOK, Owning
<1>3. ASSUME NEW r \in Runs, SkipRun(r)
      PROVE  Same
  <2>1. run[r].pc = "dispatched" /\ run'[r].pc = "idle"
    BY <1>3 DEF SkipRun, IInv, TypeOK, NewRun, IdleRun
  <2>2. QED
    BY <1>1, <1>3, <2>1 DEF SkipRun, IInv, TypeOK, Owning
<1>4. ASSUME NEW r \in Runs, ClaimRun(r)
      PROVE  \E n \in Names : Guard!Acquire(n, r)
  <2> DEFINE n == NameOf[run[r].job]
  <2>1. /\ run[r].pc = "dispatched" /\ n \in Names /\ n \notin running
        /\ run'[r].pc = "stepping" /\ run'[r].job = run[r].job
        /\ \A s \in Runs : s # r => run'[s] = run[s]
        /\ UNCHANGED status
    BY <1>4, JobsNamed DEF ClaimRun, NewRun, IInv, TypeOK, BusyHasJob
  <2>2. \A s \in Runs : ~Owns(run, s, n)
    BY <2>1 DEF IInv, RunningIsOwned, Owns
  <2>3. Owns(run', r, n) /\ \A s \in Runs : Owns(run', s, n) => s = r
    BY <2>1, <2>2 DEF Owns, Owning
  <2>4. OwnerOf(run, n) = NoRun /\ OwnerOf(run', n) = r
    BY <2>2, <2>3, OwnerOfNone, OwnerOfOne
  <2>5. ASSUME NEW m \in Names, m # n
        PROVE  OwnerOf(run', m) = OwnerOf(run, m)
    <3>1. ~Owns(run, r, m) /\ ~Owns(run', r, m)
      BY <2>1, <2>5 DEF Owns, Owning
    <3>2. QED
      BY <2>1, <3>1, OtherNames DEF IInv
  <2>6. Holder' = [Holder EXCEPT ![n] = r]
    BY <2>4, <2>5 DEF Holder
  <2>7. Holder[n] = NoRun
    BY <2>1, <2>4 DEF Holder
  <2>8. QED
    BY <2>1, <2>6, <2>7 DEF Guard!Acquire
<1>5. ASSUME NEW r \in Runs, NEW o, StepEnds(r, o)
      PROVE  Same
  <2>1. /\ UNCHANGED status
        /\ \A s \in Runs : run'[s].job = run[s].job
        /\ \A s \in Runs : s # r => run'[s] = run[s]
        /\ run[r].pc = "stepping" /\ run'[r].pc = "returned"
    BY <1>5 DEF StepEnds, IInv, TypeOK, RunState
  <2>2. ASSUME NEW n PROVE OwnerOf(run', n) = OwnerOf(run, n)
    <3>1. \A s \in Runs : Owns(run, s, n) <=> Owns(run', s, n)
      BY <2>1 DEF Owns, Owning
    <3>2. QED
      BY <3>1, OwnerOfSame
  <2>3. QED
    BY <2>1, <2>2 DEF Holder
<1>6. ASSUME NEW r \in Runs, RecordStatus(r)
      PROVE  \E n \in Names : Guard!Publish(n)
  <2> DEFINE n == NameOf[run[r].job]
  <2>1. /\ run[r].pc = "returned" /\ n \in Names
        /\ run[r].start \in Nat /\ run[r].outcome \in Outcomes
        /\ \A s \in Runs : run'[s].job = run[s].job
        /\ \A s \in Runs : s # r => run'[s] = run[s]
        /\ run'[r].pc = "recorded"
    BY <1>6, JobsNamed DEF RecordStatus, IInv, TypeOK, RunState, BusyHasJob
  <2>2. status' = [status EXCEPT ![n] = [start |-> run[r].start, outcome |-> run[r].outcome]]
    BY <1>6 DEF RecordStatus
  <2>3. status'[n] = [start |-> run[r].start, outcome |-> run[r].outcome]
    BY ONLY <2>1, <2>2, TypeOK, IInv DEF IInv, TypeOK
  <2>4. status'[n] \in [start : Nat, outcome : {"ok", "error"}]
    BY <2>1, <2>3 DEF Outcomes
  <2>5. status[n] # NoStatus => status[n].start < status'[n].start
    BY <2>1, <2>3 DEF IInv, OwnerIsNewer
  <2>6. Owns(run, r, n) /\ \A s \in Runs : Owns(run, s, n) => s = r
    BY <2>1 DEF Owns, Owning, IInv, SingleFlight
  <2>7. Holder[n] = r
    BY <2>1, <2>6, OwnerOfOne DEF Holder
  <2>8. ASSUME NEW m PROVE OwnerOf(run', m) = OwnerOf(run, m)
    <3>1. \A s \in Runs : Owns(run, s, m) <=> Owns(run', s, m)
      BY <2>1 DEF Owns, Owning
    <3>2. QED
      BY <3>1, OwnerOfSame
  <2>9. Holder' = Holder
    BY <2>8 DEF Holder
  <2>10. status' = [status EXCEPT ![n] = status'[n]]
    BY <2>2, <2>3
  <2>11. Holder[n] # NoRun
    BY <2>7, Sentinels
  <2>12. QED
    BY <2>1, <2>4, <2>5, <2>9, <2>10, <2>11 DEF Guard!Publish
<1>7. ASSUME NEW r \in Runs, ReleaseRun(r)
      PROVE  \E n \in Names : Guard!Yield(n)
  <2> DEFINE n == NameOf[run[r].job]
  <2>1. /\ run[r].pc = "recorded" /\ n \in Names
        /\ run'[r].pc = "idle"
        /\ \A s \in Runs : s # r => run'[s] = run[s]
        /\ UNCHANGED status
    BY <1>7, JobsNamed DEF ReleaseRun, NewRun, IdleRun, IInv, TypeOK, BusyHasJob
  <2>2. Owns(run, r, n) /\ \A s \in Runs : Owns(run, s, n) => s = r
    BY <2>1 DEF Owns, Owning, IInv, SingleFlight
  <2>3. \A s \in Runs : ~Owns(run', s, n)
    BY <2>1, <2>2 DEF Owns, Owning
  <2>4. OwnerOf(run, n) = r /\ OwnerOf(run', n) = NoRun
    BY <2>2, <2>3, OwnerOfNone, OwnerOfOne
  <2>5. ASSUME NEW m \in Names, m # n
        PROVE  OwnerOf(run', m) = OwnerOf(run, m)
    <3>1. ~Owns(run, r, m) /\ ~Owns(run', r, m)
      BY <2>1, <2>5 DEF Owns, Owning
    <3>2. QED
      BY <2>1, <3>1, OtherNames DEF IInv
  <2>6. Holder' = [Holder EXCEPT ![n] = NoRun]
    BY <2>4, <2>5 DEF Holder
  <2>7. Holder[n] # NoRun
    BY <2>1, <2>4, Sentinels DEF Holder
  <2>8. QED
    BY <2>1, <2>6, <2>7 DEF Guard!Yield
<1>8. CASE BeginStop
  BY <1>8 DEF BeginStop, Holder
<1>9. CASE Exit
  <2>1. \A s \in Runs, n \in Names : ~Owns(run', s, n)
    BY <1>9 DEF Exit, IdleRun, NewRun, Owns, Owning
  <2>2. Holder' = [n \in Names |-> NoRun]
    BY <2>1, OwnerOfNone DEF Holder
  <2>3. QED
    BY <1>9, <2>2 DEF Exit, Guard!GuardNext, Guard!Vanish
<1>10. CASE Restart
  <2>1. \A s \in Runs, n \in Names : ~Owns(run', s, n)
    BY <1>10 DEF Restart, IInv, ExitedIsIdle, Owns, Owning
  <2>2. Holder' = [n \in Names |-> NoRun]
    BY <2>1, OwnerOfNone DEF Holder
  <2>3. QED
    BY <1>10, <2>2 DEF Restart, Guard!GuardNext, Guard!Vanish
<1>11. CASE UNCHANGED vars
  BY <1>11 DEF vars, Holder
<1>12. QED
  BY ONLY [Next]_vars, <1>2, <1>3, <1>4, <1>5, <1>6, <1>7, <1>8, <1>9, <1>10, <1>11
     DEF Next, RunSteps, CronTick, TriggerStep, Jobs, Guard!GuardNext

\* The scheduler implements the per-name guard: at any time a name has one
\* holder or none, only its holder publishes its status, in start order.
THEOREM ImplementsGuardHolds == Spec => ImplementsGuard
<1>1. Init => Guard!GuardInit
  <2> SUFFICES ASSUME Init PROVE Guard!GuardInit
    OBVIOUS
  <2>1. \A s \in Runs, n \in Names : ~Owns(run, s, n)
    BY DEF Init, IdleRun, NewRun, Owns, Owning
  <2>2. QED
    BY <2>1, OwnerOfNone DEF Init, Holder, Guard!GuardInit
<1>2. IInv /\ IInv' /\ [Next]_vars => [Guard!GuardNext]_<<Holder, status>>
  BY RefinementStep
<1>3. QED
  BY <1>1, <1>2, Invariance, PTL DEF Spec, ImplementsGuard, Guard!GuardSpec, Guard!guardVars
=============================================================================
