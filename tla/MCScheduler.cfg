SPECIFICATION Spec
CONSTANTS
    fetch = fetch
    bodies = bodies
    manualFetch = manualFetch
    c1 = c1
    c2 = c2
    c3 = c3
    m1 = m1
    Names <- MCNames
    CronJobs <- MCCronJobs
    ManualJobs <- MCManualJobs
    NameOf <- MCNameOf
    Runs = {r1, r2}
    MaxStarts = 3
    NoJob = NoJob
    NoRun = NoRun
    NoStatus = NoStatus
INVARIANTS
    SingleFlight
    RunningIsOwned
PROPERTIES
    StatusMovesForward
    ImplementsGuard
    StopCompletes
    CronRunsAreRecorded
