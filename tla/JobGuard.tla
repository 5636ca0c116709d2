------------------------------ MODULE JobGuard ------------------------------
(***************************************************************************)
(* What the scheduler promises about job names: a name is held by at most *)
(* one run at a time, the status of a name is published only by the run   *)
(* that holds it, and successive statuses of a name have growing start    *)
(* times.  A crash of the daemon empties both tables, which live only in  *)
(* memory.  Scheduler.tla implements this specification.                   *)
(***************************************************************************)
EXTENDS Naturals

CONSTANTS
    Names,     \* job names
    Runs,      \* goroutines that execute runJob
    NoRun,     \* the holder of a free name
    NoStatus   \* the status of a name that never completed

VARIABLES
    holder,    \* holder[n]: the run that owns name n, or NoRun
    status     \* status[n]: [start, outcome] of the last completed run of n

guardVars == <<holder, status>>

GuardInit ==
    /\ holder = [n \in Names |-> NoRun]
    /\ status = [n \in Names |-> NoStatus]

Acquire(n, r) ==
    /\ holder[n] = NoRun
    /\ holder' = [holder EXCEPT ![n] = r]
    /\ UNCHANGED status

\* Only the holder publishes, and never an older run over a newer one.
Publish(n) ==
    /\ holder[n] # NoRun
    /\ status'[n] \in [start : Nat, outcome : {"ok", "error"}]
    /\ status[n] # NoStatus => status[n].start < status'[n].start
    /\ status' = [status EXCEPT ![n] = status'[n]]
    /\ UNCHANGED holder

Yield(n) ==
    /\ holder[n] # NoRun
    /\ holder' = [holder EXCEPT ![n] = NoRun]
    /\ UNCHANGED status

\* The process exits: no run survives, and a later process starts empty.
Vanish ==
    /\ holder' = [n \in Names |-> NoRun]
    /\ \/ UNCHANGED status
       \/ status' = [n \in Names |-> NoStatus]

GuardNext ==
    \/ \E n \in Names, r \in Runs : Acquire(n, r)
    \/ \E n \in Names : Publish(n) \/ Yield(n)
    \/ Vanish

GuardSpec == GuardInit /\ [][GuardNext]_guardVars
=============================================================================
