------------------------------ MODULE ItemLife ------------------------------
(***************************************************************************)
(* What the news pipeline promises about an item: it arrives after those   *)
(* there are, waits in the queue, gets one verdict and keeps it.  It is    *)
(* hidden only behind a similar item that arrived before it, and something *)
(* is told about it (facts, a story) only after it was vetted.             *)
(* NewsPipeline.tla implements this specification.                         *)
(***************************************************************************)
EXTENDS Naturals, FiniteSets

CONSTANTS
    Items,
    Similar    \* pairs {i, j} of items that resemble each other

VARIABLES
    verdict,   \* verdict[i]: absent, queued, hidden or vetted
    since,     \* since[i]: the place of i in the order of arrival, 0 before
    told       \* the items something is told about

lifeVars == <<verdict, since, told>>

LifeInit ==
    /\ verdict = [i \in Items |-> "absent"]
    /\ since = [i \in Items |-> 0]
    /\ told = {}

Here == {i \in Items : verdict[i] # "absent"}

Arrive(i) ==
    /\ verdict[i] = "absent"
    /\ verdict' = [verdict EXCEPT ![i] = "queued"]
    /\ since' = [since EXCEPT ![i] = Cardinality(Here) + 1]
    /\ UNCHANGED told

Hide(i) ==
    /\ verdict[i] = "queued"
    /\ \E j \in Here : {i, j} \in Similar /\ since[j] < since[i]
    /\ verdict' = [verdict EXCEPT ![i] = "hidden"]
    /\ UNCHANGED <<since, told>>

Vet(i) ==
    /\ verdict[i] = "queued"
    /\ verdict' = [verdict EXCEPT ![i] = "vetted"]
    /\ UNCHANGED <<since, told>>

Tell(i) ==
    /\ verdict[i] = "vetted"
    /\ told' = told \cup {i}
    /\ UNCHANGED <<verdict, since>>

\* A story is withdrawn when its item turns out not to be news.
Withdraw(i) ==
    /\ told' = told \ {i}
    /\ UNCHANGED <<verdict, since>>

LifeNext ==
    \E i \in Items : Arrive(i) \/ Hide(i) \/ Vet(i) \/ Tell(i) \/ Withdraw(i)

LifeSpec == LifeInit /\ [][LifeNext]_lifeVars
=============================================================================
