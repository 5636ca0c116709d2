----------------------------- MODULE StaleReads -----------------------------
(***************************************************************************)
(* What callers of the Sleeper client are promised: a call ends with an    *)
(* error or with a version of the page that was current at some moment     *)
(* less than Lag before the call began, or since.  Nothing is promised     *)
(* about the order of the versions two calls see.                          *)
(***************************************************************************)
EXTENDS Naturals, Sequences

CONSTANTS Paths, Callers, Lag, NoPath

VARIABLES
    now,      \* the clock
    since,    \* since[p][v]: when version v of page p appeared
    asked,    \* asked[c]: the page c waits for, or NoPath
    began,    \* began[c]: when c asked for it
    answer    \* answer[c]: the version c was given, 0 for none

vars == <<now, since, asked, began, answer>>

Init ==
    /\ now = 0 /\ since = [p \in Paths |-> <<0>>]
    /\ asked = [c \in Callers |-> NoPath]
    /\ began = [c \in Callers |-> 0] /\ answer = [c \in Callers |-> 0]

Tick == now' = now + 1 /\ UNCHANGED <<since, asked, began, answer>>

Publish(p) ==
    /\ since' = [since EXCEPT ![p] = Append(@, now)]
    /\ UNCHANGED <<now, asked, began, answer>>

Ask(c, p) ==
    /\ asked[c] = NoPath
    /\ asked' = [asked EXCEPT ![c] = p] /\ began' = [began EXCEPT ![c] = now]
    /\ UNCHANGED <<now, since, answer>>

Answer(c) ==
    /\ asked[c] # NoPath /\ answer[c] = 0
    /\ \E v \in 1..Len(since[asked[c]]) :
          /\ v = Len(since[asked[c]]) \/ since[asked[c]][v + 1] + Lag > began[c]
          /\ answer' = [answer EXCEPT ![c] = v]
    /\ UNCHANGED <<now, since, asked, began>>

\* The caller goes on, with its answer or with an error.
Return(c) ==
    /\ asked[c] # NoPath
    /\ asked' = [asked EXCEPT ![c] = NoPath]
    /\ began' = [began EXCEPT ![c] = 0] /\ answer' = [answer EXCEPT ![c] = 0]
    /\ UNCHANGED <<now, since>>

Next ==
    \/ Tick
    \/ \E p \in Paths : Publish(p)
    \/ \E c \in Callers : (\E p \in Paths : Ask(c, p)) \/ Answer(c) \/ Return(c)

Spec == Init /\ [][Next]_vars
=============================================================================
