---------------------------- MODULE SleeperCache ----------------------------
(***************************************************************************)
(* The Sleeper API client (internal/sleeper/client.go): one process-wide   *)
(* response cache under a lock that is taken separately for the lookup,    *)
(* the eviction and the store, shared by every sync and MCP request, with  *)
(* an HTTP fetch of up to three attempts in between.                       *)
(***************************************************************************)
EXTENDS Naturals, Sequences, FiniteSets

CONSTANTS
    Paths,       \* pages of the API
    Callers,     \* goroutines that call the client
    NoPath,
    TTL,         \* how long an entry is served (5 minutes)
    Timeout,     \* the HTTP client's timeout, body included (30 seconds)
    Threshold,   \* entries the cache may hold (200)
    Attempts,    \* attempts of doGet (3)
    MaxTime,     \* bound on the clock
    MaxChanges   \* bound on the changes of pages at Sleeper

ASSUME CacheAssumption ==
    /\ NoPath \notin Paths
    /\ {TTL, Timeout, Threshold, Attempts} \subseteq Nat \ {0}
    /\ {MaxTime, MaxChanges} \subseteq Nat

VARIABLES
    now,     \* the clock, in units of the timeout
    changes, \* changes of pages so far
    since,   \* since[p][v]: when version v of page p appeared at Sleeper
    cache,   \* cache[p]: the entry of p, version 0 if there is none
    call     \* call[c]: the local state of get

cacheVars == <<now, changes, since, cache, call>>

NoEntry == [v |-> 0, expires |-> 0]
IdleCall == [pc |-> "idle", path |-> NoPath, began |-> 0, tries |-> 0, deadline |-> 0, v |-> 0]

CacheInit ==
    /\ now = 0 /\ changes = 0 /\ since = [p \in Paths |-> <<0>>]
    /\ cache = [p \in Paths |-> NoEntry]
    /\ call = [c \in Callers |-> IdleCall]

Cached == {p \in Paths : cache[p].v # 0}

\* Mutant of Unexpired: entries are served for ever.
AlwaysUnexpired(e) == TRUE

Unexpired(e) == now < e.expires

\* The call ends with version v, or with an error (0).
Ended(k, v) == [k EXCEPT !.pc = "ended", !.tries = 0, !.deadline = 0, !.v = v]

\* An HTTP request is sent; the client gives it up at the deadline.
Sent(k) == [k EXCEPT !.pc = "fetch", !.tries = @ + 1, !.deadline = now + Timeout]

\* get, up to the lookup: an unexpired entry is the answer, an expired one is
\* to be evicted, and without an entry the page is fetched.
Ask(c, p) ==
    LET e == cache[p]
        k == [IdleCall EXCEPT !.path = p, !.began = now] IN
    /\ call[c].pc = "idle"
    /\ call' = [call EXCEPT ![c] =
          IF e.v = 0 THEN Sent(k)
          ELSE IF Unexpired(e) THEN [k EXCEPT !.pc = "hit", !.v = e.v]
          ELSE [k EXCEPT !.pc = "evict"]]
    /\ UNCHANGED <<now, changes, since, cache>>

\* copyCacheEntry decodes a copy of the cached value.
Copy(c) ==
    /\ call[c].pc = "hit"
    /\ call' = [call EXCEPT ![c] = Ended(@, call[c].v)]
    /\ UNCHANGED <<now, changes, since, cache>>

\* The lock is taken again, so this deletes whatever is stored by now.
Evict(c) ==
    /\ call[c].pc = "evict"
    /\ cache' = [cache EXCEPT ![call[c].path] = NoEntry]
    /\ call' = [call EXCEPT ![c] = Sent(@)]
    /\ UNCHANGED <<now, changes, since>>

\* Sleeper answers the request with the page as it is.
Respond(c) ==
    /\ call[c].pc = "fetch"
    /\ call' = [call EXCEPT ![c].pc = "decode", ![c].v = Len(since[call[c].path])]
    /\ UNCHANGED <<now, changes, since, cache>>

\* Mutant of AttemptFails: the attempts are not counted.
AttemptFailsForever(c) ==
    /\ call[c].pc = "fetch"
    /\ call' = [call EXCEPT ![c].pc = "sleep", ![c].tries = 0]
    /\ UNCHANGED <<now, changes, since, cache>>

\* doGet: an error, a timeout or a status other than 200.
AttemptFails(c) ==
    /\ call[c].pc = "fetch"
    /\ call' = [call EXCEPT ![c] =
          IF @.tries < Attempts THEN [@ EXCEPT !.pc = "sleep", !.deadline = 0] ELSE Ended(@, 0)]
    /\ UNCHANGED <<now, changes, since, cache>>

\* The back-off between two attempts is over.
Retry(c) ==
    /\ call[c].pc = "sleep"
    /\ call' = [call EXCEPT ![c] = Sent(@)]
    /\ UNCHANGED <<now, changes, since, cache>>

\* The body is cut off or is not what was expected: no second attempt.
DecodeFails(c) ==
    /\ call[c].pc = "decode"
    /\ call' = [call EXCEPT ![c] = Ended(@, 0)]
    /\ UNCHANGED <<now, changes, since, cache>>

\* Mutant of Trimmed: only expired entries are dropped.
Swept(entries) ==
    IF Cardinality({p \in Paths : entries[p].v # 0}) <= Threshold THEN entries
    ELSE [p \in Paths |-> IF now > entries[p].expires THEN NoEntry ELSE entries[p]]

\* Over the threshold expired entries go, and if that is not enough, all do.
Trimmed(entries) ==
    LET size(es) == Cardinality({p \in Paths : es[p].v # 0})
        swept == [p \in Paths |-> IF now > entries[p].expires THEN NoEntry ELSE entries[p]] IN
    IF size(entries) <= Threshold THEN entries
    ELSE IF size(swept) <= Threshold THEN swept
    ELSE [p \in Paths |-> NoEntry]

\* The decoded value is stored for TTL from now, over a newer one if another
\* call was faster, and answers the call.
Store(c) ==
    LET k == call[c] IN
    /\ k.pc = "decode"
    /\ cache' = Trimmed([cache EXCEPT ![k.path] = [v |-> k.v, expires |-> now + TTL]])
    /\ call' = [call EXCEPT ![c] = Ended(k, k.v)]
    /\ UNCHANGED <<now, changes, since>>

\* The caller takes the answer or the error.
Return(c) ==
    /\ call[c].pc = "ended"
    /\ call' = [call EXCEPT ![c] = IdleCall]
    /\ UNCHANGED <<now, changes, since, cache>>

\* Requests under way end by their deadline; local steps take no time.
Tick ==
    /\ now < MaxTime /\ now' = now + 1
    /\ \A c \in Callers : call[c].pc \in {"fetch", "decode"} => now < call[c].deadline
    /\ UNCHANGED <<changes, since, cache, call>>

\* At Sleeper the page changes.
Publish(p) ==
    /\ changes < MaxChanges /\ changes' = changes + 1
    /\ since' = [since EXCEPT ![p] = Append(@, now)]
    /\ UNCHANGED <<now, cache, call>>

FetchStep(c) ==
    \/ Copy(c) \/ Evict(c) \/ Respond(c) \/ AttemptFails(c)
    \/ Retry(c) \/ DecodeFails(c) \/ Store(c)

-----------------------------------------------------------------------------
\* Type invariant, with the promise that the cache holds no more entries than
\* its threshold ("an unbounded cache is an unbounded heap", client.go:109-110).
CacheTypeOK ==
    /\ now \in 0..MaxTime /\ changes \in 0..MaxChanges
    /\ since \in [Paths -> Seq(0..MaxTime)]
    /\ cache \in [Paths -> [v : 0..(MaxChanges + 1), expires : 0..(MaxTime + TTL)]]
    /\ call \in [Callers ->
          [pc : {"idle", "hit", "evict", "fetch", "decode", "sleep", "ended"},
           path : Paths \cup {NoPath}, began : 0..MaxTime, tries : 0..Attempts,
           deadline : 0..(MaxTime + Timeout), v : 0..(MaxChanges + 1)]]
    /\ \A p \in Paths : cache[p].v <= Len(since[p])
    /\ Cardinality(Cached) <= Threshold

\* The client keeps the promise of StaleReads with Lag = TTL + Timeout: however
\* lookups, evictions, slow fetches and stores of several callers interleave,
\* an answer was current less than that before the call began.
Promise == INSTANCE StaleReads WITH
    Lag <- TTL + Timeout,
    asked <- [c \in Callers |-> call[c].path],
    began <- [c \in Callers |-> call[c].began],
    answer <- [c \in Callers |-> IF call[c].pc = "ended" THEN call[c].v ELSE 0]
AnswersAreRecent == Promise!Spec
=============================================================================
