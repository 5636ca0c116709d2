-------------------------- MODULE McpServerProofs --------------------------
(***************************************************************************)
(* Proofs about McpServer.tla and the Sleeper client under it, for every   *)
(* set of pages, callers, connections and requests and all durations: the  *)
(* types, and that the client keeps the promise of StaleReads.             *)
(***************************************************************************)
EXTENDS McpServer, TLAPS, FiniteSetTheorems

-----------------------------------------------------------------------------
(* The strengthened invariant of the client.                               *)

Lag == TTL + Timeout

Entry == [v : 0..(MaxChanges + 1), expires : 0..(MaxTime + TTL)]

CallState ==
    [pc : {"idle", "hit", "evict", "fetch", "decode", "sleep", "ended"},
     path : Paths \cup {NoPath}, began : 0..MaxTime, tries : 0..Attempts,
     deadline : 0..(MaxTime + Timeout), v : 0..(MaxChanges + 1)]

ClockOK ==
    /\ now \in 0..MaxTime /\ changes \in 0..MaxChanges
    /\ since \in [Paths -> Seq(0..MaxTime)]
    /\ \A p \in Paths : Len(since[p]) \in 1..(changes + 1)

\* Version v of page p is the last one, or the next one appeared no more than
\* lag before moment.
Lasted(p, v, lag, moment) ==
    /\ v \in 1..Len(since[p])
    /\ v = Len(since[p]) \/ since[p][v + 1] + lag >= moment

\* An entry: what it holds was current less than Lag before it expires.
EntryGood(p, e) ==
    e.v # 0 => /\ e.expires <= now + TTL
               /\ Lasted(p, e.v, Lag, e.expires)

EntriesOK ==
    /\ cache \in [Paths -> Entry]
    /\ \A p \in Paths : EntryGood(p, cache[p])

SizeOK == IsFiniteSet(Cached) /\ Cardinality(Cached) <= Threshold

\* A call: a fetch is under way for less than the timeout, what it or the cache
\* returned was current recently.
CallGood(k) ==
    /\ k.pc = "idle" => k = IdleCall
    /\ k.pc # "idle" => k.path \in Paths /\ k.began <= now
    /\ k.pc = "hit" => Lasted(k.path, k.v, Lag, k.began + 1)
    /\ k.pc \in {"fetch", "decode"} =>
          /\ now <= k.deadline /\ k.deadline <= now + Timeout
          /\ k.began + Timeout <= k.deadline
    /\ k.pc = "decode" => Lasted(k.path, k.v, Timeout, k.deadline)
    /\ k.pc = "sleep" => k.tries < Attempts
    /\ k.pc = "evict" => k.tries = 0

CallsOK ==
    /\ call \in [Callers -> CallState]
    /\ \A c \in Callers : CallGood(call[c])

CacheInv == ClockOK /\ EntriesOK /\ SizeOK /\ CallsOK

-----------------------------------------------------------------------------
(* Steps of one call.                                                      *)

\* The durations and bounds are numbers.
LEMMA Numbers ==
  /\ TTL \in Nat /\ TTL > 0 /\ Timeout \in Nat /\ Timeout > 0
  /\ Threshold \in Nat /\ Threshold > 0 /\ Attempts \in Nat /\ Attempts > 0
  /\ MaxTime \in Nat /\ MaxChanges \in Nat
BY CacheAssumption

\* Versions appear at moments.
LEMMA Moments ==
  ASSUME CacheInv, NEW p \in Paths
  PROVE  /\ since[p] \in Seq(0..MaxTime) /\ Len(since[p]) \in Nat
         /\ \A n \in 1..Len(since[p]) : since[p][n] \in Nat
<1> DEFINE s == since[p]
           T == 0..MaxTime
<1>1. s \in Seq(T)
  BY DEF CacheInv, ClockOK
<1>2. T \subseteq Nat
  BY Numbers
<1> HIDE DEF s, T
<1>3. Len(s) \in Nat /\ \A n \in 1..Len(s) : s[n] \in T
  BY <1>1
<1>4. Len(s) \in Nat /\ \A n \in 1..Len(s) : s[n] \in Nat
  BY <1>2, <1>3
<1> QED BY <1>1, <1>4 DEF s, T

\* A call takes a step while time stands still.
LEMMA CallMoves ==
  ASSUME CacheInv, NEW c \in Callers, NEW k \in CallState, CallGood(k),
         call' = [call EXCEPT ![c] = k], UNCHANGED <<now, changes, since>>
  PROVE  ClockOK' /\ CallsOK'
<1>1. call' \in [Callers -> CallState] /\ call'[c] = k
      /\ \A d \in Callers : d # c => call'[d] = call[d]
  BY DEF CacheInv, CallsOK
<1>2. \A d \in Callers : CallGood(call'[d])
  BY <1>1 DEF CacheInv, CallsOK
<1>3. CallsOK'
  BY <1>1, <1>2 DEF CallsOK, CallGood, Lasted
<1> QED BY <1>3 DEF CacheInv, ClockOK

\* What a call is, by its progress.
LEMMA CallIs ==
  ASSUME CacheInv, NEW c \in Callers
  PROVE  /\ call[c] \in CallState /\ CallGood(call[c])
         /\ now \in Nat /\ now <= MaxTime
BY Numbers DEF CacheInv, CallsOK, ClockOK

\* The cache is not touched.
LEMMA CacheKept == ASSUME CacheInv, UNCHANGED <<now, since, cache>> PROVE EntriesOK' /\ SizeOK'
BY DEF CacheInv, EntriesOK, EntryGood, Lasted, SizeOK, Cached

\* A request is sent with a deadline ahead of it.
LEMMA SentGood ==
  ASSUME CacheInv, NEW k \in CallState, k.path \in Paths, k.began <= now, k.tries < Attempts
  PROVE  /\ Sent(k) \in CallState /\ CallGood(Sent(k)) /\ Sent(k).pc = "fetch"
         /\ Sent(k).path = k.path /\ Sent(k).began = k.began
<1> DEFINE deadline == now + Timeout
           tries == k.tries + 1
           s == [k EXCEPT !.pc = "fetch", !.tries = tries, !.deadline = deadline]
<1>1. now \in Nat /\ now <= MaxTime /\ k.began \in Nat /\ k.tries \in Nat
  BY Numbers DEF CacheInv, ClockOK, CallState
<1>2. deadline \in 0..(MaxTime + Timeout) /\ now <= deadline /\ deadline <= now + Timeout
      /\ k.began + Timeout <= deadline
  BY <1>1, Numbers
<1>3. tries \in 0..Attempts
  BY <1>1, Numbers
<1>4. Sent(k) = s
  BY Zenon DEF Sent
<1> HIDE DEF deadline, tries
<1>5. /\ s \in CallState /\ s.pc = "fetch" /\ s.path = k.path /\ s.began = k.began
      /\ s.deadline = deadline
  BY <1>2, <1>3 DEF CallState
<1> HIDE DEF s
<1>6. CallGood(s)
  BY <1>2, <1>5 DEF CallGood
<1> QED BY <1>4, <1>5, <1>6

\* A call ends.
LEMMA EndedGood ==
  ASSUME NEW k \in CallState, k.path \in Paths, k.began <= now,
         NEW v \in 0..(MaxChanges + 1)
  PROVE  /\ Ended(k, v) \in CallState /\ CallGood(Ended(k, v)) /\ Ended(k, v).pc = "ended"
         /\ Ended(k, v).path = k.path /\ Ended(k, v).began = k.began /\ Ended(k, v).v = v
<1> DEFINE s == [k EXCEPT !.pc = "ended", !.tries = 0, !.deadline = 0, !.v = v]
<1>1. Ended(k, v) = s
  BY Zenon DEF Ended
<1>2. s \in CallState /\ s.pc = "ended" /\ s.path = k.path /\ s.began = k.began /\ s.v = v
  <2>1. 0 \in 0..Attempts /\ 0 \in 0..(MaxTime + Timeout)
    BY Numbers
  <2> QED BY <2>1 DEF CallState
<1> HIDE DEF s
<1>3. CallGood(s)
  BY <1>2 DEF CallGood
<1> QED BY <1>1, <1>2, <1>3

\* A lookup: an unexpired entry, an expired one or a fetch.
LEMMA AskStep ==
  ASSUME CacheInv, NEW c \in Callers, NEW p \in Paths, Ask(c, p)
  PROVE  /\ CacheInv'
         /\ call[c].pc = "idle" /\ UNCHANGED <<now, since>>
         /\ \E k \in CallState : /\ call' = [call EXCEPT ![c] = k]
                                 /\ k.pc \in {"fetch", "hit", "evict"}
                                 /\ k.path = p /\ k.began = now
<1> DEFINE e == cache[p]
           k == [IdleCall EXCEPT !.path = p, !.began = now]
<1>1. /\ call[c].pc = "idle" /\ UNCHANGED <<now, changes, since, cache>>
      /\ call' = [call EXCEPT ![c] =
            IF e.v = 0 THEN Sent(k)
            ELSE IF Unexpired(e) THEN [k EXCEPT !.pc = "hit", !.v = e.v]
            ELSE [k EXCEPT !.pc = "evict"]]
  BY Zenon DEF Ask
<1>2. /\ k \in CallState /\ k.pc = "idle" /\ k.path = p /\ k.began = now /\ k.tries = 0
      /\ now \in Nat
  <2>1. 0 \in 0..Attempts /\ 0 \in 0..(MaxTime + Timeout) /\ 0 \in 0..(MaxChanges + 1)
        /\ now \in 0..MaxTime /\ now \in Nat
    BY Numbers DEF CacheInv, ClockOK
  <2> QED BY <2>1 DEF CallState, IdleCall
<1>3. e \in Entry /\ EntryGood(p, e)
  BY DEF CacheInv, EntriesOK
<1> HIDE DEF e, k
<1>4. \E s \in CallState : /\ call' = [call EXCEPT ![c] = s] /\ CallGood(s)
                           /\ s.pc \in {"fetch", "hit", "evict"}
                           /\ s.path = p /\ s.began = now
  <2>1. CASE e.v = 0
    <3>1. call' = [call EXCEPT ![c] = Sent(k)]
      BY <1>1, <2>1, Zenon
    <3>2. k.tries < Attempts /\ k.began <= now
      BY <1>2, Numbers
    <3> QED BY <1>2, <3>1, <3>2, SentGood
  <2>2. CASE e.v # 0 /\ Unexpired(e)
    <3> DEFINE v == e.v
               s == [k EXCEPT !.pc = "hit", !.v = v]
    <3>1. call' = [call EXCEPT ![c] = s]
      BY <1>1, <2>2, Zenon
    <3>2. v \in 0..(MaxChanges + 1)
      BY <1>3 DEF Entry
    <3>3. Lasted(p, v, Lag, now + 1)
      <4>1. Lasted(p, v, Lag, e.expires) /\ now < e.expires
        BY <1>3, <2>2 DEF EntryGood, Unexpired
      <4>2. e.expires \in Nat /\ Lag \in Nat
        BY <1>3, Numbers DEF Entry, Lag
      <4>3. v \in 1..Len(since[p]) /\ v # Len(since[p]) => since[p][v + 1] \in Nat
        <5>1. since[p] \in Seq(0..MaxTime)
          BY DEF CacheInv, ClockOK
        <5>2. \A n \in 1..Len(since[p]) : since[p][n] \in Nat
          BY Moments
        <5> HIDE DEF v
        <5>3. v \in 1..Len(since[p]) /\ v # Len(since[p]) => v + 1 \in 1..Len(since[p])
          BY <5>1
        <5> QED BY <5>2, <5>3
      <4> HIDE DEF v
      <4> QED BY <1>2, <4>1, <4>2, <4>3 DEF Lasted
    <3> HIDE DEF v
    <3>4. s \in CallState /\ s.pc = "hit" /\ s.path = p /\ s.began = now /\ s.v = v
      BY <1>2, <3>2 DEF CallState
    <3> HIDE DEF s
    <3>5. CallGood(s)
      BY <1>2, <3>3, <3>4 DEF CallGood
    <3> QED BY <3>1, <3>4, <3>5
  <2>3. CASE e.v # 0 /\ ~Unexpired(e)
    <3> DEFINE s == [k EXCEPT !.pc = "evict"]
    <3>1. call' = [call EXCEPT ![c] = s]
      BY <1>1, <2>3, Zenon
    <3>2. s \in CallState /\ s.pc = "evict" /\ s.path = p /\ s.began = now /\ s.tries = 0
      BY <1>2 DEF CallState
    <3> HIDE DEF s
    <3>3. CallGood(s)
      BY <1>2, <3>2 DEF CallGood
    <3> QED BY <3>1, <3>2, <3>3
  <2> QED BY <2>1, <2>2, <2>3
<1>5. CacheInv'
  BY <1>1, <1>4, CallMoves, CacheKept DEF CacheInv
<1> QED BY <1>1, <1>4, <1>5

\* The call of c goes on or ends; the cache is not touched.
LEMMA LocalStep ==
  ASSUME CacheInv, NEW c \in Callers,
         Copy(c) \/ Respond(c) \/ AttemptFails(c) \/ Retry(c) \/ DecodeFails(c)
  PROVE  /\ CacheInv' /\ UNCHANGED <<now, since>>
         /\ call[c].pc # "idle"
         /\ \E k \in CallState :
              /\ call' = [call EXCEPT ![c] = k]
              /\ k.pc # "idle" /\ k.path = call[c].path /\ k.began = call[c].began
              /\ Copy(c) \/ (k.pc = "ended" => k.v = 0)
<1> DEFINE o == call[c]
<1>1. /\ o \in CallState /\ CallGood(o) /\ now \in Nat /\ now <= MaxTime
      /\ UNCHANGED <<now, changes, since, cache>>
      /\ o.pc # "idle" /\ o.path \in Paths /\ o.began <= now
  BY CallIs DEF Copy, Respond, AttemptFails, Retry, DecodeFails, CallGood
<1>2. \E k \in CallState :
        /\ call' = [call EXCEPT ![c] = k] /\ CallGood(k)
        /\ k.pc # "idle" /\ k.path = o.path /\ k.began = o.began
        /\ Copy(c) \/ (k.pc = "ended" => k.v = 0)
  <2>1. CASE Copy(c)
    <3>1. call' = [call EXCEPT ![c] = Ended(o, o.v)]
      BY <2>1, Zenon DEF Copy
    <3>2. o.v \in 0..(MaxChanges + 1)
      BY <1>1 DEF CallState
    <3> HIDE DEF o
    <3> QED BY <1>1, <2>1, <3>1, <3>2, EndedGood
  <2>2. CASE DecodeFails(c)
    <3>1. call' = [call EXCEPT ![c] = Ended(o, 0)]
      BY <2>2, Zenon DEF DecodeFails
    <3>2. 0 \in 0..(MaxChanges + 1)
      BY Numbers
    <3> HIDE DEF o
    <3> QED BY <1>1, <3>1, <3>2, EndedGood
  <2>3. CASE Retry(c)
    <3>1. call' = [call EXCEPT ![c] = Sent(o)] /\ o.tries < Attempts
      BY <1>1, <2>3, Zenon DEF Retry, CallGood
    <3> HIDE DEF o
    <3>2. Sent(o) \in CallState /\ CallGood(Sent(o)) /\ Sent(o).pc = "fetch"
          /\ Sent(o).path = o.path /\ Sent(o).began = o.began
      BY <1>1, <3>1, SentGood
    <3> QED BY <3>1, <3>2
  <2>4. CASE AttemptFails(c)
    <3>1. call' = [call EXCEPT ![c] =
             IF o.tries < Attempts THEN [o EXCEPT !.pc = "sleep", !.deadline = 0]
             ELSE Ended(o, 0)]
      BY <2>4, Zenon DEF AttemptFails
    <3> HIDE DEF o
    <3>2. CASE o.tries < Attempts
      <4> DEFINE s == [o EXCEPT !.pc = "sleep", !.deadline = 0]
      <4>1. call' = [call EXCEPT ![c] = s]
        BY <3>1, <3>2, Zenon
      <4>2. 0 \in 0..(MaxTime + Timeout)
        BY Numbers
      <4>3. s \in CallState /\ s.pc = "sleep" /\ s.path = o.path /\ s.began = o.began
            /\ s.tries = o.tries
        BY <1>1, <4>2 DEF CallState
      <4> HIDE DEF s
      <4>4. CallGood(s)
        BY <1>1, <3>2, <4>3 DEF CallGood
      <4> QED BY <4>1, <4>3, <4>4
    <3>3. CASE ~(o.tries < Attempts)
      <4>1. call' = [call EXCEPT ![c] = Ended(o, 0)]
        BY <3>1, <3>3, Zenon
      <4>2. 0 \in 0..(MaxChanges + 1)
        BY Numbers
      <4> QED BY <1>1, <4>1, <4>2, EndedGood
    <3> QED BY <3>2, <3>3
  <2>5. CASE Respond(c)
    <3> DEFINE v == Len(since[o.path])
               s == [o EXCEPT !.pc = "decode", !.v = v]
    <3>1. call' = [call EXCEPT ![c] = s] /\ o.pc = "fetch"
      BY <2>5, Zenon DEF Respond
    <3>2. v \in 1..(changes + 1) /\ changes \in 0..MaxChanges
      BY <1>1 DEF CacheInv, ClockOK
    <3> HIDE DEF v, o
    <3>3. v \in 0..(MaxChanges + 1) /\ v \in 1..v
      BY <3>2, Numbers
    <3>4. s \in CallState /\ s.pc = "decode" /\ s.path = o.path /\ s.began = o.began
          /\ s.v = v /\ s.deadline = o.deadline
      BY <1>1, <3>3 DEF CallState
    <3> HIDE DEF s
    <3>5. CallGood(s)
      BY <1>1, <3>1, <3>3, <3>4 DEF CallGood, Lasted, v
    <3> QED BY <3>1, <3>4, <3>5
  <2> QED BY <2>1, <2>2, <2>3, <2>4, <2>5
<1>3. CacheInv'
  BY <1>1, <1>2, CallMoves, CacheKept DEF CacheInv
<1> QED BY <1>1, <1>2, <1>3

\* The caller takes the answer.
LEMMA ReturnStep ==
  ASSUME CacheInv, NEW c \in Callers, Return(c)
  PROVE  /\ CacheInv' /\ UNCHANGED <<now, since>> /\ call[c].pc = "ended"
         /\ call[c].path \in Paths /\ IdleCall \in CallState
         /\ call' = [call EXCEPT ![c] = IdleCall]
<1>1. UNCHANGED <<now, changes, since, cache>> /\ call[c].pc = "ended"
      /\ call' = [call EXCEPT ![c] = IdleCall]
  BY DEF Return
<1>2. IdleCall \in CallState
  <2>1. 0 \in 0..Attempts /\ 0 \in 0..(MaxTime + Timeout) /\ 0 \in 0..(MaxChanges + 1)
        /\ 0 \in 0..MaxTime
    BY Numbers
  <2> QED BY <2>1 DEF CallState, IdleCall
<1>3. CallGood(IdleCall)
  <2>1. IdleCall.pc = "idle"
    BY DEF IdleCall
  <2> QED BY <2>1 DEF CallGood
<1>4. CacheInv'
  BY <1>1, <1>2, <1>3, CallMoves, CacheKept DEF CacheInv
<1>5. call[c].path \in Paths
  BY <1>1, CallIs DEF CallGood
<1> QED BY <1>1, <1>2, <1>4, <1>5

\* Entries that are dropped leave good entries and fewer of them.
LEMMA EntriesDropped ==
  ASSUME CacheInv, NEW es \in [Paths -> Entry], \A p \in Paths : EntryGood(p, es[p]),
         UNCHANGED <<now, since>>, cache' = es
  PROVE  EntriesOK'
BY DEF EntriesOK, EntryGood, Lasted

\* No entry is a good entry.
LEMMA NoEntryGood == NoEntry \in Entry /\ NoEntry.v = 0 /\ \A p \in Paths : EntryGood(p, NoEntry)
<1>1. 0 \in 0..(MaxChanges + 1) /\ 0 \in 0..(MaxTime + TTL)
  BY Numbers
<1> QED BY <1>1 DEF NoEntry, Entry, EntryGood

\* Whatever is stored by now is evicted and a fetch is started.
LEMMA EvictStep ==
  ASSUME CacheInv, NEW c \in Callers, Evict(c)
  PROVE  /\ CacheInv' /\ UNCHANGED <<now, since>>
         /\ call[c].pc # "idle"
         /\ \E k \in CallState :
              /\ call' = [call EXCEPT ![c] = k]
              /\ k.pc = "fetch" /\ k.path = call[c].path /\ k.began = call[c].began
<1> DEFINE o == call[c]
<1>1. /\ o \in CallState /\ CallGood(o) /\ o.pc = "evict"
      /\ UNCHANGED <<now, changes, since>>
      /\ o.path \in Paths /\ o.began <= now /\ o.tries = 0
      /\ cache' = [cache EXCEPT ![o.path] = NoEntry]
      /\ call' = [call EXCEPT ![c] = Sent(o)]
  BY CallIs DEF Evict, CallGood
<1> HIDE DEF o
<1>2. o.tries < Attempts
  BY <1>1, Numbers
<1>3. Sent(o) \in CallState /\ CallGood(Sent(o)) /\ Sent(o).pc = "fetch"
      /\ Sent(o).path = o.path /\ Sent(o).began = o.began
  BY <1>1, <1>2, SentGood
<1>4. cache' \in [Paths -> Entry] /\ (\A p \in Paths : EntryGood(p, cache'[p]))
      /\ \A p \in Paths : cache'[p].v # 0 => cache[p].v # 0
  BY <1>1, NoEntryGood DEF CacheInv, EntriesOK
<1>5. EntriesOK'
  BY <1>1, <1>4, EntriesDropped
<1>6. SizeOK'
  <2> DEFINE S == Cached
             T == Cached'
  <2>1. T \subseteq S
    BY <1>4 DEF Cached
  <2>2. IsFiniteSet(S) /\ Cardinality(S) <= Threshold
    BY DEF CacheInv, SizeOK
  <2> HIDE DEF S, T
  <2>3. IsFiniteSet(T) /\ Cardinality(T) <= Cardinality(S)
    BY <2>1, <2>2, FS_Subset
  <2>4. Cardinality(T) \in Nat /\ Cardinality(S) \in Nat
    BY <2>2, <2>3, FS_CardinalityType
  <2>5. IsFiniteSet(T) /\ Cardinality(T) <= Threshold
    BY <2>2, <2>3, <2>4, Numbers
  <2> QED BY <2>5 DEF SizeOK, T
<1>7. CacheInv'
  BY <1>1, <1>3, <1>5, <1>6, CallMoves DEF CacheInv
<1> QED BY <1>1, <1>3, <1>7 DEF o

\* What was decoded is stored, and the cache trimmed.
LEMMA StoreStep ==
  ASSUME CacheInv, NEW c \in Callers, Store(c)
  PROVE  /\ CacheInv' /\ UNCHANGED <<now, since>>
         /\ call[c].pc = "decode"
         /\ \E k \in CallState :
              /\ call' = [call EXCEPT ![c] = k]
              /\ k.pc = "ended" /\ k.path = call[c].path /\ k.began = call[c].began
              /\ k.v = call[c].v
<1> DEFINE o == call[c]
           new == [v |-> o.v, expires |-> now + TTL]
           entries == [cache EXCEPT ![o.path] = new]
           swept == [p \in Paths |-> IF now > entries[p].expires THEN NoEntry ELSE entries[p]]
           none == [p \in Paths |-> NoEntry]
           Size(es) == Cardinality({p \in Paths : es[p].v # 0})
<1>1. /\ o \in CallState /\ CallGood(o) /\ o.pc = "decode" /\ now \in Nat /\ now <= MaxTime
      /\ UNCHANGED <<now, changes, since>>
      /\ o.path \in Paths /\ o.began <= now
      /\ cache' = Trimmed(entries) /\ call' = [call EXCEPT ![c] = Ended(o, o.v)]
      /\ Lasted(o.path, o.v, Timeout, o.deadline) /\ now <= o.deadline
  BY CallIs DEF Store, CallGood
<1>2. o.v \in 0..(MaxChanges + 1) /\ o.deadline \in Nat
  BY <1>1, Numbers DEF CallState
<1>3. new \in Entry /\ EntryGood(o.path, new)
  <2> DEFINE expires == now + TTL
  <2>1. expires \in 0..(MaxTime + TTL) /\ expires <= now + TTL
    BY <1>1, Numbers
  <2>2. Lasted(o.path, o.v, Lag, expires)
    <3>1. o.v \in 1..Len(since[o.path]) /\ o.v # Len(since[o.path]) =>
            since[o.path][o.v + 1] \in Nat
      <4>1. Len(since[o.path]) \in Nat
            /\ \A n \in 1..Len(since[o.path]) : since[o.path][n] \in Nat
        BY <1>1, Moments
      <4>2. o.v \in 1..Len(since[o.path]) /\ o.v # Len(since[o.path]) =>
              o.v + 1 \in 1..Len(since[o.path])
        BY <4>1
      <4> QED BY <4>1, <4>2
    <3> DEFINE d == o.deadline
               next == since[o.path][o.v + 1]
               v == o.v
               last == Len(since[o.path])
    <3>2. v \in 1..last /\ (v = last \/ next + Timeout >= d) /\ now <= d /\ d \in Nat
          /\ (v # last => next \in Nat)
      BY <1>1, <1>2, <3>1 DEF Lasted
    <3>3. (v \in 1..last /\ (v = last \/ next + Lag >= expires)) => Lasted(o.path, v, Lag, expires)
      BY DEF Lasted
    <3> HIDE DEF o, d, next, v, last
    <3>4. v = last \/ next + Lag >= expires
      BY <1>1, <3>2, Numbers DEF Lag
    <3> QED BY <3>2, <3>3, <3>4 DEF v
  <2> HIDE DEF expires, o
  <2>3. new.v = o.v /\ new.expires = expires /\ new \in Entry
    BY <1>2, <2>1 DEF Entry, expires
  <2> HIDE DEF new
  <2> QED BY <2>1, <2>2, <2>3 DEF EntryGood
<1>4. Ended(o, o.v) \in CallState /\ CallGood(Ended(o, o.v)) /\ Ended(o, o.v).pc = "ended"
      /\ Ended(o, o.v).path = o.path /\ Ended(o, o.v).began = o.began
      /\ Ended(o, o.v).v = o.v
  <2> HIDE DEF o
  <2> QED BY <1>1, <1>2, EndedGood
<1> HIDE DEF new, o
<1>5. entries \in [Paths -> Entry] /\ (\A p \in Paths : EntryGood(p, entries[p]))
      /\ \A p \in Paths : entries[p].v # 0 => cache[p].v # 0 \/ p = o.path
  BY <1>1, <1>3 DEF CacheInv, EntriesOK
<1> HIDE DEF entries
<1>6. swept \in [Paths -> Entry] /\ (\A p \in Paths : EntryGood(p, swept[p]))
      /\ \A p \in Paths : swept[p].v # 0 => entries[p].v # 0
  BY <1>5, NoEntryGood
<1>7. none \in [Paths -> Entry] /\ (\A p \in Paths : EntryGood(p, none[p]))
      /\ \A p \in Paths : none[p].v = 0
  BY NoEntryGood
<1>8. \/ cache' = entries /\ Size(entries) <= Threshold
      \/ cache' = swept /\ Size(swept) <= Threshold
      \/ cache' = none
  BY <1>1, Zenon DEF Trimmed
<1> HIDE DEF swept, none
<1>9. EntriesOK'
  BY <1>1, <1>5, <1>6, <1>7, <1>8, EntriesDropped
<1>10. SizeOK'
  <2>1. IsFiniteSet(Cached')
    <3> DEFINE S == Cached
    <3>1. Cached' \subseteq S \cup {o.path}
      BY <1>5, <1>6, <1>7, <1>8 DEF Cached
    <3>2. IsFiniteSet(S)
      BY DEF CacheInv, SizeOK
    <3> HIDE DEF S
    <3>3. IsFiniteSet(S \cup {o.path})
      BY <3>2, FS_AddElement
    <3> QED BY <3>1, <3>3, FS_Subset
  <2>2. Cardinality(Cached') <= Threshold
    <3>1. CASE cache' = none
      <4>1. Cached' = {}
        BY <1>7, <3>1 DEF Cached
      <4> QED BY <4>1, FS_EmptySet, Numbers
    <3>2. CASE cache' # none
      BY <1>8, <3>2, Zenon DEF Cached
    <3> QED BY <3>1, <3>2
  <2> QED BY <2>1, <2>2 DEF SizeOK
<1>11. CacheInv'
  BY <1>1, <1>4, <1>9, <1>10, CallMoves DEF CacheInv
<1> QED BY <1>1, <1>4, <1>11 DEF o

\* Time passes, at the latest until the deadline of a fetch.
LEMMA TickStep == ASSUME CacheInv, Tick PROVE CacheInv' /\ now' = now + 1
<1>1. /\ now < MaxTime /\ now' = now + 1 /\ now \in Nat
      /\ \A c \in Callers : call[c].pc \in {"fetch", "decode"} => now < call[c].deadline
      /\ UNCHANGED <<changes, since, cache, call>>
  BY Numbers DEF Tick, CacheInv, ClockOK
<1>2. ClockOK'
  BY <1>1, Numbers DEF CacheInv, ClockOK
<1>3. EntriesOK'
  <2>1. \A p \in Paths : cache[p].expires \in Nat
    BY Numbers DEF CacheInv, EntriesOK, Entry
  <2> QED BY <1>1, <2>1, Numbers DEF CacheInv, EntriesOK, EntryGood, Lasted
<1>4. SizeOK'
  BY <1>1 DEF CacheInv, SizeOK, Cached
<1>5. CallsOK'
  <2>1. \A c \in Callers : call[c].deadline \in Nat /\ call[c].began \in Nat
    BY Numbers DEF CacheInv, CallsOK, CallState
  <2>2. ASSUME NEW c \in Callers PROVE CallGood(call[c])'
    <3>1. CallGood(call[c])
      BY DEF CacheInv, CallsOK
    <3> QED BY <1>1, <2>1, <3>1, Numbers DEF CallGood, Lasted
  <2> QED BY <1>1, <2>2 DEF CacheInv, CallsOK
<1> QED BY <1>1, <1>2, <1>3, <1>4, <1>5 DEF CacheInv

\* A page changes: what lasted until now still did.
LEMMA PublishStep == ASSUME CacheInv, NEW p \in Paths, Publish(p) PROVE CacheInv'
<1>1. /\ changes < MaxChanges /\ changes' = changes + 1
      /\ since' = [since EXCEPT ![p] = Append(since[p], now)]
      /\ UNCHANGED <<now, cache, call>>
      /\ now \in 0..MaxTime /\ now \in Nat /\ changes \in Nat
  BY Numbers DEF Publish, CacheInv, ClockOK
<1>2. \A q \in Paths :
        /\ since'[q] \in Seq(0..MaxTime) /\ Len(since'[q]) \in Nat
        /\ Len(since'[q]) \in {Len(since[q]), Len(since[q]) + 1}
        /\ \A n \in 1..Len(since[q]) : since'[q][n] = since[q][n]
        /\ Len(since'[q]) # Len(since[q]) => since'[q][Len(since[q]) + 1] = now
  <2> TAKE q \in Paths
  <2> DEFINE T == 0..MaxTime
             s == since[q]
             t == Append(s, now)
  <2>1. s \in Seq(T) /\ now \in T /\ Len(s) \in Nat
    BY <1>1, Moments
  <2> HIDE DEF T
  <2>2. since'[q] = IF q = p THEN t ELSE s
    BY <1>1 DEF CacheInv, ClockOK
  <2> HIDE DEF s
  <2>3. /\ t \in Seq(T) /\ Len(t) = Len(s) + 1
        /\ \A n \in 1..Len(s) : t[n] = s[n]
        /\ t[Len(s) + 1] = now
    BY <2>1
  <2> HIDE DEF t
  <2>4. /\ since'[q] \in Seq(T) /\ Len(since'[q]) \in Nat
        /\ Len(since'[q]) \in {Len(s), Len(s) + 1}
        /\ \A n \in 1..Len(s) : since'[q][n] = s[n]
        /\ Len(since'[q]) # Len(s) => since'[q][Len(s) + 1] = now
    BY <2>1, <2>2, <2>3
  <2> QED BY <2>4 DEF s, T
<1>3. ASSUME NEW q \in Paths, NEW v, NEW lag \in Nat, NEW moment \in Nat,
             Lasted(q, v, lag, moment), moment <= now + lag
      PROVE  Lasted(q, v, lag, moment)'
  <2> DEFINE s == since[q]
             t == since'[q]
             m == Len(s)
             n == Len(t)
  <2>1. /\ m \in Nat /\ n \in {m, m + 1} /\ v \in 1..m
        /\ v = m \/ s[v + 1] + lag >= moment
        /\ \A l \in 1..m : t[l] = s[l]
        /\ n # m => t[m + 1] = now
    BY <1>2, <1>3, Moments DEF Lasted
  <2> HIDE DEF s, t, m, n
  <2>2. v \in 1..n
    BY <2>1
  <2>3. v = n \/ t[v + 1] + lag >= moment
    <3>1. CASE v = m
      BY <1>1, <1>3, <2>1, <3>1
    <3>2. CASE v # m
      <4>1. v + 1 \in 1..m
        BY <2>1, <3>2
      <4> QED BY <2>1, <3>2, <4>1
    <3> QED BY <3>1, <3>2
  <2> QED BY <2>2, <2>3 DEF Lasted, t, n
<1>4. ClockOK'
  <2>1. since' \in [Paths -> Seq(0..MaxTime)]
    BY <1>1, <1>2 DEF CacheInv, ClockOK
  <2>2. \A q \in Paths : Len(since'[q]) \in 1..(changes' + 1)
    BY <1>1, <1>2, Moments DEF CacheInv, ClockOK
  <2> QED BY <1>1, <2>1, <2>2, Numbers DEF ClockOK
<1>5. EntriesOK'
  <2>1. ASSUME NEW q \in Paths PROVE EntryGood(q, cache[q])'
    <3> DEFINE e == cache[q]
    <3>1. e.expires \in Nat /\ EntryGood(q, e) /\ Lag \in Nat
      BY Numbers DEF CacheInv, EntriesOK, Entry, Lag
    <3> HIDE DEF e
    <3>2. EntryGood(q, e)'
      <4> SUFFICES ASSUME e.v # 0
                   PROVE  e.expires <= now + TTL /\ Lasted(q, e.v, Lag, e.expires)'
        BY <1>1 DEF EntryGood, e
      <4>1. e.expires <= now + TTL /\ Lasted(q, e.v, Lag, e.expires)
        BY <3>1 DEF EntryGood
      <4>2. e.expires <= now + Lag
        BY <1>1, <3>1, <4>1, Numbers DEF Lag
      <4>3. e' = e
        BY <1>1 DEF e
      <4> QED BY <1>3, <3>1, <4>1, <4>2, <4>3
    <3> QED BY <3>2 DEF e
  <2> QED BY <1>1, <2>1 DEF CacheInv, EntriesOK
<1>6. SizeOK'
  BY <1>1 DEF CacheInv, SizeOK, Cached
<1>7. CallsOK'
  <2>1. ASSUME NEW c \in Callers PROVE CallGood(call[c])'
    <3> DEFINE k == call[c]
    <3>1. /\ k.deadline \in Nat /\ k.began \in Nat /\ CallGood(k) /\ Lag \in Nat /\ k' = k
          /\ Lag > 0 /\ Timeout \in Nat
      BY <1>1, Numbers DEF CacheInv, CallsOK, CallState, Lag
    <3> HIDE DEF k
    <3>2. k.pc = "hit" => Lasted(k.path, k.v, Lag, k.began + 1)'
      <4> SUFFICES ASSUME k.pc = "hit" PROVE Lasted(k.path, k.v, Lag, k.began + 1)'
        OBVIOUS
      <4>1. k.path \in Paths /\ k.began <= now /\ Lasted(k.path, k.v, Lag, k.began + 1)
        BY <3>1 DEF CallGood
      <4>2. k.began + 1 \in Nat /\ k.began + 1 <= now + Lag
        BY <1>1, <3>1, <4>1
      <4> QED BY <1>3, <3>1, <4>1, <4>2
    <3>3. k.pc = "decode" => Lasted(k.path, k.v, Timeout, k.deadline)'
      <4> SUFFICES ASSUME k.pc = "decode" PROVE Lasted(k.path, k.v, Timeout, k.deadline)'
        OBVIOUS
      <4>1. k.path \in Paths /\ k.deadline <= now + Timeout
            /\ Lasted(k.path, k.v, Timeout, k.deadline)
        BY <3>1 DEF CallGood
      <4> QED BY <1>3, <3>1, <4>1
    <3>4. CallGood(k)'
      BY <1>1, <3>1, <3>2, <3>3 DEF CallGood
    <3> QED BY <3>4 DEF k
  <2> QED BY <1>1, <2>1 DEF CacheInv, CallsOK
<1> QED BY <1>4, <1>5, <1>6, <1>7 DEF CacheInv

\* An empty cache and no calls.
LEMMA CacheInitInv == ASSUME CacheInit PROVE CacheInv
<1>1. 0 \in 0..MaxTime /\ 0 \in 0..MaxChanges /\ 0 \in 0..Attempts
      /\ 0 \in 0..(MaxTime + Timeout) /\ 0 \in 0..(MaxChanges + 1)
  BY Numbers
<1>2. ClockOK
  <2>1. <<0>> \in Seq(0..MaxTime) /\ Len(<<0>>) = 1
    BY <1>1
  <2> QED BY <1>1, <2>1 DEF CacheInit, ClockOK
<1>3. EntriesOK
  BY NoEntryGood DEF CacheInit, EntriesOK
<1>4. SizeOK
  <2>1. Cached = {}
    BY NoEntryGood DEF CacheInit, Cached
  <2> QED BY <2>1, FS_EmptySet, Numbers DEF SizeOK
<1>5. CallsOK
  <2>1. IdleCall \in CallState /\ IdleCall.pc = "idle"
    BY <1>1 DEF IdleCall, CallState
  <2>2. CallGood(IdleCall)
    BY <2>1 DEF CallGood
  <2> HIDE DEF IdleCall
  <2>3. call = [c \in Callers |-> IdleCall]
    BY DEF CacheInit
  <2> QED BY <2>1, <2>2, <2>3 DEF CallsOK
<1> QED BY <1>2, <1>3, <1>4, <1>5 DEF CacheInv

-----------------------------------------------------------------------------
(* The refinement of StaleReads.                                           *)

asked == [c \in Callers |-> call[c].path]
began == [c \in Callers |-> call[c].began]
Answered(k) == IF k.pc = "ended" THEN k.v ELSE 0
answer == [c \in Callers |-> Answered(call[c])]

\* What a step of one call changes of what is promised.
LEMMA Seen ==
  ASSUME CacheInv, NEW c \in Callers, NEW k \in CallState, call' = [call EXCEPT ![c] = k]
  PROVE  /\ asked' = [asked EXCEPT ![c] = k.path]
         /\ began' = [began EXCEPT ![c] = k.began]
         /\ answer' = [answer EXCEPT ![c] = Answered(k)]
<1>1. \A d \in Callers : call'[d] = IF d = c THEN k ELSE call[d]
  BY DEF CacheInv, CallsOK
<1>2. asked' = [asked EXCEPT ![c] = k.path]
  <2>1. asked' = [d \in Callers |-> call'[d].path]
    BY Zenon DEF asked
  <2>2. asked = [d \in Callers |-> call[d].path]
    BY Zenon DEF asked
  <2> DEFINE x == k.path
  <2>3. \A d \in Callers : call'[d].path = IF d = c THEN x ELSE call[d].path
    BY <1>1
  <2> HIDE DEF x
  <2>4. asked' = [asked EXCEPT ![c] = x]
    BY <2>1, <2>2, <2>3
  <2> QED BY <2>4 DEF x
<1>3. began' = [began EXCEPT ![c] = k.began]
  <2>1. began' = [d \in Callers |-> call'[d].began]
    BY Zenon DEF began
  <2>2. began = [d \in Callers |-> call[d].began]
    BY Zenon DEF began
  <2> DEFINE x == k.began
  <2>3. \A d \in Callers : call'[d].began = IF d = c THEN x ELSE call[d].began
    BY <1>1
  <2> HIDE DEF x
  <2>4. began' = [began EXCEPT ![c] = x]
    BY <2>1, <2>2, <2>3
  <2> QED BY <2>4 DEF x
<1>4. answer' = [answer EXCEPT ![c] = Answered(k)]
  <2>1. answer' = [d \in Callers |-> Answered(call'[d])]
    BY Zenon DEF answer, Answered
  <2>2. answer = [d \in Callers |-> Answered(call[d])]
    BY Zenon DEF answer
  <2> QED BY <1>1, <2>1, <2>2
<1> QED BY <1>2, <1>3, <1>4

\* The promise, with the names of the mapping.
LEMMA PromiseVars ==
  UNCHANGED <<now, since, asked, began, answer>> => UNCHANGED Promise!vars
BY DEF Promise!vars, asked, began, answer, Answered

\* A step that changes nothing of what is promised.
LEMMA Unseen ==
  ASSUME CacheInv, NEW c \in Callers, NEW k \in CallState, call' = [call EXCEPT ![c] = k],
         k.path = call[c].path, k.began = call[c].began,
         Answered(k) = Answered(call[c]), UNCHANGED <<now, since>>
  PROVE  UNCHANGED Promise!vars
<1>1. UNCHANGED <<asked, began, answer>>
  BY Seen DEF asked, began, answer
<1> QED BY <1>1, PromiseVars

\* An answer that was current recently.
LEMMA Answering ==
  ASSUME CacheInv, NEW c \in Callers, NEW k \in CallState, call' = [call EXCEPT ![c] = k],
         call[c].pc \in {"hit", "decode"}, k.pc = "ended", k.v = call[c].v,
         k.path = call[c].path, k.began = call[c].began, UNCHANGED <<now, since>>
  PROVE  Promise!Answer(c)
<1> DEFINE p == call[c].path
           v == call[c].v
           b == call[c].began
<1>1. /\ CallGood(call[c]) /\ call[c] \in CallState /\ p \in Paths /\ p # NoPath
      /\ b \in Nat /\ call[c].deadline \in Nat
  BY CallIs, CacheAssumption, Numbers DEF CallGood, CallState
<1>2. /\ v \in 1..Len(since[p])
      /\ v = Len(since[p]) \/ since[p][v + 1] + (TTL + Timeout) > b
  <2> DEFINE next == since[p][v + 1]
             last == Len(since[p])
  <2>1. v # last /\ v \in 1..last => next \in Nat
    <3>1. Len(since[p]) \in Nat /\ \A n \in 1..Len(since[p]) : since[p][n] \in Nat
      BY <1>1, Moments
    <3> HIDE DEF v, p
    <3>2. v # last /\ v \in 1..last => v + 1 \in 1..last
      BY <3>1
    <3> QED BY <3>1, <3>2
  <2>2. CASE call[c].pc = "hit"
    <3>1. v \in 1..last /\ (v = last \/ next + Lag >= b + 1)
      BY <1>1, <2>2 DEF CallGood, Lasted
    <3> HIDE DEF v, p, b, next, last
    <3>2. v = last \/ next + (TTL + Timeout) > b
      BY <1>1, <2>1, <3>1, Numbers DEF Lag
    <3> QED BY <3>1, <3>2 DEF next, last
  <2>3. CASE call[c].pc = "decode"
    <3> DEFINE d == call[c].deadline
    <3>1. v \in 1..last /\ (v = last \/ next + Timeout >= d) /\ b + Timeout <= d /\ d \in Nat
      BY <1>1, <2>3 DEF CallGood, Lasted
    <3> HIDE DEF v, p, b, next, last, d
    <3>2. v = last \/ next + (TTL + Timeout) > b
      BY <1>1, <2>1, <3>1, Numbers
    <3> QED BY <3>1, <3>2 DEF next, last
  <2> QED BY <2>2, <2>3
<1>3. Answered(call[c]) = 0 /\ Answered(k) = v
  BY DEF Answered
<1>4. /\ asked[c] = p /\ began[c] = b /\ answer[c] = 0
      /\ asked' = [asked EXCEPT ![c] = p] /\ began' = [began EXCEPT ![c] = b]
      /\ answer' = [answer EXCEPT ![c] = v]
  BY <1>3, Seen DEF asked, began, answer
<1>5. UNCHANGED <<asked, began>>
  BY <1>4 DEF asked, began
<1> HIDE DEF p, v, b
<1>6. /\ asked[c] # NoPath /\ answer[c] = 0
      /\ \E w \in 1..Len(since[asked[c]]) :
            /\ w = Len(since[asked[c]]) \/ since[asked[c]][w + 1] + (TTL + Timeout) > began[c]
            /\ answer' = [answer EXCEPT ![c] = w]
      /\ UNCHANGED <<now, since, asked, began>>
  BY <1>1, <1>2, <1>4, <1>5
<1> QED BY <1>6, Zenon DEF Promise!Answer, asked, began, answer, Answered

-----------------------------------------------------------------------------
(* The server's steps.                                                     *)

Uses == {""} \cup {t.uses : t \in Tools}

ServingState ==
    [pc : {"idle", "handler", "waiting", "db", "reply"}, uses : Uses,
     step : {""} \cup {r.step : r \in Requests}, gone : BOOLEAN,
     reply : {"", "result", "isError", "error"}]

\* A reply is there when it is to be written, and the request waits exactly
\* while a call is made for it.
ServingGood(s, waits) ==
    /\ s.pc = "reply" <=> s.reply # ""
    /\ s.pc = "waiting" <=> waits

ServingOK ==
    /\ serving \in [Conns -> ServingState]
    /\ \A c \in Conns : ServingGood(serving[c], call[c].pc # "idle")

Inv == CacheInv /\ ServingOK

\* A request takes a step.
LEMMA ServingMoves ==
  ASSUME Inv, NEW c \in Conns, NEW s \in ServingState, serving' = [serving EXCEPT ![c] = s],
         ServingGood(s, call'[c].pc # "idle"),
         \A d \in Conns : d # c => (call'[d].pc = "idle" <=> call[d].pc = "idle")
  PROVE  ServingOK'
<1>1. serving' \in [Conns -> ServingState] /\ serving'[c] = s
      /\ \A d \in Conns : d # c => serving'[d] = serving[d]
  BY DEF Inv, ServingOK
<1> QED BY <1>1 DEF Inv, ServingOK, ServingGood

\* The calls of other callers leave the requests alone.
LEMMA ServingStays ==
  ASSUME Inv, UNCHANGED serving,
         \A d \in Conns : call'[d].pc = "idle" <=> call[d].pc = "idle"
  PROVE  ServingOK'
BY DEF Inv, ServingOK, ServingGood

\* A reply to be written, whatever it is.
LEMMA RepliedIs ==
  ASSUME NEW kind \in {"result", "isError", "error"}
  PROVE  Replied(kind) \in ServingState /\ Replied(kind).pc = "reply"
         /\ Replied(kind).reply = kind /\ kind # ""
BY DEF Replied, Idle, ServingState, Uses

\* A free connection.
LEMMA IdleIs == Idle \in ServingState /\ Idle.pc = "idle" /\ Idle.reply = ""
BY DEF Idle, ServingState, Uses

\* What a request is, by its progress.
LEMMA ServingIs ==
  ASSUME Inv, NEW c \in Conns
  PROVE  /\ c \in Callers /\ serving[c] \in ServingState /\ serving[c].reply \in {"", "result", "isError", "error"}
         /\ serving[c].pc = "reply" <=> serving[c].reply # ""
         /\ serving[c].pc = "waiting" <=> call[c].pc # "idle"
BY McpAssumption DEF Inv, ServingOK, ServingGood, ServingState

\* A request takes a step that makes no call.
LEMMA OwnStep ==
  ASSUME Inv, NEW c \in Conns, NEW s \in ServingState, serving' = [serving EXCEPT ![c] = s],
         ServingGood(s, call[c].pc # "idle"), UNCHANGED cacheVars
  PROVE  Inv' /\ UNCHANGED Promise!vars
<1>1. ServingOK'
  BY ServingMoves DEF cacheVars, ServingGood
<1>2. CacheInv'
  BY CacheKept DEF cacheVars, Inv, CacheInv, ClockOK, CallsOK, CallGood, Lasted
<1>3. UNCHANGED Promise!vars
  BY DEF cacheVars, Promise!vars
<1> QED BY <1>1, <1>2, <1>3 DEF Inv

\* Dispatch: a reply at once, or the handler of a registered tool.
LEMMA DispatchStep ==
  ASSUME Inv, NEW c \in Conns, NEW r \in Requests, Dispatch(c, r)
  PROVE  Inv' /\ UNCHANGED Promise!vars
<1> DEFINE Called(tool) ==
             IF Missing(tool, r.args) # {} THEN Replied("error")
             ELSE [Idle EXCEPT !.pc = "handler", !.uses = tool.uses, !.step = r.step]
           chosen == CHOOSE t \in Tools : t.name = r.tool
           known == \E t \in Tools : t.name = r.tool
           s == CASE r.method \in {"initialize", "tools/list"} -> Replied("result")
                  [] r.method = "tools/call" /\ known -> Called(chosen)
                  [] OTHER -> Replied("error")
<1>1. /\ serving[c].pc = "idle" /\ UNCHANGED cacheVars
      /\ serving' = [serving EXCEPT ![c] = s]
  BY Zenon DEF Dispatch
<1>2. \/ s = Replied("result") \/ s = Replied("error")
      \/ known /\ s = [Idle EXCEPT !.pc = "handler", !.uses = chosen.uses, !.step = r.step]
  <2> HIDE DEF chosen, known
  <2> DEFINE x == [Idle EXCEPT !.pc = "handler", !.uses = chosen.uses, !.step = r.step]
  <2>1. Called(chosen) = Replied("error") \/ Called(chosen) = x
    BY Zenon
  <2> HIDE DEF Called, x
  <2>2. CASE r.method \in {"initialize", "tools/list"}
    <3>1. r.method # "tools/call"
      BY <2>2
    <3> QED BY <2>2, <3>1, Zenon
  <2>3. CASE r.method \notin {"initialize", "tools/list"} /\ r.method = "tools/call" /\ known
    BY <2>1, <2>3, Zenon DEF x
  <2>4. CASE r.method \notin {"initialize", "tools/list"} /\ ~(r.method = "tools/call" /\ known)
    BY <2>4, Zenon
  <2> QED BY <2>2, <2>3, <2>4
<1> HIDE DEF s
<1>3. s \in ServingState /\ ServingGood(s, FALSE)
  <2>1. CASE s = Replied("result") \/ s = Replied("error")
    BY <2>1, RepliedIs DEF ServingGood
  <2>2. CASE known /\ s = [Idle EXCEPT !.pc = "handler", !.uses = chosen.uses, !.step = r.step]
    <3>1. chosen \in Tools
      BY <2>2, Zenon
    <3> HIDE DEF chosen
    <3>2. chosen.uses \in Uses
      BY <3>1 DEF Uses
    <3>3. r.step \in {""} \cup {q.step : q \in Requests}
      OBVIOUS
    <3> DEFINE u == chosen.uses
               t == r.step
    <3> HIDE DEF u, t
    <3>4. s = [Idle EXCEPT !.pc = "handler", !.uses = u, !.step = t]
      BY <2>2 DEF u, t
    <3>5. s \in ServingState /\ s.pc = "handler" /\ s.reply = ""
      BY <3>2, <3>3, <3>4, IdleIs DEF ServingState, u, t
    <3> QED BY <3>5 DEF ServingGood
  <2> QED BY <1>2, <2>1, <2>2
<1>4. call[c].pc = "idle"
  BY <1>1, ServingIs
<1> QED BY <1>1, <1>3, <1>4, OwnStep DEF ServingGood

\* The database answers, the run is triggered, the reply is written or the
\* client hangs up.
LEMMA LocalServerStep ==
  ASSUME Inv, NEW c \in Conns,
         QueryDatabase(c) \/ TriggerPipeline(c) \/ Reply(c) \/ HangUp(c)
  PROVE  Inv' /\ UNCHANGED Promise!vars
<1>1. UNCHANGED cacheVars
  BY DEF QueryDatabase, TriggerPipeline, Reply, HangUp
<1>2. ASSUME NEW kind \in {"result", "isError", "error"}, serving[c].pc # "waiting",
             serving' = [serving EXCEPT ![c] = Replied(kind)]
      PROVE  Inv' /\ UNCHANGED Promise!vars
  <2>1. ServingGood(Replied(kind), call[c].pc # "idle")
    BY <1>2, RepliedIs, ServingIs DEF ServingGood
  <2> QED BY <1>1, <1>2, <2>1, RepliedIs, OwnStep
<1>3. CASE QueryDatabase(c)
  BY <1>2, <1>3 DEF QueryDatabase
<1>4. CASE TriggerPipeline(c)
  <2> DEFINE ok == ~serving[c].gone /\ serving[c].step \in Steps
  <2>1. serving[c].pc = "handler"
        /\ serving' = [serving EXCEPT ![c] = Replied(IF ok THEN "result" ELSE "isError")]
    BY <1>4, Zenon DEF TriggerPipeline
  <2> HIDE DEF ok
  <2>2. \/ serving' = [serving EXCEPT ![c] = Replied("result")]
        \/ serving' = [serving EXCEPT ![c] = Replied("isError")]
    BY <2>1, Zenon
  <2> QED BY <1>2, <2>1, <2>2
<1>5. CASE Reply(c)
  <2>1. serving[c].pc = "reply" /\ serving' = [serving EXCEPT ![c] = Idle]
    BY <1>5 DEF Reply
  <2>2. ServingGood(Idle, call[c].pc # "idle")
    BY <2>1, IdleIs, ServingIs DEF ServingGood
  <2> QED BY <1>1, <2>1, <2>2, IdleIs, OwnStep
<1>6. CASE HangUp(c)
  <2> DEFINE s == [serving[c] EXCEPT !.gone = TRUE]
  <2>1. serving' = [serving EXCEPT ![c] = s]
    BY <1>6, Zenon DEF HangUp
  <2>2. s \in ServingState /\ s.pc = serving[c].pc /\ s.reply = serving[c].reply
    BY ServingIs DEF ServingState
  <2> HIDE DEF s
  <2>3. ServingGood(s, call[c].pc # "idle")
    BY <2>2, ServingIs DEF ServingGood
  <2> QED BY <1>1, <2>1, <2>2, <2>3, OwnStep
<1> QED BY <1>3, <1>4, <1>5, <1>6

\* A call that a lookup starts is what is promised an answer.
LEMMA AskSeen ==
  ASSUME CacheInv, NEW c \in Callers, NEW p \in Paths, Ask(c, p)
  PROVE  Promise!Ask(c, p)
<1>1. PICK k \in CallState : /\ call' = [call EXCEPT ![c] = k]
                             /\ k.pc \in {"fetch", "hit", "evict"}
                             /\ k.path = p /\ k.began = now
  BY AskStep
<1>2. call[c].pc = "idle" /\ UNCHANGED <<now, since>>
  BY AskStep
<1>3. call[c] = IdleCall
  BY <1>2, CallIs DEF CallGood
<1>4. asked[c] = NoPath /\ answer[c] = 0
  BY <1>3 DEF asked, answer, Answered, IdleCall
<1>5. /\ asked' = [asked EXCEPT ![c] = p] /\ began' = [began EXCEPT ![c] = now]
      /\ answer' = [answer EXCEPT ![c] = 0]
  BY <1>1, Seen DEF Answered
<1>6. answer' = answer
  BY <1>4, <1>5 DEF answer
<1> QED BY <1>2, <1>4, <1>5, <1>6, Zenon DEF Promise!Ask, asked, began, answer, Answered

\* A caller that goes on has waited for a page.
LEMMA ReturnSeen == ASSUME CacheInv, NEW c \in Callers, Return(c) PROVE Promise!Return(c)
<1>1. /\ UNCHANGED <<now, since>> /\ call[c].path \in Paths /\ IdleCall \in CallState
      /\ call' = [call EXCEPT ![c] = IdleCall]
  BY ReturnStep
<1>2. asked[c] # NoPath
  BY <1>1, CacheAssumption DEF asked
<1>3. IdleCall.path = NoPath /\ IdleCall.began = 0 /\ Answered(IdleCall) = 0
  BY DEF IdleCall, Answered
<1>4. /\ asked' = [asked EXCEPT ![c] = NoPath] /\ began' = [began EXCEPT ![c] = 0]
      /\ answer' = [answer EXCEPT ![c] = 0]
  <2> DEFINE k == IdleCall
  <2> HIDE DEF k
  <2>1. k \in CallState /\ call' = [call EXCEPT ![c] = k]
    BY <1>1, Zenon DEF k
  <2>2. /\ asked' = [asked EXCEPT ![c] = k.path] /\ began' = [began EXCEPT ![c] = k.began]
        /\ answer' = [answer EXCEPT ![c] = Answered(k)]
    BY <2>1, Seen
  <2>3. k.path = NoPath /\ k.began = 0 /\ Answered(k) = 0
    BY <1>3, Zenon DEF k
  <2> QED BY <2>2, <2>3, Zenon
<1> QED BY <1>1, <1>2, <1>4, Zenon DEF Promise!Return, asked, began, answer, Answered

\* A call in between answers or changes nothing of what is promised.
LEMMA CallSeen ==
  ASSUME CacheInv, NEW c \in Callers, FetchStep(c)
  PROVE  /\ CacheInv'
         /\ Promise!Answer(c) \/ UNCHANGED Promise!vars
         /\ \A d \in Callers : call'[d].pc = "idle" <=> call[d].pc = "idle"
<1>1. ASSUME NEW k \in CallState, call' = [call EXCEPT ![c] = k],
             k.pc # "idle", call[c].pc # "idle"
      PROVE  \A d \in Callers : call'[d].pc = "idle" <=> call[d].pc = "idle"
  BY <1>1 DEF CacheInv, CallsOK
<1>2. CASE Copy(c)
  <2>1. call' = [call EXCEPT ![c] = Ended(call[c], call[c].v)] /\ call[c].pc = "hit"
    BY <1>2, Zenon DEF Copy
  <2>2. /\ call[c] \in CallState /\ call[c].path \in Paths /\ call[c].began <= now
        /\ call[c].v \in 0..(MaxChanges + 1)
    BY <2>1, CallIs DEF CallGood, CallState
  <2>3. Ended(call[c], call[c].v) \in CallState /\ Ended(call[c], call[c].v).pc = "ended"
        /\ Ended(call[c], call[c].v).path = call[c].path
        /\ Ended(call[c], call[c].v).began = call[c].began
        /\ Ended(call[c], call[c].v).v = call[c].v
    BY <2>2, EndedGood
  <2>4. CacheInv' /\ UNCHANGED <<now, since>>
    BY <1>2, LocalStep
  <2> QED BY <1>1, <2>1, <2>3, <2>4, Answering
<1>3. CASE Respond(c) \/ AttemptFails(c) \/ Retry(c) \/ DecodeFails(c)
  <2>1. call[c].pc \notin {"hit", "ended"} /\ ~Copy(c)
    BY <1>3 DEF Respond, AttemptFails, Retry, DecodeFails, Copy
  <2>2. CacheInv' /\ UNCHANGED <<now, since>> /\ call[c].pc # "idle"
    BY <1>3, LocalStep
  <2>3. PICK k \in CallState :
          /\ call' = [call EXCEPT ![c] = k]
          /\ k.pc # "idle" /\ k.path = call[c].path /\ k.began = call[c].began
          /\ k.pc = "ended" => k.v = 0
    BY <1>3, <2>1, LocalStep
  <2>4. Answered(k) = Answered(call[c])
    BY <2>1, <2>3 DEF Answered
  <2> QED BY <1>1, <2>2, <2>3, <2>4, Unseen
<1>4. CASE Evict(c)
  <2>1. PICK k \in CallState :
          /\ call' = [call EXCEPT ![c] = k]
          /\ k.pc = "fetch" /\ k.path = call[c].path /\ k.began = call[c].began
    BY <1>4, EvictStep
  <2>2. CacheInv' /\ UNCHANGED <<now, since>> /\ call[c].pc = "evict"
    BY <1>4, EvictStep DEF Evict
  <2>3. Answered(k) = Answered(call[c])
    BY <2>1, <2>2 DEF Answered
  <2> QED BY <1>1, <2>1, <2>2, <2>3, Unseen
<1>5. CASE Store(c)
  <2>1. PICK k \in CallState :
          /\ call' = [call EXCEPT ![c] = k]
          /\ k.pc = "ended" /\ k.path = call[c].path /\ k.began = call[c].began
          /\ k.v = call[c].v
    BY <1>5, StoreStep
  <2>2. CacheInv' /\ UNCHANGED <<now, since>> /\ call[c].pc = "decode"
    BY <1>5, StoreStep
  <2> QED BY <1>1, <2>1, <2>2, Answering
<1> QED BY <1>2, <1>3, <1>4, <1>5 DEF FetchStep

\* CallSleeper: the handler makes its call.
LEMMA CallSleeperStep ==
  ASSUME Inv, NEW c \in Conns, CallSleeper(c)
  PROVE  Inv' /\ \E p \in Paths : Promise!Ask(c, p)
<1>1. PICK p \in Paths : Ask(c, p)
  BY DEF CallSleeper
<1>2. c \in Callers /\ CacheInv
  BY ServingIs DEF Inv
<1>3. Promise!Ask(c, p) /\ CacheInv'
  BY <1>1, <1>2, AskSeen, AskStep
<1>4. PICK k \in CallState : call' = [call EXCEPT ![c] = k] /\ k.pc \in {"fetch", "hit", "evict"}
  BY <1>1, <1>2, AskStep
<1>5. call'[c].pc # "idle" /\ \A d \in Callers : d # c => call'[d] = call[d]
  BY <1>2, <1>4 DEF CacheInv, CallsOK
<1> DEFINE s == [serving[c] EXCEPT !.pc = "waiting"]
<1>6. serving' = [serving EXCEPT ![c] = s] /\ serving[c].pc = "handler"
  BY Zenon DEF CallSleeper
<1>7. s \in ServingState /\ s.pc = "waiting" /\ s.reply = serving[c].reply
  BY ServingIs DEF ServingState
<1> HIDE DEF s
<1>8. ServingGood(s, call'[c].pc # "idle")
  BY <1>5, <1>6, <1>7, ServingIs DEF ServingGood
<1>9. ServingOK'
  BY <1>5, <1>6, <1>7, <1>8, ServingMoves, McpAssumption
<1> QED BY <1>3, <1>9 DEF Inv

\* SleeperReturns: the request goes on with the answer.
LEMMA SleeperReturnsStep ==
  ASSUME Inv, NEW c \in Conns, SleeperReturns(c)
  PROVE  Inv' /\ Promise!Return(c)
<1>1. c \in Callers /\ CacheInv /\ Return(c)
  BY ServingIs DEF Inv, SleeperReturns
<1>2. Promise!Return(c) /\ CacheInv' /\ IdleCall \in CallState
      /\ call' = [call EXCEPT ![c] = IdleCall]
  BY <1>1, ReturnSeen, ReturnStep
<1>3. call'[c].pc = "idle" /\ \A d \in Callers : d # c => call'[d] = call[d]
  <2>1. IdleCall.pc = "idle"
    BY DEF IdleCall
  <2> HIDE DEF IdleCall
  <2> QED BY <1>1, <1>2, <2>1 DEF CacheInv, CallsOK
<1> DEFINE db == [serving[c] EXCEPT !.pc = "db"]
<1>4. /\ serving[c].pc = "waiting"
      /\ \/ serving' = [serving EXCEPT ![c] = Replied("isError")]
         \/ serving' = [serving EXCEPT ![c] = Replied("result")]
         \/ serving' = [serving EXCEPT ![c] = db]
  <2> DEFINE s == IF call[c].v = 0 THEN Replied("isError")
                  ELSE IF serving[c].uses = "sleeper" THEN Replied("result")
                  ELSE db
  <2>1. serving[c].pc = "waiting" /\ serving' = [serving EXCEPT ![c] = s]
    BY Zenon DEF SleeperReturns
  <2>2. s = Replied("isError") \/ s = Replied("result") \/ s = db
    BY Zenon
  <2> HIDE DEF s, db
  <2> QED BY <2>1, <2>2
<1>5. db \in ServingState /\ db.pc = "db" /\ db.reply = serving[c].reply
  BY ServingIs DEF ServingState
<1> HIDE DEF db
<1>6. ServingGood(db, FALSE) /\ ServingGood(Replied("isError"), FALSE)
      /\ ServingGood(Replied("result"), FALSE)
  BY <1>4, <1>5, RepliedIs, ServingIs DEF ServingGood
<1>7. \E s \in ServingState : serving' = [serving EXCEPT ![c] = s] /\ ServingGood(s, FALSE)
  BY <1>4, <1>5, <1>6, RepliedIs
<1>8. ServingOK'
  BY <1>3, <1>7, ServingMoves, McpAssumption DEF ServingGood
<1> QED BY <1>2, <1>8 DEF Inv

\* A call takes a step, or a sync makes or ends one.
LEMMA CallerStep ==
  ASSUME Inv, NEW c \in Callers, ClientStep(c) \/ SyncCalls(c), UNCHANGED serving
  PROVE  /\ Inv'
         /\ \/ Promise!Answer(c) \/ UNCHANGED Promise!vars
            \/ Promise!Return(c) \/ \E p \in Paths : Promise!Ask(c, p)
<1>1. CacheInv
  BY DEF Inv
<1>2. CASE FetchStep(c)
  <2>1. CacheInv' /\ \A d \in Callers : call'[d].pc = "idle" <=> call[d].pc = "idle"
    BY <1>1, <1>2, CallSeen
  <2>2. ServingOK'
    BY <2>1, ServingStays, McpAssumption
  <2> QED BY <1>1, <1>2, <2>1, <2>2, CallSeen DEF Inv
<1>3. CASE c \notin Conns /\ Return(c)
  <2>1. CacheInv' /\ Promise!Return(c) /\ call' = [call EXCEPT ![c] = IdleCall]
    BY <1>1, <1>3, ReturnStep, ReturnSeen
  <2>2. \A d \in Conns : call'[d] = call[d]
    BY <1>1, <1>3, <2>1, McpAssumption DEF CacheInv, CallsOK
  <2>3. ServingOK'
    BY <2>2, ServingStays
  <2> QED BY <2>1, <2>3 DEF Inv
<1>4. CASE SyncCalls(c)
  <2>1. PICK p \in Paths : Ask(c, p)
    BY <1>4 DEF SyncCalls
  <2>2. CacheInv' /\ Promise!Ask(c, p) /\ \E k \in CallState : call' = [call EXCEPT ![c] = k]
    BY <1>1, <2>1, AskStep, AskSeen
  <2>3. \A d \in Conns : call'[d] = call[d]
    BY <1>1, <1>4, <2>2, McpAssumption DEF SyncCalls, CacheInv, CallsOK
  <2>4. ServingOK'
    BY <2>3, ServingStays
  <2> QED BY <2>2, <2>4 DEF Inv
<1> QED BY <1>2, <1>3, <1>4 DEF ClientStep, FetchStep

\* The environment: time passes and pages change.
LEMMA WorldStep ==
  ASSUME Inv, UNCHANGED serving, Tick \/ \E p \in Paths : Publish(p)
  PROVE  Inv' /\ (Promise!Tick \/ \E p \in Paths : Promise!Publish(p))
<1>1. UNCHANGED call
  BY DEF Tick, Publish
<1>2. UNCHANGED <<asked, began, answer>>
  BY <1>1 DEF asked, began, answer, Answered
<1>3. ServingOK'
  BY <1>1, ServingStays
<1>4. CASE Tick
  <2>1. Promise!Tick
    BY <1>2, <1>4 DEF Tick, Promise!Tick, asked, began, answer, Answered
  <2> QED BY <1>3, <1>4, <2>1, TickStep DEF Inv
<1>5. ASSUME NEW p \in Paths, Publish(p) PROVE Inv' /\ Promise!Publish(p)
  <2>1. Promise!Publish(p)
    BY <1>2, <1>5 DEF Publish, Promise!Publish, asked, began, answer, Answered
  <2> QED BY <1>3, <1>5, <2>1, PublishStep DEF Inv
<1> QED BY <1>4, <1>5

-----------------------------------------------------------------------------
(* The theorems.                                                           *)

\* Nothing is asked and every connection is free.
LEMMA InitInv == ASSUME Init PROVE Inv /\ Promise!Init
<1>1. CacheInit /\ serving = [c \in Conns |-> Idle] /\ CacheInv
  BY CacheInitInv DEF Init
<1>2. \A c \in Callers : call[c] = IdleCall
  BY <1>1 DEF CacheInit
<1>3. IdleCall.pc = "idle" /\ IdleCall.path = NoPath /\ IdleCall.began = 0
  BY DEF IdleCall
<1>4. ServingOK
  <2>1. \A c \in Conns : call[c].pc = "idle"
    BY <1>2, <1>3, McpAssumption
  <2> HIDE DEF Idle
  <2> QED BY <1>1, <2>1, IdleIs DEF ServingOK, ServingGood
<1>5. Promise!Init
  <2> HIDE DEF IdleCall
  <2>1. now = 0 /\ since = [p \in Paths |-> <<0>>]
    BY <1>1 DEF CacheInit
  <2>2. [c \in Callers |-> call[c].path] = [c \in Callers |-> NoPath]
    BY <1>2, <1>3
  <2>3. [c \in Callers |-> call[c].began] = [c \in Callers |-> 0]
    BY <1>2, <1>3
  <2>4. [c \in Callers |-> IF call[c].pc = "ended" THEN call[c].v ELSE 0] = [c \in Callers |-> 0]
    BY <1>2, <1>3
  <2> QED BY <2>1, <2>2, <2>3, <2>4, Zenon DEF Promise!Init
<1> QED BY <1>1, <1>4, <1>5 DEF Inv

\* Every step keeps the invariant and is a step of the promise, or none.
LEMMA NextInv == ASSUME Inv, [Next]_vars PROVE Inv' /\ [Promise!Next]_(Promise!vars)
<1>1. CASE UNCHANGED vars
  <2>1. UNCHANGED <<cacheVars, serving>>
    BY <1>1 DEF vars
  <2>2. CacheInv'
    BY <2>1, CacheKept DEF cacheVars, Inv, CacheInv, ClockOK, CallsOK, CallGood, Lasted
  <2>3. ServingOK'
    BY <2>1, ServingStays DEF cacheVars
  <2>4. UNCHANGED Promise!vars
    BY <2>1 DEF cacheVars, Promise!vars
  <2> QED BY <2>2, <2>3, <2>4 DEF Inv
<1>2. ASSUME NEW c \in Callers, ClientStep(c) \/ SyncCalls(c), UNCHANGED serving
      PROVE  Inv' /\ [Promise!Next]_(Promise!vars)
  BY <1>2, CallerStep DEF Promise!Next
<1>3. ASSUME NEW c \in Conns, ServerStep(c) \/ HangUp(c)
      PROVE  Inv' /\ [Promise!Next]_(Promise!vars)
  <2>1. c \in Callers
    BY McpAssumption
  <2>2. CASE CallSleeper(c)
    BY <2>1, <2>2, CallSleeperStep DEF Promise!Next
  <2>3. CASE SleeperReturns(c)
    BY <2>1, <2>3, SleeperReturnsStep DEF Promise!Next
  <2>4. CASE QueryDatabase(c) \/ TriggerPipeline(c) \/ Reply(c) \/ HangUp(c)
    BY <2>4, LocalServerStep
  <2> QED BY <1>3, <2>2, <2>3, <2>4 DEF ServerStep
<1>4. ASSUME NEW c \in Conns, NEW r \in Requests, Dispatch(c, r)
      PROVE  Inv' /\ [Promise!Next]_(Promise!vars)
  BY <1>4, DispatchStep
<1>5. CASE (Tick \/ \E p \in Paths : Publish(p)) /\ UNCHANGED serving
  BY <1>5, WorldStep DEF Promise!Next
<1> QED BY <1>1, <1>2, <1>3, <1>4, <1>5 DEF Next

\* The types; a request waits exactly while a call is made for it, and the
\* cache never holds more entries than its threshold (client.go:109-110).
THEOREM TypeCorrect == Spec => []TypeOK
<1>1. Init => Inv
  BY InitInv
<1>2. Inv /\ [Next]_vars => Inv'
  BY NextInv
<1>3. Inv => TypeOK
  <2> SUFFICES ASSUME Inv PROVE TypeOK
    OBVIOUS
  <2>1. CacheTypeOK
    <3>1. \A p \in Paths : cache[p].v <= Len(since[p])
      <4> SUFFICES ASSUME NEW p \in Paths PROVE cache[p].v <= Len(since[p])
        OBVIOUS
      <4>1. EntryGood(p, cache[p]) /\ Len(since[p]) \in Nat
        BY Moments DEF Inv, CacheInv, EntriesOK
      <4> QED BY <4>1 DEF EntryGood, Lasted
    <3> QED BY <3>1
        DEF Inv, CacheInv, ClockOK, EntriesOK, Entry, SizeOK, CallsOK, CallState, CacheTypeOK
  <2> QED BY <2>1 DEF Inv, ServingOK, ServingState, ServingGood, TypeOK
<1> QED BY <1>1, <1>2, <1>3, PTL DEF Spec

\* The client keeps the promise of StaleReads: an answer was current less than
\* the time to live and a timeout before the call began, however lookups,
\* evictions, slow fetches, stores and hang-ups interleave (client.go:70-161).
THEOREM Refinement == Spec => AnswersAreRecent
<1>1. Init => Inv /\ Promise!Init
  BY InitInv
<1>2. Inv /\ [Next]_vars => Inv' /\ [Promise!Next]_(Promise!vars)
  BY NextInv
<1> QED BY <1>1, <1>2, PTL DEF Spec, AnswersAreRecent, Promise!Spec
=============================================================================
