--------------------------- MODULE RankingsProofs ---------------------------
(***************************************************************************)
(* Proofs about the player table and the ranking syncs (PlayerData.tla,    *)
(* Rankings.tla), for any players, keys, batch size and number of syncs.   *)
(* A row is only ever written for a player the engine knows, because a     *)
(* player row never goes: what a lookup held stays good however old it is. *)
(***************************************************************************)
EXTENDS Rankings, FiniteSetTheorems, TLAPS

LoadingState ==
    [pc : {"idle", "stream", "flush"}, dump : {<<>>} \cup [Players -> Records],
     left : SUBSET Players, batch : SUBSET Players]

\* Whom the player sync has yet to write is in the dump it holds; its batch is
\* finite, so that counting it against FlushSize means something.
LoadingOK ==
    /\ loading \in LoadingState
    /\ loading.pc # "idle" => loading.dump \in [Players -> Records]
    /\ \A p \in loading.left \cup loading.batch : loading.dump[p].known
    /\ IsFiniteSet(loading.batch)

HealingState ==
    [pc : {"idle", "lookup", "update"}, left : SUBSET Players, lookup : SUBSET Players]

\* The player table and the two syncs that write it.
PlayerInv == PlayerTypeOK /\ LoadingOK /\ healing \in HealingState

\* A table of rankings holds editions the source has published, of known players.
Bounded(t) ==
    /\ t \in [Keys -> [Players -> Nat]]
    /\ \A k \in Keys, p \in Players :
         t[k][p] <= list[k].edition /\ (t[k][p] # 0 => p \in Known)

TablesOK ==
    /\ list \in [Keys -> [edition : Nat \ {0}, members : SUBSET Players]]
    /\ Bounded(ranking) /\ Bounded(history)

RankerState ==
    [pc : {"idle", "players", "fetch", "upsert"}, keys : Seq(Keys), key : Keys \cup {NoKey},
     edition : Nat, members : SUBSET Players, lookup : SUBSET Players,
     left : SUBSET Players, fresh : SUBSET Players]

\* What a ranking sync in state r knows: its lookup names known players, its
\* edition was published, and while it upserts, the records to do and the ones
\* seen are matched ones; but for FantasyPros they are all of them.
RankerOK(w, r) ==
    /\ r \in RankerState
    /\ r.lookup \subseteq Known
    /\ r.key \in Keys => r.edition \in 1 .. list[r.key].edition
    /\ r.pc = "players" /\ Style[w] # "FantasyCalc" => r.key \in Keys
    /\ r.pc = "upsert" => r.key \in Keys
    /\ r.pc # "upsert" => r.left = {} /\ r.fresh = {}
    /\ r.left \cup r.fresh \subseteq r.members \cap r.lookup
    /\ r.pc = "upsert" /\ Style[w] # "FantasyPros" => r.left \cup r.fresh = r.members \cap r.lookup

RankersOK ==
    /\ ranker \in [Rankers -> RankerState]
    /\ \A w \in Rankers : RankerOK(w, ranker[w])

\* The inductive invariant.
IInv == PlayerInv /\ TablesOK /\ RankersOK

\* Players stay in the table.
KnownGrow == Known \subseteq Known'

-----------------------------------------------------------------------------
(* The player table.                                                       *)

\* A player sync with nothing in hand.
LEMMA IdleLoadingOK ==
    /\ IdleLoading \in LoadingState /\ IdleLoading.pc = "idle"
    /\ IdleLoading.left = {} /\ IdleLoading.batch = {}
  BY DEF IdleLoading, LoadingState

\* The same of the injury sync.
LEMMA IdleHealingOK ==
    IdleHealing \in HealingState /\ IdleHealing.left = {} /\ IdleHealing.lookup = {}
  BY DEF IdleHealing, HealingState

\* A record is known or it is NoRecord; being hurt does not change which.
LEMMA KnownRecord ==
    ASSUME NEW r \in Records, r.known
    PROVE  [r EXCEPT !.hurt = TRUE] \in Records /\ [r EXCEPT !.hurt = TRUE].known
<1>1. ~NoRecord.known
  BY DEF NoRecord
<1>2. r \in [active : BOOLEAN, hurt : BOOLEAN, known : {TRUE}]
  BY <1>1 DEF Records
<1>3. [r EXCEPT !.hurt = TRUE] \in [active : BOOLEAN, hurt : BOOLEAN, known : {TRUE}]
  BY <1>2
<1>4. QED
  BY <1>3 DEF Records

\* A failure uses up one of those left.
LEMMA FailTyped == ASSUME PlayerInv, Fail \/ UNCHANGED faults PROVE faults' \in 0 .. MaxFaults
<1>1. faults \in 0 .. MaxFaults /\ MaxFaults \in Nat
  BY PlayerAssumption DEF PlayerInv, PlayerTypeOK
<1>2. QED
  BY <1>1 DEF Fail

\* What the batch gains and loses with a player.
LEMMA BatchGrows ==
    ASSUME NEW S, NEW p, p \notin S, IsFiniteSet(S), Cardinality(S) < FlushSize
    PROVE  IsFiniteSet(S \cup {p}) /\ Cardinality(S \cup {p}) <= FlushSize
<1>1. Cardinality(S) \in Nat /\ Cardinality(S \cup {p}) = Cardinality(S) + 1 /\ IsFiniteSet(S \cup {p})
  BY FS_AddElement, FS_CardinalityType
<1>2. QED
  BY <1>1, PlayerAssumption

LEMMA BatchShrinks ==
    ASSUME NEW S, NEW p \in S, IsFiniteSet(S), Cardinality(S) <= FlushSize
    PROVE  IsFiniteSet(S \ {p}) /\ Cardinality(S \ {p}) <= FlushSize
<1>1. Cardinality(S) \in Nat /\ Cardinality(S \ {p}) = Cardinality(S) - 1 /\ IsFiniteSet(S \ {p})
  BY FS_RemoveElement, FS_CardinalityType
<1>2. QED
  BY <1>1, PlayerAssumption

\* The player sync starts with the players that Sleeper's dump has.
LEMMA StartLoadingStep == ASSUME PlayerInv, StartLoading PROVE PlayerInv' /\ KnownGrow
<1>1. loading' \in LoadingState /\ loading'.dump = dump /\ loading'.pc = "stream"
      /\ loading'.batch = {} /\ loading'.left = {p \in Players : dump[p].known}
  BY DEF PlayerInv, PlayerTypeOK, StartLoading, LoadingState
<1>2. PlayerTypeOK' /\ healing' = healing /\ player' = player
  BY <1>1, FS_EmptySet, PlayerAssumption DEF PlayerInv, PlayerTypeOK, StartLoading, Known, sourceVars
<1>3. QED
  BY <1>1, <1>2, FS_EmptySet DEF PlayerInv, PlayerTypeOK, LoadingOK, KnownGrow, Known

\* A streamed player is added to a batch that was not full.
LEMMA StreamPlayerStep == ASSUME PlayerInv, StreamPlayer PROVE PlayerInv' /\ KnownGrow
<1> USE DEF PlayerInv, PlayerTypeOK, LoadingOK, sourceVars
<1>1. player' = player /\ healing' = healing /\ dump' = dump /\ reports' = reports /\ changes' = changes
  BY DEF StreamPlayer
<1>2. CASE loading' = IdleLoading /\ Fail
  <2>1. faults' \in 0 .. MaxFaults
    BY <1>2, FailTyped
  <2>2. QED
    BY <1>1, <1>2, <2>1, IdleLoadingOK, FS_EmptySet, PlayerAssumption DEF KnownGrow, Known
<1>3. ASSUME NEW p \in loading.left, faults' = faults,
             loading' = [loading EXCEPT !.left = @ \ {p}, !.batch = @ \cup {p}]
      PROVE  PlayerInv' /\ KnownGrow
  <2>1. /\ loading' \in LoadingState /\ loading'.pc = loading.pc /\ loading'.dump = loading.dump
        /\ loading'.left = loading.left \ {p} /\ loading'.batch = loading.batch \cup {p}
    BY <1>3 DEF LoadingState
  <2>2. p \notin loading.batch /\ Cardinality(loading.batch) < FlushSize
    BY DEF StreamPlayer
  <2>3. IsFiniteSet(loading'.batch) /\ Cardinality(loading'.batch) <= FlushSize
    BY <2>1, <2>2, BatchGrows
  <2>4. loading.pc = "stream"
    BY DEF StreamPlayer
  <2>5. QED
    BY <1>1, <1>3, <2>1, <2>2, <2>3, <2>4 DEF KnownGrow, Known
<1>4. QED
  BY <1>2, <1>3 DEF StreamPlayer

\* A full batch, or the last one, is about to be written.
LEMMA FlushRowStep == ASSUME PlayerInv, FlushRow PROVE PlayerInv' /\ KnownGrow
<1>1. /\ loading' \in LoadingState /\ loading'.pc = "flush" /\ loading'.dump = loading.dump
      /\ loading'.left = loading.left /\ loading'.batch = loading.batch /\ loading.pc = "stream"
  BY DEF PlayerInv, LoadingOK, FlushRow, LoadingState
<1>2. QED
  BY <1>1 DEF PlayerInv, PlayerTypeOK, LoadingOK, FlushRow, KnownGrow, Known, sourceVars

\* A written row is one of the dump, so the player is known after it.
LEMMA WriteRowStep == ASSUME PlayerInv, WriteRow PROVE PlayerInv' /\ KnownGrow
<1>1. PICK p \in loading.batch :
          /\ \/ player' = [player EXCEPT ![p] = Projected(loading.dump[p], @)] /\ UNCHANGED faults
             \/ UNCHANGED player /\ Fail
          /\ loading' = [loading EXCEPT !.batch = @ \ {p},
                            !.pc = IF loading.batch = {p} THEN "stream" ELSE @]
  BY DEF WriteRow
<1> DEFINE pc == IF loading.batch = {p} THEN "stream" ELSE loading.pc
<1>2. /\ loading' \in LoadingState /\ loading'.pc = pc /\ loading'.dump = loading.dump
      /\ loading'.left = loading.left /\ loading'.batch = loading.batch \ {p}
  BY <1>1 DEF PlayerInv, LoadingOK, LoadingState
<1>3. /\ IsFiniteSet(loading'.batch) /\ Cardinality(loading'.batch) <= FlushSize
      /\ loading'.pc = "flush" => loading'.batch # {}
  BY <1>2, BatchShrinks DEF PlayerInv, LoadingOK, PlayerTypeOK, WriteRow
<1>4. loading.dump \in [Players -> Records] /\ loading.dump[p].known /\ p \in Players
  BY DEF PlayerInv, LoadingOK, WriteRow, LoadingState
<1>5. faults' \in 0 .. MaxFaults /\ player' \in [Players -> Records] /\ KnownGrow
  <2>1. CASE player' = [player EXCEPT ![p] = loading.dump[p]] /\ UNCHANGED faults
    BY <2>1, <1>4 DEF PlayerInv, PlayerTypeOK, KnownGrow, Known
  <2>2. CASE UNCHANGED player /\ Fail
    BY <2>2, PlayerAssumption DEF PlayerInv, PlayerTypeOK, KnownGrow, Known, Fail
  <2>3. QED
    BY <1>1, <2>1, <2>2 DEF Projected
<1>6. QED
  BY <1>2, <1>3, <1>4, <1>5 DEF PlayerInv, PlayerTypeOK, LoadingOK, WriteRow, KnownGrow, sourceVars

\* The sync ends with nothing in hand.
LEMMA EndLoadingStep == ASSUME PlayerInv, EndLoading PROVE PlayerInv' /\ KnownGrow
  BY IdleLoadingOK, FS_EmptySet, PlayerAssumption
  DEF PlayerInv, PlayerTypeOK, LoadingOK, EndLoading, KnownGrow, Known, sourceVars

\* The injury sync writes players that its lookup found, so it adds none.
LEMMA HealingKeeps == ASSUME PlayerInv, HealingStep PROVE PlayerInv' /\ KnownGrow
<1> USE DEF PlayerInv, PlayerTypeOK, sourceVars
<1>1. CASE StartHealing
  BY <1>1 DEF StartHealing, IdleHealing, HealingState, LoadingOK, KnownGrow, Known
<1>2. CASE LookupPlayers
  <2>1. /\ player' = player /\ loading' = loading /\ dump' = dump
        /\ reports' = reports /\ changes' = changes
    BY <1>2 DEF LookupPlayers
  <2>2. faults' \in 0 .. MaxFaults
    BY <1>2, FailTyped DEF LookupPlayers
  <2>3. /\ healing' \in HealingState /\ healing'.left \subseteq Players
        /\ healing'.lookup \subseteq Known
    <3>1. ASSUME NEW some \in SUBSET Active,
                 healing' = [healing EXCEPT !.pc = "update", !.lookup = some]
          PROVE  /\ healing' \in HealingState /\ healing'.left \subseteq Players
                 /\ healing'.lookup \subseteq Known
      BY <3>1 DEF HealingState, Active, Known
    <3>2. QED
      BY <1>2, <3>1, IdleHealingOK DEF LookupPlayers, HealingState
  <2>4. QED
    BY <2>1, <2>2, <2>3 DEF LoadingOK, KnownGrow, Known, HealingState
<1>3. CASE UpdateInjury
  <2>1. PICK p \in healing.left :
            /\ \/ p \in healing.lookup /\ player' = [player EXCEPT ![p].hurt = TRUE] /\ UNCHANGED faults
               \/ p \in healing.lookup /\ UNCHANGED player /\ Fail
               \/ p \notin healing.lookup /\ UNCHANGED <<player, faults>>
            /\ healing' = [healing EXCEPT !.left = @ \ {p}]
    BY <1>3 DEF UpdateInjury
  <2>2. healing' \in HealingState /\ healing'.lookup = healing.lookup
    BY <2>1 DEF HealingState
  <2>3. faults' \in 0 .. MaxFaults
    BY <2>1, FailTyped
  <2>4. player' \in [Players -> Records] /\ KnownGrow
    <3>1. CASE p \in healing.lookup /\ player' = [player EXCEPT ![p].hurt = TRUE]
      <4>1. p \in Players /\ player[p] \in Records /\ player[p].known
        BY <3>1 DEF Known
      <4>2. [player[p] EXCEPT !.hurt = TRUE] \in Records /\ [player[p] EXCEPT !.hurt = TRUE].known
        BY <4>1, KnownRecord
      <4>3. player' = [player EXCEPT ![p] = [player[p] EXCEPT !.hurt = TRUE]]
        BY <3>1
      <4>4. QED
        BY <4>1, <4>2, <4>3 DEF KnownGrow, Known
    <3>2. CASE player' = player
      BY <3>2 DEF KnownGrow, Known
    <3>3. QED
      BY <2>1, <3>1, <3>2
  <2>5. QED
    BY <1>3, <2>2, <2>3, <2>4 DEF UpdateInjury, LoadingOK, KnownGrow, HealingState
<1>4. CASE EndHealing
  BY <1>4, IdleHealingOK DEF EndHealing, IdleHealing, HealingState, LoadingOK, KnownGrow, Known
<1>5. QED
  BY <1>1, <1>2, <1>3, <1>4 DEF HealingStep

\* Every step of the player sync.
LEMMA LoadingKeeps == ASSUME PlayerInv, LoadingStep PROVE PlayerInv' /\ KnownGrow
  BY StartLoadingStep, StreamPlayerStep, FlushRowStep, WriteRowStep, EndLoadingStep DEF LoadingStep

\* The sources change; the table does not.
LEMMA SourcesKeep ==
    ASSUME PlayerInv, changes < MaxChanges, changes' = changes + 1, NEW p \in Players,
           SleeperChanges(p) \/ ReportsChange(p)
    PROVE  PlayerInv' /\ KnownGrow
<1>1. changes' \in 0 .. MaxChanges /\ dump' \in [Players -> Records] /\ reports' \subseteq Players
  BY PlayerAssumption DEF PlayerInv, PlayerTypeOK, SleeperChanges, ReportsChange
<1>2. /\ player' = player /\ loading' = loading /\ healing' = healing /\ faults' = faults
  BY DEF SleeperChanges, ReportsChange
<1>3. QED
  BY <1>1, <1>2 DEF PlayerInv, PlayerTypeOK, LoadingOK, KnownGrow, Known

-----------------------------------------------------------------------------
(* The rankings.                                                           *)

\* A ranking sync with nothing in hand knows nothing.
LEMMA IdleRankerOK == \A w \in Rankers : RankerOK(w, IdleRanker)
<1>1. IdleRanker \in RankerState /\ IdleRanker.pc = "idle" /\ IdleRanker.key = NoKey
      /\ IdleRanker.left = {} /\ IdleRanker.fresh = {} /\ IdleRanker.lookup = {}
  BY DEF IdleRanker, RankerState
<1>2. QED
  BY <1>1, RankerAssumption DEF RankerOK

\* Known players and published editions stay, so what a sync knows stays true.
LEMMA RankersStand ==
    ASSUME IInv, KnownGrow, UNCHANGED ranker,
           \A k \in Keys : list'[k].edition \in Nat /\ list[k].edition <= list'[k].edition
    PROVE  RankersOK'
<1>1. ASSUME NEW w \in Rankers, NEW r, RankerOK(w, r) PROVE RankerOK(w, r)'
  <2>1. r.key \in Keys => r.edition \in 1 .. list'[r.key].edition
    BY <1>1 DEF RankerOK, RankerState, IInv, TablesOK
  <2>2. r.lookup \subseteq Known'
    BY <1>1 DEF RankerOK, KnownGrow
  <2>3. QED
    BY <1>1, <2>1, <2>2 DEF RankerOK
<1>2. ASSUME NEW w \in Rankers PROVE RankerOK(w, ranker[w])'
  <2>1. PICK r : r = ranker[w]
    OBVIOUS
  <2>2. RankerOK(w, r) /\ r = ranker'[w]
    BY <2>1 DEF IInv, RankersOK
  <2>3. RankerOK(w, r)'
    BY <1>1, <2>2
  <2>4. QED
    BY <2>2, <2>3 DEF RankerOK
<1>3. QED
  BY <1>2 DEF IInv, RankersOK

\* One sync moves on to a state that knows no more than it may.
LEMMA RankerMoves ==
    ASSUME RankersOK, NEW w \in Rankers, NEW r, RankerOK(w, r),
           ranker' = [ranker EXCEPT ![w] = r], UNCHANGED <<player, list>>
    PROVE  RankersOK'
<1>1. ranker' \in [Rankers -> RankerState]
  BY DEF RankersOK, RankerOK
<1>2. ASSUME NEW v \in Rankers PROVE RankerOK(v, ranker[v])'
  <2>1. RankerOK(v, ranker'[v])
    BY DEF RankersOK
  <2>2. QED
    BY <2>1 DEF RankerOK, Known
<1>3. QED
  BY <1>1, <1>2 DEF RankersOK

\* What leaves the tables and the sources alone.
LEMMA TablesStand ==
    ASSUME TablesOK, UNCHANGED <<player, list, ranking, history>> PROVE TablesOK'
  BY DEF TablesOK, Bounded, Known

\* What a ranking sync does leaves the player table alone.
LEMMA PlayersStand ==
    ASSUME PlayerInv, UNCHANGED otherVars, Fail \/ UNCHANGED faults PROVE PlayerInv' /\ UNCHANGED player
<1>1. faults' \in 0 .. MaxFaults
  BY FailTyped
<1>2. QED
  BY <1>1 DEF otherVars, sourceVars, PlayerInv, PlayerTypeOK, LoadingOK, Known

\* A row of a known player and a published edition is written.
LEMMA BoundedWrite ==
    ASSUME TablesOK, NEW t, Bounded(t), NEW k \in Keys, NEW p \in Known,
           NEW e \in 1 .. list[k].edition
    PROVE  Bounded([t EXCEPT ![k][p] = e])
<1>1. p \in Players /\ list[k].edition \in Nat
  BY DEF Known, TablesOK
<1>2. e \in Nat /\ e <= list[k].edition
  BY <1>1
<1>3. [t EXCEPT ![k][p] = e] \in [Keys -> [Players -> Nat]]
  BY <1>1, <1>2 DEF Bounded
<1>4. QED
  BY <1>1, <1>2, <1>3 DEF Bounded

\* Rows of one key are deleted.
LEMMA BoundedDelete ==
    ASSUME TablesOK, NEW t, Bounded(t), NEW k \in Keys, NEW fresh
    PROVE  Bounded([t EXCEPT ![k] = DeleteStale(@, fresh)])
<1> DEFINE row == DeleteStale(t[k], fresh)
<1>1. /\ row \in [Players -> Nat]
      /\ \A p \in Players : row[p] = t[k][p] \/ row[p] = 0
  BY DEF DeleteStale, Bounded
<1>2. [t EXCEPT ![k] = DeleteStale(@, fresh)] = [t EXCEPT ![k] = row]
  OBVIOUS
<1>3. list[k].edition \in Nat
  BY DEF TablesOK
<1> HIDE DEF row
<1>4. [t EXCEPT ![k] = row] \in [Keys -> [Players -> Nat]]
  BY <1>1 DEF Bounded
<1>5. QED
  BY <1>1, <1>2, <1>3, <1>4 DEF Bounded

\* What does not touch the tables.
LEMMA StartRankingStep == ASSUME IInv, NEW w \in Rankers, StartRanking(w) PROVE IInv'
<1>1. PICK r : r = [IdleRanker EXCEPT !.keys = KeysOf[w],
                      !.pc = IF Style[w] = "FantasyCalc" THEN "players" ELSE "fetch"]
  OBVIOUS
<1>2. RankerOK(w, r)
  BY <1>1, RankerAssumption DEF IdleRanker, RankerState, RankerOK
<1>3. ranker' = [ranker EXCEPT ![w] = r]
  BY <1>1, Zenon DEF StartRanking
<1>4. UNCHANGED <<playerVars, list, ranking, history>>
  BY DEF StartRanking
<1>5. RankersOK'
  BY <1>2, <1>3, <1>4, RankerMoves DEF IInv, playerVars
<1>6. QED
  BY <1>4, <1>5, TablesStand DEF IInv, playerVars, sourceVars, PlayerInv, PlayerTypeOK, LoadingOK, Known

\* The sync ends with nothing in hand.
LEMMA EndRankingStep == ASSUME IInv, NEW w \in Rankers, EndRanking(w) PROVE IInv'
<1>1. UNCHANGED <<playerVars, list, ranking, history>>
  BY DEF EndRanking
<1>2. RankersOK'
  BY <1>1, IdleRankerOK, RankerMoves DEF EndRanking, IInv, playerVars
<1>3. QED
  BY <1>1, <1>2, TablesStand DEF IInv, playerVars, sourceVars, PlayerInv, PlayerTypeOK, LoadingOK, Known

\* A lookup of known players leaves what a sync knows in order.
LEMMA LookedUpOK ==
    ASSUME IInv, NEW w \in Rankers, ranker[w].pc = "players", NEW ps \in SUBSET Known
    PROVE  RankerOK(w, LookedUp(w, ps))
<1>1. PICK r : r = ranker[w]
  OBVIOUS
<1>2. RankerOK(w, r) /\ r.pc = "players"
  BY <1>1 DEF IInv, RankersOK
<1>3. ps \subseteq Players
  BY DEF Known
<1>4. CASE Style[w] = "FantasyCalc"
  <2>1. LookedUp(w, ps) = [r EXCEPT !.lookup = ps, !.pc = "fetch"]
    BY <1>1, <1>4, Zenon DEF LookedUp
  <2>2. PICK q : q = [r EXCEPT !.lookup = ps, !.pc = "fetch"]
    OBVIOUS
  <2>3. RankerOK(w, q)
    BY <1>2, <1>3, <2>2 DEF RankerOK, RankerState
  <2>4. QED
    BY <2>1, <2>2, <2>3
<1>5. CASE Style[w] # "FantasyCalc"
  <2>1. PICK l : l = [r EXCEPT !.lookup = ps]
    OBVIOUS
  <2>2. PICK q : q = [l EXCEPT !.pc = "upsert", !.left = l.members \cap l.lookup, !.fresh = {}]
    OBVIOUS
  <2>3. LookedUp(w, ps) = q
    BY <1>1, <1>5, <2>1, <2>2, Zenon DEF LookedUp, Matching
  <2>4. l \in RankerState /\ l.lookup = ps /\ l.key = r.key /\ l.edition = r.edition
    BY <1>2, <1>3, <2>1 DEF RankerOK, RankerState
  <2>5. RankerOK(w, q)
    BY <1>2, <1>5, <2>2, <2>4 DEF RankerOK, RankerState
  <2>6. QED
    BY <2>3, <2>5
<1>6. QED
  BY <1>4, <1>5

\* A lookup, complete or broken off, names players in the table.
LEMMA ReadPlayersStep == ASSUME IInv, NEW w \in Rankers, ReadPlayers(w) PROVE IInv'
<1>1. Matchable(w) \subseteq Known
  BY DEF Matchable, Active
<1>2. \E r : RankerOK(w, r) /\ ranker' = [ranker EXCEPT ![w] = r]
  <2>1. CASE ranker' = [ranker EXCEPT ![w] = LookedUp(w, Matchable(w))]
    BY <1>1, <2>1, LookedUpOK DEF ReadPlayers
  <2>2. CASE ranker' = [ranker EXCEPT ![w] = IdleRanker]
    BY <2>2, IdleRankerOK
  <2>3. ASSUME NEW some \in SUBSET Matchable(w), ranker' = [ranker EXCEPT ![w] = LookedUp(w, some)]
        PROVE  \E r : RankerOK(w, r) /\ ranker' = [ranker EXCEPT ![w] = r]
    BY <1>1, <2>3, LookedUpOK DEF ReadPlayers
  <2>4. QED
    BY <2>1, <2>2, <2>3 DEF ReadPlayers
<1>3. UNCHANGED <<otherVars, list, ranking, history>> /\ (Fail \/ UNCHANGED faults)
  BY DEF ReadPlayers
<1>4. PlayerInv' /\ UNCHANGED player
  BY <1>3, PlayersStand DEF IInv
<1>5. RankersOK'
  BY <1>2, <1>3, <1>4, RankerMoves DEF IInv
<1>6. QED
  BY <1>3, <1>4, <1>5, TablesStand DEF IInv

\* The first key of a list, and what is left of it.
LEMMA HeadTail ==
    ASSUME NEW s \in Seq(Keys), s # <<>> PROVE Head(s) \in Keys /\ Tail(s) \in Seq(Keys)
  OBVIOUS

\* The edition and the members at hand are those the source now publishes.
LEMMA FetchListStep == ASSUME IInv, NEW w \in Rankers, FetchList(w) PROVE IInv'
<1>1. PICK r : r = ranker[w]
  OBVIOUS
<1>2. RankerOK(w, r) /\ r.pc = "fetch" /\ r.keys # <<>>
  BY <1>1 DEF IInv, RankersOK, FetchList
<1>3. PICK k, rest : k = Head(r.keys) /\ rest = Tail(r.keys)
  OBVIOUS
<1>4. k \in Keys /\ rest \in Seq(Keys)
  BY <1>2, <1>3, HeadTail DEF RankerOK, RankerState
<1>5. /\ list[k].edition \in Nat \ {0} /\ list[k].edition \in 1 .. list[k].edition
      /\ list[k].members \subseteq Players
  BY <1>4 DEF IInv, TablesOK
<1>6. PICK f : f = [r EXCEPT !.keys = rest, !.key = k, !.edition = list[k].edition,
                             !.members = list[k].members]
  OBVIOUS
<1>7. /\ f \in RankerState /\ f.key = k /\ f.edition = list[k].edition /\ f.lookup = r.lookup
      /\ f.left = {} /\ f.fresh = {}
  BY <1>2, <1>4, <1>5, <1>6 DEF RankerOK, RankerState
<1>8. \E q : RankerOK(w, q) /\ ranker' = [ranker EXCEPT ![w] = q]
  <2>1. CASE ranker' = [ranker EXCEPT ![w] = Matching(f)]
    <3>1. RankerOK(w, Matching(f))
      BY <1>2, <1>4, <1>5, <1>7 DEF Matching, RankerOK, RankerState
    <3>2. QED
      BY <2>1, <3>1
  <2>2. CASE ranker' = [ranker EXCEPT ![w] = [f EXCEPT !.pc = "players"]]
    <3>1. RankerOK(w, [f EXCEPT !.pc = "players"])
      BY <1>2, <1>4, <1>5, <1>7 DEF RankerOK, RankerState
    <3>2. QED
      BY <2>2, <3>1
  <2>3. CASE ranker' = [ranker EXCEPT ![w].keys = Tail(@)]
    <3>1. ranker' = [ranker EXCEPT ![w] = [r EXCEPT !.keys = rest]]
      BY <1>1, <1>3, <2>3
    <3>2. RankerOK(w, [r EXCEPT !.keys = rest])
      BY <1>2, <1>4 DEF RankerOK, RankerState
    <3>3. QED
      BY <3>1, <3>2
  <2>4. \/ ranker' = [ranker EXCEPT ![w] = IF Style[w] = "FantasyCalc" THEN Matching(f)
                                           ELSE [f EXCEPT !.pc = "players"]]
        \/ ranker' = [ranker EXCEPT ![w].keys = Tail(@)]
    BY <1>1, <1>3, <1>6, Zenon DEF FetchList
  <2>5. QED
    BY <2>1, <2>2, <2>3, <2>4
<1>9. UNCHANGED <<otherVars, list, ranking, history>> /\ (Fail \/ UNCHANGED faults)
  BY DEF FetchList
<1>10. PlayerInv' /\ UNCHANGED player
  BY <1>9, PlayersStand DEF IInv
<1>11. RankersOK'
  BY <1>8, <1>9, <1>10, RankerMoves DEF IInv
<1>12. QED
  BY <1>9, <1>10, <1>11, TablesStand DEF IInv

\* The tables after a step that wrote them.
LEMMA TablesMove ==
    ASSUME TablesOK, NEW t, NEW h, Bounded(t), Bounded(h), ranking' = t, history' = h,
           UNCHANGED <<player, list>>
    PROVE  TablesOK'
  BY DEF TablesOK, Bounded, Known

\* A record to do is a matched one, and its player is known: the lookup named
\* him once, and players stay.
LEMMA UpsertStep == ASSUME IInv, NEW w \in Rankers, UpsertRanking(w) PROVE IInv'
<1>1. PICK r : r = ranker[w]
  OBVIOUS
<1>2. RankerOK(w, r) /\ r.pc = "upsert" /\ r.key \in Keys /\ r.edition \in 1 .. list[r.key].edition
  BY <1>1 DEF IInv, RankersOK, UpsertRanking, RankerOK
<1>3. PICK p \in r.left :
        /\ \/ ranking' = [ranking EXCEPT ![r.key][p] = r.edition]
           \/ ranking' = ranking
        /\ history' = Snapshot(w, p) \/ history' = history
        /\ \/ ranker' = [ranker EXCEPT ![w].left = @ \ {p}, ![w].fresh = @ \cup {p}]
           \/ Style[w] = "FantasyPros" /\ ranker' = [ranker EXCEPT ![w].left = @ \ {p}]
  BY <1>1, Zenon DEF UpsertRanking, StaysFresh
<1>4. p \in Known
  BY <1>2, <1>3 DEF RankerOK
<1>5. \E q : RankerOK(w, q) /\ ranker' = [ranker EXCEPT ![w] = q]
  <2>1. CASE ranker' = [ranker EXCEPT ![w].left = @ \ {p}, ![w].fresh = @ \cup {p}]
    <3>1. ranker' = [ranker EXCEPT ![w] = [r EXCEPT !.left = @ \ {p}, !.fresh = @ \cup {p}]]
      BY <1>1, <2>1 DEF IInv, RankersOK
    <3>2. PICK q : q = [r EXCEPT !.left = @ \ {p}, !.fresh = @ \cup {p}]
      OBVIOUS
    <3>3. /\ q \in RankerState /\ q.left = r.left \ {p} /\ q.fresh = r.fresh \cup {p}
          /\ q.pc = r.pc /\ q.key = r.key /\ q.edition = r.edition
          /\ q.lookup = r.lookup /\ q.members = r.members
      <4>1. r \in RankerState /\ p \in r.left
        BY <1>2, <1>3 DEF RankerOK
      <4>2. r.left \ {p} \in SUBSET Players /\ r.fresh \cup {p} \in SUBSET Players
        BY <4>1 DEF RankerState
      <4>3. q = [r EXCEPT !.left = r.left \ {p}, !.fresh = r.fresh \cup {p}]
        BY <3>2
      <4>4. QED
        BY ONLY <4>1, <4>2, <4>3 DEF RankerState
    <3>4. q.left \cup q.fresh = r.left \cup r.fresh
      BY <3>3
    <3>5. RankerOK(w, q)
      BY <1>2, <3>3, <3>4 DEF RankerOK
    <3>6. QED
      BY <3>1, <3>2, <3>5
  <2>2. CASE Style[w] = "FantasyPros" /\ ranker' = [ranker EXCEPT ![w].left = @ \ {p}]
    <3>1. ranker' = [ranker EXCEPT ![w] = [r EXCEPT !.left = @ \ {p}]]
      BY <1>1, <2>2
    <3>2. RankerOK(w, [r EXCEPT !.left = @ \ {p}])
      BY <1>2, <2>2 DEF RankerOK, RankerState
    <3>3. QED
      BY <3>1, <3>2
  <2>3. QED
    BY <1>3, <2>1, <2>2
<1>6. UNCHANGED <<otherVars, list>> /\ (Fail \/ UNCHANGED faults)
  BY DEF UpsertRanking
<1>7. PlayerInv' /\ UNCHANGED player
  BY <1>6, PlayersStand DEF IInv
<1>8. RankersOK'
  BY <1>5, <1>6, <1>7, RankerMoves DEF IInv
<1>9. \E t : Bounded(t) /\ ranking' = t
  BY <1>2, <1>3, <1>4, BoundedWrite DEF IInv, TablesOK
<1>10. \E h : Bounded(h) /\ history' = h
  <2>1. Bounded(Snapshot(w, p))
    BY <1>1, <1>2, <1>4, BoundedWrite DEF Snapshot, IInv, TablesOK
  <2>2. QED
    BY <1>3, <2>1 DEF IInv, TablesOK
<1>11. TablesOK'
  BY <1>6, <1>7, <1>9, <1>10, TablesMove DEF IInv
<1>12. QED
  BY <1>7, <1>8, <1>11 DEF IInv

\* The cleanup only deletes rows.
LEMMA CleanupStep == ASSUME IInv, NEW w \in Rankers, Cleanup(w) PROVE IInv'
<1>1. PICK r : r = ranker[w]
  OBVIOUS
<1>2. RankerOK(w, r) /\ r.pc = "upsert" /\ r.left = {} /\ r.key \in Keys
  BY <1>1 DEF IInv, RankersOK, Cleanup, RankerOK
<1>3. PICK q : q = [r EXCEPT !.pc = "fetch", !.key = NoKey, !.edition = 0,
                             !.members = {}, !.fresh = {}]
  OBVIOUS
<1>4. RankerOK(w, q)
  BY <1>2, <1>3, RankerAssumption DEF RankerOK, RankerState
<1>5. ranker' = [ranker EXCEPT ![w] = q] /\ history' = history
  BY <1>1, <1>3 DEF Cleanup
<1>6. UNCHANGED <<otherVars, list>> /\ (Fail \/ UNCHANGED faults)
  BY DEF Cleanup
<1>7. PlayerInv' /\ UNCHANGED player
  BY <1>6, PlayersStand DEF IInv
<1>8. RankersOK'
  BY <1>4, <1>5, <1>6, <1>7, RankerMoves DEF IInv
<1>9. \E t : Bounded(t) /\ ranking' = t
  <2>1. \/ ranking' = [ranking EXCEPT ![r.key] = DeleteStale(@, r.fresh)]
        \/ ranking' = ranking
    BY <1>1 DEF Cleanup
  <2>2. QED
    BY <1>2, <2>1, BoundedDelete DEF IInv, TablesOK
<1>10. TablesOK'
  BY <1>5, <1>6, <1>7, <1>9, TablesMove DEF IInv, TablesOK
<1>11. QED
  BY <1>7, <1>8, <1>10 DEF IInv

\* Every step of a ranking sync.
LEMMA RankingKeeps == ASSUME IInv, NEW w \in Rankers, RankingStep(w) PROVE IInv'
  BY StartRankingStep, ReadPlayersStep, FetchListStep, UpsertStep, CleanupStep, EndRankingStep
  DEF RankingStep

\* A table bounded by the editions stays so when players are added or a source
\* publishes again.
LEMMA BoundedStands ==
    ASSUME TablesOK, KnownGrow, UNCHANGED <<ranking, history>>,
           \A k \in Keys : list'[k].edition \in Nat /\ list[k].edition <= list'[k].edition
    PROVE  Bounded(ranking)' /\ Bounded(history)'
<1>1. ASSUME NEW t, Bounded(t) PROVE Bounded(t)'
  <2>1. \A k \in Keys, p \in Players : t[k][p] \in Nat /\ list[k].edition \in Nat
    BY <1>1 DEF Bounded, TablesOK
  <2>2. QED
    BY <1>1, <2>1 DEF Bounded, KnownGrow
<1>2. PICK t, h : t = ranking /\ h = history
  OBVIOUS
<1>3. Bounded(t)' /\ Bounded(h)' /\ t = ranking' /\ h = history'
  BY <1>1, <1>2 DEF TablesOK
<1>4. QED
  BY <1>3 DEF Bounded

\* A step of the player table alone.
LEMMA PlayerStep == ASSUME IInv, PlayerInv', KnownGrow, UNCHANGED rankingVars PROVE IInv'
<1>1. \A k \in Keys : list'[k].edition \in Nat /\ list[k].edition <= list'[k].edition
  BY DEF IInv, TablesOK, rankingVars
<1>2. RankersOK'
  BY <1>1, RankersStand DEF rankingVars
<1>3. TablesOK'
  BY <1>1, BoundedStands DEF IInv, TablesOK, rankingVars
<1>4. QED
  BY <1>2, <1>3 DEF IInv

\* A source publishes again: its editions grow.
LEMMA NewEditionStep ==
    ASSUME IInv, changes < MaxChanges, changes' = changes + 1, NEW k \in Keys, NewEdition(k)
    PROVE  IInv'
<1>1. PICK ps \in SUBSET Players :
          list' = [list EXCEPT ![k] = [edition |-> @.edition + 1, members |-> ps]]
  BY DEF NewEdition
<1>2. list' \in [Keys -> [edition : Nat \ {0}, members : SUBSET Players]]
  BY <1>1 DEF IInv, TablesOK
<1>3. \A l \in Keys : list'[l].edition \in Nat /\ list[l].edition <= list'[l].edition
  BY <1>1 DEF IInv, TablesOK
<1>4. /\ player' = player /\ loading' = loading /\ healing' = healing /\ faults' = faults
      /\ dump' = dump /\ reports' = reports /\ UNCHANGED <<ranking, history, ranker>>
  BY DEF NewEdition, sourceVars
<1>5. changes' \in 0 .. MaxChanges
  BY PlayerAssumption DEF IInv, PlayerInv, PlayerTypeOK
<1>6. PlayerInv' /\ KnownGrow
  BY <1>4, <1>5 DEF IInv, PlayerInv, PlayerTypeOK, LoadingOK, KnownGrow, Known
<1>7. RankersOK'
  BY <1>3, <1>4, <1>6, RankersStand
<1>8. TablesOK'
  BY <1>2, <1>3, <1>4, <1>6, BoundedStands DEF IInv, TablesOK
<1>9. QED
  BY <1>6, <1>7, <1>8 DEF IInv

\* The daemon dies: every execution is forgotten, the tables stay.
LEMMA CrashStep == ASSUME IInv, Crash PROVE IInv'
<1>1. faults' \in 0 .. MaxFaults
  BY FailTyped DEF IInv, Crash
<1>2. /\ loading' = IdleLoading /\ healing' = IdleHealing
      /\ UNCHANGED <<changes, sourceVars, player, list, ranking, history>>
      /\ ranker' = [w \in Rankers |-> IdleRanker]
  BY DEF Crash
<1>3. PlayerInv'
  BY <1>1, <1>2, IdleLoadingOK, FS_EmptySet, PlayerAssumption
     DEF IInv, PlayerInv, PlayerTypeOK, LoadingOK, IdleHealing, HealingState, Known, sourceVars
<1>4. RankersOK'
  <2>1. ASSUME NEW w \in Rankers PROVE RankerOK(w, IdleRanker)'
    BY <1>2, IdleRankerOK DEF RankerOK, Known
  <2>2. QED
    BY <1>2, <2>1 DEF RankersOK, RankerOK
<1>5. QED
  BY <1>2, <1>3, <1>4, TablesStand DEF IInv

-----------------------------------------------------------------------------
(* The theorems.                                                           *)

\* Empty tables, idle executions, first editions.
LEMMA InitInv == Init => IInv
<1> SUFFICES ASSUME Init PROVE IInv
  OBVIOUS
<1>1. PlayerInv
  <2>1. Record(TRUE, FALSE) \in Records /\ NoRecord \in Records
    BY DEF Records, Record
  <2>2. dump \in [Players -> Records] /\ player \in [Players -> Records] /\ reports \subseteq Players
    BY <2>1 DEF Init, PlayerInit
  <2>3. LoadingOK /\ healing \in HealingState
    BY IdleLoadingOK, IdleHealingOK, FS_EmptySet DEF Init, PlayerInit, LoadingOK
  <2>4. /\ changes \in 0 .. MaxChanges /\ faults \in 0 .. MaxFaults
        /\ Cardinality(loading.batch) <= FlushSize
    BY IdleLoadingOK, FS_EmptySet, PlayerAssumption DEF Init, PlayerInit
  <2>5. /\ loading.pc \in {"idle", "stream", "flush"} /\ loading.batch \cap loading.left = {}
        /\ loading.pc = "flush" => loading.batch # {}
        /\ healing.pc \in {"idle", "lookup", "update"}
        /\ healing.left \subseteq Players /\ healing.lookup \subseteq Known
    BY <2>3, IdleLoadingOK, IdleHealingOK DEF Init, PlayerInit, HealingState
  <2>6. QED
    BY <2>2, <2>3, <2>4, <2>5 DEF PlayerInv, PlayerTypeOK
<1>2. TablesOK
  BY DEF Init, TablesOK, Bounded
<1>3. RankersOK
  BY IdleRankerOK DEF Init, RankersOK, RankerOK
<1>4. QED
  BY <1>1, <1>2, <1>3 DEF IInv

\* Every step keeps the inductive invariant.
LEMMA InvStep == IInv /\ [Next]_vars => IInv'
<1> SUFFICES ASSUME IInv, [Next]_vars PROVE IInv'
  OBVIOUS
<1>1. CASE (LoadingStep \/ HealingStep) /\ UNCHANGED rankingVars
  BY <1>1, LoadingKeeps, HealingKeeps, PlayerStep DEF IInv
<1>2. CASE \E w \in Rankers : RankingStep(w)
  BY <1>2, RankingKeeps
<1>3. CASE SourcesChange
  BY <1>3, SourcesKeep, PlayerStep, NewEditionStep DEF SourcesChange, IInv
<1>4. CASE Crash
  BY <1>4, CrashStep
<1>5. CASE UNCHANGED vars
  BY <1>5, TablesStand
     DEF vars, playerVars, sourceVars, rankingVars, IInv, PlayerInv, PlayerTypeOK, LoadingOK,
         RankersOK, RankerOK, Known
<1>6. QED
  BY <1>1, <1>2, <1>3, <1>4, <1>5 DEF Next

\* The inductive invariant holds of every history.
LEMMA Invariance == Spec => []IInv
  BY InitInv, InvStep, PTL DEF Spec

\* The rows of the ranking tables belong to known players and to published
\* editions, whatever was fetched, looked up or lost between two statements.
THEOREM TypeCorrect == Spec => []TypeOK
<1>1. IInv => TypeOK
  <2> SUFFICES ASSUME IInv PROVE TypeOK
    OBVIOUS
  <2>1. ASSUME NEW k \in Keys, NEW p \in Players
        PROVE  /\ {ranking[k][p], history[k][p]} \subseteq 0 .. list[k].edition
               /\ ranking[k][p] # 0 => p \in Known
    BY DEF IInv, TablesOK, Bounded
  <2>2. \A k \in Keys : list[k].members \subseteq Players
    BY DEF IInv, TablesOK
  <2>3. ASSUME NEW w \in Rankers
        PROVE  /\ ranker[w].pc \in {"idle", "players", "fetch", "upsert"}
               /\ ranker[w].lookup \subseteq Known
               /\ ranker[w].left \cup ranker[w].fresh \subseteq ranker[w].members \cap ranker[w].lookup
    BY DEF IInv, RankersOK, RankerOK, RankerState
  <2>4. PlayerTypeOK
    BY DEF IInv, PlayerInv
  <2>5. QED
    BY <2>1, <2>2, <2>3, <2>4 DEF TypeOK
<1>2. QED
  BY <1>1, Invariance, PTL

\* What OnlyUnrankedGo says of one step.
LEMMA OnlyUnrankedStep ==
    ASSUME IInv, [Next]_vars, NEW k \in Keys, NEW p \in Players,
           ranking[k][p] # 0, ranking'[k][p] = 0
    PROVE  \E w \in Rankers :
             /\ ranker[w].key = k
             /\ Style[w] # "FantasyPros" => Matched(w) # {} /\ p \notin Matched(w)
<1>1. ranking' # ranking
  OBVIOUS
<1>2. ASSUME NEW w \in Rankers, UpsertRanking(w) PROVE FALSE
  <2>1. PICK r : r = ranker[w]
    OBVIOUS
  <2>2. RankerOK(w, r) /\ r.pc = "upsert"
    BY <1>2, <2>1 DEF IInv, RankersOK, UpsertRanking
  <2>3. r.edition # 0
    BY <2>2 DEF RankerOK, IInv, TablesOK
  <2>4. PICK q \in r.left : ranking' = [ranking EXCEPT ![r.key][q] = r.edition]
    BY <1>1, <1>2, <2>1, Zenon DEF UpsertRanking
  <2>5. ranking \in [Keys -> [Players -> Nat]]
    BY DEF IInv, TablesOK, Bounded
  <2>6. QED
    BY <2>3, <2>4, <2>5
<1>3. ASSUME NEW w \in Rankers, Cleanup(w)
      PROVE  /\ ranker[w].key = k
             /\ Style[w] # "FantasyPros" => Matched(w) # {} /\ p \notin Matched(w)
  <2>1. PICK r : r = ranker[w]
    OBVIOUS
  <2>2. RankerOK(w, r) /\ r.pc = "upsert" /\ r.left = {}
    BY <1>3, <2>1 DEF IInv, RankersOK, Cleanup
  <2>3. ranking' = [ranking EXCEPT ![r.key] = DeleteStale(@, r.fresh)]
    BY <1>1, <1>3, <2>1 DEF Cleanup
  <2>4. r.key = k /\ r.fresh # {} /\ p \notin r.fresh
    BY <2>3 DEF DeleteStale, IInv, TablesOK, Bounded
  <2>5. Style[w] # "FantasyPros" => r.fresh = Matched(w)
    BY <2>1, <2>2 DEF RankerOK, Matched
  <2>6. QED
    BY <2>1, <2>4, <2>5
<1>4. \E w \in Rankers : UpsertRanking(w) \/ Cleanup(w)
  BY <1>1 DEF Next, vars, rankingVars, RankingStep, StartRanking, ReadPlayers, FetchList, EndRanking,
              SourcesChange, NewEdition, Crash
<1>5. QED
  BY <1>2, <1>3, <1>4

\* A ranked row goes only when the list or the lookup at hand lacks the player,
\* however many syncs, scheduled and manual, write the key at once.
THEOREM OnlyUnrankedGoes == Spec => OnlyUnrankedGo
<1>1. IInv /\ [Next]_vars =>
        [\A k \in Keys, p \in Players : ranking[k][p] # 0 /\ ranking'[k][p] = 0 =>
           \E w \in Rankers :
             /\ ranker[w].key = k
             /\ Style[w] # "FantasyPros" => Matched(w) # {} /\ p \notin Matched(w)]_ranking
  BY OnlyUnrankedStep
<1>2. QED
  BY <1>1, Invariance, PTL DEF Spec, OnlyUnrankedGo
=============================================================================
