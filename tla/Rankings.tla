------------------------------ MODULE Rankings ------------------------------
(***************************************************************************)
(* The ranking syncs (internal/sync/rankings.go, fantasycalc.go,           *)
(* fp_rankings.go, ranking_helpers.go) over the player table: each fetches *)
(* the list of a source and market, matches it with a lookup of the        *)
(* players read once, upserts row by row and deletes what it did not see.  *)
(***************************************************************************)
EXTENDS PlayerData

CONSTANTS
    Keys,       \* pairs of source and market
    Rankers,    \* ranking jobs
    Style,      \* Style[w]: "DynastyDaddy", "FantasyCalc" or "FantasyPros"
    KeysOf,     \* KeysOf[w]: the sequence of keys w syncs (FormatCombos)
    NoKey

ASSUME RankerAssumption ==
    /\ Style \in [Rankers -> {"DynastyDaddy", "FantasyCalc", "FantasyPros"}]
    /\ KeysOf \in [Rankers -> Seq(Keys)] /\ NoKey \notin Keys

VARIABLES
    list,      \* list[k]: the source's list, its edition and its members
    ranking,   \* table player_ranking: ranking[k][p], the edition of the row, 0 for none
    history,   \* table player_ranking_history: the edition of the newest snapshot
    ranker     \* ranker[w]: the local state of a ranking sync

rankingVars == <<list, ranking, history, ranker>>
otherVars == <<scheduled, changes, sourceVars, player, loading, healing>>
vars == <<playerVars, rankingVars>>

IdleRanker == [pc |-> "idle", keys |-> <<>>, key |-> NoKey, edition |-> 0, members |-> {},
               lookup |-> {}, left |-> {}, fresh |-> {}]

Init ==
    /\ PlayerInit
    /\ list = [k \in Keys |-> [edition |-> 1, members |-> Players]]
    /\ ranking = [k \in Keys |-> [p \in Players |-> 0]]
    /\ history = ranking
    /\ ranker = [w \in Rankers |-> IdleRanker]

\* SyncAll reads the players once and then fetches market by market; the other
\* syncs fetch first.
StartRanking(w) ==
    /\ w \in scheduled /\ ranker[w].pc = "idle"
    /\ ranker' = [ranker EXCEPT ![w] = [IdleRanker EXCEPT !.keys = KeysOf[w],
                    !.pc = IF Style[w] = "FantasyCalc" THEN "players" ELSE "fetch"]]
    /\ UNCHANGED <<playerVars, list, ranking, history>>

\* sid2pidMap matches every player, playerIDsByNameTeam the active ones.
Matchable(w) == IF Style[w] = "FantasyPros" THEN Active ELSE Known

\* Mutant of Matching: the members are not looked up.
MatchingAll(r) == [r EXCEPT !.pc = "upsert", !.left = r.members, !.fresh = {}]

\* With the list and the lookup at hand the records are gone through.
Matching(r) == [r EXCEPT !.pc = "upsert", !.left = r.members \cap r.lookup, !.fresh = {}]

LookedUp(w, players) ==
    IF Style[w] = "FantasyCalc"
    THEN [ranker[w] EXCEPT !.lookup = players, !.pc = "fetch"]
    ELSE Matching([ranker[w] EXCEPT !.lookup = players])

\* The query for the lookup.  A failure ends the sync, one between two rows
\* goes unnoticed (rows.Err is not asked for) and leaves a smaller lookup.
ReadPlayers(w) ==
    /\ ranker[w].pc = "players"
    /\ \/ ranker' = [ranker EXCEPT ![w] = LookedUp(w, Matchable(w))] /\ UNCHANGED faults
       \/ ranker' = [ranker EXCEPT ![w] = IdleRanker] /\ Fail
       \/ /\ \E some \in SUBSET Matchable(w) :
                ranker' = [ranker EXCEPT ![w] = LookedUp(w, some)]
          /\ Fail
    /\ UNCHANGED <<otherVars, list, ranking, history>>

\* One key: an HTTP error, a bad status or bad JSON skips it.
FetchList(w) ==
    LET r == ranker[w] k == Head(r.keys)
        fetched == [r EXCEPT !.keys = Tail(@), !.key = k,
                       !.edition = list[k].edition, !.members = list[k].members] IN
    /\ r.pc = "fetch" /\ r.keys # <<>>
    /\ \/ /\ ranker' = [ranker EXCEPT ![w] =
                IF Style[w] = "FantasyCalc" THEN Matching(fetched) ELSE [fetched EXCEPT !.pc = "players"]]
          /\ UNCHANGED faults
       \/ ranker' = [ranker EXCEPT ![w].keys = Tail(@)] /\ Fail
    /\ UNCHANGED <<otherVars, list, ranking, history>>

\* Whether a record whose upsert failed still counts as seen: the FantasyPros
\* sync alone leaves it out, and its cleanup then deletes the older row.
StaysFresh(w) == Style[w] # "FantasyPros"

\* FantasyCalc also writes the day's history snapshot.
Snapshot(w, p) ==
    IF Style[w] = "FantasyCalc"
    THEN [history EXCEPT ![ranker[w].key][p] = ranker[w].edition] ELSE history

\* One matched record: the upsert, then the snapshot, a statement each; an
\* error of either is logged.
UpsertRanking(w) ==
    LET r == ranker[w]
        seen(p) == ranker' = [ranker EXCEPT ![w].left = @ \ {p}, ![w].fresh = @ \cup {p}] IN
    /\ r.pc = "upsert"
    /\ \E p \in r.left :
          \/ /\ ranking' = [ranking EXCEPT ![r.key][p] = r.edition] /\ seen(p)
             /\ \/ history' = Snapshot(w, p) /\ UNCHANGED faults
                \/ UNCHANGED history /\ Style[w] = "FantasyCalc" /\ Fail
          \/ /\ UNCHANGED ranking /\ Fail
             /\ IF StaysFresh(w) THEN seen(p) ELSE ranker' = [ranker EXCEPT ![w].left = @ \ {p}]
             /\ history' = Snapshot(w, p)
    /\ UNCHANGED <<otherVars, list>>

\* Mutant of DeleteStale: without the check for an empty set.
DeleteUnseen(rows, fresh) == [p \in Players |-> IF p \in fresh THEN rows[p] ELSE 0]

\* deleteStaleRankings: nothing when no record was seen.
DeleteStale(rows, fresh) ==
    IF fresh = {} THEN rows ELSE [p \in Players |-> IF p \in fresh THEN rows[p] ELSE 0]

\* Mutant of Cleanup: nothing is ever deleted.
CleanupNothing(w) ==
    /\ ranker[w].pc = "upsert" /\ ranker[w].left = {}
    /\ ranker' = [ranker EXCEPT ![w].pc = "fetch"]
    /\ UNCHANGED <<playerVars, list, ranking, history>>

\* The end of a key; a failed delete is ignored.
Cleanup(w) ==
    LET r == ranker[w] IN
    /\ r.pc = "upsert" /\ r.left = {}
    /\ \/ ranking' = [ranking EXCEPT ![r.key] = DeleteStale(@, r.fresh)] /\ UNCHANGED faults
       \/ UNCHANGED ranking /\ Fail
    /\ ranker' = [ranker EXCEPT ![w] = [r EXCEPT !.pc = "fetch", !.key = NoKey, !.edition = 0,
                                                 !.members = {}, !.fresh = {}]]
    /\ UNCHANGED <<otherVars, list, history>>

EndRanking(w) ==
    /\ ranker[w].pc = "fetch" /\ ranker[w].keys = <<>>
    /\ ranker' = [ranker EXCEPT ![w] = IdleRanker]
    /\ UNCHANGED <<playerVars, list, ranking, history>>

\* A source publishes a new edition that ranks other players.
NewEdition(k) ==
    /\ \E ps \in SUBSET Players : list' = [list EXCEPT ![k] = [edition |-> @.edition + 1, members |-> ps]]
    /\ UNCHANGED <<scheduled, sourceVars, player, loading, healing, faults, ranking, history, ranker>>

\* The daemon dies: the tables stay.
Crash ==
    /\ Fail
    /\ loading' = IdleLoading /\ healing' = IdleHealing
    /\ ranker' = [w \in Rankers |-> IdleRanker]
    /\ UNCHANGED <<scheduled, changes, sourceVars, player, list, ranking, history>>

RankingStep(w) ==
    \/ StartRanking(w) \/ ReadPlayers(w) \/ FetchList(w)
    \/ UpsertRanking(w) \/ Cleanup(w) \/ EndRanking(w)

SourcesChange ==
    /\ changes < MaxChanges /\ changes' = changes + 1
    /\ \/ \E p \in Players : (SleeperChanges(p) \/ ReportsChange(p)) /\ UNCHANGED rankingVars
       \/ \E k \in Keys : NewEdition(k)

Next ==
    \/ (LoadingStep \/ HealingStep) /\ UNCHANGED rankingVars
    \/ \E w \in Rankers : RankingStep(w)
    \/ SourcesChange \/ Crash

\* Every job is scheduled daily or hourly and every call has a timeout; the
\* sources owe nothing, and failures are not fair.
Fairness ==
    /\ WF_vars(LoadingStep /\ UNCHANGED rankingVars)
    /\ WF_vars(HealingStep /\ UNCHANGED rankingVars)
    /\ \A w \in Rankers : WF_vars(RankingStep(w))

Spec == Init /\ [][Next]_vars /\ Fairness

-----------------------------------------------------------------------------
\* Type invariant, with the foreign key of player_ranking.
TypeOK ==
    /\ PlayerTypeOK
    /\ \A k \in Keys : list[k].members \subseteq Players
    /\ \A k \in Keys : \A p \in Players :
         {ranking[k][p], history[k][p]} \subseteq 0..list[k].edition /\ (ranking[k][p] # 0 => p \in Known)
    /\ \A w \in Rankers :
         /\ ranker[w].pc \in {"idle", "players", "fetch", "upsert"}
         /\ ranker[w].lookup \subseteq Known
         /\ ranker[w].left \cup ranker[w].fresh \subseteq ranker[w].members \cap ranker[w].lookup

Feeds(w, k) == w \in scheduled /\ \E i \in DOMAIN KeysOf[w] : KeysOf[w][i] = k

\* The players that the list and the lookup a sync has at hand both name.
Matched(w) == ranker[w].members \cap ranker[w].lookup

\* A row goes only at the hands of a sync of its key whose edition does not rank the
\* player or whose lookup lacks him: a failed statement costs no row and an
\* answer that matches nobody costs none (ranking_helpers.go:62-64), also when
\* a manual sync runs beside the scheduled one.  FantasyPros' sync alone is exempt.
OnlyUnrankedGo ==
    [][\A k \in Keys, p \in Players : ranking[k][p] # 0 /\ ranking'[k][p] = 0 =>
         \E w \in Rankers :
           /\ ranker[w].key = k
           /\ Style[w] # "FantasyPros" => Matched(w) # {} /\ p \notin Matched(w)]_ranking

\* Once the sources rest (here after MaxChanges changes), the rows of a key
\* are in the end exactly the matched players of the source's list, all of its
\* current edition and, for FantasyCalc, with the current snapshot; whatever
\* failed on the way or was deleted by a sync that saw a part of the players.
\* A list that matches nobody is taken for a failed answer and changes nothing.
RankingsConverge ==
    <>[](\A w \in Rankers : \A k \in Keys :
           LET matched == list[k].members \cap Matchable(w) IN
           Feeds(w, k) /\ matched # {} => \A p \in Players :
               /\ ranking[k][p] = IF p \in matched THEN list[k].edition ELSE 0
               /\ Style[w] = "FantasyCalc" /\ p \in matched => history[k][p] = list[k].edition)
=============================================================================
