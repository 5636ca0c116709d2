---------------------------- MODULE LeagueTrades ----------------------------
(***************************************************************************)
(* The jobs that work on the leaguemate graph: the trade sync              *)
(* (internal/sync/leaguemates_trades.go) and the weekly assessment of      *)
(* leaguemates (assess_leaguemates.go), running beside the passes of       *)
(* LeagueGraph over the same tables, with crashes of the daemon.           *)
(***************************************************************************)
EXTENDS LeagueGraph

CONSTANTS
    Trades,
    LeagueOf,     \* LeagueOf[t]: the league of trade t
    WeekOf,       \* WeekOf[t]: the week Sleeper books t under
    AssetsOf,     \* AssetsOf[t]: the players and picks t moves
    Drafting,     \* leagues whose status is drafting or pre_draft
    TradeSyncers, \* executions of the trade sync that may overlap
    Batch,        \* leaguemates assessed per execution (12)
    MaxWeeks,     \* weeks a trade sync looks back (3)
    MaxWeek,      \* bound on the calendar
    NoTrade

ASSUME TradesAssumption ==
    /\ LeagueOf \in [Trades -> Leagues] /\ WeekOf \in [Trades -> 1..MaxWeek]
    /\ Drafting \subseteq Leagues
    /\ NoTrade \notin Trades \cup [markis : BOOLEAN, watch : BOOLEAN]
    /\ {MaxWeeks, MaxWeek, Batch} \subseteq Nat \ {0}
    /\ IsFiniteSet(TradeSyncers)

VARIABLES
    week,     \* the NFL week; the ISO week of the assessment moves with it
    done,     \* Sleeper: the trades completed so far
    txn,      \* table leaguemate_transaction: NoTrade, or the flags of the row
    copies,   \* table leaguemate_trade_asset: copies[t][a], its rows for a
    trader,   \* trader[w]: the local state of a trade sync
    signal,   \* table leaguemate_signal, as <<week, user>>
    review    \* the local state of the assessment

tradeVars == <<week, done, txn, copies, trader, signal, review>>
vars == <<graphVars, tradeVars>>

Assets == UNION {AssetsOf[t] : t \in Trades}
IdleTrader == [pc |-> "idle", watch |-> {}, scan |-> {}, from |-> "absent",
               found |-> {}, cur |-> NoTrade, left |-> {}]
IdleReview == [pc |-> "idle", week |-> 0, todo |-> {}]

Init ==
    /\ GraphInit
    /\ week = 1 /\ done = {}
    /\ txn = [t \in Trades |-> NoTrade]
    /\ copies = [t \in Trades |-> [a \in AssetsOf[t] |-> 0]]
    /\ trader = [w \in TradeSyncers |-> IdleTrader]
    /\ signal = {} /\ review = IdleReview

\* watchSet: the players on the stored rosters of flagged leagues.
WatchSet == {h[3] : h \in {x \in held : league[x[1]] = "markis"}}

\* scanWeeksFor: the last MaxWeeks weeks, the current one included.
ScanWeeks == {v \in 1..week : v + MaxWeeks > week}

\* Sync: the watch set is read first; when that query fails it is taken to be
\* empty and the sync goes on.
StartTrades(w) ==
    /\ trader[w].pc = "idle"
    /\ \/ trader' = [trader EXCEPT ![w].pc = "leagues", ![w].watch = WatchSet] /\ UNCHANGED faults
       \/ trader' = [trader EXCEPT ![w].pc = "leagues"] /\ Fail
    /\ UNCHANGED <<roster, moves, tables, pass, week, done, txn, copies, signal, review>>

\* fetchLeagues and CurrentWeek: what is to be scanned, with the league's flag
\* as read here.  An error of the query ends the sync; when the week is not to
\* be had the first weeks are scanned.
Planned(weeks) ==
    {<<l, league[l], v>> : l \in {x \in Leagues \ Drafting : league[x] # "absent"}, v \in weeks}

ReadLeagues(w) ==
    /\ trader[w].pc = "leagues"
    /\ \/ trader' = [trader EXCEPT ![w].pc = "scan", ![w].scan = Planned(ScanWeeks)] /\ UNCHANGED faults
       \/ trader' = [trader EXCEPT ![w].pc = "scan", ![w].scan = Planned(1..MaxWeeks)] /\ Fail
       \/ trader' = [trader EXCEPT ![w] = IdleTrader] /\ Fail
    /\ UNCHANGED <<roster, moves, tables, pass, week, done, txn, copies, signal, review>>

\* GetLeagueTransactions for one league and week; an error skips the week.
ScanWeek(w, job) ==
    LET q == trader[w] IN
    /\ q.pc = "scan" /\ q.found = {} /\ job \in q.scan
    /\ \/ /\ trader' = [trader EXCEPT ![w] =
                [q EXCEPT !.scan = @ \ {job}, !.from = job[2],
                          !.found = {t \in done : LeagueOf[t] = job[1] /\ WeekOf[t] = job[3]}]]
          /\ UNCHANGED faults
       \/ trader' = [trader EXCEPT ![w].scan = @ \ {job}] /\ Fail
    /\ UNCHANGED <<roster, moves, tables, pass, week, done, txn, copies, signal, review>>

EndTrades(w) ==
    /\ trader[w].pc = "scan" /\ trader[w].found = {} /\ trader[w].scan = {}
    /\ trader' = [trader EXCEPT ![w] = IdleTrader]
    /\ UNCHANGED <<graphVars, week, done, txn, copies, signal, review>>

\* Mutant of StoreTrade: a trade with a row is taken to be complete.
StoreTradeOnce(w, t) ==
    LET q == trader[w] IN
    /\ q.pc = "scan" /\ t \in q.found
    /\ IF txn[t] # NoTrade
       THEN trader' = [trader EXCEPT ![w].found = @ \ {t}] /\ UNCHANGED txn
       ELSE /\ txn' = [txn EXCEPT ![t] = [markis |-> q.from = "markis", watch |-> FALSE]]
            /\ trader' = [trader EXCEPT ![w].pc = "clear", ![w].cur = t, ![w].found = @ \ {t}]
    /\ UNCHANGED <<graphVars, week, done, copies, signal, review>>

\* insertTradeTransaction: the flags are written by the first insert only.  An
\* error abandons the trade.
StoreTrade(w, t) ==
    LET q == trader[w]
        row == [markis |-> q.from = "markis", watch |-> AssetsOf[t] \cap q.watch # {}] IN
    /\ q.pc = "scan" /\ t \in q.found
    /\ \/ /\ txn' = [txn EXCEPT ![t] = IF @ = NoTrade THEN row ELSE @]
          /\ trader' = [trader EXCEPT ![w].pc = "clear", ![w].cur = t, ![w].found = @ \ {t}]
          /\ UNCHANGED faults
       \/ /\ Fail
          /\ trader' = [trader EXCEPT ![w].found = @ \ {t}]
          /\ UNCHANGED txn
    /\ UNCHANGED <<roster, moves, tables, pass, week, done, copies, signal, review>>

\* Mutant of ClearAssets: the inserts go on after a failed delete.
ClearAssetsOrNot(w) ==
    LET q == trader[w] IN
    /\ q.pc = "clear"
    /\ \/ copies' = [copies EXCEPT ![q.cur] = [a \in AssetsOf[q.cur] |-> 0]] /\ UNCHANGED faults
       \/ UNCHANGED copies /\ Fail
    /\ trader' = [trader EXCEPT ![w].pc = "insert", ![w].left = AssetsOf[q.cur]]
    /\ UNCHANGED <<roster, moves, tables, pass, week, done, txn, signal, review>>

\* deleteTradeAssets: a failed delete abandons the trade, because the inserts
\* that follow have no unique constraint to stop a second copy.
ClearAssets(w) ==
    LET q == trader[w] IN
    /\ q.pc = "clear"
    /\ \/ /\ copies' = [copies EXCEPT ![q.cur] = [a \in AssetsOf[q.cur] |-> 0]]
          /\ trader' = [trader EXCEPT ![w].pc = "insert", ![w].left = AssetsOf[q.cur]]
          /\ UNCHANGED faults
       \/ /\ Fail
          /\ trader' = [trader EXCEPT ![w].pc = "scan", ![w].cur = NoTrade]
          /\ UNCHANGED copies
    /\ UNCHANGED <<roster, moves, tables, pass, week, done, txn, signal, review>>

\* insertPlayerTradeAssets, insertPickTradeAssets: one statement per asset; an
\* error loses that asset and is only logged.
InsertAsset(w, a) ==
    LET q == trader[w] IN
    /\ q.pc = "insert" /\ a \in q.left
    /\ \/ copies' = [copies EXCEPT ![q.cur][a] = @ + 1] /\ UNCHANGED faults
       \/ UNCHANGED copies /\ Fail
    /\ trader' = [trader EXCEPT ![w].left = @ \ {a}]
    /\ UNCHANGED <<roster, moves, tables, pass, week, done, txn, signal, review>>

EndAssets(w) ==
    /\ trader[w].pc = "insert" /\ trader[w].left = {}
    /\ trader' = [trader EXCEPT ![w].pc = "scan", ![w].cur = NoTrade]
    /\ UNCHANGED <<graphVars, week, done, txn, copies, signal, review>>

\* Mutant of DirectLeaguemates: the managers of every stored league.
AllManagers == {m[2] : m \in manager} \ {Markis}

\* Assess: leaguemates of flagged leagues without a snapshot this week, in no
\* particular order and up to the limit.
DirectLeaguemates == {m[2] : m \in {x \in manager : league[x[1]] = "markis"}} \ {Markis}

SelectLeaguemates ==
    LET missing == {u \in DirectLeaguemates : <<week, u>> \notin signal} IN
    /\ review.pc = "idle"
    /\ \E todo \in SUBSET missing :
          /\ Cardinality(todo) <= Batch
          /\ todo # missing => Cardinality(todo) = Batch
          /\ review' = [pc |-> "assess", week |-> week, todo |-> todo]
    /\ UNCHANGED <<graphVars, week, done, txn, copies, trader, signal>>

\* computeSignals, the dossier, snapshotSignal: any error leaves the user
\* without a row.  A failed dossier is stored as an empty one.
AssessUser(u) ==
    /\ u \in review.todo
    /\ \/ signal' = signal \cup {<<review.week, u>>} /\ UNCHANGED faults
       \/ UNCHANGED signal /\ Fail
    /\ review' = [review EXCEPT !.todo = @ \ {u}]
    /\ UNCHANGED <<roster, moves, tables, pass, week, done, txn, copies, trader>>

EndReview ==
    /\ review.pc = "assess" /\ review.todo = {}
    /\ review' = IdleReview
    /\ UNCHANGED <<graphVars, week, done, txn, copies, trader, signal>>

\* Sleeper completes a trade in the current week; the week ends.
Complete(t) ==
    /\ t \notin done /\ WeekOf[t] = week
    /\ done' = done \cup {t}
    /\ UNCHANGED <<graphVars, week, txn, copies, trader, signal, review>>

NewWeek ==
    /\ week < MaxWeek /\ week' = week + 1
    /\ UNCHANGED <<graphVars, done, txn, copies, trader, signal, review>>

\* The daemon dies: the tables stay, every execution is lost.
Crash ==
    /\ Fail
    /\ pass' = [w \in Syncers |-> IdlePass]
    /\ trader' = [w \in TradeSyncers |-> IdleTrader]
    /\ review' = IdleReview
    /\ UNCHANGED <<roster, moves, tables, week, done, txn, copies, signal>>

TradeStep(w) ==
    \/ StartTrades(w) \/ ReadLeagues(w) \/ EndTrades(w)
    \/ \E job \in trader[w].scan : ScanWeek(w, job)
    \/ \E t \in Trades : StoreTrade(w, t)
    \/ ClearAssets(w) \/ EndAssets(w)
    \/ \E a \in Assets : InsertAsset(w, a)

ReviewStep == SelectLeaguemates \/ EndReview \/ \E u \in Users : AssessUser(u)

Next ==
    \/ \E w \in Syncers : SyncStep(w) /\ UNCHANGED tradeVars
    \/ Move /\ UNCHANGED tradeVars
    \/ \E w \in TradeSyncers : TradeStep(w)
    \/ ReviewStep
    \/ \E t \in Trades : Complete(t)
    \/ NewWeek \/ Crash

\* The schedule of config.example.yaml starts each job again and again, and
\* every call has a timeout.  Sleeper owes nothing, and failures are not fair.
Fairness ==
    /\ \A w \in Syncers : WF_vars(SyncStep(w) /\ UNCHANGED tradeVars)
    /\ \A w \in TradeSyncers : WF_vars(TradeStep(w))
    /\ WF_vars(ReviewStep)

Spec == Init /\ [][Next]_vars /\ Fairness

-----------------------------------------------------------------------------
\* Type invariant of the composed jobs.
TypeOK ==
    /\ GraphTypeOK
    /\ week \in 1..MaxWeek /\ done \subseteq Trades
    /\ txn \in [Trades -> {NoTrade} \cup [markis : BOOLEAN, watch : BOOLEAN]]
    /\ \A t \in Trades : copies[t] \in [AssetsOf[t] -> Nat]
    /\ signal \subseteq (1..MaxWeek) \X Users
    /\ \A w \in TradeSyncers :
         /\ trader[w].watch \subseteq Players /\ trader[w].found \subseteq done
         /\ trader[w].cur # NoTrade => txn[trader[w].cur] # NoTrade
    /\ review.todo \subseteq Users \ {Markis}

\* Whatever fails or crashes between the delete and the inserts, no asset of a
\* trade has more rows than trade syncs overlap, so with one sync none is ever
\* stored twice (leaguemates_trades.go:164-167): nothing but the delete before
\* the inserts stands in for the missing unique constraint.
AssetsAreNotDoubled ==
    \A t \in Trades : \A a \in AssetsOf[t] : copies[t][a] <= Cardinality(TradeSyncers)

Whole(t) == \A a \in AssetsOf[t] : copies[t][a] = 1

\* Only managers of a flagged league are assessed ("Only Markis's ~50 direct
\* leaguemates are profiled", 005_leaguemates_tier3.sql:16-17).
OnlyLeaguematesAreAssessed ==
    \A s \in signal : \E l \in Leagues : <<l, s[2]>> \in manager /\ league[l] = "markis"

\* A completed trade of a stored league is stored whole in the end, also when
\* inserts failed or the daemon died half way, or it has left the scanned weeks.
TradesBecomeWhole ==
    \A t \in Trades :
        t \in done /\ league[LeagueOf[t]] # "absent" /\ LeagueOf[t] \notin Drafting
        ~> Whole(t) \/ WeekOf[t] \notin ScanWeeks

\* A player who stays on a roster of Markis's first league is stored there in
\* the end.  (A later one may be met through a leaguemate first,
\* stored as other and then skipped, leaguemates.go:62-80.)
FirstLeagueIsMirrored ==
    LET l == Head(UserLeagues[Markis]) IN
    \A u \in SeqRange(OwnersOf[l]), p \in Players :
        p \in roster[l][u] ~> <<l, u, p>> \in held \/ p \notin roster[l][u]
=============================================================================
