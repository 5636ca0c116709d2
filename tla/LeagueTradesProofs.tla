------------------------- MODULE LeagueTradesProofs -------------------------
(***************************************************************************)
(* Proofs about LeagueGraph.tla and LeagueTrades.tla for every league      *)
(* graph, every set of overlapping passes and every failure.  OneHopOnly,  *)
(* FlagsAreKept, OnlyLeaguematesAreAssessed and AssetsAreNotDoubled, which *)
(* allows one copy for each trade sync, need no further hypothesis;        *)
(* AssetsOnce, one copy in all, needs that trade syncs do not overlap.     *)
(***************************************************************************)
EXTENDS LeagueTrades, TLAPS, SequenceTheorems, FiniteSetTheorems

-----------------------------------------------------------------------------
(* The strengthened invariants.                                            *)

\* What a pass holds: it walks from one of Markis's leagues to its owners, and
\* from an owner other than Markis to his leagues; its rosters are fetched
\* before they are stored.
Walks(p) ==
    /\ SeqRange(p.mine) \subseteq MarkisLeagues
    /\ p.pc \in {"fetch", "store", "discover", "dfetch", "dstore"} => p.cur \in MarkisLeagues
    /\ p.pc \in {"store", "discover", "dfetch", "dstore"} =>
          /\ SeqRange(p.owners) \subseteq SeqRange(OwnersOf[p.cur])
          /\ p.got \in [Users -> SUBSET Players]
    /\ p.pc \in {"discover", "dfetch", "dstore"} =>
          /\ p.owners # <<>> /\ Head(p.owners) # Markis
          /\ SeqRange(p.others) \subseteq SeqRange(UserLeagues[Head(p.owners)])
    /\ p.pc \in {"dfetch", "dstore"} => p.other \in SeqRange(UserLeagues[Head(p.owners)])
    /\ p.pc = "dstore" => p.theirs \in [Users -> SUBSET Players]

\* Only leagues of Markis's carry the flag.
FlagsAreTrue == \A l \in Leagues : league[l] = "markis" => l \in MarkisLeagues

GraphInv ==
    /\ GraphTypeOK /\ OneHopOnly /\ FlagsAreTrue
    /\ \A w \in Syncers : Walks(pass[w])

Flags == {"absent", "other", "markis"}

\* The locals of a trade sync: it has a trade at hand, with its row stored,
\* from the insert of the row to that of the last asset.
TraderState ==
    [pc : {"idle", "leagues", "scan", "clear", "insert"}, watch : SUBSET Players,
     scan : SUBSET (Leagues \X Flags \X Nat), from : Flags, found : SUBSET Trades,
     cur : Trades \cup {NoTrade}, left : SUBSET Assets]

Holds(q, finished, rows) ==
    /\ q.found \subseteq finished
    /\ q.cur # NoTrade => rows[q.cur] # NoTrade
    /\ q.pc \in {"clear", "insert"} => q.cur # NoTrade
    /\ q.pc = "insert" => q.left \subseteq AssetsOf[q.cur]

TradersOK ==
    /\ trader \in [TradeSyncers -> TraderState]
    /\ \A w \in TradeSyncers : Holds(trader[w], done, txn)

TxnRow == [markis : BOOLEAN, watch : BOOLEAN]

TradesOK ==
    /\ week \in 1 .. MaxWeek /\ done \subseteq Trades
    /\ txn \in [Trades -> {NoTrade} \cup TxnRow]
    /\ copies = [t \in Trades |-> copies[t]]
    /\ \A t \in Trades : copies[t] \in [AssetsOf[t] -> Nat]

\* Whoever is assessed manages a flagged league beside Markis, and still does
\* when the assessment is stored.
ReviewState == [pc : {"idle", "assess"}, week : Nat, todo : SUBSET Users]

Direct(u) == \E l \in Leagues : <<l, u>> \in manager /\ league[l] = "markis"

ReviewOK ==
    /\ review \in ReviewState /\ Markis \notin review.todo
    /\ review.todo # {} => review.week \in 1 .. MaxWeek
    /\ \A u \in review.todo : Direct(u)
    /\ signal \subseteq (1 .. MaxWeek) \X Users
    /\ \A s \in signal : Direct(s[2])

Inv == GraphInv /\ TradesOK /\ TradersOK /\ ReviewOK

\* The trade syncs that will still insert asset a of trade t, and the bound on
\* its rows: those that are stored and those that are still to come.
Inserting(t, a) ==
    {w \in TradeSyncers : /\ trader[w].pc = "insert" /\ trader[w].cur = t
                          /\ a \in trader[w].left}

CopiesBounded ==
    \A t \in Trades : \A a \in AssetsOf[t] :
        copies[t][a] + Cardinality(Inserting(t, a)) <= Cardinality(TradeSyncers)

-----------------------------------------------------------------------------
(* Lists, and the statements the passes issue.                             *)

\* What Head and Tail leave of the values of a list.
LEMMA ListParts ==
  ASSUME NEW S, NEW s \in Seq(S)
  PROVE  /\ SeqRange(s) \subseteq S
         /\ s # <<>> => /\ Head(s) \in SeqRange(s) /\ Head(s) \in S
                        /\ Tail(s) \in Seq(S) /\ SeqRange(Tail(s)) \subseteq SeqRange(s)
<1>1. SeqRange(s) \subseteq S
  BY DEF SeqRange
<1>2. ASSUME s # <<>>
      PROVE  /\ Head(s) \in SeqRange(s) /\ Head(s) \in S
             /\ Tail(s) \in Seq(S) /\ SeqRange(Tail(s)) \subseteq SeqRange(s)
  <2>1. /\ Head(s) \in S /\ Tail(s) \in Seq(S) /\ Len(s) \in Nat /\ Len(s) > 0
        /\ DOMAIN s = 1 .. Len(s) /\ Head(s) = s[1]
        /\ DOMAIN Tail(s) = 1 .. Len(s) - 1
        /\ \A i \in 1 .. Len(s) - 1 : Tail(s)[i] = s[i + 1]
    BY <1>2
  <2>2. Head(s) \in SeqRange(s)
    BY <2>1 DEF SeqRange
  <2>3. SeqRange(Tail(s)) \subseteq SeqRange(s)
    BY <2>1 DEF SeqRange
  <2>4. QED
    BY <2>1, <2>2, <2>3
<1>3. QED
  BY <1>1, <1>2

\* The rows a step may take away: none.
TablesGrow ==
    /\ manager \subseteq manager'
    /\ \A l \in Leagues : league[l] = "markis" => league'[l] = "markis"
    /\ \A l \in Leagues : league[l] # "absent" => league'[l] # "absent"

\* A failure uses up one of those left.
LEMMA FailTypes ==
  ASSUME faults \in 0 .. MaxFaults, Fail \/ UNCHANGED faults
  PROVE  faults' \in 0 .. MaxFaults
BY GraphAssumption DEF Fail

\* The upsert of a league the walk may reach.
LEMMA UpsertLeagueKeeps ==
  ASSUME GraphInv, NEW l \in Leagues, NEW isMarkis \in BOOLEAN, UpsertLeague(l, isMarkis),
         isMarkis => l \in MarkisLeagues,
         l \in MarkisLeagues \/ \E u \in Leaguemates : l \in SeqRange(UserLeagues[u])
  PROVE  /\ league' \in [Leagues -> Flags] /\ faults' \in 0 .. MaxFaults
         /\ \A k \in Leagues : league[k] = "markis" => league'[k] = "markis"
         /\ \A k \in Leagues : league[k] # "absent" => league'[k] # "absent"
         /\ OneHopOnly' /\ FlagsAreTrue'
<1>1. league \in [Leagues -> Flags] /\ faults \in 0 .. MaxFaults
  BY DEF GraphInv, GraphTypeOK, Flags
<1>2. faults' \in 0 .. MaxFaults
  BY <1>1, FailTypes DEF UpsertLeague
<1>3. CASE league' = [league EXCEPT ![l] = Flagged(l, isMarkis)]
  <2>1. /\ Flagged(l, isMarkis) \in {"markis", "other"}
        /\ league[l] = "markis" => Flagged(l, isMarkis) = "markis"
        /\ Flagged(l, isMarkis) = "markis" => l \in MarkisLeagues
    BY DEF Flagged, GraphInv, FlagsAreTrue
  <2>2. \A k \in Leagues : league'[k] = IF k = l THEN Flagged(l, isMarkis) ELSE league[k]
    BY <1>1, <1>3
  <2>3. league' \in [Leagues -> Flags]
    BY <1>1, <1>3, <2>1 DEF Flags
  <2>4. OneHopOnly'
    BY <2>2 DEF GraphInv, OneHopOnly, MarkisLeagues, Leaguemates
  <2>5. FlagsAreTrue'
    BY <2>1, <2>2 DEF GraphInv, FlagsAreTrue, MarkisLeagues
  <2>6. QED
    BY <1>2, <2>1, <2>2, <2>3, <2>4, <2>5
<1>4. CASE UNCHANGED league
  BY <1>1, <1>2, <1>4 DEF GraphInv, OneHopOnly, FlagsAreTrue
<1>5. QED
  BY <1>3, <1>4 DEF UpsertLeague

\* The members of a league that are stored are users, and no user is lost.
LEMMA MeetUsersKeeps ==
  ASSUME GraphInv, NEW l \in Leagues, MeetUsers(l)
  PROVE  known' \subseteq Users /\ known \subseteq known' /\ faults' \in 0 .. MaxFaults
<1>1. SeqRange(OwnersOf[l]) \subseteq Users
  BY GraphAssumption, ListParts
<1>2. known \subseteq Users /\ faults \in 0 .. MaxFaults
  BY DEF GraphInv, GraphTypeOK
<1>3. QED
  BY <1>1, <1>2, FailTypes DEF MeetUsers

StoredLeagues == {l \in Leagues : league[l] # "absent"}

\* One roster is stored under the foreign keys, and no row is lost.
LEMMA StoreRosterKeeps ==
  ASSUME GraphInv, NEW l \in Leagues, NEW u \in Users, NEW got \in [Users -> SUBSET Players],
         StoreRoster(l, u, got)
  PROVE  /\ manager' \subseteq StoredLeagues \X known /\ manager \subseteq manager'
         /\ held' \subseteq StoredLeagues \X Users \X Players
         /\ faults' \in 0 .. MaxFaults
<1> DEFINE row == IF league[l] # "absent" /\ u \in known THEN {<<l, u>>} ELSE {}
           rows == IF league[l] # "absent" THEN {<<l, u, p>> : p \in got[u]} ELSE {}
<1>1. /\ manager \subseteq StoredLeagues \X known
      /\ held \subseteq StoredLeagues \X Users \X Players /\ faults \in 0 .. MaxFaults
  BY DEF GraphInv, GraphTypeOK, StoredLeagues
<1>2. row \subseteq StoredLeagues \X known
  BY DEF StoredLeagues
<1>3. rows \subseteq StoredLeagues \X Users \X Players
  BY DEF StoredLeagues
<1>4. /\ manager' = manager \/ manager' = manager \cup row
      /\ held' \subseteq held \cup rows
      /\ Fail \/ UNCHANGED faults
  BY DEF StoreRoster
<1>5. QED
  BY <1>1, <1>2, <1>3, <1>4, FailTypes

-----------------------------------------------------------------------------
(* The steps of a pass.                                                    *)

\* A pass that moves on to locals it may have.
LEMMA PassMoves ==
  ASSUME GraphInv, NEW w \in Syncers, NEW s \in PassState, Walks(s),
         pass' = [pass EXCEPT ![w] = s]
  PROVE  pass' \in [Syncers -> PassState] /\ \A v \in Syncers : Walks(pass'[v])
<1>1. pass \in [Syncers -> PassState] /\ \A v \in Syncers : Walks(pass[v])
  BY DEF GraphInv, GraphTypeOK
<1>2. \A v \in Syncers : pass'[v] = IF v = w THEN s ELSE pass[v]
  BY <1>1
<1>3. QED
  BY <1>1, <1>2

\* The tables of a step: typed, without a row lost, within one hop.
TablesOK ==
    /\ league' \in [Leagues -> Flags] /\ known' \subseteq Users /\ faults' \in 0 .. MaxFaults
    /\ manager' \subseteq StoredLeagues' \X known'
    /\ held' \subseteq StoredLeagues' \X Users \X Players
    /\ OneHopOnly' /\ FlagsAreTrue' /\ TablesGrow

PassOK == pass' \in [Syncers -> PassState] /\ \A v \in Syncers : Walks(pass'[v])

\* Tables a step leaves alone stay as they should be.
LEMMA TablesStay ==
  ASSUME GraphInv, UNCHANGED tables, faults' \in 0 .. MaxFaults
  PROVE  TablesOK
BY DEF GraphInv, GraphTypeOK, TablesOK, TablesGrow, StoredLeagues, OneHopOnly, FlagsAreTrue,
       tables, Flags

\* An upsert of a league keeps the rows that refer to leagues.
LEMMA TablesAfterUpsert ==
  ASSUME GraphInv, NEW l \in Leagues, NEW isMarkis \in BOOLEAN, UpsertLeague(l, isMarkis),
         isMarkis => l \in MarkisLeagues,
         l \in MarkisLeagues \/ \E u \in Leaguemates : l \in SeqRange(UserLeagues[u]),
         UNCHANGED <<known, manager, held>>
  PROVE  TablesOK
<1>1. /\ league' \in [Leagues -> Flags] /\ faults' \in 0 .. MaxFaults
      /\ \A k \in Leagues : league[k] = "markis" => league'[k] = "markis"
      /\ \A k \in Leagues : league[k] # "absent" => league'[k] # "absent"
      /\ OneHopOnly' /\ FlagsAreTrue'
  BY UpsertLeagueKeeps
<1>2. /\ manager \subseteq StoredLeagues \X known /\ known \subseteq Users
      /\ held \subseteq StoredLeagues \X Users \X Players
  BY DEF GraphInv, GraphTypeOK, StoredLeagues
<1>3. StoredLeagues \subseteq StoredLeagues'
  BY <1>1 DEF StoredLeagues
<1>4. QED
  BY <1>1, <1>2, <1>3 DEF TablesOK, TablesGrow

\* New users keep the rows that refer to users.
LEMMA TablesAfterMeeting ==
  ASSUME GraphInv, known' \subseteq Users, known \subseteq known', faults' \in 0 .. MaxFaults,
         UNCHANGED <<league, manager, held>>
  PROVE  TablesOK
<1>1. /\ manager \subseteq StoredLeagues \X known
      /\ held \subseteq StoredLeagues \X Users \X Players
      /\ league \in [Leagues -> Flags] /\ OneHopOnly /\ FlagsAreTrue
  BY DEF GraphInv, GraphTypeOK, StoredLeagues, Flags
<1>2. OneHopOnly' /\ FlagsAreTrue' /\ StoredLeagues' = StoredLeagues
  BY <1>1 DEF OneHopOnly, FlagsAreTrue, StoredLeagues
<1>3. QED
  BY <1>1, <1>2 DEF TablesOK, TablesGrow

\* A stored roster adds rows under the foreign keys.
LEMMA TablesAfterRoster ==
  ASSUME GraphInv, NEW l \in Leagues, NEW u \in Users, NEW got \in [Users -> SUBSET Players],
         StoreRoster(l, u, got), UNCHANGED <<league, known>>
  PROVE  TablesOK
<1>1. /\ league \in [Leagues -> Flags] /\ OneHopOnly /\ FlagsAreTrue /\ known \subseteq Users
  BY DEF GraphInv, GraphTypeOK, Flags
<1>2. OneHopOnly' /\ FlagsAreTrue' /\ StoredLeagues' = StoredLeagues
  BY <1>1 DEF OneHopOnly, FlagsAreTrue, StoredLeagues
<1>3. QED
  BY <1>1, <1>2, StoreRosterKeeps DEF TablesOK, TablesGrow

\* What an invariant says of one pass.
LEMMA PassFacts ==
  ASSUME GraphInv, NEW w \in Syncers
  PROVE  /\ pass[w] \in PassState /\ Walks(pass[w]) /\ pass \in [Syncers -> PassState]
         /\ faults \in 0 .. MaxFaults /\ roster \in [Leagues -> [Users -> SUBSET Players]]
BY DEF GraphInv, GraphTypeOK

\* A pass starts or ends.
LEMMA IdlePassOK ==
  /\ IdlePass \in PassState /\ Walks(IdlePass)
  /\ [IdlePass EXCEPT !.pc = "next", !.mine = UserLeagues[Markis]] \in PassState
  /\ Walks([IdlePass EXCEPT !.pc = "next", !.mine = UserLeagues[Markis]])
<1>1. IdlePass \in PassState /\ IdlePass.pc = "idle" /\ IdlePass.mine = <<>>
  BY GraphAssumption DEF IdlePass, PassState
<1>2. SeqRange(<<>>) = {}
  BY DEF SeqRange
<1>3. Walks(IdlePass)
  BY <1>1, <1>2 DEF Walks
<1> DEFINE s == [IdlePass EXCEPT !.pc = "next", !.mine = UserLeagues[Markis]]
<1>4. UserLeagues[Markis] \in Seq(Leagues)
  BY GraphAssumption
<1>5. s \in PassState /\ s.pc = "next" /\ s.mine = UserLeagues[Markis]
  BY <1>1, <1>4 DEF PassState
<1>6. Walks(s)
  BY <1>5 DEF Walks, MarkisLeagues
<1>7. QED
  BY <1>1, <1>3, <1>5, <1>6

\* A pass starts or ends: no table changes.
LEMMA StartEndOK ==
  ASSUME GraphInv, NEW w \in Syncers, StartSync(w) \/ EndSync(w)
  PROVE  PassOK /\ TablesOK
<1>1. TablesOK
  BY PassFacts, TablesStay DEF StartSync, EndSync
<1>2. PassOK
  BY IdlePassOK, PassMoves DEF StartSync, EndSync, PassOK
<1>3. QED
  BY <1>1, <1>2

\* A pass takes up the next of Markis's leagues, or skips it.
LEMMA NextLeagueOK ==
  ASSUME GraphInv, NEW w \in Syncers, NextLeague(w)
  PROVE  PassOK /\ TablesOK
<1> DEFINE p == pass[w]
           l == Head(p.mine)
           rest == Tail(p.mine)
           n == p.counted + 1
           seen == p.seen \cup {l}
           skipped == [p EXCEPT !.mine = rest]
           taken == [p EXCEPT !.pc = "fetch", !.mine = rest, !.cur = l,
                        !.counted = n, !.seen = seen, !.added = 0]
<1>1. p \in PassState /\ Walks(p) /\ p.pc = "next" /\ faults \in 0 .. MaxFaults
  BY PassFacts DEF NextLeague
<1>2. /\ l \in Leagues /\ rest \in Seq(Leagues) /\ l \in MarkisLeagues
      /\ SeqRange(rest) \subseteq MarkisLeagues
  <2>1. p.mine \in Seq(Leagues) /\ p.mine # <<>> /\ SeqRange(p.mine) \subseteq MarkisLeagues
    BY <1>1 DEF PassState, Walks, NextLeague
  <2> HIDE DEF p
  <2>2. QED
    BY <2>1, ListParts
<1>3. n \in Nat /\ seen \in SUBSET Leagues
  BY <1>1, <1>2 DEF PassState
<1>4. \/ pass' = [pass EXCEPT ![w] = skipped] /\ UNCHANGED <<league, faults>>
      \/ pass' = [pass EXCEPT ![w] = taken] /\ UpsertLeague(l, TRUE)
  BY Zenon DEF NextLeague
<1>5. UNCHANGED <<known, manager, held>>
  BY DEF NextLeague
<1> HIDE DEF p, l, rest, n, seen
<1>6. skipped \in PassState /\ Walks(skipped) /\ taken \in PassState /\ Walks(taken)
  BY <1>1, <1>2, <1>3 DEF PassState, Walks
<1> HIDE DEF skipped, taken
<1>7. PassOK
  BY <1>4, <1>6, PassMoves DEF PassOK
<1>8. TablesOK
  BY <1>1, <1>2, <1>4, <1>5, TablesStay, TablesAfterUpsert DEF tables
<1>9. QED
  BY <1>7, <1>8

\* A pass fetches a Markis league's rosters, or goes on without them.
LEMMA FetchRostersOK ==
  ASSUME GraphInv, NEW w \in Syncers, FetchRosters(w)
  PROVE  PassOK /\ TablesOK
<1> DEFINE p == pass[w]
           l == p.cur
           fetched == [p EXCEPT !.pc = "store", !.owners = OwnersOf[l], !.got = roster[l]]
           skipped == [p EXCEPT !.pc = "next"]
<1>1. p \in PassState /\ Walks(p) /\ p.pc = "fetch" /\ faults \in 0 .. MaxFaults
  BY PassFacts DEF FetchRosters
<1>2. l \in MarkisLeagues /\ l \in Leagues
  <2>1. UserLeagues[Markis] \in Seq(Leagues)
    BY GraphAssumption
  <2>2. QED
    BY <1>1, <2>1, ListParts DEF Walks, MarkisLeagues
<1>3. OwnersOf[l] \in Seq(Users) /\ roster[l] \in [Users -> SUBSET Players]
  BY <1>2, GraphAssumption, PassFacts
<1>4. \/ pass' = [pass EXCEPT ![w] = fetched] /\ MeetUsers(l)
      \/ pass' = [pass EXCEPT ![w] = skipped] /\ Fail /\ UNCHANGED known
  BY DEF FetchRosters
<1>5. UNCHANGED <<league, manager, held>>
  BY DEF FetchRosters
<1> HIDE DEF l, p
<1>6. fetched \in PassState /\ skipped \in PassState
  BY <1>1, <1>3 DEF PassState
<1>7. Walks(fetched) /\ Walks(skipped)
  BY <1>1, <1>2, <1>3 DEF PassState, Walks, l
<1> HIDE DEF fetched, skipped
<1>8. PassOK
  BY <1>4, <1>6, <1>7, PassMoves DEF PassOK
<1>9. TablesOK
  <2>1. CASE MeetUsers(l)
    BY <1>2, <1>5, <2>1, MeetUsersKeeps, TablesAfterMeeting
  <2>2. CASE Fail /\ UNCHANGED known
    BY <1>1, <1>5, <2>2, FailTypes, TablesStay DEF tables
  <2>3. QED
    BY <1>4, <2>1, <2>2
<1>10. QED
  BY <1>8, <1>9

\* The owners and the league a walk is at.
LEMMA WalkParts ==
  ASSUME NEW p \in PassState, Walks(p), p.pc \in {"store", "discover", "dfetch", "dstore"}
  PROVE  /\ p.cur \in MarkisLeagues /\ p.cur \in Leagues /\ p.got \in [Users -> SUBSET Players]
         /\ p.owners # <<>> => /\ Head(p.owners) \in Users /\ Tail(p.owners) \in Seq(Users)
                               /\ SeqRange(Tail(p.owners)) \subseteq SeqRange(OwnersOf[p.cur])
                               /\ Head(p.owners) # Markis => Head(p.owners) \in Leaguemates
<1>1. UserLeagues[Markis] \in Seq(Leagues)
  BY GraphAssumption
<1>2. /\ p.cur \in MarkisLeagues /\ p.got \in [Users -> SUBSET Players]
      /\ SeqRange(p.owners) \subseteq SeqRange(OwnersOf[p.cur]) /\ p.owners \in Seq(Users)
  BY DEF Walks, PassState
<1>3. p.cur \in Leagues
  BY <1>1, <1>2, ListParts DEF MarkisLeagues
<1>4. ASSUME p.owners # <<>>
      PROVE  /\ Head(p.owners) \in Users /\ Tail(p.owners) \in Seq(Users)
             /\ SeqRange(Tail(p.owners)) \subseteq SeqRange(OwnersOf[p.cur])
             /\ Head(p.owners) \in SeqRange(OwnersOf[p.cur])
  BY <1>2, <1>4, ListParts
<1>5. SeqRange(OwnersOf[p.cur]) \subseteq UNION {SeqRange(OwnersOf[l]) : l \in MarkisLeagues}
  BY <1>2
<1>6. SeqRange(OwnersOf[p.cur]) \ {Markis} \subseteq Leaguemates
  BY <1>5 DEF Leaguemates
<1>7. QED
  BY <1>2, <1>3, <1>4, <1>6

\* A pass stores one roster of a Markis league.
LEMMA StoreMineOK ==
  ASSUME GraphInv, NEW w \in Syncers, StoreMine(w)
  PROVE  PassOK /\ TablesOK
<1> DEFINE p == pass[w]
           u == Head(p.owners)
           rest == Tail(p.owners)
           own == [p EXCEPT !.owners = rest]
           mate == [p EXCEPT !.pc = "discover", !.others = UserLeagues[u], !.fresh = 0]
<1>1. p \in PassState /\ Walks(p) /\ p.pc = "store" /\ p.owners # <<>>
  BY PassFacts DEF StoreMine
<1>2. /\ u \in Users /\ rest \in Seq(Users)
      /\ SeqRange(rest) \subseteq SeqRange(OwnersOf[p.cur])
      /\ p.cur \in Leagues /\ p.got \in [Users -> SUBSET Players]
  BY <1>1, WalkParts
<1>3. UserLeagues[u] \in Seq(Leagues) /\ PerManager \in Nat
  BY <1>2, GraphAssumption
<1>4. \/ pass' = [pass EXCEPT ![w] = own]
      \/ u # Markis /\ pass' = [pass EXCEPT ![w] = mate]
  BY Zenon DEF StoreMine
<1>5. StoreRoster(p.cur, u, p.got) /\ UNCHANGED <<league, known>>
  BY DEF StoreMine
<1> HIDE DEF p, rest
<1>6. own \in PassState /\ Walks(own)
  BY <1>1, <1>2 DEF PassState, Walks
<1>7. mate \in PassState
  <2> DEFINE leagues == UserLeagues[u]
  <2>1. leagues \in Seq(Leagues) /\ 0 \in 0 .. PerManager
    BY <1>3
  <2> HIDE DEF leagues
  <2>2. [p EXCEPT !.pc = "discover", !.others = leagues, !.fresh = 0] \in PassState
    BY <1>1, <2>1 DEF PassState
  <2>3. QED
    BY <2>2 DEF leagues
<1>8. u # Markis => Walks(mate)
  <2>1. /\ mate.pc = "discover" /\ mate.mine = p.mine /\ mate.cur = p.cur
        /\ mate.owners = p.owners /\ mate.got = p.got /\ mate.others = UserLeagues[u]
    BY <1>1 DEF PassState
  <2> HIDE DEF mate
  <2>2. QED
    BY <1>1, <2>1 DEF Walks
<1> HIDE DEF own, mate
<1>9. PassOK
  BY <1>4, <1>6, <1>7, <1>8, PassMoves DEF PassOK
<1>10. TablesOK
  BY <1>2, <1>5, TablesAfterRoster
<1>11. QED
  BY <1>9, <1>10

\* A pass is done with a Markis league: what it discovered is counted.
LEMMA EndMineOK ==
  ASSUME GraphInv, NEW w \in Syncers, EndMine(w)
  PROVE  PassOK /\ TablesOK
<1> DEFINE p == pass[w]
           n == p.counted + p.added
           s == [p EXCEPT !.pc = "next", !.counted = n]
<1>1. p \in PassState /\ Walks(p)
  BY PassFacts
<1>2. n \in Nat
  BY <1>1 DEF PassState
<1>3. pass' = [pass EXCEPT ![w] = s]
  BY DEF EndMine
<1> HIDE DEF p, n
<1>4. s \in PassState /\ Walks(s)
  BY <1>1, <1>2 DEF PassState, Walks
<1>5. TablesOK
  BY PassFacts, TablesStay DEF EndMine
<1>6. QED
  BY <1>3, <1>4, <1>5, PassMoves DEF PassOK

\* A pass takes up a leaguemate's next league, or skips it.
LEMMA DiscoverOK ==
  ASSUME GraphInv, NEW w \in Syncers, Discover(w)
  PROVE  PassOK /\ TablesOK
<1> DEFINE p == pass[w]
           u == Head(p.owners)
           l == Head(p.others)
           rest == Tail(p.others)
           n == p.fresh + 1
           seen == p.seen \cup {l}
           skipped == [p EXCEPT !.others = rest]
           taken == [p EXCEPT !.pc = "dfetch", !.others = rest, !.other = l,
                        !.fresh = n, !.seen = seen]
<1>1. p \in PassState /\ Walks(p) /\ p.pc = "discover" /\ faults \in 0 .. MaxFaults
  BY PassFacts DEF Discover
<1>2. /\ l \in Leagues /\ rest \in Seq(Leagues) /\ l \in SeqRange(UserLeagues[u])
      /\ SeqRange(rest) \subseteq SeqRange(UserLeagues[u])
  <2>1. p.others \in Seq(Leagues) /\ p.others # <<>> /\ SeqRange(p.others) \subseteq SeqRange(UserLeagues[u])
    BY <1>1 DEF PassState, Walks, Discover
  <2> HIDE DEF p, u
  <2>2. QED
    BY <2>1, ListParts
<1>3. u \in Leaguemates
  BY <1>1, WalkParts DEF Walks
<1>4. seen \in SUBSET Leagues
  BY <1>1, <1>2 DEF PassState
<1>5. \/ pass' = [pass EXCEPT ![w] = skipped] /\ UNCHANGED <<league, faults>>
      \/ /\ pass' = [pass EXCEPT ![w] = taken] /\ UpsertLeague(l, FALSE)
         /\ p.fresh < PerManager
  <2>1. CASE l \in p.seen \/ p.fresh >= PerManager
    BY <2>1, Zenon DEF Discover
  <2>2. CASE ~(l \in p.seen \/ p.fresh >= PerManager)
    <3>1. pass' = [pass EXCEPT ![w] = taken] /\ UpsertLeague(l, FALSE)
      BY <2>2, Zenon DEF Discover
    <3>2. p.fresh < PerManager
      BY <1>1, <2>2, GraphAssumption DEF PassState
    <3>3. QED
      BY <3>1, <3>2
  <2>3. QED
    BY <2>1, <2>2
<1>6. UNCHANGED <<known, manager, held>>
  BY DEF Discover
<1>7. p.fresh < PerManager => n \in 0 .. PerManager
  <2>1. PerManager \in Nat /\ p.fresh \in 0 .. PerManager
    BY <1>1, GraphAssumption DEF PassState
  <2>2. QED
    BY <2>1
<1> HIDE DEF l, rest, n, seen
<1>8. /\ skipped \in PassState /\ Walks(skipped)
      /\ p.fresh < PerManager => taken \in PassState /\ Walks(taken)
  <2> HIDE DEF p
  <2>1. skipped \in PassState /\ Walks(skipped)
    BY <1>1, <1>2 DEF PassState, Walks
  <2>2. ASSUME n \in 0 .. PerManager
        PROVE  taken \in PassState /\ Walks(taken)
    <3>1. taken \in PassState
      BY <1>1, <1>2, <1>4, <2>2 DEF PassState
    <3>2. /\ taken.pc = "dfetch" /\ taken.mine = p.mine /\ taken.cur = p.cur
          /\ taken.owners = p.owners /\ taken.got = p.got /\ taken.others = rest
          /\ taken.other = l
      BY <1>1, <1>2, <1>4, <2>2 DEF PassState
    <3> HIDE DEF taken
    <3>3. QED
      BY <1>1, <1>2, <3>1, <3>2 DEF Walks
  <2>3. QED
    BY <1>7, <2>1, <2>2
<1> HIDE DEF skipped, taken, p
<1>9. PassOK
  BY <1>5, <1>8, PassMoves DEF PassOK
<1>10. TablesOK
  <2>1. CASE UNCHANGED <<league, faults>>
    BY <1>1, <1>6, <2>1, TablesStay DEF tables
  <2>2. CASE UpsertLeague(l, FALSE)
    BY <1>2, <1>3, <1>6, <2>2, TablesAfterUpsert
  <2>3. QED
    BY <1>5, <2>1, <2>2
<1>11. QED
  BY <1>9, <1>10

\* A leaguemate's leagues are done; the manager is counted off.
LEMMA EndDiscoverOK ==
  ASSUME GraphInv, NEW w \in Syncers, EndDiscover(w)
  PROVE  PassOK /\ TablesOK
<1> DEFINE p == pass[w]
           n == p.added + Cardinality(p.seen)
           rest == Tail(p.owners)
           none == <<>>
           s == [p EXCEPT !.pc = "store", !.owners = rest, !.others = none, !.added = n]
<1>1. p \in PassState /\ Walks(p) /\ p.pc = "discover" /\ p.owners # <<>>
  BY PassFacts DEF EndDiscover, Walks
<1>2. n \in Nat
  <2>1. p.seen \subseteq Leagues /\ p.added \in Nat
    BY <1>1 DEF PassState
  <2>2. Cardinality(p.seen) \in Nat
    BY <2>1, GraphAssumption, FS_Subset, FS_CardinalityType
  <2>3. QED
    BY <2>1, <2>2
<1>3. /\ rest \in Seq(Users) /\ SeqRange(rest) \subseteq SeqRange(OwnersOf[p.cur])
      /\ p.got \in [Users -> SUBSET Players]
  BY <1>1, WalkParts
<1>4. pass' = [pass EXCEPT ![w] = s]
  BY DEF EndDiscover, Discovered
<1> none \in Seq(Leagues)
  OBVIOUS
<1> HIDE DEF p, n, rest, none
<1>5. s \in PassState
  BY <1>1, <1>2, <1>3 DEF PassState
<1>6. /\ s.pc = "store" /\ s.mine = p.mine /\ s.cur = p.cur /\ s.owners = rest /\ s.got = p.got
  BY <1>1, <1>2, <1>3 DEF PassState
<1> HIDE DEF s
<1>7. Walks(s)
  BY <1>1, <1>3, <1>6 DEF Walks
<1>8. faults' \in 0 .. MaxFaults
  BY PassFacts, FailTypes DEF EndDiscover
<1>9. TablesOK
  BY <1>8, TablesStay DEF EndDiscover
<1>10. QED
  BY <1>4, <1>5, <1>7, <1>9, PassMoves DEF PassOK

\* What a pass in a discovered league holds.
LEMMA OtherParts ==
  ASSUME NEW p \in PassState, Walks(p), p.pc \in {"dfetch", "dstore"}
  PROVE  p.other \in Leagues
<1>1. /\ p.other \in SeqRange(UserLeagues[Head(p.owners)]) /\ p.owners # <<>>
      /\ p.owners \in Seq(Users)
  BY DEF Walks, PassState
<1>2. UserLeagues[Head(p.owners)] \in Seq(Leagues)
  BY <1>1, ListParts, GraphAssumption
<1>3. QED
  BY <1>1, <1>2, ListParts

\* A pass fetches a discovered league's rosters, or goes on without them.
LEMMA FetchOtherOK ==
  ASSUME GraphInv, NEW w \in Syncers, FetchOther(w)
  PROVE  PassOK /\ TablesOK
<1> DEFINE p == pass[w]
           l == p.other
           owners == OwnersOf[l]
           rosters == roster[l]
           fetched == [p EXCEPT !.pc = "dstore", !.rivals = owners, !.theirs = rosters]
           skipped == [p EXCEPT !.pc = "discover"]
<1>1. p \in PassState /\ Walks(p) /\ p.pc = "dfetch" /\ faults \in 0 .. MaxFaults
  BY PassFacts DEF FetchOther
<1>2. l \in Leagues
  BY <1>1, OtherParts
<1>3. owners \in Seq(Users) /\ rosters \in [Users -> SUBSET Players]
  BY <1>2, GraphAssumption, PassFacts
<1>4. \/ pass' = [pass EXCEPT ![w] = fetched] /\ MeetUsers(l)
      \/ pass' = [pass EXCEPT ![w] = skipped] /\ Fail /\ UNCHANGED known
  BY DEF FetchOther
<1>5. UNCHANGED <<league, manager, held>>
  BY DEF FetchOther
<1> HIDE DEF p, owners, rosters
<1>6. /\ fetched \in PassState /\ fetched.pc = "dstore" /\ fetched.mine = p.mine
      /\ fetched.cur = p.cur /\ fetched.owners = p.owners /\ fetched.got = p.got
      /\ fetched.others = p.others /\ fetched.other = p.other /\ fetched.theirs = rosters
  BY <1>1, <1>3 DEF PassState
<1>7. /\ skipped \in PassState /\ skipped.pc = "discover" /\ skipped.mine = p.mine
      /\ skipped.cur = p.cur /\ skipped.owners = p.owners /\ skipped.got = p.got
      /\ skipped.others = p.others /\ skipped.other = p.other
  BY <1>1 DEF PassState
<1> HIDE DEF fetched, skipped
<1>8. Walks(fetched) /\ Walks(skipped)
  BY <1>1, <1>3, <1>6, <1>7 DEF Walks
<1>9. PassOK
  BY <1>4, <1>6, <1>7, <1>8, PassMoves DEF PassOK
<1> HIDE DEF l
<1>10. TablesOK
  <2>1. CASE MeetUsers(l)
    BY <1>2, <1>5, <2>1, MeetUsersKeeps, TablesAfterMeeting
  <2>2. CASE Fail /\ UNCHANGED known
    BY <1>1, <1>5, <2>2, FailTypes, TablesStay DEF tables
  <2>3. QED
    BY <1>4, <2>1, <2>2
<1>11. QED
  BY <1>9, <1>10

\* A pass stores one roster of a discovered league, or is done with it.
LEMMA StoreOtherOK ==
  ASSUME GraphInv, NEW w \in Syncers, StoreOther(w) \/ EndOther(w)
  PROVE  PassOK /\ TablesOK
<1> DEFINE p == pass[w]
           u == Head(p.rivals)
           rest == Tail(p.rivals)
           stored == [p EXCEPT !.rivals = rest]
           done1 == [p EXCEPT !.pc = "discover"]
<1>1. p \in PassState /\ Walks(p) /\ p.pc = "dstore"
  BY PassFacts DEF StoreOther, EndOther
<1>2. p.other \in Leagues /\ p.theirs \in [Users -> SUBSET Players]
  BY <1>1, OtherParts DEF Walks
<1>3. p.rivals # <<>> => u \in Users /\ rest \in Seq(Users)
  <2>1. p.rivals \in Seq(Users)
    BY <1>1 DEF PassState
  <2>2. QED
    BY <2>1, ListParts
<1>4. \/ pass' = [pass EXCEPT ![w] = stored] /\ p.rivals # <<>>
      \/ pass' = [pass EXCEPT ![w] = done1]
  BY DEF StoreOther, EndOther
<1>5. TablesOK
  <2>1. CASE StoreOther(w)
    BY <1>2, <1>3, <2>1, TablesAfterRoster DEF StoreOther
  <2>2. CASE EndOther(w)
    BY <2>2, PassFacts, TablesStay DEF EndOther
  <2>3. QED
    BY <2>1, <2>2
<1> HIDE DEF p, u, rest
<1>6. p.rivals # <<>> => stored \in PassState /\ Walks(stored)
  BY <1>1, <1>3 DEF PassState, Walks
<1>7. done1 \in PassState /\ Walks(done1)
  BY <1>1 DEF PassState, Walks
<1> HIDE DEF stored, done1
<1>8. PassOK
  BY <1>4, <1>6, <1>7, PassMoves DEF PassOK
<1>9. QED
  BY <1>5, <1>8

\* What any step of a pass does.
LEMMA SyncStepOK ==
  ASSUME GraphInv, NEW w \in Syncers, SyncStep(w)
  PROVE  PassOK /\ TablesOK /\ UNCHANGED <<roster, moves>>
<1>1. PassOK /\ TablesOK
  BY StartEndOK, NextLeagueOK, FetchRostersOK, StoreMineOK, EndMineOK, DiscoverOK,
     EndDiscoverOK, FetchOtherOK, StoreOtherOK DEF SyncStep
<1>2. UNCHANGED <<roster, moves>>
  BY DEF SyncStep, StartSync, NextLeague, EndSync, FetchRosters, StoreMine, EndMine,
         Discover, EndDiscover, FetchOther, StoreOther, EndOther
<1>3. QED
  BY <1>1, <1>2

\* A typed step of the tables and the passes keeps the graph's invariant.
LEMMA GraphInvNext ==
  ASSUME PassOK, TablesOK, roster' \in [Leagues -> [Users -> SUBSET Players]],
         moves' \in 0 .. MaxMoves
  PROVE  GraphInv'
BY DEF PassOK, TablesOK, GraphInv, GraphTypeOK, Flags, StoredLeagues

-----------------------------------------------------------------------------
(* The steps of the trade sync.                                            *)

\* Completed trades and stored rows stay; then a sync may move on.
TradesStay == done \subseteq done' /\ \A t \in Trades : txn[t] # NoTrade => txn'[t] # NoTrade

\* One trade sync moves to a good state and the others stay where they were.
LEMMA TraderMoves ==
  ASSUME TradersOK, TradesStay, NEW w \in TradeSyncers, NEW s \in TraderState,
         Holds(s, done', txn'), trader' = [trader EXCEPT ![w] = s]
  PROVE  /\ TradersOK'
         /\ \A v \in TradeSyncers : trader'[v] = IF v = w THEN s ELSE trader[v]
<1>1. trader \in [TradeSyncers -> TraderState]
  BY DEF TradersOK
<1>2. \A v \in TradeSyncers : trader'[v] = IF v = w THEN s ELSE trader[v]
  BY <1>1
<1>3. \A v \in TradeSyncers : Holds(trader[v], done', txn')
  BY DEF TradersOK, TradesStay, Holds, TraderState
<1>4. QED
  BY <1>1, <1>2, <1>3 DEF TradersOK

\* Syncs that do not move keep what they hold.
LEMMA TradersWait ==
  ASSUME TradersOK, TradesStay, UNCHANGED trader
  PROVE  TradersOK'
BY DEF TradersOK, TradesStay, Holds, TraderState

\* What the invariant says of one trade sync.
LEMMA TraderFacts ==
  ASSUME Inv, NEW w \in TradeSyncers
  PROVE  /\ trader[w] \in TraderState /\ Holds(trader[w], done, txn)
         /\ faults \in 0 .. MaxFaults /\ league \in [Leagues -> Flags]
         /\ TradersOK /\ TradesOK
BY DEF Inv, TradersOK, GraphInv, GraphTypeOK, Flags

\* An idle sync.
LEMMA IdleTraderOK ==
  /\ IdleTrader \in TraderState /\ IdleTrader.pc = "idle"
  /\ \A finished, rows : Holds(IdleTrader, finished, rows)
BY DEF IdleTrader, TraderState, Holds, Flags

\* The players watched and the weeks scanned are typed.
LEMMA PlanTypes ==
  ASSUME Inv
  PROVE  /\ WatchSet \subseteq Players
         /\ \A weeks \in SUBSET Nat : Planned(weeks) \subseteq Leagues \X Flags \X Nat
         /\ ScanWeeks \subseteq Nat /\ 1 .. MaxWeeks \subseteq Nat
<1>1. held \subseteq StoredLeagues \X Users \X Players /\ league \in [Leagues -> Flags]
  BY DEF Inv, GraphInv, GraphTypeOK, StoredLeagues, Flags
<1>2. WatchSet \subseteq Players
  BY <1>1 DEF WatchSet
<1>3. \A weeks \in SUBSET Nat : Planned(weeks) \subseteq Leagues \X Flags \X Nat
  BY <1>1 DEF Planned
<1>4. QED
  BY <1>2, <1>3 DEF ScanWeeks

\* The steps of a trade sync that write no table.
LEMMA ReadStepOK ==
  ASSUME Inv, NEW w \in TradeSyncers,
         \/ StartTrades(w) \/ ReadLeagues(w) \/ EndTrades(w) \/ EndAssets(w)
         \/ \E job \in trader[w].scan : ScanWeek(w, job)
  PROVE  TradersOK' /\ UNCHANGED <<done, txn, copies>> /\ trader'[w].pc # "insert"
         /\ \A v \in TradeSyncers : v # w => trader'[v] = trader[v]
<1> DEFINE q == trader[w]
<1>1. /\ q \in TraderState /\ Holds(q, done, txn) /\ TradersOK
  BY TraderFacts
<1>2. UNCHANGED <<done, txn, copies>>
  BY DEF StartTrades, ReadLeagues, EndTrades, EndAssets, ScanWeek
<1>3. TradesStay
  BY <1>2 DEF TradesStay
<1> DEFINE Good(s) == s \in TraderState /\ Holds(s, done, txn) /\ s.pc # "insert"
<1>4. ASSUME NEW s, Good(s), trader' = [trader EXCEPT ![w] = s]
      PROVE  /\ TradersOK' /\ trader'[w].pc # "insert"
             /\ \A v \in TradeSyncers : v # w => trader'[v] = trader[v]
  <2>1. Holds(s, done', txn')
    BY <1>2, <1>4 DEF Holds
  <2>2. s \in TraderState /\ s.pc # "insert"
    BY <1>4
  <2> HIDE DEF Good, q
  <2>3. TradersOK' /\ \A v \in TradeSyncers : trader'[v] = IF v = w THEN s ELSE trader[v]
    BY <1>1, <1>3, <1>4, <2>1, <2>2, TraderMoves
  <2>4. QED
    BY <2>2, <2>3
<1>5. CASE StartTrades(w)
  <2> DEFINE watched == [q EXCEPT !.pc = "leagues", !.watch = WatchSet]
             blind == [q EXCEPT !.pc = "leagues"]
  <2>1. trader' = [trader EXCEPT ![w] = watched] \/ trader' = [trader EXCEPT ![w] = blind]
    BY <1>5 DEF StartTrades
  <2> HIDE DEF q
  <2>2. Good(watched) /\ Good(blind)
    BY <1>1, PlanTypes DEF TraderState, Holds
  <2> HIDE DEF watched, blind, Good
  <2>3. QED
    BY <1>2, <1>4, <2>1, <2>2
<1>6. CASE ReadLeagues(w)
  <2> DEFINE now == [q EXCEPT !.pc = "scan", !.scan = Planned(ScanWeeks)]
             first == [q EXCEPT !.pc = "scan", !.scan = Planned(1 .. MaxWeeks)]
  <2>1. \/ trader' = [trader EXCEPT ![w] = now]
        \/ trader' = [trader EXCEPT ![w] = first]
        \/ trader' = [trader EXCEPT ![w] = IdleTrader]
    BY <1>6 DEF ReadLeagues
  <2>2. Planned(ScanWeeks) \subseteq Leagues \X Flags \X Nat
    BY PlanTypes
  <2>3. Planned(1 .. MaxWeeks) \subseteq Leagues \X Flags \X Nat
    BY PlanTypes
  <2> HIDE DEF q
  <2>4. Good(now) /\ Good(first)
    BY <1>1, <2>2, <2>3 DEF TraderState, Holds
  <2>5. Good(IdleTrader)
    BY IdleTraderOK
  <2> HIDE DEF now, first, Good
  <2>6. QED
    BY <1>2, <1>4, <2>1, <2>4, <2>5
<1>7. CASE EndTrades(w)
  BY <1>2, <1>4, <1>7, IdleTraderOK DEF EndTrades
<1>8. CASE EndAssets(w)
  <2> DEFINE s == [q EXCEPT !.pc = "scan", !.cur = NoTrade]
  <2>1. trader' = [trader EXCEPT ![w] = s]
    BY <1>8 DEF EndAssets
  <2> HIDE DEF q
  <2>2. Good(s)
    BY <1>1 DEF TraderState, Holds
  <2> HIDE DEF s, Good
  <2>3. QED
    BY <1>2, <1>4, <2>1, <2>2
<1>9. ASSUME NEW job \in q.scan, ScanWeek(w, job)
      PROVE  /\ TradersOK' /\ trader'[w].pc # "insert"
             /\ \A v \in TradeSyncers : v # w => trader'[v] = trader[v]
  <2> DEFINE rest == q.scan \ {job}
             from == job[2]
             found == {t \in done : LeagueOf[t] = job[1] /\ WeekOf[t] = job[3]}
             read == [q EXCEPT !.scan = rest, !.from = from, !.found = found]
             lost == [q EXCEPT !.scan = rest]
  <2>1. trader' = [trader EXCEPT ![w] = read] \/ trader' = [trader EXCEPT ![w] = lost]
    BY <1>9 DEF ScanWeek
  <2>2. q.pc = "scan"
    BY <1>9 DEF ScanWeek
  <2>3. /\ rest \in SUBSET (Leagues \X Flags \X Nat) /\ from \in Flags
        /\ found \in SUBSET Trades /\ found \subseteq done
    BY <1>1, TraderFacts DEF TraderState, TradesOK
  <2> HIDE DEF q, rest, from, found
  <2>4. Good(read) /\ Good(lost)
    BY <1>1, <2>2, <2>3 DEF TraderState, Holds
  <2> HIDE DEF read, lost, Good
  <2>5. QED
    BY <1>4, <2>1, <2>4
<1>10. QED
  BY <1>2, <1>5, <1>6, <1>7, <1>8, <1>9

\* Tables, rosters and passes a trade sync leaves alone.
LEMMA GraphStays ==
  ASSUME GraphInv, UNCHANGED <<roster, moves, tables, pass>>, faults' \in 0 .. MaxFaults
  PROVE  GraphInv' /\ TablesGrow
<1>1. TablesOK
  BY TablesStay
<1>2. PassOK
  BY DEF PassOK, GraphInv, GraphTypeOK
<1>3. QED
  BY <1>1, <1>2, GraphInvNext DEF GraphInv, GraphTypeOK, TablesOK

\* A trade's row is inserted once; the sync that did it has the trade at hand.
LEMMA StoreTradeOK ==
  ASSUME Inv, NEW w \in TradeSyncers, NEW t \in Trades, StoreTrade(w, t)
  PROVE  /\ TradersOK' /\ TradesOK' /\ UNCHANGED copies /\ trader'[w].pc # "insert"
         /\ \A v \in TradeSyncers : v # w => trader'[v] = trader[v]
<1> DEFINE q == trader[w]
           new == [markis |-> q.from = "markis", watch |-> AssetsOf[t] \cap q.watch # {}]
           row == IF txn[t] = NoTrade THEN new ELSE txn[t]
           rest == q.found \ {t}
           stored == [q EXCEPT !.pc = "clear", !.cur = t, !.found = rest]
           lost == [q EXCEPT !.found = rest]
<1>1. /\ q \in TraderState /\ Holds(q, done, txn) /\ TradersOK /\ TradesOK
      /\ q.pc = "scan" /\ t \in q.found
  BY TraderFacts DEF StoreTrade
<1>2. new \in TxnRow
  <2>1. (q.from = "markis") \in BOOLEAN /\ (AssetsOf[t] \cap q.watch # {}) \in BOOLEAN
    OBVIOUS
  <2>2. QED
    BY <2>1 DEF TxnRow
<1>3. NoTrade \notin TxnRow /\ NoTrade \notin Trades
  BY TradesAssumption DEF TxnRow
<1> HIDE DEF new
<1>4. row \in TxnRow
  BY <1>1, <1>2 DEF TradesOK
<1>5. \/ txn' = [txn EXCEPT ![t] = row] /\ trader' = [trader EXCEPT ![w] = stored]
      \/ UNCHANGED txn /\ trader' = [trader EXCEPT ![w] = lost]
  BY Zenon DEF StoreTrade, new
<1>6. UNCHANGED <<week, done, copies>>
  BY DEF StoreTrade
<1> HIDE DEF row
<1>7. /\ txn' \in [Trades -> {NoTrade} \cup TxnRow]
      /\ \A k \in Trades : txn[k] # NoTrade => txn'[k] # NoTrade
      /\ txn' = [txn EXCEPT ![t] = row] => txn'[t] # NoTrade
  BY <1>1, <1>3, <1>4, <1>5 DEF TradesOK
<1>8. TradesOK'
  BY <1>1, <1>6, <1>7 DEF TradesOK
<1>9. TradesStay
  BY <1>1, <1>6, <1>7 DEF TradesStay, Holds, TraderState
<1>10. rest \in SUBSET Trades /\ rest \subseteq done /\ t \in Trades
  BY <1>1 DEF TraderState, Holds
<1> HIDE DEF q, rest
<1>11. /\ stored \in TraderState /\ stored.pc = "clear" /\ stored.cur = t /\ stored.found = rest
       /\ lost \in TraderState /\ lost.pc = "scan" /\ lost.cur = q.cur /\ lost.found = rest
  BY <1>1, <1>10 DEF TraderState
<1> HIDE DEF stored, lost
<1>12. CASE txn' = [txn EXCEPT ![t] = row] /\ trader' = [trader EXCEPT ![w] = stored]
  <2>1. Holds(stored, done', txn')
    BY <1>3, <1>6, <1>7, <1>10, <1>11, <1>12 DEF Holds
  <2>2. QED
    BY <1>1, <1>6, <1>8, <1>9, <1>11, <1>12, <2>1, TraderMoves
<1>13. CASE UNCHANGED txn /\ trader' = [trader EXCEPT ![w] = lost]
  <2>1. Holds(lost, done', txn')
    BY <1>1, <1>6, <1>10, <1>11, <1>13 DEF Holds
  <2>2. QED
    <3>1. TradersOK' /\ \A v \in TradeSyncers : trader'[v] = IF v = w THEN lost ELSE trader[v]
      BY <1>1, <1>9, <1>11, <1>13, <2>1, TraderMoves
    <3>2. QED
      BY <1>6, <1>8, <1>11, <3>1
<1>14. QED
  BY <1>5, <1>12, <1>13

\* The old assets of the trade at hand are deleted, or the trade is given up.
LEMMA ClearAssetsOK ==
  ASSUME Inv, NEW w \in TradeSyncers, ClearAssets(w)
  PROVE  /\ TradersOK' /\ TradesOK'
         /\ \A v \in TradeSyncers : v # w => trader'[v] = trader[v]
         /\ \/ UNCHANGED copies /\ trader'[w].pc # "insert"
            \/ /\ trader'[w].cur \in Trades /\ trader'[w].left = AssetsOf[trader'[w].cur]
               /\ \A t \in Trades : copies'[t] = IF t = trader'[w].cur
                                                 THEN [a \in AssetsOf[t] |-> 0] ELSE copies[t]
<1> DEFINE q == trader[w]
           t == q.cur
           all == AssetsOf[t]
           none == [a \in all |-> 0]
           cleared == [q EXCEPT !.pc = "insert", !.left = all]
           lost == [q EXCEPT !.pc = "scan", !.cur = NoTrade]
<1>1. /\ q \in TraderState /\ Holds(q, done, txn) /\ TradersOK /\ TradesOK /\ q.pc = "clear"
  BY TraderFacts DEF ClearAssets
<1>2. t \in Trades /\ all \in SUBSET Assets /\ none \in [all -> Nat]
  BY <1>1 DEF TraderState, Holds, Assets
<1>3. \/ copies' = [copies EXCEPT ![t] = none] /\ trader' = [trader EXCEPT ![w] = cleared]
      \/ UNCHANGED copies /\ trader' = [trader EXCEPT ![w] = lost]
  BY Zenon DEF ClearAssets
<1>4. UNCHANGED <<week, done, txn>> /\ TradesStay
  BY DEF ClearAssets, TradesStay
<1> HIDE DEF none, t, q
<1>5. /\ cleared \in TraderState /\ cleared.pc = "insert" /\ cleared.cur = q.cur
      /\ cleared.found = q.found /\ cleared.left = all
      /\ lost \in TraderState /\ lost.pc = "scan" /\ lost.cur = NoTrade /\ lost.found = q.found
  <2> HIDE DEF all
  <2>1. QED
    BY <1>1, <1>2 DEF TraderState
<1>6. Holds(cleared, done', txn') /\ Holds(lost, done', txn')
  <2> HIDE DEF cleared, lost
  <2>1. QED
    BY <1>1, <1>4, <1>5 DEF Holds, t
<1> HIDE DEF cleared, lost
<1>7. CASE copies' = [copies EXCEPT ![t] = none] /\ trader' = [trader EXCEPT ![w] = cleared]
  <2>1. /\ TradersOK'
        /\ \A v \in TradeSyncers : trader'[v] = IF v = w THEN cleared ELSE trader[v]
    BY <1>1, <1>4, <1>5, <1>6, <1>7, TraderMoves
  <2>2. \A k \in Trades : copies'[k] = IF k = t THEN none ELSE copies[k]
    BY <1>1, <1>7 DEF TradesOK
  <2>3. copies' = [k \in Trades |-> copies'[k]]
    BY <1>1, <1>7 DEF TradesOK
  <2>4. TradesOK'
    BY <1>1, <1>2, <1>4, <2>2, <2>3 DEF TradesOK
  <2>5. QED
    BY <1>2, <1>5, <2>1, <2>2, <2>4 DEF t, none
<1>8. CASE UNCHANGED copies /\ trader' = [trader EXCEPT ![w] = lost]
  <2>1. /\ TradersOK'
        /\ \A v \in TradeSyncers : trader'[v] = IF v = w THEN lost ELSE trader[v]
    BY <1>1, <1>4, <1>5, <1>6, <1>8, TraderMoves
  <2>2. TradesOK'
    BY <1>1, <1>4, <1>8 DEF TradesOK
  <2>3. QED
    BY <1>5, <1>8, <2>1, <2>2
<1>9. QED
  BY <1>3, <1>7, <1>8

\* One asset is inserted, or lost.
LEMMA InsertAssetOK ==
  ASSUME Inv, NEW w \in TradeSyncers, NEW a, InsertAsset(w, a)
  PROVE  /\ TradersOK' /\ TradesOK'
         /\ \A v \in TradeSyncers : v # w => trader'[v] = trader[v]
         /\ trader[w].pc = "insert" /\ trader'[w].cur = trader[w].cur
         /\ trader'[w].left = trader[w].left \ {a} /\ trader[w].cur \in Trades
         /\ a \in trader[w].left /\ a \in AssetsOf[trader[w].cur]
         /\ \A t \in Trades : \A b \in AssetsOf[t] :
               \/ copies'[t][b] = copies[t][b]
               \/ t = trader[w].cur /\ b = a /\ copies'[t][b] = copies[t][b] + 1
<1> DEFINE q == trader[w]
           t == q.cur
           rest == q.left \ {a}
           s == [q EXCEPT !.left = rest]
<1>1. /\ q \in TraderState /\ Holds(q, done, txn) /\ TradersOK /\ TradesOK
      /\ q.pc = "insert" /\ a \in q.left
  BY TraderFacts DEF InsertAsset
<1>2. t \in Trades /\ a \in AssetsOf[t] /\ rest \in SUBSET Assets /\ rest \subseteq AssetsOf[t]
  BY <1>1 DEF TraderState, Holds
<1>3. /\ copies' = [copies EXCEPT ![t][a] = copies[t][a] + 1] \/ UNCHANGED copies
      /\ trader' = [trader EXCEPT ![w] = s]
  BY Zenon DEF InsertAsset
<1>4. UNCHANGED <<week, done, txn>> /\ TradesStay
  BY DEF InsertAsset, TradesStay
<1> HIDE DEF rest
<1>5. /\ s \in TraderState /\ s.pc = "insert" /\ s.cur = t /\ s.found = q.found /\ s.left = rest
  <2> HIDE DEF q
  <2>1. QED
    BY <1>1, <1>2 DEF TraderState
<1>6. Holds(s, done', txn')
  <2> HIDE DEF s
  <2>1. QED
    BY <1>1, <1>2, <1>4, <1>5 DEF Holds
<1>7. TradersOK' /\ \A v \in TradeSyncers : trader'[v] = IF v = w THEN s ELSE trader[v]
  <2> HIDE DEF s
  <2>1. QED
    BY <1>1, <1>3, <1>4, <1>5, <1>6, TraderMoves
<1> HIDE DEF s
<1>8. /\ copies' = [k \in Trades |-> copies'[k]]
      /\ \A k \in Trades : copies'[k] \in [AssetsOf[k] -> Nat]
      /\ \A k \in Trades : \A b \in AssetsOf[k] :
            \/ copies'[k][b] = copies[k][b]
            \/ k = t /\ b = a /\ copies'[k][b] = copies[k][b] + 1
  <2>1. CASE UNCHANGED copies
    BY <1>1, <2>1 DEF TradesOK
  <2>2. CASE copies' = [copies EXCEPT ![t][a] = copies[t][a] + 1]
    <3> DEFINE c == [copies[t] EXCEPT ![a] = copies[t][a] + 1]
    <3>1. copies[t] \in [AssetsOf[t] -> Nat]
      BY <1>1, <1>2 DEF TradesOK
    <3>2. /\ c \in [AssetsOf[t] -> Nat]
          /\ \A b \in AssetsOf[t] : c[b] = IF b = a THEN copies[t][a] + 1 ELSE copies[t][b]
      BY <1>2, <3>1
    <3>3. copies' = [copies EXCEPT ![t] = c]
      BY <2>2
    <3> HIDE DEF c, t, q
    <3>4. \A k \in Trades : copies'[k] = IF k = t THEN c ELSE copies[k]
      BY <1>1, <1>2, <3>3 DEF TradesOK
    <3>5. copies' = [k \in Trades |-> copies'[k]]
      BY <1>1, <3>3 DEF TradesOK
    <3>6. QED
      BY <1>1, <3>2, <3>4, <3>5 DEF TradesOK
  <2>3. QED
    BY <1>3, <2>1, <2>2
<1>9. TradesOK'
  BY <1>1, <1>4, <1>8 DEF TradesOK
<1>10. QED
  BY <1>1, <1>2, <1>5, <1>7, <1>8, <1>9 DEF rest

-----------------------------------------------------------------------------
(* The assessment.                                                         *)

\* A manager of a flagged league stays one: rows and flags are never lost.
LEMMA DirectStays ==
  ASSUME TablesGrow, NEW u, Direct(u)
  PROVE  Direct(u)'
BY DEF TablesGrow, Direct

\* The assessment keeps what it holds while the tables grow.
LEMMA ReviewWaits ==
  ASSUME ReviewOK, TablesGrow, UNCHANGED <<review, signal>>
  PROVE  ReviewOK'
<1>1. (\A u \in review.todo : Direct(u)') /\ (\A s \in signal : Direct(s[2])')
  BY DirectStays DEF ReviewOK
<1>2. QED
  BY <1>1 DEF ReviewOK, Direct

\* The assessment selects, assesses one leaguemate, or ends.
LEMMA ReviewStepOK ==
  ASSUME Inv, ReviewStep
  PROVE  ReviewOK' /\ faults' \in 0 .. MaxFaults
<1>1. /\ ReviewOK /\ faults \in 0 .. MaxFaults /\ week \in 1 .. MaxWeek
      /\ known \subseteq Users /\ manager \subseteq StoredLeagues \X known
  BY DEF Inv, GraphInv, GraphTypeOK, TradesOK, StoredLeagues
<1>2. UNCHANGED tables
  BY DEF ReviewStep, SelectLeaguemates, EndReview, AssessUser, graphVars, tables
<1>3. \A u : Direct(u) => Direct(u)'
  BY <1>2 DEF tables, Direct
<1>4. faults' \in 0 .. MaxFaults
  BY <1>1, FailTypes DEF ReviewStep, SelectLeaguemates, EndReview, AssessUser, graphVars
<1>5. CASE SelectLeaguemates
  <2>1. PICK todo : /\ todo \subseteq DirectLeaguemates
                    /\ review' = [pc |-> "assess", week |-> week, todo |-> todo]
    BY <1>5 DEF SelectLeaguemates
  <2>2. \A u \in DirectLeaguemates : u \in Users /\ u # Markis /\ Direct(u)
    BY <1>1 DEF DirectLeaguemates, Direct, StoredLeagues
  <2>3. review' \in ReviewState /\ review'.todo = todo /\ review'.week = week
    BY <1>1, <2>1, <2>2, TradesAssumption DEF ReviewState
  <2>4. UNCHANGED signal
    BY <1>5 DEF SelectLeaguemates
  <2>5. \A u \in todo : Direct(u)' /\ u # Markis
    BY <1>3, <2>1, <2>2
  <2>6. \A s \in signal : Direct(s[2])'
    BY <1>1, <1>3 DEF ReviewOK
  <2>7. QED
    BY <1>1, <1>4, <2>3, <2>4, <2>5, <2>6 DEF ReviewOK, Direct
<1>6. ASSUME NEW u \in Users, AssessUser(u)
      PROVE  ReviewOK'
  <2> DEFINE rest == review.todo \ {u}
             r == [review EXCEPT !.todo = rest]
  <2>1. /\ u \in review.todo /\ review' = r
        /\ UNCHANGED signal \/ signal' = signal \cup {<<review.week, u>>}
    BY <1>6 DEF AssessUser
  <2>2. rest \in SUBSET Users
    BY <1>1 DEF ReviewOK, ReviewState
  <2>3. r \in ReviewState /\ r.todo = rest /\ r.week = review.week
    <3> HIDE DEF rest
    <3>1. QED
      BY <1>1, <2>2 DEF ReviewOK, ReviewState
  <2>4. review.week \in 1 .. MaxWeek /\ Direct(u)
    BY <1>1, <2>1 DEF ReviewOK
  <2>5. signal' \subseteq (1 .. MaxWeek) \X Users
    BY <1>1, <2>1, <2>4 DEF ReviewOK
  <2>6. \A s \in signal' : Direct(s[2])
    BY <1>1, <2>1, <2>4 DEF ReviewOK
  <2>7. \A v \in rest : Direct(v) /\ v # Markis
    BY <1>1 DEF ReviewOK
  <2> HIDE DEF r
  <2>8. /\ \A s \in signal' : Direct(s[2])'
        /\ \A v \in review'.todo : Direct(v)' /\ v # Markis
    <3>1. review'.todo = rest
      BY <2>1, <2>3
    <3>2. \A s \in signal' : Direct(s[2])'
      BY <1>2, <2>6 DEF Direct, tables
    <3>3. QED
      BY <1>3, <2>7, <3>1, <3>2
  <2>9. review' \in ReviewState /\ (review'.todo # {} => review'.week \in 1 .. MaxWeek)
    BY <2>1, <2>3, <2>4
  <2>10. QED
    BY <2>5, <2>8, <2>9 DEF ReviewOK, Direct
<1>7. CASE EndReview
  <2>1. IdleReview \in ReviewState /\ IdleReview.todo = {}
    BY DEF IdleReview, ReviewState
  <2>2. \A s \in signal : Direct(s[2])'
    BY <1>1, <1>3 DEF ReviewOK
  <2>3. review' = IdleReview /\ UNCHANGED signal
    BY <1>7 DEF EndReview
  <2>4. /\ \A s \in signal' : Direct(s[2])'
        /\ review' \in ReviewState /\ review'.todo = {} /\ signal' \subseteq (1 .. MaxWeek) \X Users
    BY <1>1, <2>1, <2>2, <2>3 DEF ReviewOK
  <2>5. QED
    BY <1>4, <2>4 DEF ReviewOK, Direct
<1>8. QED
  BY <1>4, <1>5, <1>6, <1>7 DEF ReviewStep

-----------------------------------------------------------------------------
(* The invariant of the composed jobs.                                     *)

\* What the daemon's start leaves.
LEMMA InvInit ==
  ASSUME Init
  PROVE  Inv
<1>1. GraphInv
  <2>1. /\ roster \in [Leagues -> [Users -> SUBSET Players]] /\ moves \in 0 .. MaxMoves
        /\ faults \in 0 .. MaxFaults
    BY GraphAssumption DEF Init, GraphInit
  <2>2. league \in [Leagues -> Flags] /\ \A l \in Leagues : league[l] = "absent"
    BY DEF Init, GraphInit, Flags
  <2>3. pass \in [Syncers -> PassState] /\ \A w \in Syncers : Walks(pass[w])
    BY IdlePassOK DEF Init, GraphInit
  <2>4. known = {} /\ manager = {} /\ held = {}
    BY DEF Init, GraphInit
  <2>5. OneHopOnly /\ FlagsAreTrue
    BY <2>2 DEF OneHopOnly, FlagsAreTrue
  <2>6. QED
    BY <2>1, <2>2, <2>3, <2>4, <2>5 DEF GraphInv, GraphTypeOK, Flags
<1>2. TradesOK
  BY TradesAssumption DEF Init, TradesOK
<1>3. TradersOK
  BY IdleTraderOK DEF Init, TradersOK
<1>4. ReviewOK
  BY DEF Init, ReviewOK, IdleReview, ReviewState
<1>5. QED
  BY <1>1, <1>2, <1>3, <1>4 DEF Inv

\* What every step of the jobs, of Sleeper and of a crash does.
LEMMA InvNext ==
  ASSUME Inv, [Next]_vars
  PROVE  Inv' /\ TablesGrow
<1>1. /\ GraphInv /\ TradesOK /\ TradersOK /\ ReviewOK /\ faults \in 0 .. MaxFaults
      /\ roster \in [Leagues -> [Users -> SUBSET Players]] /\ moves \in 0 .. MaxMoves
  BY DEF Inv, GraphInv, GraphTypeOK
<1>2. ASSUME UNCHANGED tradeVars, GraphInv', TablesGrow
      PROVE  Inv'
  <2>1. TradersOK'
    BY <1>1, <1>2, TradersWait DEF tradeVars, TradesStay
  <2>2. TradesOK'
    BY <1>1, <1>2 DEF tradeVars, TradesOK
  <2>3. ReviewOK'
    BY <1>1, <1>2, ReviewWaits DEF tradeVars
  <2>4. QED
    BY <1>2, <2>1, <2>2, <2>3 DEF Inv
<1>3. ASSUME NEW w \in Syncers, SyncStep(w), UNCHANGED tradeVars
      PROVE  Inv' /\ TablesGrow
  <2>1. PassOK /\ TablesOK /\ UNCHANGED <<roster, moves>>
    BY <1>1, <1>3, SyncStepOK
  <2>2. GraphInv' /\ TablesGrow
    BY <1>1, <2>1, GraphInvNext DEF TablesOK
  <2>3. QED
    BY <1>2, <1>3, <2>2
<1>4. ASSUME Move, UNCHANGED tradeVars
      PROVE  Inv' /\ TablesGrow
  <2>1. PICK l \in Leagues, p \in Players : \E u \in SeqRange(OwnersOf[l]) :
          roster' = [roster EXCEPT ![l][u] = IF p \in @ THEN @ \ {p} ELSE @ \cup {p}]
    BY <1>4 DEF Move
  <2>2. PICK u \in SeqRange(OwnersOf[l]) :
          roster' = [roster EXCEPT ![l][u] = IF p \in @ THEN @ \ {p} ELSE @ \cup {p}]
    BY <2>1
  <2>3. u \in Users
    BY GraphAssumption, ListParts
  <2>4. roster' \in [Leagues -> [Users -> SUBSET Players]]
    <3> DEFINE have == roster[l][u]
               now == IF p \in have THEN have \ {p} ELSE have \cup {p}
    <3>1. now \in SUBSET Players
      BY <1>1, <2>3
    <3>2. roster' = [roster EXCEPT ![l][u] = now]
      BY <2>2
    <3> HIDE DEF now
    <3>3. QED
      BY <1>1, <2>3, <3>1, <3>2
  <2>5. moves' \in 0 .. MaxMoves /\ UNCHANGED <<tables, pass, faults>>
    BY <1>1, <1>4, GraphAssumption DEF Move
  <2>6. TablesOK /\ PassOK
    BY <1>1, <2>5, TablesStay DEF PassOK, GraphInv, GraphTypeOK
  <2>7. GraphInv' /\ TablesGrow
    BY <2>4, <2>5, <2>6, GraphInvNext DEF TablesOK
  <2>8. QED
    BY <1>2, <1>4, <2>7
<1>5. ASSUME NEW w \in TradeSyncers, TradeStep(w)
      PROVE  Inv' /\ TablesGrow
  <2>1. /\ UNCHANGED <<roster, moves, tables, pass, week, signal, review>>
        /\ UNCHANGED faults \/ Fail
    BY <1>5 DEF TradeStep, StartTrades, ReadLeagues, EndTrades, ScanWeek, StoreTrade,
                ClearAssets, EndAssets, InsertAsset, graphVars, tables
  <2>2. GraphInv' /\ TablesGrow
    BY <1>1, <2>1, FailTypes, GraphStays
  <2>3. TradersOK' /\ TradesOK'
    <3>1. ASSUME \/ StartTrades(w) \/ ReadLeagues(w) \/ EndTrades(w) \/ EndAssets(w)
                 \/ \E job \in trader[w].scan : ScanWeek(w, job)
          PROVE  TradersOK' /\ TradesOK'
      BY <1>1, <2>1, <3>1, ReadStepOK DEF TradesOK
    <3>2. QED
      BY <1>5, <3>1, StoreTradeOK, ClearAssetsOK, InsertAssetOK DEF TradeStep
  <2>4. ReviewOK'
    BY <1>1, <2>1, <2>2, ReviewWaits
  <2>5. QED
    BY <2>2, <2>3, <2>4 DEF Inv
<1>6. ASSUME ReviewStep
      PROVE  Inv' /\ TablesGrow
  <2>1. UNCHANGED <<roster, moves, tables, pass, week, done, txn, copies, trader>>
    BY <1>6 DEF ReviewStep, SelectLeaguemates, EndReview, AssessUser, graphVars, tables
  <2>2. ReviewOK' /\ faults' \in 0 .. MaxFaults
    BY <1>6, ReviewStepOK
  <2>3. GraphInv' /\ TablesGrow
    BY <1>1, <2>1, <2>2, GraphStays
  <2>4. TradersOK' /\ TradesOK'
    BY <1>1, <2>1, TradersWait DEF TradesStay, TradesOK
  <2>5. QED
    BY <2>2, <2>3, <2>4 DEF Inv
<1>7. ASSUME NewWeek \/ \E t \in Trades : Complete(t)
      PROVE  Inv' /\ TablesGrow
  <2>1. /\ UNCHANGED <<graphVars, txn, copies, trader, signal, review>>
        /\ done \subseteq done' /\ done' \subseteq Trades /\ week' \in 1 .. MaxWeek
    BY <1>1, <1>7, TradesAssumption DEF NewWeek, Complete, TradesOK
  <2>2. GraphInv' /\ TablesGrow
    BY <1>1, <2>1, GraphStays DEF graphVars, tables
  <2>3. TradersOK' /\ TradesOK'
    BY <1>1, <2>1, TradersWait DEF TradesStay, TradesOK
  <2>4. ReviewOK'
    BY <1>1, <2>1, <2>2, ReviewWaits
  <2>5. QED
    BY <2>2, <2>3, <2>4 DEF Inv
<1>8. ASSUME Crash
      PROVE  Inv' /\ TablesGrow
  <2>1. /\ UNCHANGED <<roster, moves, tables, week, done, txn, copies, signal>>
        /\ pass' = [w \in Syncers |-> IdlePass] /\ review' = IdleReview
        /\ trader' = [w \in TradeSyncers |-> IdleTrader] /\ Fail
    BY <1>8 DEF Crash
  <2>2. TablesOK /\ PassOK
    BY <1>1, <2>1, FailTypes, TablesStay, IdlePassOK DEF PassOK
  <2>3. GraphInv' /\ TablesGrow
    BY <1>1, <2>1, <2>2, GraphInvNext DEF TablesOK
  <2>4. TradersOK' /\ TradesOK'
    BY <1>1, <2>1, IdleTraderOK DEF TradersOK, TradesOK
  <2>5. ReviewOK'
    <3>1. \A s \in signal : Direct(s[2])'
      BY <1>1, <2>3, DirectStays DEF ReviewOK
    <3>2. IdleReview \in ReviewState /\ IdleReview.todo = {}
      BY DEF IdleReview, ReviewState
    <3>3. QED
      BY <1>1, <2>1, <3>1, <3>2 DEF ReviewOK, Direct
  <2>6. QED
    BY <2>3, <2>4, <2>5 DEF Inv
<1>9. CASE UNCHANGED vars
  <2>1. GraphInv' /\ TablesGrow
    BY <1>1, <1>9, GraphStays DEF vars, graphVars, tables
  <2>2. QED
    BY <1>2, <1>9, <2>1 DEF vars
<1>10. QED
  BY <1>3, <1>4, <1>5, <1>6, <1>7, <1>8, <1>9 DEF Next

\* The strengthened invariant holds throughout.
LEMMA Invariant == Spec => []Inv
<1>1. Init => Inv
  BY InvInit
<1>2. Inv /\ [Next]_vars => Inv'
  BY InvNext
<1>3. QED
  BY <1>1, <1>2, PTL DEF Spec

-----------------------------------------------------------------------------
(* The theorems.                                                           *)

\* The tables keep their types and foreign keys, the executions their locals,
\* for every league graph, every overlap and every failure.
THEOREM TypeCorrect == Spec => []TypeOK
<1>1. Inv => TypeOK
  <2> SUFFICES ASSUME Inv
               PROVE  TypeOK
    OBVIOUS
  <2>1. GraphTypeOK /\ TradesOK /\ TradersOK /\ ReviewOK
    BY DEF Inv, GraphInv
  <2>2. review.todo \subseteq Users \ {Markis}
    BY <2>1 DEF ReviewOK, ReviewState
  <2>3. \A w \in TradeSyncers :
          /\ trader[w].watch \subseteq Players /\ trader[w].found \subseteq done
          /\ trader[w].cur # NoTrade => txn[trader[w].cur] # NoTrade
    BY <2>1 DEF TradersOK, TraderState, Holds
  <2>4. QED
    BY <2>1, <2>2, <2>3 DEF TypeOK, TradesOK, ReviewOK, TxnRow
<1>2. QED
  BY <1>1, Invariant, PTL

\* Only Markis's leagues and his leaguemates' leagues are ever stored: no pass
\* walks on from a league it discovered through a leaguemate.
THEOREM OneHop == Spec => []OneHopOnly
<1>1. Inv => OneHopOnly
  BY DEF Inv, GraphInv
<1>2. QED
  BY <1>1, Invariant, PTL

\* Only leagues of Markis's are ever flagged as his.
THEOREM FlagsTrue == Spec => []FlagsAreTrue
<1>1. Inv => FlagsAreTrue
  BY DEF Inv, GraphInv
<1>2. QED
  BY <1>1, Invariant, PTL

\* The flag of a Markis league survives every later upsert.
THEOREM FlagsKept == Spec => FlagsAreKept
<1>1. Inv /\ [Next]_vars
      => [\A l \in Leagues : league[l] = "markis" => league'[l] = "markis"]_league
  BY InvNext DEF TablesGrow
<1>2. QED
  BY <1>1, Invariant, PTL DEF Spec, FlagsAreKept

\* Whoever has an assessment manages a flagged league: the row he was selected
\* by and its flag are still there when his assessment is stored.
THEOREM OnlyLeaguemates == Spec => []OnlyLeaguematesAreAssessed
<1>1. Inv => OnlyLeaguematesAreAssessed
  BY DEF Inv, ReviewOK, Direct, OnlyLeaguematesAreAssessed
<1>2. QED
  BY <1>1, Invariant, PTL

\* The syncs that will insert an asset are among those there are.
LEMMA InsertingFinite ==
  /\ Cardinality(TradeSyncers) \in Nat
  /\ \A S \in SUBSET TradeSyncers :
        /\ IsFiniteSet(S) /\ Cardinality(S) \in Nat
        /\ Cardinality(S) <= Cardinality(TradeSyncers)
        /\ \A T \in SUBSET S : Cardinality(T) <= Cardinality(S)
        /\ \A w \in S : \A T \in SUBSET (S \ {w}) : Cardinality(T) + 1 <= Cardinality(S)
<1>1. IsFiniteSet(TradeSyncers) /\ Cardinality(TradeSyncers) \in Nat
  BY TradesAssumption, FS_CardinalityType
<1>2. ASSUME NEW S \in SUBSET TradeSyncers
      PROVE  /\ IsFiniteSet(S) /\ Cardinality(S) \in Nat
             /\ Cardinality(S) <= Cardinality(TradeSyncers)
             /\ \A T \in SUBSET S : Cardinality(T) <= Cardinality(S)
             /\ \A w \in S : \A T \in SUBSET (S \ {w}) : Cardinality(T) + 1 <= Cardinality(S)
  <2>1. IsFiniteSet(S) /\ Cardinality(S) <= Cardinality(TradeSyncers) /\ Cardinality(S) \in Nat
    BY <1>1, FS_Subset, FS_CardinalityType
  <2>2. \A T \in SUBSET S : Cardinality(T) <= Cardinality(S)
    BY <2>1, FS_Subset
  <2>3. ASSUME NEW w \in S, NEW T \in SUBSET (S \ {w})
        PROVE  Cardinality(T) + 1 <= Cardinality(S)
    <3>1. IsFiniteSet(S \ {w}) /\ Cardinality(S \ {w}) = Cardinality(S) - 1
      BY <2>1, FS_RemoveElement
    <3>2. Cardinality(T) <= Cardinality(S \ {w}) /\ Cardinality(T) \in Nat
      BY <3>1, FS_Subset, FS_CardinalityType
    <3>3. QED
      BY <2>1, <3>1, <3>2
  <2>4. QED
    BY <2>1, <2>2, <2>3
<1>3. QED
  BY <1>1, <1>2

\* A row that is not added, and no sync more that will insert it.
LEMMA CopiesStay ==
  ASSUME Inv, CopiesBounded, NEW t \in Trades, NEW a \in AssetsOf[t],
         copies'[t][a] = copies[t][a], Inserting(t, a)' \subseteq Inserting(t, a)
  PROVE  copies'[t][a] + Cardinality(Inserting(t, a)') <= Cardinality(TradeSyncers)
<1>1. copies[t][a] \in Nat
  BY DEF Inv, TradesOK
<1>2. Inserting(t, a) \in SUBSET TradeSyncers /\ Inserting(t, a)' \in SUBSET Inserting(t, a)
  BY DEF Inserting
<1>3. /\ Cardinality(Inserting(t, a)') \in Nat /\ Cardinality(Inserting(t, a)) \in Nat
      /\ Cardinality(Inserting(t, a)') <= Cardinality(Inserting(t, a))
      /\ Cardinality(TradeSyncers) \in Nat
  BY <1>2, InsertingFinite
<1>4. copies[t][a] + Cardinality(Inserting(t, a)) <= Cardinality(TradeSyncers)
  BY DEF CopiesBounded
<1>5. QED
  BY <1>1, <1>3, <1>4

\* The delete empties the trade before anyone can insert, and every insert
\* leaves one sync less that will.
LEMMA CopiesStep ==
  ASSUME Inv, CopiesBounded, [Next]_vars
  PROVE  CopiesBounded'
<1>1. ASSUME UNCHANGED copies,
             \A w \in TradeSyncers : trader'[w].pc # "insert" \/ trader'[w] = trader[w]
      PROVE  CopiesBounded'
  <2>1. \A t, a : Inserting(t, a)' \subseteq Inserting(t, a)
    BY <1>1 DEF Inserting
  <2>2. QED
    BY <1>1, <2>1, CopiesStay DEF CopiesBounded
<1>2. ASSUME NEW w \in TradeSyncers, TradeStep(w)
      PROVE  CopiesBounded'
  <2>1. ASSUME \/ StartTrades(w) \/ ReadLeagues(w) \/ EndTrades(w) \/ EndAssets(w)
               \/ \E job \in trader[w].scan : ScanWeek(w, job)
        PROVE  CopiesBounded'
    BY <1>1, <2>1, ReadStepOK
  <2>2. ASSUME NEW t \in Trades, StoreTrade(w, t)
        PROVE  CopiesBounded'
    BY <1>1, <2>2, StoreTradeOK
  <2>3. CASE ClearAssets(w)
    <3>1. CASE UNCHANGED copies /\ trader'[w].pc # "insert"
      BY <1>1, <2>3, <3>1, ClearAssetsOK
    <3>2. ASSUME \A t \in Trades : copies'[t] = IF t = trader'[w].cur
                                                THEN [a \in AssetsOf[t] |-> 0] ELSE copies[t],
                 NEW t \in Trades, NEW a \in AssetsOf[t]
          PROVE  copies'[t][a] + Cardinality(Inserting(t, a)') <= Cardinality(TradeSyncers)
      <4>1. CASE t = trader'[w].cur
        <5>1. copies'[t][a] = 0
          BY <3>2, <4>1
        <5>2. Inserting(t, a)' \in SUBSET TradeSyncers
          BY DEF Inserting
        <5>3. /\ Cardinality(Inserting(t, a)') \in Nat /\ Cardinality(TradeSyncers) \in Nat
              /\ Cardinality(Inserting(t, a)') <= Cardinality(TradeSyncers)
          BY <5>2, InsertingFinite
        <5>4. QED
          BY <5>1, <5>3
      <4>2. CASE t # trader'[w].cur
        <5>1. copies'[t][a] = copies[t][a]
          BY <3>2, <4>2
        <5>2. Inserting(t, a)' \subseteq Inserting(t, a)
          BY <2>3, <4>2, ClearAssetsOK DEF Inserting
        <5>3. QED
          BY <5>1, <5>2, CopiesStay
      <4>3. QED
        BY <4>1, <4>2
    <3>3. QED
      BY <2>3, <3>1, <3>2, ClearAssetsOK DEF CopiesBounded
  <2>4. ASSUME NEW b, InsertAsset(w, b)
        PROVE  CopiesBounded'
    <3>1. /\ \A v \in TradeSyncers : v # w => trader'[v] = trader[v]
          /\ trader[w].pc = "insert" /\ trader'[w].cur = trader[w].cur
          /\ trader'[w].left = trader[w].left \ {b} /\ b \in trader[w].left
          /\ \A t \in Trades : \A a \in AssetsOf[t] :
                \/ copies'[t][a] = copies[t][a]
                \/ t = trader[w].cur /\ a = b /\ copies'[t][a] = copies[t][a] + 1
      BY <2>4, InsertAssetOK
    <3>2. ASSUME NEW t \in Trades, NEW a \in AssetsOf[t]
          PROVE  copies'[t][a] + Cardinality(Inserting(t, a)') <= Cardinality(TradeSyncers)
      <4>1. CASE copies'[t][a] = copies[t][a]
        <5>1. Inserting(t, a)' \subseteq Inserting(t, a)
          BY <3>1 DEF Inserting
        <5>2. QED
          BY <4>1, <5>1, CopiesStay
      <4>2. CASE t = trader[w].cur /\ a = b /\ copies'[t][a] = copies[t][a] + 1
        <5>1. /\ w \in Inserting(t, a) /\ Inserting(t, a) \in SUBSET TradeSyncers
              /\ Inserting(t, a)' \in SUBSET (Inserting(t, a) \ {w})
          BY <3>1, <4>2 DEF Inserting
        <5>2. /\ Cardinality(Inserting(t, a)) \in Nat /\ Cardinality(Inserting(t, a)') \in Nat
              /\ Cardinality(Inserting(t, a)') + 1 <= Cardinality(Inserting(t, a))
              /\ Cardinality(TradeSyncers) \in Nat
          <6>1. Inserting(t, a)' \in SUBSET TradeSyncers
            BY DEF Inserting
          <6>2. QED
            BY <5>1, <6>1, InsertingFinite
        <5>3. copies[t][a] \in Nat
          BY DEF Inv, TradesOK
        <5>4. copies[t][a] + Cardinality(Inserting(t, a)) <= Cardinality(TradeSyncers)
          BY DEF CopiesBounded
        <5>5. QED
          BY <4>2, <5>2, <5>3, <5>4
      <4>3. QED
        BY <3>1, <4>1, <4>2
    <3>3. QED
      BY <3>2 DEF CopiesBounded
  <2>5. QED
    BY <1>2, <2>1, <2>2, <2>3, <2>4 DEF TradeStep
<1>3. CASE UNCHANGED <<copies, trader>>
  BY <1>1, <1>3
<1>4. CASE Crash
  BY <1>1, <1>4 DEF Crash, IdleTrader
<1>5. QED
  BY <1>2, <1>3, <1>4
     DEF Next, vars, tradeVars, ReviewStep, SelectLeaguemates, EndReview, AssessUser,
         NewWeek, Complete

\* The rows stored and those still to come are never more than the syncs.
LEMMA CopiesInvariant == Spec => []CopiesBounded
<1>1. ASSUME Init
      PROVE  CopiesBounded
  <2>1. \A t \in Trades : \A a \in AssetsOf[t] : copies[t][a] = 0 /\ Inserting(t, a) = {}
    BY <1>1 DEF Init, IdleTrader, Inserting
  <2>2. Cardinality({}) = 0 /\ Cardinality(TradeSyncers) \in Nat
    BY FS_EmptySet, InsertingFinite
  <2>3. QED
    BY <2>1, <2>2 DEF CopiesBounded
<1>2. Inv /\ CopiesBounded /\ [Next]_vars => CopiesBounded'
  BY CopiesStep
<1>3. QED
  BY <1>1, <1>2, Invariant, PTL DEF Spec

\* However many trade syncs overlap, fail and crash between delete and insert,
\* an asset has at most one row for each of them.
THEOREM CopiesAreBounded == Spec => []AssetsAreNotDoubled
<1>1. Inv /\ CopiesBounded => AssetsAreNotDoubled
  <2> SUFFICES ASSUME Inv, CopiesBounded, NEW t \in Trades, NEW a \in AssetsOf[t]
               PROVE  copies[t][a] <= Cardinality(TradeSyncers)
    BY DEF AssetsAreNotDoubled
  <2>1. copies[t][a] \in Nat /\ Inserting(t, a) \in SUBSET TradeSyncers
    BY DEF Inv, TradesOK, Inserting
  <2>2. Cardinality(Inserting(t, a)) \in Nat /\ Cardinality(TradeSyncers) \in Nat
    BY <2>1, InsertingFinite
  <2>3. QED
    BY <2>1, <2>2 DEF CopiesBounded
<1>2. QED
  BY <1>1, CopiesInvariant, Invariant, PTL

\* Trade syncs do not overlap: the cron guard keeps the job from overlapping
\* itself, and no manual run is started beside it.
SoleTrader == \A v, w \in TradeSyncers : v = w

\* Without overlap an asset is inserted only after its old rows were deleted,
\* so no failure and no crash between the two leaves it stored twice.
THEOREM AssetsOnce ==
  SoleTrader /\ Spec => [](\A t \in Trades : \A a \in AssetsOf[t] : copies[t][a] <= 1)
<1> SUFFICES ASSUME SoleTrader
             PROVE  Spec => [](\A t \in Trades : \A a \in AssetsOf[t] : copies[t][a] <= 1)
  OBVIOUS
<1>1. Cardinality(TradeSyncers) <= 1
  <2>1. CASE TradeSyncers = {}
    BY <2>1, FS_EmptySet
  <2>2. ASSUME NEW w \in TradeSyncers
        PROVE  Cardinality(TradeSyncers) <= 1
    <3>1. TradeSyncers = {w}
      BY DEF SoleTrader
    <3>2. Cardinality({w}) = 1
      BY FS_Singleton
    <3>3. QED
      BY <3>1, <3>2
  <2>3. QED
    BY <2>1, <2>2
<1>2. Inv /\ AssetsAreNotDoubled
      => \A t \in Trades : \A a \in AssetsOf[t] : copies[t][a] <= 1
  <2>1. Cardinality(TradeSyncers) \in Nat
    BY InsertingFinite
  <2>2. QED
    BY <1>1, <2>1 DEF Inv, TradesOK, AssetsAreNotDoubled
<1>3. QED
  BY <1>2, CopiesAreBounded, Invariant, PTL
=============================================================================
