---------------------------- MODULE LeagueGraph ----------------------------
(***************************************************************************)
(* The leaguemate sync (internal/sync/leaguemates.go): from Markis's       *)
(* leagues to their managers, from those managers to their other leagues,  *)
(* and no further.  A pass walks the graph call by call and upserts what   *)
(* it finds; every statement may fail on its own, and the pass goes on.    *)
(* What Sleeper holds (memberships, rosters) is the environment.           *)
(***************************************************************************)
EXTENDS Naturals, Sequences, FiniteSets

CONSTANTS
    Leagues, Users, Players,
    Markis,         \* the owner of the engine, one of Users
    UserLeagues,    \* UserLeagues[u]: u's leagues in the order Sleeper lists them
    OwnersOf,       \* OwnersOf[l]: the owners of l's rosters, in roster order
    MaxLeagues,     \* leagues a pass may see before it stops (15)
    PerManager,     \* leagues a pass discovers through one manager (3)
    Syncers,        \* passes that may run at the same time (cron, manual)
    Rosters,        \* Rosters[l][u]: the players u owns in l when the engine starts
    NoLeague,
    MaxFaults,      \* bound on failed calls and crashes
    MaxMoves        \* bound on roster moves at Sleeper

ASSUME GraphAssumption ==
    /\ Markis \in Users /\ NoLeague \notin Leagues /\ IsFiniteSet(Leagues)
    /\ UserLeagues \in [Users -> Seq(Leagues)]
    /\ OwnersOf \in [Leagues -> Seq(Users)]
    /\ Rosters \in [Leagues -> [Users -> SUBSET Players]]
    /\ {MaxLeagues, PerManager, MaxFaults, MaxMoves} \subseteq Nat

VARIABLES
    roster,   \* Sleeper: roster[l][u], the players u owns in l
    moves,    \* roster moves so far
    league,   \* table league: "absent", "other" or "markis" (is_markis_league)
    known,    \* table sleeper_user
    manager,  \* table league_manager, as <<league, user>>
    held,     \* table leaguemate_roster_player, as <<league, user, player>>
    pass,     \* pass[w]: the local state of pass w
    faults    \* failures that may still happen

graphVars == <<roster, moves, league, known, manager, held, pass, faults>>
tables == <<league, known, manager, held>>

SeqRange(s) == {s[i] : i \in DOMAIN s}

\* The locals of Sync and of the functions it calls: the Markis leagues left,
\* LeaguesSeen, seenLeagues, the league at hand with its rosters left and the
\* rosters as fetched, and the same for a league discovered through a manager.
IdlePass ==
    [pc |-> "idle", mine |-> <<>>, counted |-> 0, added |-> 0, seen |-> {},
     cur |-> NoLeague, owners |-> <<>>, got |-> <<>>,
     others |-> <<>>, fresh |-> 0, other |-> NoLeague, rivals |-> <<>>, theirs |-> <<>>]

GraphInit ==
    /\ roster = Rosters /\ moves = 0
    /\ league = [l \in Leagues |-> "absent"]
    /\ known = {} /\ manager = {} /\ held = {}
    /\ pass = [w \in Syncers |-> IdlePass]
    /\ faults = MaxFaults

Fail == faults > 0 /\ faults' = faults - 1

\* Sync: the season and Markis's leagues are fetched; an error ends the pass.
StartSync(w) ==
    /\ pass[w].pc = "idle"
    /\ pass' = [pass EXCEPT ![w] =
                  [IdlePass EXCEPT !.pc = "next", !.mine = UserLeagues[Markis]]]
    /\ UNCHANGED <<roster, moves, tables, faults>>

\* Mutant of Flagged: the later meeting decides.
FlaggedLast(l, isMarkis) == IF isMarkis THEN "markis" ELSE "other"

\* The ON CONFLICT clause: is_markis_league once set stays set.
Flagged(l, isMarkis) == IF isMarkis \/ league[l] = "markis" THEN "markis" ELSE "other"

\* upsertLeague; a failed statement is logged and changes nothing.
UpsertLeague(l, isMarkis) ==
    \/ league' = [league EXCEPT ![l] = Flagged(l, isMarkis)] /\ UNCHANGED faults
    \/ Fail /\ UNCHANGED league

\* Mutant of NextLeague: a league that is stored is not visited again.
NextLeagueOnce(w) ==
    LET p == pass[w] l == Head(p.mine) IN
    /\ p.pc = "next" /\ p.mine # <<>>
    /\ IF league[l] = "markis"
       THEN /\ pass' = [pass EXCEPT ![w].mine = Tail(@)]
            /\ UNCHANGED <<league, faults>>
       ELSE /\ UpsertLeague(l, TRUE)
            /\ pass' = [pass EXCEPT ![w] = [p EXCEPT !.pc = "fetch", !.mine = Tail(@), !.cur = l]]
    /\ UNCHANGED <<roster, moves, known, manager, held>>

\* The loop over Markis's leagues: stop at the budget, skip what was seen.
NextLeague(w) ==
    LET p == pass[w] l == Head(p.mine) IN
    /\ p.pc = "next" /\ p.mine # <<>> /\ p.counted < MaxLeagues
    /\ IF l \in p.seen
       THEN /\ pass' = [pass EXCEPT ![w].mine = Tail(@)]
            /\ UNCHANGED <<league, faults>>
       ELSE /\ UpsertLeague(l, TRUE)
            /\ pass' = [pass EXCEPT ![w] =
                  [p EXCEPT !.pc = "fetch", !.mine = Tail(@), !.cur = l,
                            !.counted = @ + 1, !.seen = @ \cup {l}, !.added = 0]]
    /\ UNCHANGED <<roster, moves, known, manager, held>>

EndSync(w) ==
    /\ pass[w].pc = "next"
    /\ pass[w].mine = <<>> \/ pass[w].counted >= MaxLeagues
    /\ pass' = [pass EXCEPT ![w] = IdlePass]
    /\ UNCHANGED <<roster, moves, tables, faults>>

\* GetLeagueRosters and GetLeagueUsers; buildUserMap upserts the members.  A
\* failed call leaves the league without rosters, a failed statement a member.
MeetUsers(l) ==
    \/ known' = known \cup SeqRange(OwnersOf[l]) /\ UNCHANGED faults
    \/ Fail /\ \E u \in SeqRange(OwnersOf[l]) :
                   known' = known \cup (SeqRange(OwnersOf[l]) \ {u})

FetchRosters(w) ==
    LET p == pass[w] IN
    /\ p.pc = "fetch"
    /\ \/ /\ MeetUsers(p.cur)
          /\ pass' = [pass EXCEPT ![w] =
                 [p EXCEPT !.pc = "store", !.owners = OwnersOf[p.cur], !.got = roster[p.cur]]]
       \/ /\ Fail
          /\ pass' = [pass EXCEPT ![w].pc = "next"]
          /\ UNCHANGED known
    /\ UNCHANGED <<roster, moves, league, manager, held>>

\* Mutant of StoreRoster: without the foreign keys.
StoreRosterUnchecked(l, u, got) ==
    /\ manager' = manager \cup {<<l, u>>} /\ held' = held \cup {<<l, u, p>> : p \in got[u]}
    /\ UNCHANGED faults

\* upsertLeagueManager and storeRosterPlayers for one roster.  The foreign keys
\* reject rows of a league or a manager that is not stored; when a statement
\* fails the others still run.  Rows of players who left are never deleted.
StoreRoster(l, u, got) ==
    LET row == IF league[l] # "absent" /\ u \in known THEN {<<l, u>>} ELSE {}
        rows == IF league[l] # "absent" THEN {<<l, u, p>> : p \in got[u]} ELSE {} IN
    \/ manager' = manager \cup row /\ held' = held \cup rows /\ UNCHANGED faults
    \/ Fail /\ \/ UNCHANGED manager /\ held' = held \cup rows
               \/ \E r \in rows : manager' = manager \cup row /\ held' = held \cup (rows \ {r})

\* One roster of a Markis league; for another manager his leagues come next.
StoreMine(w) ==
    LET p == pass[w] u == Head(p.owners) IN
    /\ p.pc = "store" /\ p.owners # <<>>
    /\ StoreRoster(p.cur, u, p.got)
    /\ pass' = [pass EXCEPT ![w] =
          IF u = Markis THEN [p EXCEPT !.owners = Tail(@)]
          ELSE [p EXCEPT !.pc = "discover", !.others = UserLeagues[u], !.fresh = 0]]
    /\ UNCHANGED <<roster, moves, league, known>>

\* processMarkisLeagueRosters returns; its count is added to LeaguesSeen.
EndMine(w) ==
    /\ pass[w].pc = "store" /\ pass[w].owners = <<>>
    /\ pass' = [pass EXCEPT ![w].pc = "next", ![w].counted = @ + pass[w].added]
    /\ UNCHANGED <<roster, moves, tables, faults>>

\* syncOtherManagerLeagues: at most PerManager leagues nobody saw yet.
Discover(w) ==
    LET p == pass[w] l == Head(p.others) IN
    /\ p.pc = "discover" /\ p.others # <<>>
    /\ IF l \in p.seen \/ p.fresh >= PerManager
       THEN /\ pass' = [pass EXCEPT ![w].others = Tail(@)]
            /\ UNCHANGED <<league, faults>>
       ELSE /\ UpsertLeague(l, FALSE)
            /\ pass' = [pass EXCEPT ![w] =
                  [p EXCEPT !.pc = "dfetch", !.others = Tail(@), !.other = l,
                            !.fresh = @ + 1, !.seen = @ \cup {l}]]
    /\ UNCHANGED <<roster, moves, known, manager, held>>

\* Back in processMarkisLeagueRosters: the size of seenLeagues is added to the
\* discovered count once per manager.  A failed GetUserLeagues ends here too.
Discovered(p) == [p EXCEPT !.pc = "store", !.owners = Tail(@), !.others = <<>>,
                           !.added = @ + Cardinality(p.seen)]

EndDiscover(w) ==
    LET p == pass[w] IN
    /\ p.pc = "discover"
    /\ \/ p.others = <<>> /\ UNCHANGED faults
       \/ p.others = UserLeagues[Head(p.owners)] /\ p.fresh = 0 /\ Fail
    /\ pass' = [pass EXCEPT ![w] = Discovered(p)]
    /\ UNCHANGED <<roster, moves, tables>>

\* Mutant of FetchOther: a discovered league is expanded like one of Markis's.
FetchOtherDeeper(w) ==
    LET p == pass[w] IN
    /\ p.pc = "dfetch"
    /\ MeetUsers(p.other)
    /\ pass' = [pass EXCEPT ![w] = [p EXCEPT !.pc = "store", !.cur = p.other,
                  !.owners = OwnersOf[p.other], !.got = roster[p.other]]]
    /\ UNCHANGED <<roster, moves, league, manager, held>>

\* syncDiscoveredLeague: as for a Markis league, but its owners' own leagues
\* are not followed.
FetchOther(w) ==
    LET p == pass[w] IN
    /\ p.pc = "dfetch"
    /\ \/ /\ MeetUsers(p.other)
          /\ pass' = [pass EXCEPT ![w] =
                 [p EXCEPT !.pc = "dstore", !.rivals = OwnersOf[p.other], !.theirs = roster[p.other]]]
       \/ /\ Fail
          /\ pass' = [pass EXCEPT ![w].pc = "discover"]
          /\ UNCHANGED known
    /\ UNCHANGED <<roster, moves, league, manager, held>>

StoreOther(w) ==
    LET p == pass[w] IN
    /\ p.pc = "dstore" /\ p.rivals # <<>>
    /\ StoreRoster(p.other, Head(p.rivals), p.theirs)
    /\ pass' = [pass EXCEPT ![w].rivals = Tail(@)]
    /\ UNCHANGED <<roster, moves, league, known>>

EndOther(w) ==
    /\ pass[w].pc = "dstore" /\ pass[w].rivals = <<>>
    /\ pass' = [pass EXCEPT ![w].pc = "discover"]
    /\ UNCHANGED <<roster, moves, tables, faults>>

\* At Sleeper a player joins or leaves a roster.
Move ==
    /\ moves < MaxMoves /\ moves' = moves + 1
    /\ \E l \in Leagues, p \in Players : \E u \in SeqRange(OwnersOf[l]) :
          roster' = [roster EXCEPT ![l][u] = IF p \in @ THEN @ \ {p} ELSE @ \cup {p}]
    /\ UNCHANGED <<tables, pass, faults>>

SyncStep(w) ==
    \/ StartSync(w) \/ NextLeague(w) \/ EndSync(w)
    \/ FetchRosters(w) \/ StoreMine(w) \/ EndMine(w)
    \/ Discover(w) \/ EndDiscover(w)
    \/ FetchOther(w) \/ StoreOther(w) \/ EndOther(w)

-----------------------------------------------------------------------------
PassState ==
    [pc : {"idle", "next", "fetch", "store", "discover", "dfetch", "dstore"},
     mine : Seq(Leagues), counted : Nat, added : Nat, seen : SUBSET Leagues,
     cur : Leagues \cup {NoLeague}, owners : Seq(Users),
     got : [Users -> SUBSET Players] \cup {<<>>},
     others : Seq(Leagues), fresh : 0..PerManager,
     other : Leagues \cup {NoLeague}, rivals : Seq(Users),
     theirs : [Users -> SUBSET Players] \cup {<<>>}]

\* Type invariant, with the foreign keys of 003_leaguemates.sql.
GraphTypeOK ==
    /\ roster \in [Leagues -> [Users -> SUBSET Players]]
    /\ moves \in 0..MaxMoves /\ faults \in 0..MaxFaults
    /\ league \in [Leagues -> {"absent", "other", "markis"}]
    /\ known \subseteq Users
    /\ manager \subseteq {l \in Leagues : league[l] # "absent"} \X known
    /\ held \subseteq {l \in Leagues : league[l] # "absent"} \X Users \X Players
    /\ pass \in [Syncers -> PassState]

MarkisLeagues == SeqRange(UserLeagues[Markis])
Leaguemates == (UNION {SeqRange(OwnersOf[l]) : l \in MarkisLeagues}) \ {Markis}

\* Only Markis's leagues and the leagues of his leaguemates are ever stored:
\* managers met in a discovered league are not followed ("NOT recursively
\* expanded", 003_leaguemates.sql:10-12), whatever overlaps, fails or moves.
OneHopOnly ==
    \A l \in Leagues : league[l] # "absent" =>
        \/ l \in MarkisLeagues
        \/ \E u \in Leaguemates : l \in SeqRange(UserLeagues[u])

\* Only a league of Markis's is flagged as his, and the flag is never lost to
\* a pass that meets the league again through another manager.
FlagsAreKept ==
    [][\A l \in Leagues : league[l] = "markis" => league'[l] = "markis"]_league
=============================================================================
