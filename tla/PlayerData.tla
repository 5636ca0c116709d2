----------------------------- MODULE PlayerData -----------------------------
(***************************************************************************)
(* The player table and its two writers: the nightly player sync           *)
(* (internal/sync/players.go), which streams Sleeper's dump into the table *)
(* batch by batch, and the hourly injury sync (fp_injuries.go), which      *)
(* overwrites the injury columns of the players FantasyPros lists.  They   *)
(* share no lock; each works on what it fetched or looked up at its start. *)
(***************************************************************************)
EXTENDS Naturals, Sequences, FiniteSets

CONSTANTS
    Players,
    Schedules,    \* the sets of jobs a configuration file may schedule
    FlushSize,    \* rows a batch holds before it is written (500)
    MaxChanges,   \* bound on changes at the sources
    MaxFaults     \* bound on failed calls, failed statements and crashes

ASSUME PlayerAssumption ==
    FlushSize \in Nat \ {0} /\ {MaxChanges, MaxFaults} \subseteq Nat

VARIABLES
    scheduled, \* the jobs of the configuration file: "players", "injuries", ...
    changes,   \* changes at the sources so far
    dump,      \* Sleeper: dump[p], absent or p's record [active, hurt]
    reports,   \* FantasyPros: the players on its injury list
    player,    \* table player: absent, or the row's [active, hurt]
    loading,   \* the local state of the player sync
    healing,   \* the local state of the injury sync
    faults     \* failures that may still happen

sourceVars == <<dump, reports>>
playerVars == <<scheduled, changes, dump, reports, player, loading, healing, faults>>

NoRecord == [active |-> FALSE, hurt |-> FALSE, known |-> FALSE]
Record(active, hurt) == [active |-> active, hurt |-> hurt, known |-> TRUE]
Records == [active : BOOLEAN, hurt : BOOLEAN, known : {TRUE}] \cup {NoRecord}

IdleLoading == [pc |-> "idle", dump |-> <<>>, left |-> {}, batch |-> {}]
IdleHealing == [pc |-> "idle", left |-> {}, lookup |-> {}]

\* At first every player is active and healthy at Sleeper, on the injury list of
\* FantasyPros and unknown to the engine.
PlayerInit ==
    /\ scheduled \in Schedules
    /\ changes = 0 /\ faults = MaxFaults
    /\ dump = [p \in Players |-> Record(TRUE, FALSE)] /\ reports = Players
    /\ player = [p \in Players |-> NoRecord]
    /\ loading = IdleLoading /\ healing = IdleHealing

Fail == faults > 0 /\ faults' = faults - 1
Known == {p \in Players : player[p].known}
Active == {p \in Known : player[p].active}

-----------------------------------------------------------------------------
\* Sync of players.go.  doGet returns the dump; a failure ends the sync.
StartLoading ==
    /\ "players" \in scheduled /\ loading.pc = "idle"
    /\ loading' = [pc |-> "stream", dump |-> dump, batch |-> {},
                   left |-> {p \in Players : dump[p].known}]
    /\ UNCHANGED <<scheduled, changes, sourceVars, player, healing, faults>>

\* StreamPlayerDump decodes the next player and the callback adds it to the
\* batch.  A body that is cut off ends the sync; the batch at hand is lost.
StreamPlayer ==
    /\ loading.pc = "stream" /\ Cardinality(loading.batch) < FlushSize
    /\ \/ /\ \E p \in loading.left :
                loading' = [loading EXCEPT !.left = @ \ {p}, !.batch = @ \cup {p}]
          /\ UNCHANGED faults
       \/ loading' = IdleLoading /\ Fail
    /\ UNCHANGED <<scheduled, changes, sourceVars, player, healing>>

\* flush: a statement per row; one that fails is logged.
FlushRow ==
    /\ loading.pc = "stream" /\ loading.batch # {}
    /\ Cardinality(loading.batch) = FlushSize \/ loading.left = {}
    /\ loading' = [loading EXCEPT !.pc = "flush"]
    /\ UNCHANGED <<scheduled, changes, sourceVars, player, healing, faults>>

\* Mutant of Projected: the injury columns of a healthy player stay.
KeepsInjury(r, old) == [r EXCEPT !.hurt = @ \/ old.hurt]

\* projectPlayer: every column is written, the empty ones too.
Projected(r, old) == r

WriteRow ==
    /\ loading.pc = "flush"
    /\ \E p \in loading.batch :
          /\ \/ player' = [player EXCEPT ![p] = Projected(loading.dump[p], @)] /\ UNCHANGED faults
             \/ UNCHANGED player /\ Fail
          /\ loading' = [loading EXCEPT !.batch = @ \ {p},
                            !.pc = IF loading.batch = {p} THEN "stream" ELSE @]
    /\ UNCHANGED <<scheduled, changes, sourceVars, healing>>

EndLoading ==
    /\ loading.pc = "stream" /\ loading.left = {} /\ loading.batch = {}
    /\ loading' = IdleLoading
    /\ UNCHANGED <<scheduled, changes, sourceVars, player, healing, faults>>

-----------------------------------------------------------------------------
\* Sync of fp_injuries.go: the list is fetched, or the sync fails.
StartHealing ==
    /\ "injuries" \in scheduled /\ healing.pc = "idle"
    /\ healing' = [IdleHealing EXCEPT !.pc = "lookup", !.left = reports]
    /\ UNCHANGED <<scheduled, changes, sourceVars, player, loading, faults>>

\* playerLookupMaps: the active players, by Yahoo id and by name and team.  A
\* query that fails ends the sync; rows.Err is not asked for, so one that breaks
\* off between two rows leaves a smaller lookup.
LookupPlayers ==
    /\ healing.pc = "lookup"
    /\ \/ healing' = [healing EXCEPT !.pc = "update", !.lookup = Active] /\ UNCHANGED faults
       \/ healing' = IdleHealing /\ Fail
       \/ /\ \E some \in SUBSET Active :
                healing' = [healing EXCEPT !.pc = "update", !.lookup = some]
          /\ Fail
    /\ UNCHANGED <<scheduled, changes, sourceVars, player, loading>>

\* updatePlayerInjury for the players that match; an error skips the item.
UpdateInjury ==
    /\ healing.pc = "update"
    /\ \E p \in healing.left :
          /\ \/ p \in healing.lookup /\ player' = [player EXCEPT ![p].hurt = TRUE] /\ UNCHANGED faults
             \/ p \in healing.lookup /\ UNCHANGED player /\ Fail
             \/ p \notin healing.lookup /\ UNCHANGED <<player, faults>>
          /\ healing' = [healing EXCEPT !.left = @ \ {p}]
    /\ UNCHANGED <<scheduled, changes, sourceVars, loading>>

EndHealing ==
    /\ healing.pc = "update" /\ healing.left = {}
    /\ healing' = IdleHealing
    /\ UNCHANGED <<scheduled, changes, sourceVars, player, loading, faults>>

-----------------------------------------------------------------------------
\* A player joins the dump, is deactivated, gets hurt or recovers at Sleeper.
SleeperChanges(p) ==
    /\ \E r \in Records \ {NoRecord, dump[p]} : dump' = [dump EXCEPT ![p] = r]
    /\ UNCHANGED <<scheduled, reports, player, loading, healing, faults>>

\* FantasyPros reports a player as injured, or stops to.
ReportsChange(p) ==
    /\ reports' = IF p \in reports THEN reports \ {p} ELSE reports \cup {p}
    /\ UNCHANGED <<scheduled, dump, player, loading, healing, faults>>

LoadingStep == StartLoading \/ StreamPlayer \/ FlushRow \/ WriteRow \/ EndLoading
HealingStep == StartHealing \/ LookupPlayers \/ UpdateInjury \/ EndHealing

-----------------------------------------------------------------------------
PlayerTypeOK ==
    /\ changes \in 0..MaxChanges /\ faults \in 0..MaxFaults
    /\ dump \in [Players -> Records] /\ player \in [Players -> Records]
    /\ reports \subseteq Players
    /\ loading.pc \in {"idle", "stream", "flush"}
    /\ Cardinality(loading.batch) <= FlushSize /\ loading.batch \cap loading.left = {}
    /\ loading.pc = "flush" => loading.batch # {}
    /\ healing.pc \in {"idle", "lookup", "update"}
    /\ healing.left \subseteq Players /\ healing.lookup \subseteq Known

\* Once the sources rest, every player of the dump is in the table in the end
\* and active or not as in the dump, and an injury that both sources have taken
\* back stays gone: cut-off streams, failed statements and an injury sync that
\* writes what it fetched before the player sync corrected it only delay this.
PlayersConverge ==
    <>[](\A p \in Players : dump[p].known =>
           /\ player[p].known /\ player[p].active = dump[p].active
           /\ player[p].hurt => dump[p].hurt \/ p \in reports)
=============================================================================
