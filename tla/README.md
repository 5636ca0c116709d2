# Formal model of fantasy-football-engine

TLA+ models of the daemon under `src/`, the TLC instances that check them, and
TLAPS proofs of the results that hold for every size of the system. Every
action and helper names, in `PROJECT.json` under `map`, the lines it stands for.

    tlc -workers 2 -config MCScheduler.cfg MCScheduler.tla     # any run below
    tlapm DaemonProofs.tla                                     # any of the 8 proof modules

## 1. The system

One Go process (`cmd/fantasy-football-engine/main.go`) runs a cron scheduler
whose jobs work on one PostgreSQL database, and an MCP and REST server that reads it
and may trigger steps by hand. Nothing but the scheduler's per-name guard and
the publisher's mutex keeps jobs apart; everything else is separate SQL
statements, ON CONFLICT clauses and "select a batch, call an LLM, update by id".

| Component | State | Operations | What makes it correct |
|---|---|---|---|
| Job scheduler (`internal/scheduler`) | `running`, `status` maps; the goroutines; the process | cron tick, `TriggerStep`, `runJob`, `Stop`, exit, restart | one run per name; no name blocked for good; status in start order; stop ends and waits for cron's runs |
| News ingest (`pipeline/fetch.go`, `fp_news.go`) | `news_item` rows | lookup, insert, update, evergreen de-flagging | re-ingest never undoes what later steps decided |
| Body fetching (`bodies.go`) | `body_fetch_status`, attempts | reset of stale claims, select, claim, store | no article stuck |
| Dedup and enrichment (`dedup.go`, `enrich.go`) | `quality_score`, `is_relevant`, `is_news` | batch select, mark, classify | a story never disappears altogether; marks are final; every item judged |
| Facts and stories (`facts.go`, `stories.go`) | facts, `story_text` | batch select, extract, write | no text about hidden or unvetted items |
| Chunks and vectors (`chunk.go`, `embed.go`) | `news_chunk` rows, `chunked_content_hash` | replace chunks in a transaction, fill in vectors | a vector belongs to its text; no change is missed |
| Clustering (`cluster.go`) | `story_cluster`, `cluster_id` | select, reuse or create, list, score | membership and `item_ids` agree; every item gets a cluster |
| Publisher (`internal/corpus`) | staging tree, corpus worktree, git head, remote, mutex | render, validate, compare, copy, commit, push | commits consistent; no evidence goes silently; remote catches up |
| Start-up (`internal/db`) | schema, `schema_migrations` | connect, backfill, apply, record | nothing a tracked database lacks is recorded; the daemon comes up |
| Sleeper client (`internal/sleeper`) | response cache | get, evict, fetch with retries, store, sweep, reset | answers recent; the cache bounded |
| Leaguemate sync (`sync/leaguemates.go`) | league, user, manager and roster rows | walk from Markis's leagues to his leaguemates and their leagues | one hop only; his leagues stay flagged; rosters mirrored |
| Trade sync, assessment (`leaguemates_trades.go`, `assess_leaguemates.go`) | transaction, asset and signal rows | scan weeks, upsert, delete and reinsert; weekly snapshot | no asset twice, none lost; only leaguemates assessed |
| Player and injury syncs (`players.go`, `fp_injuries.go`) | player rows | stream and flush; match and update | the table converges to the sources |
| Ranking syncs (`rankings.go`, `fantasycalc.go`, `fp_rankings.go`) | ranking and history rows | fetch, match, upsert, delete stale | no ranked row deleted for good, no stale one kept |
| MCP server (`internal/mcp`) | requests under way | dispatch, call handlers, reply | every request ends |
| Embedding and LLM clients | none | HTTP calls, halving of long texts | the halving ends |
| Query service, health, config, telemetry | none of their own | read-only | visibility filter |

Interactions: the scheduler starts the steps of all other components; the
pipeline components meet in the columns of `news_item` and `news_chunk`; the
publisher reads the database and owns two trees on a volume; the syncs meet in
the league and player tables, and share one Sleeper client with the MCP server,
which also calls `TriggerStep`; a crash (container restart) hits all of them at once.

The hard behaviours are: batches selected before a slow call and written back
after it; two jobs, or a job and its manual twin (named `manual:<step>`, which
the guard tells apart from the scheduled one), running the same step; crashes
between two statements or two files; and loops that rely on "a later run will
pick it up". `PROJECT.json` lists the hazards at their lines.

## 2. Modules

| Module | Models | State ↔ code |
|---|---|---|
| `Scheduler` | `scheduler.go`, process life in `main.go` | `running`, `status` are the maps; `run[r]` a goroutine's place in `runJob`; `clock` orders `time.Now()`; `daemon` is up, inside `Stop`, or exited |
| `JobGuard` | abstract specification: each name free or held by one run | refined by `Scheduler` with `holder` computed from `run` |
| `ItemLife` | abstract specification: an item arrives, waits, gets one verdict, and something is told about vetted ones only | refined by `NewsPipeline`: `verdict` is read off `quality_score`, `since` off `created_at`, `told` off the facts and the story |
| `NewsPipeline` | ingest, bodies, dedup, enrich, facts, stories | `row[i]` the columns the steps test and set; `worker[w]` one step execution with the batch and lengths it read |
| `ChunkEmbed` | chunker and embedder on one item while its text is rewritten | `item`, `chunks` the rows; `chunker[c]` the transaction and what it read; `embedder[e]` the rows being computed |
| `Publisher` | `Publish` from `TryLock` to push | `staging`, `corpus`, `head` trees of files; a log is its last entry for each record; `lock` is `mu`; `run[p]` the call's progress; `expired` the records out of the retention window |
| `Migrations` | connecting and `RunMigrations`, exit and restart | `schema` the tables, the `embedding` column and whether oversized chunks are left, `recorded` the rows of `schema_migrations`, `listed` those the backfill wrote, `pc`/`next` the loop |
| `Clusters` | `AssignBatch` and what it calls | `clusterOf` is `news_item.cluster_id`, `itemIds` and `score` the cluster's row; `pass[c]` one execution |
| `LeagueGraph` | the leaguemate sync | `league`, `known`, `manager`, `held` the tables; `roster` what Sleeper holds; `pass[w]` the locals of `Sync` and its callees |
| `LeagueTrades` | extends it by the trade sync and the assessment, which run beside it over the same tables | `txn`, `copies`, `signal` the tables; `trader[w]`, `review` the executions; `week`, `done` Sleeper |
| `StaleReads` | abstract specification: a call ends with an error or with a version that was current less than `Lag` before it began | refined by `SleeperCache`, `Lag` being the expiry plus the timeout |
| `SleeperCache` | `get` and `doGet` under concurrent callers | `cache` the map with expiries; `call[c]` a call between its separate lock sections; `since` Sleeper's history |
| `McpServer` | extends it by the MCP requests that use the client | `serving[c]` a request on connection `c`; `Tools` the registered table |
| `PlayerData` | the player and injury syncs | `player` the table; `dump`, `reports` the sources; `loading`, `healing` the executions |
| `Rankings` | extends it by the ranking syncs, which match with the player table | `ranking`, `history` the tables, by edition; `list` the sources; `ranker[w]` an execution |
| `NewsPipelineProofs`, `ChunkEmbedProofs`, `PublisherProofs`, `ClustersProofs` | theorems about the module of that name | |
| `LeagueTradesProofs`, `McpServerProofs`, `RankingsProofs` | theorems about it and the module it extends | |
| `DaemonProofs` | theorems about `Migrations` and `Scheduler`, what a process does before and while it serves | |
| `MC*` | instances for TLC | |

Every statement that commits on its own is one action; what the code does
between two statements (LLM calls, HTTP, parsing) is where other actions
interleave. Answers of LLMs, feeds and pages are nondeterministic. A text is its
length, a page a length (0: unusable), a file's content a time stamp or a status,
similarity a relation between items, a ranking row the edition of the list it
came from, a cached answer the version of its page. Definitions marked `Mutant of X` are
plausible mistakes in `X`; nothing in the specifications uses them.

## 3. What TLC checks

| Run | Instance | Shows |
|---|---|---|
| `MCScheduler` | 2 goroutines, 3 config entries of which two share a name, 1 manual job, 3 starts | `SingleFlight`, `RunningIsOwned`, `StatusMovesForward`, `ImplementsGuard`; `StopCompletes`, `CronRunsAreRecorded` |
| `MCNewsVetting` | an RSS and an API item that are alike; RSS, API, combined, facts and stories executions; 1 failure or crash | `NeverHiddenTogether`, `TextIsVetted`, `DuplicatesStayHidden`, `ImplementsItemLife` |
| `MCNewsLive` | an evergreen article; pages that fail, and pages that replace the feed's text; a body fetcher and a manual twin, dedup and enrich as separate jobs; 2 attempts; 1 failure or crash | `AttemptsAreBounded`, `BodiesResolve`, `EveryItemIsJudged` |
| `MCPublisher` | a daily run and an export, 1 section, 1 evidence record that may leave the retention window; any 2 failures of different classes | `TypeOK` (the lock is held exactly by the run under way), `CommitsAreConsistent`, `EvidenceIsLogged`, `RemoteCatchesUp` |
| `MCChunk` | 1 chunker, 2 embedders, 3 texts; 1 RSS and 2 page writes; 1 failure or crash | `VectorsMatchTexts`, `EventuallySearchable` |
| `MCMigrations` | untracked databases with any of the tables and those of each earlier release, with and without oversized chunks; 3 crashes | `RecordedIsApplied`, `EventuallyServes` |
| `MCClusters` | 2 similar items of one title and two sources, batches of 1; the job alone or with a manual pass; 2 failures or crashes | `ClustersAreConsistent`, `EveryItemIsClustered` |
| `MCLeague` | 2 leagues of Markis's, one of a leaguemate's, one out of reach; a trade; 2 weeks; 1 failure or crash | `TypeOK` (the foreign keys), `OneHopOnly`, `FlagsAreKept`, `AssetsAreNotDoubled`, `OnlyLeaguematesAreAssessed` |
| `MCLeagueLive` | 1 league, 1 trade of a player and a pick, 1 roster move; 1 failure or crash | `TradesBecomeWhole`, `FirstLeagueIsMirrored` |
| `MCRankings` | 2 players, batches of 1; the player sync with the injury sync or with a ranking job of each kind, FantasyCalc with two markets; 1 change of a source, 1 failure or crash | `OnlyUnrankedGo`, `RankingsConverge`, `PlayersConverge` |
| `MCMcp` | a connection and a sync over one client, 2 pages, a cache of 1 entry, 2 attempts; 9 kinds of request; 1 change at Sleeper | `TypeOK` (the cache stays within its threshold), `AnswersAreRecent`, `RequestsEnd` |
| `MCMigrationsFresh` | an empty database with the vector extension | violated: `EventuallyServes` |

**Bounds.** `MaxStarts`, `MaxFaults`, `MaxWrites`, `MaxCrashes`, `MaxChanges`, `MaxMoves`,
`MaxWeek`, `MaxTime` and `MaxAttempts` (a
constant of the code, 2 instead of its value) bound behaviours. Two runs of one
name, one more run to overtake them, and a stop are the shortest way to break
the guard. The pipeline properties relate two or three items, or one item
to one stale execution; every step kind that writes the columns of a
property is present in its run. The stamps of `Publisher` and the
batches of row ids of `ChunkEmbed` are finite, and never run out: its trees and manifests hold
six stamps, its rows, transactions and embedders one batch for each chunker. The batch limits of `NewsPipeline` are left out: its
instances have fewer items than the smallest batch. The limit of `Clusters` is one
below the number of items, `FlushSize` of `PlayerData` is 1, and `Threshold` of
`SleeperCache` is 1 of 2 pages, so that each of these limits is met; `MaxLeagues` of
`LeagueGraph` is the code's 15 and is not met. A week or a time unit is the unit the code
compares. `MCRankings` and `MCClusters` start from each configuration of `Schedules`:
a ranking job meets the player sync, and only its manual twin writes the same key. Such a pair is
left to the theorem `OnlyUnrankedGoes`, as two trade syncs are to `CopiesAreBounded`:
with two of them the instance of `MCLeague` has too many states.
`MCNewsVetting` shows `NeverHiddenTogether` for two items. `AttemptsAreBounded` allows one
claim beyond the limit in `MCNewsLive`, which has two body fetchers, and they do reach it. Deadlock
is not checked only in `MCMigrations*`, where a daemon that serves has nothing left to do in the model.

**Failure classes of `Publisher`.** *Torn* failures (crash, copy error) leave the corpus half
copied; *missed* ones (evidence error, a record that cannot be read or written, an entry that
cannot be appended) evidence that the log of its own run does not speak of; *unlisted* ones (manifest
not rendered or not copied) files beside an old manifest; a *cut* drops entries of the previous
log, for its size or because it cannot be read or written; the others are clean. Missed,
unlisted and cut failures are only logged, and the run publishes. `CommitsAreConsistent` is claimed until
an unlisted failure. `EvidenceIsLogged` is claimed while nothing is missed: a superseded record of
the retention window keeps its entry through crashes, failed copies and cuts, because every run logs all
superseded records after it cut the log. An added record that stays current is logged once, so its
entry is claimed only until a log is cut or a copy torn, and nothing is claimed of a record that
left the window. Cuts drop the entries of any set of records, more than the oldest-first cut of
the code does; a previous log of which only a part was written counts as cut.

**Fairness.** Weak fairness of every goroutine's or execution's next step: steps run under
a context with a deadline and HTTP clients with timeouts. In `NewsPipeline` and `ChunkEmbed`
also of starting a batch, and in `Publisher` of starting a daily run, since the cron schedule repeats
them for ever. Feeds, writes, triggers, exports, ageing records, signals and failures are not
fair. The same holds for the syncs and the clustering, whose jobs are in the schedule, and for every
call of the Sleeper client, which is answered or times out after its attempts; pages,
rosters, lists, trades, clients that hang up and the embedder are not fair.
Time passing (`ClaimGoesStale`) is fair, as is the
container's restart in `Migrations` (`restart: unless-stopped`). `RemoteCatchesUp`
does not hold while exports keep taking the lock, so it is stated for behaviours
in which they stop.

## 4. What is proved

All safety properties of the runs, and the types of `Scheduler` and `Migrations`, for every value of the constants
that the ASSUMEs of the modules allow. Hardly one is inductive; each proof module opens with
the strengthened invariant, one lemma per action follows, and the theorems are at its end.

| Module | Theorems | Hypothesis |
|---|---|---|
| `DaemonProofs` | `TypeCorrect`, `SingleFlightHolds`, `RunningIsOwnedHolds`, `StatusMovesForwardHolds`, `ImplementsGuardHolds`, `UpgradeTypeCorrect`, `RecordedIsAppliedHolds` | none |
| `NewsPipelineProofs` | `TypeCorrect`, `NeverHidden`, `TextsAreJudged`, `AttemptsBounded` | none |
| | `TextsAreVetted`, `MarksAreFinal`, `ImplementsLife` | `SoleJudge` |
| `PublisherProofs` | `TypeCorrect`, `Consistency`, `NothingSilent` | none |
| `ChunkEmbedProofs` | `TypeCorrect` | none |
| | `VectorsMatch` | `SoleChunker` |
| `ClustersProofs` | `TypeCorrect`, `Consistency` | none |
| `LeagueTradesProofs` | `TypeCorrect`, `OneHop`, `FlagsTrue`, `FlagsKept`, `OnlyLeaguemates`, `CopiesAreBounded` | none |
| | `AssetsOnce` | `SoleTrader` |
| `McpServerProofs` | `TypeCorrect`, `Refinement` | none |
| `RankingsProofs` | `TypeCorrect`, `OnlyUnrankedGoes` | none |

**Scheduler.** `SingleFlight` needs that a goroutine that owns a name has it in
`running` (`BusyHasJob`, `RunningIsOwned`), and that an exited
daemon has only idle goroutines (`ExitedIsIdle`), or a restart would start beside old
runs. For the status order, the clock bounds every start (`ClockIsLatest`), and the run that
owns a name started after the status recorded for it, unless it is that
status (`OwnerIsNewer`). `ImplementsGuard` follows by mapping each
action to a step or a stutter of `JobGuard`, where `SingleFlight` makes the
owner of a name unique.

**News pipeline.** Every hidden row resembles a row created before it (`HiddenHasOlder`), and
a row keeps its place in time; the oldest of a group of hidden rows therefore resembles a row
outside the group, for any number of items and overlapping passes. For `TextsAreVetted` and
`MarksAreFinal`, `Vetted` says that the texts' batches hold classified items and the judge's
batch undecided ones. That is only so with one execution that judges (`SoleJudge`), which the
shipped configuration has in its combined step while nobody triggers a second one by hand; with
two, one writes over the other's verdict (section 5). What is left without the hypothesis is
`TextsAreJudged`: a score is never taken back, so what a batch of texts selected stays scored.

`ImplementsLife` maps a score to a verdict, `created_at` to the order of arrival, and facts or a
story to something told. Every action changes one row, and so is one step of one item of
`ItemLife` or a stutter; `Vetted` gives the guards of `Vet` and `Tell`, and `HiddenHasOlder` that of `Hide`.

`AttemptsBounded` counts, for one article, what was claimed and the batches that hold it and may
still claim it (`Waiting`). A batch joins only below the limit, a claim moves one from the second
to the first, and neither re-ingest nor a reset lowers the count; the batches are at most as many
as the body fetchers.

**Publisher.** `Locked` lets one run at a time leave `idle`. `Listed`: until a manifest is
lost, the staged manifest lists the staged tree as it is, what is not to copy any more was
copied, and what is committed was listed. `Recorded`, while nothing is
missed: every superseded record of the window is carried into the staged tree (`Carried`), the
run's summary names what it changes (`Summed`), the log completed from it speaks of every staged
superseded record (`Complete`), and so does the corpus once it was copied. This does not ask what the
corpus was before, so no crash undoes it. The entries of all other records come from the
log of the corpus, hence `AllIn` only until a log is cut or a copy torn.

**Chunks.** That (item, chunk_index) is unique follows from ON CONFLICT, however transactions
overlap, provided that the ids inserted are new. They are as long as few batches are in use
(`FewBatches`): a transaction deletes what is left of the batch its own chunker inserted before,
so that the rows are of at most one batch for each chunker, and so is what an embedder or a
transaction read. With one chunker, a transaction about to insert deletes every row
(`InTx`), and a row id names a text for good (`TextsStand`). Two overlapping transactions break
`InTx`, and `VectorsMatchTexts` with it: hence `SoleChunker`, one chunk job at a time.

**Migrations.** `ListedSoFar`: the backfill has listed the files before the one in hand, and
nothing else is recorded. `ApplyingIsDone`: the file about to be recorded has run.
`FirstIsRecorded`: `001_schema.sql` runs only while nothing is recorded, so it
never brings back the column that `008` drops. `Effects` says which files could undo each other.
Nothing is assumed of an untracked database but that it has a `source` table.

**Clusters.** `Pointed`: without a fault, the cluster of an item lists it, or the pass that set the
pointer is about to. `Lone` adds for a pass that is alone: what it still has to do has no
cluster; only the item in hand may be listed without pointing back; nothing is
listed twice; every cluster but the one in hand has its score; and the weight it is about to
store is that of the cluster.

**Leagues and trades.** `Walks` holds a pass to the graph: from a league of Markis's to its
owners, from an owner to his leagues, and no further. `FlagsTrue` makes whoever manages a
flagged league a leaguemate, and `FlagsKept` keeps him one until his assessment is stored
(`ReviewOK`). A trade sync inserts an asset once after the old rows are gone
(`LeftIsFresh`); that is false as soon as two trade syncs overlap, so
`AssetsOnce` is for one of them (`SoleTrader`), as the per-name guard has it for the
scheduled job alone. For any number, `CopiesAreBounded`: the copies of an asset and the syncs
that are still to insert it are together at most as many as the syncs, since a sync joins those
only by deleting the copies. Two syncs do store an asset twice.

**Rankings.** Player rows are never deleted and editions only grow, so that what a sync knew when it
looked stays true (`RankerOK`): its lookup holds known players, its edition was published. A
row written is of such a player and edition, whatever happened since: `TypeCorrect`. For
`OnlyUnrankedGoes`, a sync other than FantasyPros' has every matched player either still to do or
seen (`left` and `fresh` are together `members` and `lookup`), so that a row its cleanup takes
belongs to no matched player. FantasyPros' keeps only what it stored (section 5), and the
property asks of it only that the key is its own.

**Sleeper client.** `EntriesOK` bounds the age of an entry by its expiry and `CallsOK` that of a
fetched page by the deadline of the fetch; a hit, a late store over a newer entry and an
eviction of a fresh one all keep both. `Refinement` maps `ended` to an answer of `StaleReads`
with `Lag` = expiry + timeout and everything else to a stutter. `SizeOK` bounds the cache.

**Assumptions on constants.** Sets of rows are finite where the code counts or orders them
(items, leagues, passes); sentinels are no data (`NoRun`, `NoTrade`, `Absent`, ...); there
are more stamps, and more batches of row ids, than can be in use, as the clock and the
sequence of PostgreSQL never repeat; durations and limits are numbers, positive
where the code's are. `VersionsAssumption` is about texts that yield a
chunk; one that yields none is skipped (`chunk.go:83-90`).

**Only model-checked:** all liveness (liveness under fairness and ENABLED are
outside TLAPS). Induction over data, and recursive operators, cannot be proved about; the
models have none.

## 5. Findings

`002_pipeline.sql:37` alters `raw_document` before creating it: a fresh database
never comes up (`MCMigrationsFresh`).

Seen while modelling and kept in the models, without a run of their own.

Start-up:
- on the prior pipeline's database the backfill lists `007` and `008` without running them
  (`db.go:94-112`): chunks over 6000 characters stay, and so does the `embedding` column. It lists all
  files for any database with a `source` table, whatever else that lacks;
- a crash in the middle of the backfill makes the next start run the files that are left
  (`db.go:94-99` counts rows): of a database without their tables it never comes up, hence the
  premise of `EventuallyServes`;
- a crash after `001_schema.sql` on a fresh database and before its row makes the next start
  backfill, so that the rest never runs.

News and clusters:
- `enrich.go:151` sets `is_news = true` on every item it scores, so an evergreen
  article surfaces until its next re-ingest (`fetch.go:474` says never);
- `fetch.go:415` hashes the summary, so a longer text with the same summary is
  never chunked again;
- stored text can shrink, since lengths are compared with a text read earlier
  (`bodies.go`, `fetch.go`);
- an item that arrives after the dedup query, or whose dedup query failed, is scored unseen
  by dedup;
- `pipeline.dedup` and `pipeline.enrich` as separate overlapping jobs can
  overwrite each other's marks; the shipped configuration uses the combined step;
- an article out of attempts that re-ingest puts back to pending never gets facts, and two
  overlapping body fetchers can exceed the attempts;
- two overlapping chunk transactions meet in ON CONFLICT, which keeps the old
  vector beside the new text;
- overlapping clustering passes, or one whose statement failed, leave an item in
  `item_ids` twice or in a cluster it does not point to, and a stale score.

Publisher:
- `evidence.go:92` counts long superseded records as superseded again, so
  every run logs them anew: what fills the log, and what saves their entries when it is cut;
- the cut drops the "added" entry of a record that stays current
  (`current_leaguemates_manifest.go:328-330`), and an unreadable log is replaced by an empty one
  (`:321-327`): its entry never comes again;
- a record that cannot be read or written and an entry that cannot be appended are passed over
  (`evidence.go:80-82`, `:564-567`, `current_leaguemates_manifest.go:385`), and the tree is published;
- a record that leaves the retention window stays in the corpus with the status it has;
- a publish commits without a section that failed, and beside an old manifest when the
  new one cannot be written;
- a crash between copying a new record and the log loses its "added" entry.

Leagues and trades:
- a league of Markis's met first through a leaguemate is stored as another's and then
  skipped by the same pass (`leaguemates.go:66-68`); `FirstLeagueIsMirrored` is about the first;
- `LeaguesSeen` grows by the number of all leagues seen, once per manager
  (`leaguemates.go:129`), so the budget of 15 is used up early;
- rows of players who left a roster are never deleted, though `003_leaguemates.sql:18-21`
  describes delete and reinsert;
- the flags of a trade are those of its first insert (`leaguemates_trades.go:210`);
- two overlapping trade syncs store assets twice, which `004_leaguemates_tier2.sql:77-78`
  calls impossible by construction; the per-name guard prevents it for one name.

Players and rankings:
- no lookup asks for `rows.Err`, so one that breaks off is taken for complete and the cleanup
  deletes the rows of players it lacks, until the next sync (`ranking_helpers.go:22-33`);
- a FantasyPros row whose upsert failed is not fresh, so the cleanup deletes the older one
  (`fp_rankings.go:181-184`); the other two syncs keep it;
- `player_ranking_history` is written by `fantasycalc.go` only, where `001_schema.sql` names
  the rankings sync too.

Sleeper client and MCP:
- a slow fetch stores an older page over a newer one, and an evicting caller may delete a
  fresh entry; `AnswersAreRecent` bounds the age of what is served, not its order;
- `missingRequired` (`server.go:763`) looks at a `[]string` only, while twelve tools list
  their arguments as `[]any`: their required arguments are not enforced, contrary to
  its comment;
- the write timeout (10 s) is shorter than a fetch (30 s, three attempts): the reply
  is lost, the fetch goes on and fills the cache.

## 6. What is not modelled, and the plan

Rendering, SQL reads, scoring formulas, prompts, HTML, telemetry and
configuration are I/O or pure data. Simhash, chunk splitting and vector distance
are abstracted to relations and counts. `assess_teams.go` writes one snapshot from one
read. The poll state of a feed (etag, `raw_document`), the connection pool and the halving
of the embedding client have behaviour of their own and are not modelled yet.

Order of the work, most important behaviour first:
1. *Done:* the modules above, and the proofs of all safety properties and of the refinements of
   `JobGuard`, `ItemLife` and `StaleReads`.
2. *Modules still worth writing:* the poll state of a feed; the connection pool with nested
   acquisition; the halving of a text as a function checked against its definition.
3. *In existing modules:* batch limits in `NewsPipeline`, a kill of the daemon in `Scheduler`.
4. *Abstract specification still worth stating:* a published corpus as a sequence of
   consistent snapshots (`Publisher`).
