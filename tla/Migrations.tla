----------------------------- MODULE Migrations -----------------------------
(***************************************************************************)
(* The start of the daemon up to RunMigrations (internal/db/db.go): the    *)
(* pool registers the vector type on every connection, then the shipped    *)
(* migrations are applied.  A migration file is one implicit transaction;  *)
(* recording it in schema_migrations is a statement of its own, so the     *)
(* process can die in between.  A failed start exits (main.go) and the     *)
(* container is restarted (compose.yml).                                   *)
(***************************************************************************)
EXTENDS Naturals, FiniteSets

CONSTANTS
    Databases,   \* the databases the daemon may be pointed at, of Kinds
    MaxCrashes   \* bound on crashes

Kinds == {"empty", "prepared", "untracked", "upgraded"}

ASSUME MigrationsAssumption == Databases \subseteq Kinds /\ MaxCrashes \in Nat

\* The shipped files in name order, 001_schema.sql .. 008_drop_...sql.
Migrations == 1 .. 8

\* What each file brings into being, one name for tables no later file needs.
\* "embedding" is the column of news_item; chunked_content_hash arrives with
\* news_chunk.
Creates == <<{"vector", "source", "news_item", "embedding", "story_cluster", "fact"},
             {"raw_document"}, {"league"}, {"leaguemate_transaction"},
             {"leaguemate_signal"}, {"news_chunk"}, {}, {}>>

\* What a file does away with: 007 the items that count as chunked although a
\* chunk of theirs is over 6000 characters, 008 the column.
Removes == <<{}, {}, {}, {}, {}, {}, {"oversized"}, {"embedding"}>>

\* What a file alters, reads or references before it creates it itself:
\* 002 sets a default on raw_document 18 lines before it creates the table, and
\* indexes the embedding column.
Requires == <<{}, {"source", "raw_document", "news_item", "embedding",
                   "story_cluster", "fact"},
              {}, {"league"}, {}, {"news_item"}, {"news_item", "news_chunk"},
              {"news_item"}>>

\* What a database has after the first k files.
SchemaOf(k) ==
    (UNION {Creates[m] : m \in 1 .. k}) \ (UNION {Removes[m] : m \in 1 .. k})

Things == UNION {Creates[m] \cup Removes[m] : m \in Migrations}

VARIABLES
    schema,    \* which of Things there are
    recorded,  \* versions in schema_migrations
    listed,    \* those of them that the backfill put there
    pc,        \* "start", "apply", "record", "backfill", "serving", "failed"
    next,      \* the file the loop is at
    crashes    \* crashes left

startUpVars == <<schema, recorded, listed, pc, next, crashes>>

\* Type invariant; a file is recorded only while there is one in hand.
SchemaTypeOK ==
    /\ schema \subseteq Things /\ recorded \subseteq Migrations /\ listed \subseteq recorded
    /\ pc \in {"start", "apply", "record", "backfill", "serving", "failed"}
    /\ next \in 1 .. 9 /\ (pc = "record" => next \in Migrations)
    /\ crashes \in 0 .. MaxCrashes

-----------------------------------------------------------------------------
(* Initial databases *)

\* What the code takes for the prior pipeline's database: it has a source table,
\* nothing else is looked for.  Columns and references need their tables.
PriorSchemas ==
    {t \in SUBSET Things :
        /\ "source" \in t
        /\ "embedding" \in t => {"news_item", "vector"} \subseteq t
        /\ "news_chunk" \in t => {"news_item", "vector"} \subseteq t
        /\ "oversized" \in t => "news_chunk" \in t}

\* "prepared" is an empty database with the vector extension, "untracked" one
\* without schema_migrations, "upgraded" one that an earlier release with k files
\* served from.  The chunker of 006 made chunks of any length.
StartUpInit ==
    /\ \/ "empty" \in Databases /\ schema = {} /\ recorded = {}
       \/ "prepared" \in Databases /\ schema = {"vector"} /\ recorded = {}
       \/ "untracked" \in Databases /\ schema \in PriorSchemas /\ recorded = {}
       \/ /\ "upgraded" \in Databases
          /\ \E k \in 2 .. 8, chunks \in SUBSET {"oversized"} :
                /\ chunks = {} \/ k = 6
                /\ schema = SchemaOf(k) \cup chunks /\ recorded = 1 .. k
    /\ listed = {}
    /\ pc = "start" /\ next = 1
    /\ crashes = MaxCrashes

-----------------------------------------------------------------------------
(* Connecting and choosing how to start *)

\* AfterConnect cannot register a type the database does not have.
Connects == "vector" \in schema

\* Mutant of Backfills: the source table alone decides, whatever is tracked.
BackfillsUncounted == "source" \in schema

Backfills == "source" \in schema /\ recorded = {}

Detect ==
    /\ pc = "start"
    /\ pc' = IF ~Connects THEN "failed" ELSE IF Backfills THEN "backfill" ELSE "apply"
    /\ next' = 1
    /\ UNCHANGED <<schema, recorded, listed, crashes>>

\* One INSERT ... ON CONFLICT DO NOTHING of the loop that marks every shipped
\* file as applied.
Backfill ==
    /\ pc = "backfill" /\ next \in Migrations
    /\ recorded' = recorded \cup {next} /\ listed' = listed \cup ({next} \ recorded)
    /\ next' = next + 1
    /\ UNCHANGED <<schema, pc, crashes>>

-----------------------------------------------------------------------------
(* Applying *)

Skip ==
    /\ pc = "apply" /\ next \in recorded
    /\ next' = next + 1
    /\ UNCHANGED <<schema, recorded, listed, pc, crashes>>

\* The SQL of a file that is not recorded; what it misses rolls it back and
\* fails the start.
Apply ==
    /\ pc = "apply" /\ next \in Migrations \ recorded
    /\ IF Requires[next] \subseteq schema
       THEN schema' = (schema \cup Creates[next]) \ Removes[next] /\ pc' = "record"
       ELSE pc' = "failed" /\ UNCHANGED schema
    /\ UNCHANGED <<recorded, listed, next, crashes>>

Record ==
    /\ pc = "record"
    /\ recorded' = recorded \cup {next} /\ next' = next + 1 /\ pc' = "apply"
    /\ UNCHANGED <<schema, listed, crashes>>

Serve ==
    /\ pc \in {"backfill", "apply"} /\ next = 9
    /\ pc' = "serving"
    /\ UNCHANGED <<schema, recorded, listed, next, crashes>>

-----------------------------------------------------------------------------
(* Exits, crashes and restarts *)

\* Mutant of StartAgain: a start that failed once is not attempted again.
StartNever == FALSE /\ UNCHANGED startUpVars

StartAgain ==
    /\ pc = "failed"
    /\ pc' = "start" /\ next' = 1
    /\ UNCHANGED <<schema, recorded, listed, crashes>>

StartUpCrash ==
    /\ crashes > 0 /\ crashes' = crashes - 1
    /\ pc' = "failed"
    /\ UNCHANGED <<schema, recorded, listed, next>>

StartUpStep == Detect \/ Backfill \/ Skip \/ Apply \/ Record \/ Serve \/ StartAgain

StartUpNext == StartUpStep \/ StartUpCrash

StartUpSpec == StartUpInit /\ [][StartUpNext]_startUpVars /\ WF_startUpVars(StartUpStep)

-----------------------------------------------------------------------------
(* Properties *)

\* What the SQL of a file leaves behind is there, and what it removes is not;
\* 008 removes what 001 created.
Applied(m) ==
    /\ Creates[m] \ Removes[8] \subseteq schema
    /\ Removes[m] \cap schema = {}

\* A file that schema_migrations lists has really run, whatever the crashes,
\* unless the backfill listed it; and the backfill lists files only of a database
\* that tracks none, from the first file on.  So no file that an upgrade brings is
\* passed over once anything was tracked, 007 and 008 included, while on the prior
\* pipeline's database those two are listed and never run (db.go:94-143).
RecordedIsApplied ==
    /\ \A m \in recorded \ listed : Applied(m)
    /\ \A m \in listed : 1 .. m \subseteq listed

\* What the files need of a database that has lost its tracking.
Prerequisites == {"vector"} \cup (UNION {Requires[m] : m \in Migrations})

\* The daemon ends up serving for good: on what all files make of a database that
\* tracks some of them or none of whose tables are there, and on whatever an
\* untracked database has, if a start whose backfill a crash cut off can run the
\* files that are left (db.go:53-146).
EventuallyServes ==
    /\ ~Backfills => <>[](pc = "serving" /\ schema = SchemaOf(8))
    /\ Backfills /\ Prerequisites \subseteq schema => <>[](pc = "serving")
=============================================================================
