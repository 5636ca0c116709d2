---------------------------- MODULE NewsPipeline ----------------------------
(***************************************************************************)
(* The life of a news_item row (internal/pipeline): RSS and FantasyPros    *)
(* ingest and re-ingest, full-body fetching, duplicate marking, relevance  *)
(* classification, fact extraction and story writing.  Every step selects  *)
(* a batch, talks to a feed, a page or an LLM, and writes back by row id;  *)
(* the steps of different jobs, and of a cron job and its manual twin,     *)
(* interleave statement by statement and share nothing but the row.        *)
(***************************************************************************)
EXTENDS Naturals, FiniteSets

CONSTANTS
    RssItems,     \* feed entries, one per canonical URL of a source
    ApiItems,     \* FantasyPros API items
    Linked,       \* RSS entries that carry a link
    Evergreen,    \* RSS entries whose URL matches an evergreen pattern
    Similar,      \* pairs {i, j} that a duplicate check may find alike
    FeedLens,     \* text lengths a feed delivers for an entry
    PageLens,     \* text lengths a fetched page yields; 0: unusable page
    LongLen,      \* a feed text longer than this needs no page (2000 chars)
    MaxAttempts,  \* maxBodyAttempts
    Workers,      \* step executions that may be in progress at once
    KindOf,       \* KindOf[w]: the step worker w executes
    MaxFaults,    \* bound on failed statements and daemon crashes
    NoItem

Items == RssItems \cup ApiItems

Kinds == {"rss", "api", "body", "dedup", "enrich", "combined", "facts", "stories"}

ASSUME ItemsAssumption ==
    /\ Linked \subseteq RssItems /\ Evergreen \subseteq RssItems
    /\ RssItems \cap ApiItems = {}
    /\ NoItem \notin Items /\ IsFiniteSet(Items)
ASSUME WorkersAssumption == KindOf \in [Workers -> Kinds] /\ IsFiniteSet(Workers)
ASSUME BoundsAssumption ==
    /\ FeedLens \subseteq Nat /\ PageLens \subseteq Nat
    /\ LongLen \in Nat /\ MaxAttempts \in Nat /\ MaxFaults \in Nat

VARIABLES
    row,     \* row[i]: the news_item row of item i (born = 0: no row yet)
    worker,  \* worker[w]: where an execution is and what it has read
    faults   \* failures left

vars == <<row, worker, faults>>

NoRow == [born |-> 0, isNews |-> FALSE, isRelevant |-> FALSE, quality |-> "null",
          body |-> "pending", attempts |-> 0, stale |-> FALSE, len |-> 0,
          facts |-> FALSE, story |-> FALSE]

IdleWorker == [pc |-> "idle", todo |-> {}, item |-> NoItem, text |-> 0,
               seen |-> [i \in Items |-> 0]]

Init ==
    /\ row = [i \in Items |-> NoRow]
    /\ worker = [w \in Workers |-> IdleWorker]
    /\ faults = MaxFaults

Exists(i) == row[i].born > 0

Rows == {i \in Items : Exists(i)}

Idle(w, kind) == KindOf[w] = kind /\ worker[w].pc = "idle"

Goto(w, state) == worker' = [worker EXCEPT ![w] = state]

SetRow(i, r) == row' = [row EXCEPT ![i] = r]

\* A batch step reads its work list in one SELECT and works it off item by item.
StartBatch(w, pc, batch) == Goto(w, [IdleWorker EXCEPT !.pc = pc, !.todo = batch])

DropFromBatch(w, i) ==
    Goto(w, [worker[w] EXCEPT !.todo = @ \ {i}, !.item = NoItem, !.seen[i] = 0])

EndBatch(w, pc) ==
    /\ worker[w].pc = pc
    /\ worker[w].todo = {}
    /\ Goto(w, IdleWorker)
    /\ UNCHANGED <<row, faults>>

-----------------------------------------------------------------------------
(* RSS ingest: pipeline/fetch.go, one feed entry at a time.                *)

\* normalizeFeedItem: the status an entry's text length gives its row.
FeedBodyStatus(i, n) ==
    CASE n > LongLen  -> "fetched"
      [] n <= LongLen /\ i \in Linked -> "pending"
      [] OTHER -> "skipped"

\* findExistingItem, and the existing text length updateExistingItem reads.
RssLookup(w, i, n) ==
    /\ Idle(w, "rss")
    /\ i \in RssItems /\ n \in FeedLens
    /\ Goto(w, [IdleWorker EXCEPT !.pc = IF Exists(i) THEN "update" ELSE "insert",
                   !.item = i, !.text = n, !.seen[i] = row[i].len])
    /\ UNCHANGED <<row, faults>>

\* A row that appeared since the lookup violates the unique index: the error
\* is logged and the entry is skipped.
RssInsert(w) ==
    LET i == worker[w].item
        n == worker[w].text
    IN  /\ KindOf[w] = "rss" /\ worker[w].pc = "insert"
        /\ IF Exists(i)
           THEN UNCHANGED row
           ELSE SetRow(i, [NoRow EXCEPT !.born = Cardinality(Rows) + 1,
                              !.isNews = i \notin Evergreen,
                              !.body = FeedBodyStatus(i, n), !.len = n])
        /\ Goto(w, IdleWorker)
        /\ UNCHANGED faults

\* Mutant of RssUpdate: a re-ingested row becomes the newest.
RssUpdateReborn(w) ==
    LET i == worker[w].item
        n == worker[w].text
    IN  /\ KindOf[w] = "rss" /\ worker[w].pc = "update"
        /\ SetRow(i, [row[i] EXCEPT !.body = FeedBodyStatus(i, n), !.stale = FALSE,
                         !.born = Cardinality(Rows) + 1,
                         !.len = IF n > worker[w].seen[i] THEN n ELSE @])
        /\ Goto(w, IF i \in Evergreen THEN [worker[w] EXCEPT !.pc = "deflag"]
                                      ELSE IdleWorker)
        /\ UNCHANGED faults

\* updateExistingItem: longer text replaces the stored one; either way the
\* body status is recomputed from the feed text and the attempts are kept.
RssUpdate(w) ==
    LET i == worker[w].item
        n == worker[w].text
    IN  /\ KindOf[w] = "rss" /\ worker[w].pc = "update"
        /\ SetRow(i, [row[i] EXCEPT !.body = FeedBodyStatus(i, n), !.stale = FALSE,
                         !.len = IF n > worker[w].seen[i] THEN n ELSE @])
        /\ Goto(w, IF i \in Evergreen THEN [worker[w] EXCEPT !.pc = "deflag"]
                                      ELSE IdleWorker)
        /\ UNCHANGED faults

\* "Evergreen items must stay retired even on re-ingest": a statement of its own.
RssDeflag(w) ==
    LET i == worker[w].item
    IN  /\ KindOf[w] = "rss" /\ worker[w].pc = "deflag"
        /\ SetRow(i, [row[i] EXCEPT !.isNews = FALSE, !.isRelevant = FALSE,
                         !.story = FALSE])
        /\ Goto(w, IdleWorker)
        /\ UNCHANGED faults

-----------------------------------------------------------------------------
(* FantasyPros news: pipeline/fp_news.go.                                  *)

ApiLookup(w, i, n) ==
    /\ Idle(w, "api")
    /\ i \in ApiItems /\ n \in FeedLens
    /\ Goto(w, [IdleWorker EXCEPT !.pc = IF Exists(i) THEN "update" ELSE "insert",
                   !.item = i, !.text = n])
    /\ UNCHANGED <<row, faults>>

\* Mutant of ApiInsert: every API item is taken to be relevant.
ApiInsertRelevant(w) ==
    LET i == worker[w].item
    IN  /\ KindOf[w] = "api" /\ worker[w].pc = "insert"
        /\ ~Exists(i)
        /\ SetRow(i, [NoRow EXCEPT !.born = Cardinality(Rows) + 1, !.isRelevant = TRUE,
                         !.isNews = TRUE, !.body = "fetched", !.len = worker[w].text])
        /\ Goto(w, IdleWorker)
        /\ UNCHANGED faults

\* No flag is given, so the column defaults is_news true, is_relevant false
\* apply; an API item never waits for a page.
ApiInsert(w) ==
    LET i == worker[w].item
    IN  /\ KindOf[w] = "api" /\ worker[w].pc = "insert"
        /\ IF Exists(i)
           THEN UNCHANGED row
           ELSE SetRow(i, [NoRow EXCEPT !.born = Cardinality(Rows) + 1,
                              !.isNews = TRUE, !.body = "fetched",
                              !.len = worker[w].text])
        /\ Goto(w, IdleWorker)
        /\ UNCHANGED faults

\* Mutant of ApiUpdate: a re-ingested item is queued for scoring again.
ApiUpdateRequeued(w) ==
    LET i == worker[w].item
    IN  /\ KindOf[w] = "api" /\ worker[w].pc = "update"
        /\ SetRow(i, [row[i] EXCEPT !.body = "fetched", !.len = worker[w].text,
                         !.quality = "null"])
        /\ Goto(w, IdleWorker)
        /\ UNCHANGED faults

ApiUpdate(w) ==
    LET i == worker[w].item
    IN  /\ KindOf[w] = "api" /\ worker[w].pc = "update"
        /\ SetRow(i, [row[i] EXCEPT !.body = "fetched", !.len = worker[w].text])
        /\ Goto(w, IdleWorker)
        /\ UNCHANGED faults

-----------------------------------------------------------------------------
(* Body fetching: pipeline/bodies.go.                                      *)

\* Mutant of Abandoned: claims are never taken back.
NotAbandoned(r) == FALSE

\* Mutant of AwaitsBody: the attempts are not looked at.
AwaitsBodyForever(r) == r.body = "pending"

\* A claim older than staleFetchingMinutes.
Abandoned(r) == r.body = "fetching" /\ r.stale

AwaitsBody(r) == r.body = "pending" /\ r.attempts < MaxAttempts

\* The reset of abandoned claims, then the SELECT of the batch with the texts
\* the pages will be compared with.
BodySelect(w) ==
    LET reset == [i \in Items |->
                    IF Abandoned(row[i])
                    THEN [row[i] EXCEPT !.body = "pending", !.stale = FALSE]
                    ELSE row[i]]
        due == {i \in Rows \cap Linked : AwaitsBody(reset[i])}
    IN  /\ Idle(w, "body")
        /\ row' = reset
        /\ Goto(w, [IdleWorker EXCEPT !.pc = "body", !.todo = due,
                      !.seen = [i \in Items |-> IF i \in due THEN row[i].len ELSE 0]])
        /\ UNCHANGED faults

\* Mark as fetching.  The UPDATE finds nothing when the row is no longer
\* pending; its row count is not looked at and the page is fetched anyway.
BodyClaim(w, i) ==
    /\ worker[w].pc = "body" /\ worker[w].item = NoItem
    /\ i \in worker[w].todo
    /\ IF row[i].body = "pending"
       THEN SetRow(i, [row[i] EXCEPT !.body = "fetching", !.stale = FALSE,
                          !.attempts = @ + 1])
       ELSE UNCHANGED row
    /\ Goto(w, [worker[w] EXCEPT !.item = i])
    /\ UNCHANGED faults

\* processItem: an unusable page skips the item, a page no longer than the
\* text SELECTed with the batch only settles the status.
BodyStore(w, page) ==
    LET i == worker[w].item
    IN  /\ worker[w].pc = "body" /\ i # NoItem
        /\ page \in PageLens
        /\ SetRow(i, [row[i] EXCEPT
                         !.body = IF page = 0 THEN "skipped" ELSE "fetched",
                         !.stale = FALSE,
                         !.len = IF page > worker[w].seen[i] THEN page ELSE @])
        /\ DropFromBatch(w, i)
        /\ UNCHANGED faults

\* body_fetched_at becomes older than staleFetchingMinutes.  A page fetch
\* times out after 20 seconds, so no live fetch of the row is that old.
ClaimGoesStale(i) ==
    /\ row[i].body = "fetching" /\ ~row[i].stale
    /\ \A w \in Workers : worker[w].item # i
    /\ SetRow(i, [row[i] EXCEPT !.stale = TRUE])
    /\ UNCHANGED <<worker, faults>>

-----------------------------------------------------------------------------
(* Duplicates and relevance: pipeline/dedup.go and pipeline/enrich.go.     *)

\* Mutant of Unjudged: the queue also names items without a row.
UnjudgedOrUnborn == {i \in Items : row[i].quality = "null"}

\* The work queue dedup and enrich share: quality_score IS NULL.
Unjudged == {i \in Rows : row[i].quality = "null"}

DedupSelect(w) ==
    /\ Idle(w, "dedup") \/ Idle(w, "combined")
    /\ StartBatch(w, "dedup", Unjudged)
    /\ UNCHANGED <<row, faults>>

\* Mutant of HasOlderCopy: the created_at comparison is dropped.
HasCopy(i) == \E j \in Rows : {i, j} \in Similar

HasOlderCopy(i) == \E j \in Rows : {i, j} \in Similar /\ row[j].born < row[i].born

\* Exact, near or semantic duplicate of a row created earlier: a negative
\* score, written by id; any other item is left unscored.
DedupItem(w, i, dup) ==
    /\ worker[w].pc = "dedup"
    /\ i \in worker[w].todo
    /\ dup => HasOlderCopy(i)
    /\ SetRow(i, [row[i] EXCEPT !.quality = IF dup THEN "dup" ELSE @])
    /\ DropFromBatch(w, i)
    /\ UNCHANGED faults

EnrichSelect(w) ==
    /\ \/ Idle(w, "enrich")
       \/ KindOf[w] = "combined" /\ worker[w].pc = "dedup" /\ worker[w].todo = {}
    /\ StartBatch(w, "enrich", Unjudged)
    /\ UNCHANGED <<row, faults>>

\* Mutant of EnrichItem: only relevant items get their score.
EnrichItemIfRelevant(w, i, relevant) ==
    /\ worker[w].pc = "enrich"
    /\ i \in worker[w].todo
    /\ SetRow(i, [row[i] EXCEPT !.isRelevant = relevant, !.isNews = TRUE,
                     !.quality = IF relevant THEN "good" ELSE @])
    /\ DropFromBatch(w, i)
    /\ UNCHANGED faults

\* enrichOne: the LLM's answer (an LLM error counts as NO) and the score are
\* written by id, and is_news is set whatever it was.
EnrichItem(w, i, relevant) ==
    /\ worker[w].pc = "enrich"
    /\ i \in worker[w].todo
    /\ SetRow(i, [row[i] EXCEPT !.isRelevant = relevant, !.isNews = TRUE,
                     !.quality = "good"])
    /\ DropFromBatch(w, i)
    /\ UNCHANGED faults

-----------------------------------------------------------------------------
(* Facts and stories: pipeline/facts.go and pipeline/stories.go.           *)

BodySettled(i) == row[i].body \in {"fetched", "skipped"}

FactsDue == {i \in Rows : /\ row[i].isRelevant /\ row[i].isNews
                          /\ row[i].quality # "null"
                          /\ BodySettled(i) /\ ~row[i].facts}

FactsSelect(w) ==
    /\ Idle(w, "facts")
    /\ StartBatch(w, "facts", FactsDue)
    /\ UNCHANGED <<row, faults>>

\* extractOne; found is FALSE when the LLM or the embedder fails or nothing
\* valid comes back.
FactsItem(w, i, found) ==
    /\ worker[w].pc = "facts"
    /\ i \in worker[w].todo
    /\ SetRow(i, [row[i] EXCEPT !.facts = @ \/ found])
    /\ DropFromBatch(w, i)
    /\ UNCHANGED faults

StoriesDue == {i \in Rows : /\ ~row[i].story
                            /\ row[i].isRelevant /\ row[i].isNews
                            /\ BodySettled(i)}

StoriesSelect(w) ==
    /\ Idle(w, "stories")
    /\ StartBatch(w, "stories", StoriesDue)
    /\ UNCHANGED <<row, faults>>

\* generateOne; valid is FALSE when the LLM fails or validateStory refuses.
StoriesItem(w, i, valid) ==
    /\ worker[w].pc = "stories"
    /\ i \in worker[w].todo
    /\ SetRow(i, [row[i] EXCEPT !.story = @ \/ valid])
    /\ DropFromBatch(w, i)
    /\ UNCHANGED faults

-----------------------------------------------------------------------------
(* Failures and the specification.                                         *)

\* A feed entry, or an item of a dedup, enrich, facts or stories batch, is
\* given up after an error; the execution goes on with the others.
FailItem(w) ==
    /\ worker[w].pc \notin {"idle", "body"}
    /\ IF worker[w].item = NoItem
       THEN \E i \in worker[w].todo : DropFromBatch(w, i)
       ELSE Goto(w, IdleWorker)

\* The claim of an article fails: it is logged and the page fetched anyway.
FailClaim(w) ==
    /\ worker[w].pc = "body" /\ worker[w].item = NoItem
    /\ \E i \in worker[w].todo : Goto(w, [worker[w] EXCEPT !.item = i])

\* Neither the result nor the fallback status 'skipped' can be written.
FailStore(w) ==
    /\ worker[w].pc = "body" /\ worker[w].item # NoItem
    /\ DropFromBatch(w, worker[w].item)

\* The dedup query of the combined step fails; the step goes on to enrich and
\* joins the errors at its end.
FailDedupQuery(w) ==
    /\ Idle(w, "combined")
    /\ StartBatch(w, "dedup", {})

Failure(w) ==
    /\ faults > 0 /\ faults' = faults - 1
    /\ FailItem(w) \/ FailClaim(w) \/ FailStore(w) \/ FailDedupQuery(w)
    /\ UNCHANGED row

\* The daemon dies: every execution is lost, the database keeps the rows.
Crash ==
    /\ faults > 0 /\ faults' = faults - 1
    /\ \E w \in Workers : worker[w].pc # "idle"
    /\ worker' = [w \in Workers |-> IdleWorker]
    /\ UNCHANGED row

FeedDelivers(w) ==
    \/ \E i \in RssItems, n \in FeedLens : RssLookup(w, i, n)
    \/ \E i \in ApiItems, n \in FeedLens : ApiLookup(w, i, n)

IngestStep(w) ==
    \/ RssInsert(w) \/ RssUpdate(w) \/ RssDeflag(w)
    \/ ApiInsert(w) \/ ApiUpdate(w)

BodyStep(w) ==
    \/ BodySelect(w)
    \/ \E i \in Items : BodyClaim(w, i)
    \/ \E page \in PageLens : BodyStore(w, page)
    \/ worker[w].item = NoItem /\ EndBatch(w, "body")

JudgeStep(w) ==
    \/ DedupSelect(w)
    \/ \E i \in Items, dup \in BOOLEAN : DedupItem(w, i, dup)
    \/ KindOf[w] = "dedup" /\ EndBatch(w, "dedup")
    \/ EnrichSelect(w)
    \/ \E i \in Items, relevant \in BOOLEAN : EnrichItem(w, i, relevant)
    \/ EndBatch(w, "enrich")

TextStep(w) ==
    \/ FactsSelect(w)
    \/ \E i \in Items, found \in BOOLEAN : FactsItem(w, i, found)
    \/ EndBatch(w, "facts")
    \/ StoriesSelect(w)
    \/ \E i \in Items, valid \in BOOLEAN : StoriesItem(w, i, valid)
    \/ EndBatch(w, "stories")

Step(w) == IngestStep(w) \/ BodyStep(w) \/ JudgeStep(w) \/ TextStep(w)

Next ==
    \/ \E w \in Workers : FeedDelivers(w) \/ Step(w) \/ Failure(w)
    \/ \E i \in Items : ClaimGoesStale(i)
    \/ Crash

\* The schedule of config.example.yaml starts every step again and again and
\* its calls time out, so no execution rests; time passes.  What a feed
\* delivers is its publisher's choice, so no entry need ever come again.
\* Failures are not fair: after the last of them the pipeline must recover.
Fairness == /\ \A w \in Workers : WF_vars(Step(w))
            /\ \A i \in Items : WF_vars(ClaimGoesStale(i))

Spec == Init /\ [][Next]_vars /\ Fairness

-----------------------------------------------------------------------------
RowState ==
    [born : 0..Cardinality(Items), isNews : BOOLEAN, isRelevant : BOOLEAN,
     quality : {"null", "dup", "good"},
     body : {"pending", "fetching", "fetched", "skipped"},
     attempts : Nat, stale : BOOLEAN, len : Nat,
     facts : BOOLEAN, story : BOOLEAN]

WorkerState ==
    [pc : {"idle", "insert", "update", "deflag", "body", "dedup", "enrich",
           "facts", "stories"},
     todo : SUBSET Items, item : Items \cup {NoItem}, text : Nat,
     seen : [Items -> Nat]]

\* Type invariant: rows and executions stay within the values the schema
\* allows, and a batch only ever works on rows that exist.
TypeOK ==
    /\ row \in [Items -> RowState]
    /\ worker \in [Workers -> WorkerState]
    /\ faults \in 0..MaxFaults
    /\ \A w \in Workers : worker[w].todo \subseteq Rows

\* Copies of one story never hide each other: every group of items hidden as
\* duplicates leans on an older similar item outside the group, so at least
\* one copy stays visible however dedup passes overlap (the created_at order
\* in dedup.go:83-87, 126-130 and 186-196).
NeverHiddenTogether ==
    \A G \in SUBSET {i \in Rows : row[i].quality = "dup"} :
        G # {} => \E i \in G, j \in Rows \ G :
                      {i, j} \in Similar /\ row[j].born < row[i].born

\* Facts and stories exist only for items that were classified and are not
\* marked as duplicates: no LLM text is published about a hidden copy or
\* about an item nobody vetted (facts.go:86-97, stories.go:84-92, and
\* fp_news.go:169-173, which once marked every API item relevant).
TextIsVetted ==
    \A i \in Items : row[i].facts \/ row[i].story => row[i].quality = "good"

BodyWorkers == {w \in Workers : KindOf[w] = "body"}

\* An article gives up after maxBodyAttempts claims: the limit is read with the
\* batch and not by the claim (bodies.go:80 and 117-120), so every batch that
\* overlaps with it may add one, and no more however often the feed re-ingests
\* the article or a claim is abandoned and taken back.
AttemptsAreBounded ==
    \A i \in Items :
        row[i].attempts > 0 => row[i].attempts < MaxAttempts + Cardinality(BodyWorkers)

\* A duplicate mark is final: no later classification or re-ingest makes a
\* hidden copy visible again (main.go:425-431, dedup.go against enrich.go).
DuplicatesStayHidden ==
    [][\A i \in Items : row[i].quality = "dup" => row'[i].quality = "dup"]_row

\* The refinement mapping to ItemLife.
VerdictOf(quality) == CASE quality = "null" -> "queued"
                        [] quality = "dup"  -> "hidden"
                        [] quality = "good" -> "vetted"

Verdict == [i \in Items |-> IF Exists(i) THEN VerdictOf(row[i].quality) ELSE "absent"]

Born == [i \in Items |-> row[i].born]

Told == {i \in Items : row[i].facts \/ row[i].story}

Life == INSTANCE ItemLife WITH verdict <- Verdict, since <- Born, told <- Told

\* The columns of a row are written by seven kinds of step in any order, and
\* still every item has the life ItemLife.tla describes: one verdict, kept for
\* good, and texts only after it (dedup.go:56-66, enrich.go, facts.go:86-97,
\* stories.go:84-92 and the re-ingest in fetch.go and fp_news.go).
ImplementsItemLife == Life!LifeSpec

\* An article waiting for its page is fetched, given up, or out of attempts in
\* the end, also when the daemon dies in the middle of a fetch.
BodiesResolve ==
    \A i \in Items :
        (Exists(i) /\ row[i].body \in {"pending", "fetching"})
        ~> (BodySettled(i) \/ row[i].attempts >= MaxAttempts)

\* Every ingested item is classified or hidden in the end, although failed
\* items and lost batches are only retried by later executions.
EveryItemIsJudged == \A i \in Items : Exists(i) ~> row[i].quality # "null"
=============================================================================
