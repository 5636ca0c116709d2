------------------------- MODULE NewsPipelineProofs -------------------------
(***************************************************************************)
(* Proofs about NewsPipeline.tla for every set of items and executions.    *)
(* NeverHiddenTogether, AttemptsAreBounded and what TextsAreJudged says    *)
(* hold however executions overlap.  TextIsVetted, DuplicatesStayHidden    *)
(* and ImplementsItemLife need a single execution that judges items, as    *)
(* the combined step of the shipped schedule is: it alone then moves an    *)
(* item out of the queue, so what a facts or stories batch selected stays  *)
(* good.                                                                   *)
(***************************************************************************)
EXTENDS NewsPipeline, TLAPS, FiniteSetTheorems, NaturalsInduction, WellFoundedInduction

\* An ingest execution has an entry in hand from its lookup on.
IngestHasItem ==
    \A w \in Workers :
        worker[w].pc \in {"insert", "update", "deflag"} => worker[w].item \in Items

Typed == TypeOK /\ IngestHasItem

-----------------------------------------------------------------------------
(* What the steps do to the two variables.                                 *)

\* Goto changes one execution; its new batch decides whether todo stays typed.
LEMMA GotoKeepsTypes ==
  ASSUME Typed, NEW w \in Workers, NEW s \in WorkerState, Goto(w, s),
         Rows \subseteq Rows', s.todo \subseteq Rows',
         s.pc \in {"insert", "update", "deflag"} => s.item \in Items
  PROVE  /\ worker' \in [Workers -> WorkerState]
         /\ \A v \in Workers : worker'[v].todo \subseteq Rows'
         /\ IngestHasItem'
         /\ \A v \in Workers : worker'[v] = IF v = w THEN s ELSE worker[v]
<1>1. worker' = [worker EXCEPT ![w] = s] /\ worker \in [Workers -> WorkerState]
  BY DEF Goto, Typed, TypeOK
<1>2. worker' \in [Workers -> WorkerState]
  BY <1>1
<1>3. \A v \in Workers : worker'[v] = IF v = w THEN s ELSE worker[v]
  BY <1>1
<1>4. QED
  BY <1>2, <1>3 DEF Typed, TypeOK, IngestHasItem

\* A row written with a valid value that keeps or gives it its place.
LEMMA SetRowKeepsTypes ==
  ASSUME Typed, NEW i \in Items, NEW r \in RowState, SetRow(i, r),
         Exists(i) => r.born > 0
  PROVE  /\ row' \in [Items -> RowState] /\ Rows \subseteq Rows'
         /\ \A j \in Items : row'[j] = IF j = i THEN r ELSE row[j]
<1>1. row' = [row EXCEPT ![i] = r] /\ row \in [Items -> RowState]
  BY DEF SetRow, Typed, TypeOK
<1>2. row' \in [Items -> RowState]
  BY <1>1
<1>3. \A j \in Items : row'[j] = IF j = i THEN r ELSE row[j]
  BY <1>1
<1>4. QED
  BY <1>2, <1>3 DEF Rows, Exists

\* The starting values have the types.
LEMMA StartTypes ==
  /\ IdleWorker \in WorkerState /\ IdleWorker.todo = {} /\ IdleWorker.pc = "idle"
  /\ NoRow \in RowState
<1>1. Cardinality(Items) \in Nat
  BY ItemsAssumption, FS_CardinalityType
<1>2. QED
  BY <1>1 DEF IdleWorker, WorkerState, NoRow, RowState

\* A row takes its place after those there are.
LEMMA NextPlace ==
  ASSUME Typed, NEW i \in Items, ~Exists(i)
  PROVE  Cardinality(Rows) + 1 \in 0 .. Cardinality(Items) /\ Cardinality(Rows) + 1 > 0
<1>1. Rows \subseteq Items /\ i \notin Rows
  BY DEF Rows
<1>2. /\ IsFiniteSet(Rows) /\ Cardinality(Rows) <= Cardinality(Items)
      /\ Cardinality(Items) = Cardinality(Rows) => Items = Rows
  BY <1>1, ItemsAssumption, FS_Subset
<1>3. Cardinality(Rows) \in Nat /\ Cardinality(Items) \in Nat
  BY <1>2, ItemsAssumption, FS_CardinalityType
<1>4. QED
  BY <1>1, <1>2, <1>3

\* A batch that loses one item.
LEMMA DropTypes ==
  ASSUME Typed, NEW w \in Workers, NEW i \in Items
  PROVE  LET s == [worker[w] EXCEPT !.todo = @ \ {i}, !.item = NoItem, !.seen[i] = 0] IN
         /\ s \in WorkerState /\ s.todo = worker[w].todo \ {i} /\ s.pc = worker[w].pc
         /\ s.todo \subseteq Rows
<1>1. worker[w] \in WorkerState /\ worker[w].todo \subseteq Rows
  BY DEF Typed, TypeOK
<1>2. QED
  BY <1>1 DEF WorkerState

-----------------------------------------------------------------------------
(* What one step does: to the types, to each row and to each execution.    *)

Judges == {"dedup", "enrich", "combined"}

\* A row appears; it keeps its verdict; it is hidden, scored or worded by an
\* execution that has it in its batch, and leaves that batch.
Ingested(i) == /\ ~Exists(i) /\ row'[i].born = Cardinality(Rows) + 1
               /\ row'[i].quality = "null" /\ ~row'[i].isRelevant
               /\ ~row'[i].facts /\ ~row'[i].story

SamePlace(i) == row'[i].born = row[i].born

Retold(i) == /\ SamePlace(i) /\ row'[i].quality = row[i].quality
             /\ row'[i].isRelevant => row[i].isRelevant
             /\ row'[i].facts => row[i].facts
             /\ row'[i].story => row[i].story

SameText(i) == row'[i].facts = row[i].facts /\ row'[i].story = row[i].story

Quiet(i) == SamePlace(i) /\ row'[i].quality = row[i].quality /\ SameText(i)

Hidden(w, i) == /\ worker[w].pc = "dedup" /\ HasOlderCopy(i) /\ SamePlace(i)
                /\ row'[i].quality = "dup" /\ SameText(i)
                /\ row'[i].isRelevant = row[i].isRelevant

Scored(w, i) == /\ worker[w].pc = "enrich" /\ SamePlace(i)
                /\ row'[i].quality = "good" /\ SameText(i)

Worded(w, i) == /\ worker[w].pc \in {"facts", "stories"} /\ SamePlace(i)
                /\ row'[i].quality = row[i].quality
                /\ row'[i].isRelevant = row[i].isRelevant

RowStep == \A i \in Items :
    \/ row'[i] = row[i] \/ Ingested(i) \/ Retold(i)
    \/ \E w \in Workers : /\ i \in worker[w].todo /\ i \notin worker'[w].todo
                          /\ Hidden(w, i) \/ Scored(w, i) \/ Worded(w, i)

\* An execution works off its batch, ends, or reads a new batch.
Ended(w) == worker'[w].pc \in {"idle", "insert", "update", "deflag", "body"}

GoesOn(w) == /\ worker'[w].pc = worker[w].pc
             /\ worker'[w].todo \subseteq worker[w].todo

Reads(w) == /\ UNCHANGED row
            /\ \/ /\ worker'[w].pc \in {"dedup", "enrich"} /\ KindOf[w] \in Judges
                  /\ worker'[w].todo \subseteq Unjudged
               \/ worker'[w].pc = "facts" /\ worker'[w].todo \subseteq FactsDue
               \/ worker'[w].pc = "stories" /\ worker'[w].todo \subseteq StoriesDue

WorkerStep == \A w \in Workers : Ended(w) \/ GoesOn(w) \/ Reads(w)

TypedNext ==
    /\ row' \in [Items -> RowState] /\ worker' \in [Workers -> WorkerState]
    /\ Rows \subseteq Rows' /\ \A v \in Workers : worker'[v].todo \subseteq Rows'
    /\ IngestHasItem'

Effects == TypedNext /\ RowStep /\ WorkerStep

\* An execution that reads a batch.
LEMMA ReadEffects ==
  ASSUME Typed, UNCHANGED row, NEW w \in Workers,
         NEW pc \in {"dedup", "enrich", "facts", "stories"}, NEW batch \in SUBSET Rows,
         StartBatch(w, pc, batch),
         \/ pc \in {"dedup", "enrich"} /\ KindOf[w] \in Judges /\ batch \subseteq Unjudged
         \/ pc = "facts" /\ batch \subseteq FactsDue
         \/ pc = "stories" /\ batch \subseteq StoriesDue
  PROVE  Effects
<1>1. row' \in [Items -> RowState] /\ Rows' = Rows
  BY DEF Typed, TypeOK, Rows, Exists
<1> DEFINE s == [IdleWorker EXCEPT !.pc = pc, !.todo = batch]
<1>2. Rows \subseteq Items
  BY DEF Rows
<1>3. s \in WorkerState /\ s.todo = batch /\ s.pc = pc
  BY <1>2 DEF IdleWorker, WorkerState
<1> HIDE DEF s
<1>4. Goto(w, s)
  BY DEF StartBatch, s
<1>5. TypedNext /\ \A v \in Workers : worker'[v] = IF v = w THEN s ELSE worker[v]
  BY <1>1, <1>3, <1>4, GotoKeepsTypes DEF TypedNext
<1>6. QED
  BY <1>3, <1>5 DEF Effects, RowStep, WorkerStep, GoesOn, Reads

\* An execution that ends, whatever it did to one row.
LEMMA EndEffects ==
  ASSUME Typed, NEW w \in Workers, Goto(w, IdleWorker),
         row' \in [Items -> RowState], Rows \subseteq Rows', RowStep
  PROVE  Effects
<1>1. TypedNext /\ \A v \in Workers : worker'[v] = IF v = w THEN IdleWorker ELSE worker[v]
  BY GotoKeepsTypes, StartTypes DEF TypedNext
<1>2. QED
  BY <1>1, StartTypes DEF Effects, WorkerStep, Ended, GoesOn

\* A step that leaves the rows alone.
LEMMA SameRows ==
  ASSUME Typed, UNCHANGED row
  PROVE  row' \in [Items -> RowState] /\ Rows' = Rows /\ RowStep
BY DEF Typed, TypeOK, Rows, Exists, RowStep

\* A batch execution that is done with an item whose row it may have written.
LEMMA DropEffects ==
  ASSUME Typed, NEW w \in Workers, NEW i \in Items, DropFromBatch(w, i),
         worker[w].pc \notin {"insert", "update", "deflag"},
         row' \in [Items -> RowState], Rows \subseteq Rows'
  PROVE  TypedNext /\ WorkerStep /\ i \notin worker'[w].todo
<1> DEFINE s == [worker[w] EXCEPT !.todo = @ \ {i}, !.item = NoItem, !.seen[i] = 0]
<1>1. s \in WorkerState /\ s.pc = worker[w].pc /\ s.todo \subseteq Rows
      /\ s.todo = worker[w].todo \ {i}
  BY DropTypes
<1>2. Goto(w, s)
  BY DEF DropFromBatch
<1> HIDE DEF s
<1>3. TypedNext /\ \A v \in Workers : worker'[v] = IF v = w THEN s ELSE worker[v]
  BY <1>1, <1>2, GotoKeepsTypes DEF TypedNext
<1>4. QED
  BY <1>1, <1>3 DEF WorkerStep, GoesOn

\* An ingest execution that looks an entry up.
LEMMA LookupEffects ==
  ASSUME Typed, NEW w \in Workers, NEW i \in Items, NEW n \in FeedLens,
         RssLookup(w, i, n) \/ ApiLookup(w, i, n)
  PROVE  Effects
<1> DEFINE pc == IF Exists(i) THEN "update" ELSE "insert"
           s == [IdleWorker EXCEPT !.pc = pc, !.item = i, !.text = n, !.seen[i] = row[i].len]
           t == [IdleWorker EXCEPT !.pc = pc, !.item = i, !.text = n]
<1>1. row[i].len \in Nat /\ n \in Nat
  BY BoundsAssumption DEF Typed, TypeOK, RowState
<1>2. pc \in {"update", "insert"}
  OBVIOUS
<1> HIDE DEF pc
<1>3. /\ s \in WorkerState /\ s.todo = {} /\ s.item = i /\ s.pc = pc
      /\ t \in WorkerState /\ t.todo = {} /\ t.item = i /\ t.pc = pc
  BY <1>1, <1>2 DEF IdleWorker, WorkerState
<1>4. (Goto(w, s) \/ Goto(w, t)) /\ UNCHANGED row
  BY DEF RssLookup, ApiLookup, pc
<1> HIDE DEF s, t
<1>5. row' \in [Items -> RowState] /\ Rows' = Rows /\ RowStep
  BY <1>4, SameRows
<1>6. TypedNext
  BY <1>3, <1>4, <1>5, GotoKeepsTypes DEF TypedNext
<1>7. \A v \in Workers : v # w => worker'[v] = worker[v]
  BY <1>3, <1>4, <1>5, GotoKeepsTypes
<1>8. worker'[w].pc = pc
  BY <1>3, <1>4, <1>5, GotoKeepsTypes
<1>9. QED
  BY <1>2, <1>5, <1>6, <1>7, <1>8 DEF Effects, WorkerStep, Ended, GoesOn

\* An ingest execution that inserts a row or finds that it appeared.
LEMMA InsertEffects ==
  ASSUME Typed, NEW w \in Workers, RssInsert(w) \/ ApiInsert(w)
  PROVE  Effects
<1> DEFINE i == worker[w].item
           n == worker[w].text
<1>1. i \in Items /\ n \in Nat /\ worker[w].pc = "insert"
  BY DEF RssInsert, ApiInsert, Typed, TypeOK, IngestHasItem, WorkerState
<1> DEFINE r == [NoRow EXCEPT !.born = Cardinality(Rows) + 1, !.isNews = i \notin Evergreen,
                     !.body = FeedBodyStatus(i, n), !.len = n]
           a == [NoRow EXCEPT !.born = Cardinality(Rows) + 1, !.isNews = TRUE,
                     !.body = "fetched", !.len = n]
           c == Cardinality(Rows) + 1
           Fresh(q) == /\ q \in RowState /\ q.born = c /\ q.quality = "null"
                       /\ ~q.isRelevant /\ ~q.facts /\ ~q.story
<1>2. Goto(w, IdleWorker)
  BY DEF RssInsert, ApiInsert
<1>3. ~Exists(i) => Fresh(r) /\ Fresh(a)
  <2> SUFFICES ASSUME ~Exists(i)
               PROVE  Fresh(r) /\ Fresh(a)
    OBVIOUS
  <2>1. Cardinality(Rows) + 1 \in 0 .. Cardinality(Items) /\ Cardinality(Rows) + 1 > 0
    BY <1>1, NextPlace
  <2>2. (i \notin Evergreen) \in BOOLEAN
    OBVIOUS
  <2>3. FeedBodyStatus(i, n) \in {"pending", "fetched", "skipped"}
    BY DEF FeedBodyStatus
  <2> DEFINE status == FeedBodyStatus(i, n)
  <2> HIDE DEF c, status, i
  <2>4. c \in 0 .. Cardinality(Items) /\ c > 0 /\ status \in {"pending", "fetched", "skipped"}
    BY <2>1, <2>3 DEF c, status
  <2>5. \A b \in BOOLEAN, text \in {"pending", "fetched", "skipped"} :
          Fresh([NoRow EXCEPT !.born = c, !.isNews = b, !.body = text, !.len = n])
    <3> SUFFICES ASSUME NEW b \in BOOLEAN, NEW text \in {"pending", "fetched", "skipped"}
                 PROVE  Fresh([NoRow EXCEPT !.born = c, !.isNews = b, !.body = text, !.len = n])
      OBVIOUS
    <3>1. NoRow.quality = "null" /\ ~NoRow.isRelevant /\ ~NoRow.facts /\ ~NoRow.story
      BY DEF NoRow
    <3>2. QED
      BY <1>1, <2>4, <3>1, StartTypes DEF RowState
  <2>6. Fresh(a)
    BY <2>5, Zenon DEF c
  <2>7. Fresh(r)
    BY <2>2, <2>4, <2>5, Zenon DEF c, status
  <2>8. QED
    BY <2>6, <2>7
<1>4. UNCHANGED row \/ (~Exists(i) /\ (SetRow(i, r) \/ SetRow(i, a)))
  <2>1. CASE Exists(i) /\ RssInsert(w)
    BY <2>1, Zenon DEF RssInsert
  <2>2. CASE Exists(i) /\ ApiInsert(w)
    BY <2>2, Zenon DEF ApiInsert
  <2>3. CASE ~Exists(i) /\ RssInsert(w)
    BY <2>3 DEF RssInsert
  <2>4. CASE ~Exists(i) /\ ApiInsert(w)
    BY <2>4, Zenon DEF ApiInsert
  <2>5. QED
    BY <2>1, <2>2, <2>3, <2>4
<1> HIDE DEF r, a, i
<1>5. row' \in [Items -> RowState] /\ Rows \subseteq Rows' /\ RowStep
  <2>1. CASE UNCHANGED row
    BY <2>1, SameRows
  <2>2. CASE ~Exists(i) /\ (SetRow(i, r) \/ SetRow(i, a))
    <3>1. PICK q \in {r, a} : SetRow(i, q) /\ Fresh(q)
      BY <1>3, <2>2
    <3>2. /\ row' \in [Items -> RowState] /\ Rows \subseteq Rows'
          /\ \A j \in Items : row'[j] = IF j = i THEN q ELSE row[j]
      BY <1>1, <2>2, <3>1, SetRowKeepsTypes
    <3>3. QED
      BY <2>2, <3>1, <3>2 DEF RowStep, Ingested
  <2>3. QED
    BY <1>4, <2>1, <2>2
<1>6. QED
  BY <1>2, <1>5, EndEffects

\* A row rewritten in columns other than its place and its verdict.
LEMMA RetoldEffects ==
  ASSUME Typed, NEW i \in Items, NEW r \in RowState, SetRow(i, r),
         r.born = row[i].born, r.quality = row[i].quality,
         r.isRelevant => row[i].isRelevant,
         r.facts => row[i].facts, r.story => row[i].story
  PROVE  row' \in [Items -> RowState] /\ Rows \subseteq Rows' /\ RowStep
<1>1. /\ row' \in [Items -> RowState] /\ Rows \subseteq Rows'
      /\ \A j \in Items : row'[j] = IF j = i THEN r ELSE row[j]
  BY SetRowKeepsTypes DEF Exists
<1>2. QED
  BY <1>1 DEF RowStep, Retold, SamePlace

\* An ingest execution that updates the row of an entry fetched again.
LEMMA UpdateEffects ==
  ASSUME Typed, NEW w \in Workers, RssUpdate(w) \/ RssDeflag(w) \/ ApiUpdate(w)
  PROVE  Effects
<1> DEFINE i == worker[w].item
           n == worker[w].text
           len == IF n > worker[w].seen[i] THEN n ELSE row[i].len
           u == [row[i] EXCEPT !.body = FeedBodyStatus(i, n), !.stale = FALSE, !.len = len]
           d == [row[i] EXCEPT !.isNews = FALSE, !.isRelevant = FALSE, !.story = FALSE]
           a == [row[i] EXCEPT !.body = "fetched", !.len = n]
           s == [worker[w] EXCEPT !.pc = "deflag"]
<1>1. /\ i \in Items /\ n \in Nat /\ worker[w] \in WorkerState
      /\ row[i] \in RowState /\ worker[w].todo \subseteq Rows
  BY DEF RssUpdate, RssDeflag, ApiUpdate, Typed, TypeOK, IngestHasItem, WorkerState
<1>2. len \in Nat
  BY <1>1 DEF RowState
<1>3. s \in WorkerState /\ s.todo = worker[w].todo /\ s.item = i /\ s.pc = "deflag"
  BY <1>1 DEF WorkerState
<1>4. FeedBodyStatus(i, n) \in {"pending", "fetched", "skipped"}
  BY DEF FeedBodyStatus
<1> DEFINE Same(q) == /\ q \in RowState /\ q.born = row[i].born
                      /\ q.quality = row[i].quality
                      /\ q.isRelevant => row[i].isRelevant
                      /\ q.facts => row[i].facts
                      /\ q.story => row[i].story
<1>5. Same(u) /\ Same(d) /\ Same(a)
  <2> HIDE DEF len, i
  <2>1. QED
    BY <1>1, <1>2, <1>4 DEF RowState
<1>6. SetRow(i, u) \/ SetRow(i, d) \/ SetRow(i, a)
  <2>1. CASE RssUpdate(w)
    BY <2>1, Zenon DEF RssUpdate
  <2>2. CASE RssDeflag(w)
    BY <2>2, Zenon DEF RssDeflag
  <2>3. CASE ApiUpdate(w)
    BY <2>3, Zenon DEF ApiUpdate
  <2>4. QED
    BY <2>1, <2>2, <2>3
<1>7. Goto(w, IdleWorker) \/ Goto(w, s)
  BY DEF RssUpdate, RssDeflag, ApiUpdate
<1> HIDE DEF u, d, a, s, i
<1>8. row' \in [Items -> RowState] /\ Rows \subseteq Rows' /\ RowStep
  BY <1>1, <1>5, <1>6, RetoldEffects
<1>9. CASE Goto(w, s)
  <2>1. TypedNext /\ \A v \in Workers : worker'[v] = IF v = w THEN s ELSE worker[v]
    BY <1>1, <1>3, <1>8, <1>9, GotoKeepsTypes DEF TypedNext
  <2>2. QED
    BY <1>3, <1>8, <2>1 DEF Effects, WorkerStep, Ended, GoesOn
<1>10. QED
  BY <1>7, <1>8, <1>9, EndEffects

\* An item that is judged or worded: its row is rewritten, it leaves the batch.
LEMMA ItemEffects ==
  ASSUME Typed, NEW w \in Workers, NEW i \in Items, NEW b \in BOOLEAN,
         \/ DedupItem(w, i, b) \/ EnrichItem(w, i, b)
         \/ FactsItem(w, i, b) \/ StoriesItem(w, i, b)
  PROVE  Effects
<1> DEFINE quality == IF b THEN "dup" ELSE row[i].quality
           facts == row[i].facts \/ b
           story == row[i].story \/ b
           d == [row[i] EXCEPT !.quality = quality]
           e == [row[i] EXCEPT !.isRelevant = b, !.isNews = TRUE, !.quality = "good"]
           f == [row[i] EXCEPT !.facts = facts]
           t == [row[i] EXCEPT !.story = story]
<1>1. row[i] \in RowState
  BY DEF Typed, TypeOK
<1>2. quality \in {"null", "dup", "good"} /\ facts \in BOOLEAN /\ story \in BOOLEAN
  BY <1>1 DEF RowState
<1>3. /\ i \in worker[w].todo /\ DropFromBatch(w, i)
      /\ worker[w].pc \in {"dedup", "enrich", "facts", "stories"}
  BY DEF DedupItem, EnrichItem, FactsItem, StoriesItem
<1>4. /\ DedupItem(w, i, b) => SetRow(i, d) /\ worker[w].pc = "dedup" /\ (b => HasOlderCopy(i))
      /\ EnrichItem(w, i, b) => SetRow(i, e) /\ worker[w].pc = "enrich"
      /\ FactsItem(w, i, b) => SetRow(i, f) /\ worker[w].pc = "facts"
      /\ StoriesItem(w, i, b) => SetRow(i, t) /\ worker[w].pc = "stories"
  BY Zenon DEF DedupItem, EnrichItem, FactsItem, StoriesItem
<1> HIDE DEF facts, story
<1>5. /\ d \in RowState /\ d.born = row[i].born /\ d.quality = quality
      /\ d.facts = row[i].facts /\ d.story = row[i].story /\ d.isRelevant = row[i].isRelevant
      /\ e \in RowState /\ e.born = row[i].born /\ e.quality = "good"
      /\ e.facts = row[i].facts /\ e.story = row[i].story
      /\ f \in RowState /\ f.born = row[i].born /\ f.quality = row[i].quality
      /\ f.isRelevant = row[i].isRelevant
      /\ t \in RowState /\ t.born = row[i].born /\ t.quality = row[i].quality
      /\ t.isRelevant = row[i].isRelevant
  BY <1>1, <1>2 DEF RowState
<1> HIDE DEF d, e, f, t
<1>6. PICK r \in {d, e, f, t} :
        /\ SetRow(i, r) /\ r \in RowState /\ r.born = row[i].born
        /\ \/ r = d /\ worker[w].pc = "dedup" /\ (b => HasOlderCopy(i))
           \/ r = e /\ worker[w].pc = "enrich"
           \/ r \in {f, t} /\ worker[w].pc \in {"facts", "stories"}
  BY <1>4, <1>5
<1>7. /\ row' \in [Items -> RowState] /\ Rows \subseteq Rows'
      /\ \A j \in Items : row'[j] = IF j = i THEN r ELSE row[j]
  BY <1>6, SetRowKeepsTypes DEF Exists
<1>8. TypedNext /\ WorkerStep /\ i \notin worker'[w].todo
  BY <1>3, <1>7, DropEffects
<1>9. \/ Retold(i) \/ Hidden(w, i) \/ Scored(w, i) \/ Worded(w, i)
  <2>1. CASE r = d /\ worker[w].pc = "dedup" /\ b
    BY <1>5, <1>6, <1>7, <2>1 DEF Hidden, SamePlace, SameText
  <2>2. CASE r = d /\ worker[w].pc = "dedup" /\ ~b
    BY <1>5, <1>6, <1>7, <2>2 DEF Retold, SamePlace
  <2>3. CASE r = e /\ worker[w].pc = "enrich"
    BY <1>5, <1>6, <1>7, <2>3 DEF Scored, SamePlace, SameText
  <2>4. CASE r \in {f, t} /\ worker[w].pc \in {"facts", "stories"}
    BY <1>5, <1>6, <1>7, <2>4 DEF Worded, SamePlace
  <2>5. QED
    BY <1>6, <2>1, <2>2, <2>3, <2>4
<1>10. QED
  BY <1>3, <1>7, <1>8, <1>9 DEF Effects, RowStep

\* The body step that takes abandoned claims back and selects its batch.
LEMMA BodySelectEffects ==
  ASSUME Typed, NEW w \in Workers, BodySelect(w)
  PROVE  Effects /\ \A i \in Items : Quiet(i)
<1> DEFINE taken(i) == [row[i] EXCEPT !.body = "pending", !.stale = FALSE]
           reset == [i \in Items |-> IF Abandoned(row[i]) THEN taken(i) ELSE row[i]]
           due == {i \in Rows \cap Linked : AwaitsBody(reset[i])}
           seen == [i \in Items |-> IF i \in due THEN row[i].len ELSE 0]
           s == [IdleWorker EXCEPT !.pc = "body", !.todo = due, !.seen = seen]
<1>1. row' = reset /\ Goto(w, s)
  BY Zenon DEF BodySelect
<1>2. \A i \in Items :
        /\ row[i] \in RowState /\ taken(i) \in RowState /\ taken(i).born = row[i].born
        /\ taken(i).quality = row[i].quality /\ taken(i).isRelevant = row[i].isRelevant
        /\ taken(i).facts = row[i].facts /\ taken(i).story = row[i].story
  BY DEF Typed, TypeOK, RowState
<1> HIDE DEF taken
<1>3. \A i \in Items :
        /\ row'[i] \in RowState /\ SamePlace(i) /\ row'[i].quality = row[i].quality
        /\ row'[i].isRelevant = row[i].isRelevant
        /\ row'[i].facts = row[i].facts /\ row'[i].story = row[i].story
  BY <1>1, <1>2 DEF SamePlace
<1>4. row' \in [Items -> RowState]
  BY <1>1, <1>3
<1> HIDE DEF reset
<1>5. Rows' = Rows
  BY <1>3 DEF Rows, Exists, SamePlace
<1>6. RowStep
  BY <1>3 DEF RowStep, Retold
<1>7. due \subseteq Rows /\ due \subseteq Items
  BY DEF Rows
<1> HIDE DEF due
<1>8. seen \in [Items -> Nat]
  BY <1>2 DEF RowState
<1> HIDE DEF seen
<1>9. s \in WorkerState /\ s.todo = due /\ s.pc = "body"
  BY <1>7, <1>8 DEF IdleWorker, WorkerState
<1> HIDE DEF s
<1>10. TypedNext /\ \A v \in Workers : worker'[v] = IF v = w THEN s ELSE worker[v]
  BY <1>1, <1>4, <1>5, <1>7, <1>9, GotoKeepsTypes DEF TypedNext
<1>11. Effects
  BY <1>6, <1>9, <1>10 DEF Effects, WorkerStep, Ended, GoesOn
<1>12. QED
  BY <1>3, <1>11 DEF Quiet, SameText

\* The body step that claims an article, and one whose claim failed.
LEMMA BodyClaimEffects ==
  ASSUME Typed, NEW w \in Workers, worker[w].pc = "body", NEW i \in worker[w].todo,
         \/ BodyClaim(w, i)
         \/ UNCHANGED row /\ Goto(w, [worker[w] EXCEPT !.item = i])
  PROVE  Effects
<1> DEFINE attempts == row[i].attempts + 1
           r == [row[i] EXCEPT !.body = "fetching", !.stale = FALSE, !.attempts = attempts]
           s == [worker[w] EXCEPT !.item = i]
<1>1. i \in Items /\ row[i] \in RowState /\ worker[w] \in WorkerState /\ worker[w].todo \subseteq Rows
  BY DEF Typed, TypeOK, WorkerState
<1>2. Goto(w, s) /\ (UNCHANGED row \/ SetRow(i, r))
  <2>1. CASE BodyClaim(w, i)
    BY <2>1, Zenon DEF BodyClaim
  <2>2. QED
    BY <2>1
<1>3. /\ r \in RowState /\ r.born = row[i].born /\ r.quality = row[i].quality
      /\ r.isRelevant = row[i].isRelevant /\ r.facts = row[i].facts /\ r.story = row[i].story
  <2>1. attempts \in Nat
    BY <1>1 DEF RowState
  <2> HIDE DEF attempts
  <2>2. QED
    BY <1>1, <2>1 DEF RowState
<1>4. s \in WorkerState /\ s.todo = worker[w].todo /\ s.pc = "body"
  BY <1>1 DEF WorkerState
<1> HIDE DEF r, s
<1>5. row' \in [Items -> RowState] /\ Rows \subseteq Rows' /\ RowStep
  BY <1>1, <1>2, <1>3, SameRows, RetoldEffects
<1>6. TypedNext /\ \A v \in Workers : worker'[v] = IF v = w THEN s ELSE worker[v]
  BY <1>1, <1>2, <1>4, <1>5, GotoKeepsTypes DEF TypedNext
<1>7. QED
  BY <1>4, <1>5, <1>6 DEF Effects, WorkerStep, Ended, GoesOn

\* The body step that stores a page, and one that could not store it.
LEMMA BodyStoreEffects ==
  ASSUME Typed, NEW w \in Workers, worker[w].item # NoItem, worker[w].pc = "body",
         \/ \E page \in PageLens : BodyStore(w, page)
         \/ UNCHANGED row /\ DropFromBatch(w, worker[w].item)
  PROVE  Effects
<1> DEFINE i == worker[w].item
<1>1. i \in Items /\ row[i] \in RowState /\ worker[w] \in WorkerState
  BY DEF Typed, TypeOK, WorkerState
<1>2. DropFromBatch(w, i)
  BY DEF BodyStore
<1>3. row' \in [Items -> RowState] /\ Rows \subseteq Rows' /\ RowStep
  <2>1. CASE UNCHANGED row
    BY <2>1, SameRows
  <2>2. ASSUME NEW page \in PageLens, BodyStore(w, page)
        PROVE  row' \in [Items -> RowState] /\ Rows \subseteq Rows' /\ RowStep
    <3> DEFINE len == IF page > worker[w].seen[i] THEN page ELSE row[i].len
               body == IF page = 0 THEN "skipped" ELSE "fetched"
               r == [row[i] EXCEPT !.body = body, !.stale = FALSE, !.len = len]
    <3>1. len \in Nat /\ body \in {"skipped", "fetched"}
      BY <1>1, BoundsAssumption DEF RowState
    <3>2. SetRow(i, r)
      BY <2>2, Zenon DEF BodyStore
    <3> HIDE DEF len, body, i
    <3>3. /\ r \in RowState /\ r.born = row[i].born /\ r.quality = row[i].quality
          /\ r.isRelevant = row[i].isRelevant
          /\ r.facts = row[i].facts /\ r.story = row[i].story
      BY <1>1, <3>1 DEF RowState
    <3> HIDE DEF r
    <3>4. QED
      BY <1>1, <3>2, <3>3, RetoldEffects
  <2>3. QED
    BY <2>1, <2>2
<1>4. QED
  BY <1>1, <1>2, <1>3, DropEffects DEF Effects

\* A claim that grows old: no execution moves.
LEMMA StaleEffects ==
  ASSUME Typed, NEW i \in Items, ClaimGoesStale(i)
  PROVE  Effects
<1> DEFINE r == [row[i] EXCEPT !.stale = TRUE]
<1>1. SetRow(i, r) /\ UNCHANGED worker
  BY DEF ClaimGoesStale
<1>2. /\ r \in RowState /\ r.born = row[i].born /\ r.quality = row[i].quality
      /\ r.isRelevant = row[i].isRelevant /\ r.facts = row[i].facts /\ r.story = row[i].story
  BY DEF Typed, TypeOK, RowState
<1> HIDE DEF r
<1>3. row' \in [Items -> RowState] /\ Rows \subseteq Rows' /\ RowStep
  BY <1>1, <1>2, RetoldEffects
<1>4. QED
  BY <1>1, <1>3 DEF Effects, TypedNext, WorkerStep, GoesOn, Typed, TypeOK, IngestHasItem

\* A failure: an item, a batch or an entry is lost, the rows stay.
LEMMA FailureEffects ==
  ASSUME Typed, NEW w \in Workers, Failure(w)
  PROVE  Effects
<1>1. UNCHANGED row /\ row' \in [Items -> RowState] /\ Rows' = Rows /\ RowStep
  BY SameRows DEF Failure
<1>2. CASE FailItem(w)
  <2>1. CASE worker[w].item = NoItem
    <3>1. worker[w].pc \notin {"insert", "update", "deflag"}
      BY <2>1, ItemsAssumption DEF Typed, IngestHasItem
    <3>2. PICK i \in worker[w].todo : DropFromBatch(w, i)
      BY <1>2, <2>1 DEF FailItem
    <3>3. i \in Items
      BY DEF Typed, TypeOK, WorkerState
    <3>4. QED
      BY <1>1, <3>1, <3>2, <3>3, DropEffects DEF Effects
  <2>2. CASE worker[w].item # NoItem
    BY <1>1, <1>2, <2>2, EndEffects DEF FailItem
  <2>3. QED
    BY <2>1, <2>2
<1>3. CASE FailClaim(w)
  BY <1>1, <1>3, BodyClaimEffects DEF FailClaim
<1>4. CASE FailStore(w)
  BY <1>1, <1>4, BodyStoreEffects DEF FailStore
<1>5. CASE FailDedupQuery(w)
  BY <1>1, <1>5, ReadEffects DEF FailDedupQuery, Idle, Judges
<1>6. QED
  BY <1>2, <1>3, <1>4, <1>5 DEF Failure

\* A crash: every execution is lost, the rows stay.
LEMMA CrashEffects ==
  ASSUME Typed, Crash
  PROVE  Effects
<1>1. row' \in [Items -> RowState] /\ Rows' = Rows /\ RowStep
  BY SameRows DEF Crash
<1>2. worker' = [w \in Workers |-> IdleWorker]
  BY DEF Crash
<1>3. QED
  BY <1>1, <1>2, StartTypes
     DEF Effects, TypedNext, WorkerStep, Ended, IngestHasItem

\* What every step of the pipeline does.
LEMMA NextEffects ==
  ASSUME Typed, [Next]_vars
  PROVE  Effects /\ faults' \in 0 .. MaxFaults
<1>1. faults' \in 0 .. MaxFaults
  <2>1. faults \in 0 .. MaxFaults /\ MaxFaults \in Nat
    BY BoundsAssumption DEF Typed, TypeOK
  <2>2. faults' = faults \/ (faults > 0 /\ faults' = faults - 1)
    BY DEF Next, vars, FeedDelivers, Step, IngestStep, BodyStep, JudgeStep, TextStep,
           RssLookup, RssInsert, RssUpdate, RssDeflag, ApiLookup, ApiInsert, ApiUpdate,
           BodySelect, BodyClaim, BodyStore, EndBatch, DedupSelect, DedupItem,
           EnrichSelect, EnrichItem, FactsSelect, FactsItem, StoriesSelect, StoriesItem,
           ClaimGoesStale, Failure, Crash
  <2>3. QED
    BY <2>1, <2>2
<1>2. ASSUME NEW w \in Workers, FeedDelivers(w)
      PROVE  Effects
  BY <1>2, LookupEffects DEF FeedDelivers, Items
<1>3. ASSUME NEW w \in Workers, IngestStep(w)
      PROVE  Effects
  BY <1>3, InsertEffects, UpdateEffects DEF IngestStep
<1>4. ASSUME NEW w \in Workers, NEW pc, EndBatch(w, pc)
      PROVE  Effects
  BY <1>4, SameRows, EndEffects DEF EndBatch
<1>5. ASSUME NEW w \in Workers, BodyStep(w)
      PROVE  Effects
  <2>1. CASE BodySelect(w)
    BY <2>1, BodySelectEffects
  <2>2. ASSUME NEW i \in Items, BodyClaim(w, i)
        PROVE  Effects
    BY <2>2, BodyClaimEffects DEF BodyClaim
  <2>3. ASSUME NEW page \in PageLens, BodyStore(w, page)
        PROVE  Effects
    BY <2>3, BodyStoreEffects DEF BodyStore
  <2>4. QED
    BY <1>4, <1>5, <2>1, <2>2, <2>3 DEF BodyStep
<1>6. ASSUME NEW w \in Workers, DedupSelect(w) \/ EnrichSelect(w)
                                \/ FactsSelect(w) \/ StoriesSelect(w)
      PROVE  Effects
  <2>1. Unjudged \in SUBSET Rows /\ FactsDue \in SUBSET Rows /\ StoriesDue \in SUBSET Rows
    BY DEF Unjudged, FactsDue, StoriesDue
  <2>2. UNCHANGED row
    BY <1>6 DEF DedupSelect, EnrichSelect, FactsSelect, StoriesSelect
  <2>3. CASE DedupSelect(w)
    BY <2>1, <2>2, <2>3, ReadEffects DEF DedupSelect, Idle, Judges
  <2>4. CASE EnrichSelect(w)
    BY <2>1, <2>2, <2>4, ReadEffects DEF EnrichSelect, Idle, Judges
  <2>5. CASE FactsSelect(w)
    BY <2>1, <2>2, <2>5, ReadEffects DEF FactsSelect
  <2>6. CASE StoriesSelect(w)
    BY <2>1, <2>2, <2>6, ReadEffects DEF StoriesSelect
  <2>7. QED
    BY <1>6, <2>3, <2>4, <2>5, <2>6
<1>7. ASSUME NEW w \in Workers, JudgeStep(w) \/ TextStep(w)
      PROVE  Effects
  BY <1>4, <1>6, <1>7, ItemEffects DEF JudgeStep, TextStep
<1>8. CASE UNCHANGED vars
  <2>1. row' \in [Items -> RowState] /\ Rows' = Rows /\ RowStep /\ UNCHANGED worker
    BY <1>8, SameRows DEF vars
  <2>2. WorkerStep
    BY <2>1 DEF WorkerStep, GoesOn
  <2>3. TypedNext
    BY <2>1 DEF TypedNext, Typed, TypeOK, IngestHasItem
  <2>4. QED
    BY <1>1, <2>1, <2>2, <2>3 DEF Effects
<1>9. QED
  BY <1>1, <1>2, <1>3, <1>5, <1>7, <1>8, StaleEffects, FailureEffects, CrashEffects
     DEF Next, Step

-----------------------------------------------------------------------------
(* The theorems.                                                           *)

\* The strengthened type invariant is inductive.
LEMMA TypedInvariant == Spec => []Typed
<1>1. Init => Typed
  <2> SUFFICES ASSUME Init
               PROVE  Typed
    OBVIOUS
  <2>1. \A w \in Workers : worker[w] = IdleWorker
    BY DEF Init
  <2>2. row \in [Items -> RowState] /\ worker \in [Workers -> WorkerState]
    BY StartTypes DEF Init
  <2>3. faults \in 0 .. MaxFaults
    BY BoundsAssumption DEF Init
  <2>4. QED
    BY <2>1, <2>2, <2>3, StartTypes DEF Typed, TypeOK, IngestHasItem
<1>2. Typed /\ [Next]_vars => Typed'
  BY NextEffects DEF Effects, TypedNext, Typed, TypeOK
<1>3. QED
  BY <1>1, <1>2, PTL DEF Spec

\* Rows and executions stay within the schema's values, and every batch works
\* on rows that exist, for every set of items, executions and failures.
THEOREM TypeCorrect == Spec => []TypeOK
BY TypedInvariant, PTL DEF Typed

\* Every hidden item resembles a row created before it; the row may be hidden
\* in its turn, so this alone does not keep a copy visible.
HiddenHasOlder ==
    \A i \in Items : row[i].quality = "dup" => Exists(i) /\ HasOlderCopy(i)

\* A row keeps its place in time once it has one.
LEMMA PlacesStay ==
  ASSUME Typed, [Next]_vars, NEW i \in Items, Exists(i)
  PROVE  SamePlace(i)
<1>1. RowStep
  BY NextEffects DEF Effects
<1>2. QED
  BY <1>1 DEF RowStep, Ingested, Retold, Hidden, Scored, Worded, SamePlace

\* A mark is set only while an older copy is there, and places stay.
LEMMA HiddenHasOlderStep ==
  ASSUME Typed, HiddenHasOlder, [Next]_vars
  PROVE  HiddenHasOlder'
<1> SUFFICES ASSUME NEW i \in Items, row'[i].quality = "dup"
             PROVE  (Exists(i) /\ HasOlderCopy(i))'
  BY DEF HiddenHasOlder
<1>1. RowStep /\ worker \in [Workers -> WorkerState] /\ \A w \in Workers : worker[w].todo \subseteq Rows
  BY NextEffects DEF Effects, Typed, TypeOK
<1>2. Exists(i) /\ HasOlderCopy(i)
  BY <1>1 DEF RowStep, Ingested, Retold, Hidden, Scored, Worded, HiddenHasOlder, Rows
<1>3. PICK j \in Rows : {i, j} \in Similar /\ row[j].born < row[i].born
  BY <1>2 DEF HasOlderCopy
<1>4. j \in Items /\ Exists(j)
  BY <1>3 DEF Rows
<1>5. row'[i].born = row[i].born /\ row'[j].born = row[j].born
  BY <1>2, <1>4, PlacesStay DEF SamePlace
<1>6. Exists(i)' /\ j \in Rows'
  BY <1>2, <1>4, <1>5 DEF Exists, Rows
<1>7. QED
  BY <1>3, <1>5, <1>6 DEF HasOlderCopy

\* The oldest of a group of rows.
LEMMA OldestOfGroup ==
  ASSUME Typed, NEW G \in SUBSET Rows, G # {}
  PROVE  \E i \in G : \A j \in G : row[i].born <= row[j].born
<1> DEFINE places == {row[j].born : j \in G}
<1>1. \A j \in G : row[j].born \in Nat
  <2>1. Cardinality(Items) \in Nat
    BY ItemsAssumption, FS_CardinalityType
  <2>2. QED
    BY <2>1 DEF Rows, Typed, TypeOK, RowState
<1>2. places \in SUBSET Nat /\ places # {}
  BY <1>1
<1> HIDE DEF places
<1> DEFINE before == OpToRel(<, Nat)
<1>3. \A m \in Nat, k \in Nat : m < k => <<m, k>> \in before
  BY DEF OpToRel
<1>4. IsWellFoundedOn(before, Nat)
  BY NatLessThanWellFounded
<1> HIDE DEF before
<1>5. PICK n \in places : \A m \in places : ~(<<m, n>> \in before)
  BY <1>2, <1>4, WFMin
<1>6. ASSUME NEW m \in places
      PROVE  n <= m
  <2>1. m \in Nat /\ n \in Nat
    BY <1>2
  <2>2. ~(m < n)
    BY <1>3, <1>5, <2>1, Zenon
  <2>3. QED
    BY <2>1, <2>2
<1>7. QED
  BY <1>5, <1>6 DEF places

\* However dedup passes overlap, every group of hidden copies leans on an
\* older similar item outside it: the oldest of the group resembles a row
\* created before it, which is therefore not in the group.
THEOREM NeverHidden == Spec => []NeverHiddenTogether
<1>1. Init => HiddenHasOlder
  BY DEF Init, HiddenHasOlder, NoRow
<1>2. Typed /\ HiddenHasOlder /\ [Next]_vars => HiddenHasOlder'
  BY HiddenHasOlderStep
<1>3. Typed /\ HiddenHasOlder => NeverHiddenTogether
  <2> SUFFICES ASSUME Typed, HiddenHasOlder,
                      NEW G \in SUBSET {i \in Rows : row[i].quality = "dup"}, G # {}
               PROVE  \E i \in G, j \in Rows \ G :
                         {i, j} \in Similar /\ row[j].born < row[i].born
    BY DEF NeverHiddenTogether
  <2>1. PICK i \in G : \A j \in G : row[i].born <= row[j].born
    BY OldestOfGroup
  <2>2. PICK j \in Rows : {i, j} \in Similar /\ row[j].born < row[i].born
    BY DEF HiddenHasOlder, HasOlderCopy, Rows
  <2>3. row[i].born \in Nat /\ row[j].born \in Nat
    <3>1. Cardinality(Items) \in Nat
      BY ItemsAssumption, FS_CardinalityType
    <3>2. QED
      BY <3>1 DEF Rows, Typed, TypeOK, RowState
  <2>4. j \notin G
    BY <2>1, <2>2, <2>3
  <2>5. QED
    BY <2>2, <2>4
<1>4. QED
  BY <1>1, <1>2, <1>3, TypedInvariant, PTL DEF Spec

-----------------------------------------------------------------------------
(* Any number of executions that judge items.                              *)

\* Texts, and the batches of the text steps, are about items with a verdict.
Judged(i) == Exists(i) /\ row[i].quality # "null"

OnlyJudged ==
    /\ \A i \in Items : row[i].isRelevant \/ row[i].facts \/ row[i].story => Judged(i)
    /\ \A w \in Workers : worker[w].pc \in {"facts", "stories"} =>
           \A i \in worker[w].todo : Judged(i)

\* A verdict may be replaced by that of another judge, never taken back.
LEMMA JudgedStays ==
  ASSUME Typed, [Next]_vars, NEW i \in Items, Judged(i)
  PROVE  Judged(i)'
<1>1. RowStep
  BY NextEffects DEF Effects
<1>2. QED
  BY <1>1 DEF RowStep, Ingested, Retold, Hidden, Scored, Worded, SamePlace, Judged, Exists

\* Relevance and a score are written together, and the text steps read them.
LEMMA OnlyJudgedStep ==
  ASSUME Typed, OnlyJudged, [Next]_vars
  PROVE  OnlyJudged'
<1>1. /\ RowStep /\ WorkerStep
      /\ \A w \in Workers : worker[w].todo \subseteq Rows /\ worker[w].todo \subseteq Items
  BY NextEffects DEF Effects, Typed, TypeOK, WorkerState
<1>2. ASSUME NEW i \in Items, row'[i].isRelevant \/ row'[i].facts \/ row'[i].story
      PROVE  Judged(i)'
  BY <1>1, <1>2 DEF RowStep, Ingested, Retold, Hidden, Scored, Worded, SameText, SamePlace,
                    OnlyJudged, Judged, Exists, Rows
<1>3. ASSUME NEW w \in Workers, worker'[w].pc \in {"facts", "stories"},
             NEW i \in worker'[w].todo
      PROVE  Judged(i)'
  <2>1. CASE GoesOn(w)
    BY <1>1, <1>3, <2>1, JudgedStays DEF GoesOn, OnlyJudged
  <2>2. CASE Reads(w)
    BY <1>3, <2>2, JudgedStays DEF Reads, FactsDue, StoriesDue, Rows, OnlyJudged
  <2>3. QED
    BY <1>1, <1>3, <2>1, <2>2 DEF WorkerStep, Ended
<1>4. QED
  BY <1>2, <1>3 DEF OnlyJudged

\* However many executions judge items at once, nothing is published about an
\* item nobody looked at, and no step puts a judged item back in the queue:
\* what overlapping judges can do is replace one verdict by another.
THEOREM TextsAreJudged ==
  Spec => /\ [](\A i \in Items : row[i].facts \/ row[i].story => row[i].quality # "null")
          /\ [][\A i \in Items : Judged(i) => Judged(i)']_row
<1>1. Init => OnlyJudged
  BY StartTypes DEF Init, OnlyJudged, NoRow
<1>2. Typed /\ OnlyJudged /\ [Next]_vars => OnlyJudged'
  BY OnlyJudgedStep
<1>3. OnlyJudged => \A i \in Items : row[i].facts \/ row[i].story => row[i].quality # "null"
  BY DEF OnlyJudged, Judged
<1>4. Typed /\ [Next]_vars => [\A i \in Items : Judged(i) => Judged(i)']_row
  BY JudgedStays
<1>5. QED
  BY <1>1, <1>2, <1>3, <1>4, TypedInvariant, PTL DEF Spec

-----------------------------------------------------------------------------
(* One execution that judges items.                                        *)

\* The combined step is the only execution that dedups or enriches: the cron
\* guard keeps a job from overlapping itself, and neither the separate dedup
\* and enrich jobs nor a manual run is in progress.
SoleJudge == \A v, w \in Workers : KindOf[v] \in Judges /\ KindOf[w] \in Judges => v = w

\* Only classified items are relevant or have texts; the batches of the text
\* steps hold classified items, the judge's batch undecided ones.
Vetted ==
    /\ \A i \in Items : row[i].isRelevant \/ row[i].facts \/ row[i].story
                            => row[i].quality = "good"
    /\ \A w \in Workers : worker[w].pc \in {"facts", "stories"} =>
           \A i \in worker[w].todo : row[i].quality = "good"
    /\ \A w \in Workers : worker[w].pc \in {"dedup", "enrich"} =>
           /\ KindOf[w] \in Judges
           /\ \A i \in worker[w].todo : row[i].quality = "null"

\* With one judge no verdict is given on an item that another one decided.
LEMMA VettedStep ==
  ASSUME SoleJudge, Typed, Vetted, [Next]_vars
  PROVE  Vetted'
<1>1. /\ RowStep /\ WorkerStep /\ Rows \subseteq Rows'
      /\ \A w \in Workers : worker[w].todo \subseteq Rows /\ worker[w].todo \subseteq Items
  BY NextEffects DEF Effects, TypedNext, Typed, TypeOK, WorkerState
<1>2. \A i \in Items : row'[i].isRelevant \/ row'[i].facts \/ row'[i].story
                           => row'[i].quality = "good"
  BY <1>1 DEF RowStep, Ingested, Retold, Hidden, Scored, Worded, SameText, Vetted
<1>3. ASSUME NEW w \in Workers, worker'[w].pc \in {"facts", "stories"},
             NEW i \in worker'[w].todo
      PROVE  row'[i].quality = "good"
  <2>1. CASE GoesOn(w)
    <3>1. i \in worker[w].todo /\ row[i].quality = "good" /\ Exists(i) /\ i \in Items
      BY <1>1, <1>3, <2>1 DEF GoesOn, Vetted, Rows
    <3>2. QED
      BY <1>1, <3>1 DEF RowStep, Ingested, Retold, Hidden, Scored, Worded, Vetted
  <2>2. CASE Reads(w)
    <3>1. i \in Items /\ row[i].isRelevant /\ UNCHANGED row
      BY <1>3, <2>2 DEF Reads, FactsDue, StoriesDue, Rows
    <3>2. QED
      BY <3>1 DEF Vetted
  <2>3. QED
    BY <1>1, <1>3, <2>1, <2>2 DEF WorkerStep, Ended
<1>4. ASSUME NEW w \in Workers, worker'[w].pc \in {"dedup", "enrich"}
      PROVE  /\ KindOf[w] \in Judges
             /\ \A i \in worker'[w].todo : row'[i].quality = "null"
  <2>1. CASE GoesOn(w)
    <3>1. KindOf[w] \in Judges
      BY <1>4, <2>1 DEF GoesOn, Vetted
    <3>2. ASSUME NEW i \in worker'[w].todo
          PROVE  row'[i].quality = "null"
      <4>1. i \in worker[w].todo /\ row[i].quality = "null" /\ i \in Items
        BY <1>1, <1>4, <2>1 DEF GoesOn, Vetted
      <4>2. \A v \in Workers : i \in worker[v].todo /\ i \notin worker'[v].todo => v # w
        OBVIOUS
      <4>3. \A v \in Workers : Hidden(v, i) \/ Scored(v, i) => KindOf[v] \in Judges
        BY DEF Hidden, Scored, Vetted
      <4>4. QED
        BY <1>1, <3>1, <3>2, <4>1, <4>2, <4>3
           DEF RowStep, Ingested, Retold, Worded, SoleJudge
    <3>3. QED
      BY <3>1, <3>2
  <2>2. CASE Reads(w)
    BY <1>4, <2>2 DEF Reads, Unjudged
  <2>3. QED
    BY <1>1, <1>4, <2>1, <2>2 DEF WorkerStep, Ended
<1>5. QED
  BY <1>2, <1>3, <1>4 DEF Vetted

\* The invariant of the pipeline with one judge.
LEMMA VettedInvariant == SoleJudge /\ Spec => []Vetted
<1> SUFFICES ASSUME SoleJudge
             PROVE  Spec => []Vetted
  OBVIOUS
<1>1. Init => Vetted
  BY StartTypes DEF Init, Vetted, NoRow
<1>2. Typed /\ Vetted /\ [Next]_vars => Vetted'
  BY VettedStep
<1>3. QED
  BY <1>1, <1>2, TypedInvariant, PTL DEF Spec

\* With one judge, facts and stories exist only for items classified and not
\* marked as duplicates, however the text and ingest steps overlap with it.
THEOREM TextsAreVetted == SoleJudge /\ Spec => []TextIsVetted
<1>1. Vetted => TextIsVetted
  BY DEF Vetted, TextIsVetted
<1>2. QED
  BY <1>1, VettedInvariant, PTL

\* With one judge a duplicate mark is final: the enrich pass that follows a
\* dedup pass selected its batch after the mark was written.
THEOREM MarksAreFinal == SoleJudge /\ Spec => DuplicatesStayHidden
<1>1. Init => HiddenHasOlder
  BY DEF Init, HiddenHasOlder, NoRow
<1>2. Typed /\ HiddenHasOlder /\ [Next]_vars => HiddenHasOlder'
  BY HiddenHasOlderStep
<1>3. Typed /\ HiddenHasOlder /\ Vetted /\ [Next]_vars
      => [\A i \in Items : row[i].quality = "dup" => row'[i].quality = "dup"]_row
  <2> SUFFICES ASSUME Typed, HiddenHasOlder, Vetted, [Next]_vars,
                      NEW i \in Items, row[i].quality = "dup"
               PROVE  row'[i].quality = "dup"
    OBVIOUS
  <2>1. RowStep
    BY NextEffects DEF Effects
  <2>2. QED
    BY <2>1 DEF RowStep, Ingested, Retold, Hidden, Scored, Worded, Vetted, HiddenHasOlder
<1>4. QED
  BY <1>1, <1>2, <1>3, TypedInvariant, VettedInvariant, PTL DEF Spec, DuplicatesStayHidden

-----------------------------------------------------------------------------
(* Refinement of ItemLife.                                                 *)

\* A statement that writes a row by its id leaves the others alone.
Written == UNCHANGED row \/ \E i, r : SetRow(i, r)

\* Every step but the reset of abandoned claims writes at most one row.
LEMMA StepsWriteOneRow ==
  ASSUME Next
  PROVE  Written \/ \E w \in Workers : BodySelect(w)
<1>1. ASSUME NEW w \in Workers, FeedDelivers(w) \/ Failure(w)
      PROVE  Written
  BY <1>1 DEF Written, FeedDelivers, Failure, RssLookup, ApiLookup
<1>2. ASSUME NEW w \in Workers, IngestStep(w)
      PROVE  Written
  <2>1. RssInsert(w) => Written
    BY Zenon DEF RssInsert, Written
  <2>2. RssUpdate(w) => Written
    BY Zenon DEF RssUpdate, Written
  <2>3. RssDeflag(w) => Written
    BY Zenon DEF RssDeflag, Written
  <2>4. ApiInsert(w) => Written
    BY Zenon DEF ApiInsert, Written
  <2>5. ApiUpdate(w) => Written
    BY Zenon DEF ApiUpdate, Written
  <2>6. QED
    BY <1>2, <2>1, <2>2, <2>3, <2>4, <2>5 DEF IngestStep
<1>3. ASSUME NEW w \in Workers, BodyStep(w), ~BodySelect(w)
      PROVE  Written
  <2>1. ASSUME NEW i \in Items, BodyClaim(w, i)
        PROVE  Written
    BY <2>1, Zenon DEF BodyClaim, Written
  <2>2. ASSUME NEW page \in PageLens, BodyStore(w, page)
        PROVE  Written
    BY <2>2, Zenon DEF BodyStore, Written
  <2>3. EndBatch(w, "body") => Written
    BY Zenon DEF EndBatch, Written
  <2>4. QED
    BY <1>3, <2>1, <2>2, <2>3 DEF BodyStep
<1>4. ASSUME NEW w \in Workers, JudgeStep(w) \/ TextStep(w)
      PROVE  Written
  <2>1. ASSUME NEW i \in Items, NEW b \in BOOLEAN,
               \/ DedupItem(w, i, b) \/ EnrichItem(w, i, b)
               \/ FactsItem(w, i, b) \/ StoriesItem(w, i, b)
        PROVE  Written
    BY <2>1, Zenon DEF DedupItem, EnrichItem, FactsItem, StoriesItem, Written
  <2>2. \A pc : EndBatch(w, pc) => Written
    BY Zenon DEF EndBatch, Written
  <2>3. DedupSelect(w) \/ EnrichSelect(w) \/ FactsSelect(w) \/ StoriesSelect(w) => Written
    BY Zenon DEF DedupSelect, EnrichSelect, FactsSelect, StoriesSelect, Written
  <2>4. QED
    BY <1>4, <2>1, <2>2, <2>3 DEF JudgeStep, TextStep
<1>5. ASSUME NEW i \in Items, ClaimGoesStale(i)
      PROVE  Written
  BY <1>5, Zenon DEF ClaimGoesStale, Written
<1>6. Crash => Written
  BY DEF Crash, Written
<1>7. QED
  BY <1>1, <1>2, <1>3, <1>4, <1>5, <1>6 DEF Next, Step

\* No two items change their place, their verdict or their texts in one step.
LEMMA OneItemAtATime ==
  ASSUME Typed, [Next]_vars, NEW i \in Items, NEW j \in Items, i # j
  PROVE  Quiet(i) \/ Quiet(j)
<1>1. ASSUME NEW k, NEW r, SetRow(k, r)
      PROVE  Quiet(i) \/ Quiet(j)
  <2>1. row' = [row EXCEPT ![k] = r] /\ row \in [Items -> RowState]
    BY <1>1 DEF SetRow, Typed, TypeOK
  <2>2. row'[i] = row[i] \/ row'[j] = row[j]
    BY <2>1
  <2>3. QED
    BY <2>2 DEF Quiet, SamePlace, SameText
<1>2. CASE UNCHANGED row
  BY <1>2 DEF Quiet, SamePlace, SameText
<1>3. QED
  BY <1>1, <1>2, StepsWriteOneRow, BodySelectEffects DEF Written, vars

\* Nothing is told about an item that has no row.
Blank == \A i \in Items : ~Exists(i) => ~row[i].facts /\ ~row[i].story

\* A text step works on rows that exist.
LEMMA BlankStep ==
  ASSUME Typed, Blank, [Next]_vars
  PROVE  Blank'
<1>1. RowStep /\ \A w \in Workers : worker[w].todo \subseteq Rows
  BY NextEffects DEF Effects, Typed, TypeOK
<1>2. QED
  BY <1>1 DEF RowStep, Ingested, Retold, Hidden, Scored, Worded, SamePlace, SameText,
              Blank, Exists, Rows

\* The abstract state of an item, read off its row before and after a step.
LEMMA LifeState ==
  ASSUME NEW i \in Items
  PROVE  /\ Verdict[i] = IF Exists(i) THEN VerdictOf(row[i].quality) ELSE "absent"
         /\ Verdict'[i] = IF Exists(i)' THEN VerdictOf(row'[i].quality) ELSE "absent"
         /\ Born[i] = row[i].born /\ Born'[i] = row'[i].born
         /\ i \in Told <=> row[i].facts \/ row[i].story
         /\ i \in Told' <=> row'[i].facts \/ row'[i].story
BY DEF Verdict, Born, Told, VerdictOf

\* The items that are here are those that have a row.
LEMMA HereIsRows ==
  ASSUME Typed
  PROVE  Life!Here = Rows
<1>1. \A i \in Items : row[i].quality \in {"null", "dup", "good"}
  BY DEF Typed, TypeOK, RowState
<1>2. \A i \in Items : Verdict[i] # "absent" <=> Exists(i)
  BY <1>1, LifeState DEF VerdictOf
<1>3. QED
  BY <1>2 DEF Life!Here, Rows

\* A step that disturbs one item changes the abstract state there only.
LEMMA LifeOfOthers ==
  ASSUME NEW i \in Items, \A j \in Items \ {i} : Quiet(j)
  PROVE  /\ Verdict' = [Verdict EXCEPT ![i] = Verdict'[i]]
         /\ Born' = [Born EXCEPT ![i] = Born'[i]]
         /\ Told' = IF i \in Told' THEN Told \cup {i} ELSE Told \ {i}
<1>1. \A j \in Items \ {i} : /\ Verdict'[j] = Verdict[j] /\ Born'[j] = Born[j]
                             /\ j \in Told' <=> j \in Told
  BY LifeState DEF Quiet, SamePlace, SameText, Exists
<1>2. /\ Verdict' = [j \in Items |-> Verdict'[j]] /\ Verdict = [j \in Items |-> Verdict[j]]
      /\ Born' = [j \in Items |-> Born'[j]] /\ Born = [j \in Items |-> Born[j]]
  BY DEF Verdict, Born
<1>3. Told \subseteq Items /\ Told' \subseteq Items
  BY DEF Told
<1>4. Verdict' = [Verdict EXCEPT ![i] = Verdict'[i]]
  BY <1>1, <1>2
<1>5. Born' = [Born EXCEPT ![i] = Born'[i]]
  BY <1>1, <1>2
<1>6. Told' = IF i \in Told' THEN Told \cup {i} ELSE Told \ {i}
  BY <1>1, <1>3
<1>7. QED
  BY <1>4, <1>5, <1>6

\* With one judge every step is a step in the life of one item, or none.
LEMMA LifeStep ==
  ASSUME SoleJudge, Typed, Vetted, Blank, [Next]_vars
  PROVE  [Life!LifeNext]_Life!lifeVars
<1>1. CASE \A i \in Items : Quiet(i)
  <2>1. Verdict' = Verdict /\ Born' = Born /\ Told' = Told
    BY <1>1 DEF Verdict, Born, Told, Quiet, SamePlace, SameText, Exists
  <2>2. QED
    BY <2>1 DEF Life!lifeVars
<1>2. ASSUME NEW i \in Items, ~Quiet(i)
      PROVE  [Life!LifeNext]_Life!lifeVars
  <2>1. /\ Verdict' = [Verdict EXCEPT ![i] = Verdict'[i]]
        /\ Born' = [Born EXCEPT ![i] = Born'[i]]
        /\ Told' = IF i \in Told' THEN Told \cup {i} ELSE Told \ {i}
    BY <1>2, OneItemAtATime, LifeOfOthers
  <2>2. /\ Verdict = [Verdict EXCEPT ![i] = Verdict[i]]
        /\ Born = [Born EXCEPT ![i] = Born[i]]
    BY DEF Verdict, Born
  <2>3. SamePlace(i) => Born' = Born
    BY <2>1, <2>2, LifeState DEF SamePlace
  <2>4. SamePlace(i) /\ row'[i].quality = row[i].quality => Verdict' = Verdict
    BY <2>1, <2>2, LifeState DEF SamePlace, Exists
  <2>5. SameText(i) => Told' = Told
    <3>1. SameText(i) => (i \in Told' <=> i \in Told)
      BY LifeState DEF SameText
    <3>2. QED
      BY <2>1, <3>1
  <2>6. CASE Ingested(i)
    <3>1. Cardinality(Rows) + 1 > 0
      BY <2>6, NextPlace DEF Ingested
    <3>2. Verdict[i] = "absent" /\ Verdict'[i] = "queued"
      BY <2>6, <3>1, LifeState DEF Ingested, Exists, VerdictOf
    <3>3. Born'[i] = Cardinality(Life!Here) + 1
      BY <2>6, HereIsRows, LifeState DEF Ingested
    <3>4. i \notin Told /\ i \notin Told'
      BY <2>6, LifeState DEF Ingested, Blank
    <3>5. Told' = Told
      BY <2>1, <3>4
    <3>6. /\ Verdict' = [Verdict EXCEPT ![i] = "queued"]
          /\ Born' = [Born EXCEPT ![i] = Cardinality(Life!Here) + 1]
      BY <2>1, <3>2, <3>3
    <3>7. Life!Cardinality(Life!Here) = Cardinality(Life!Here)
      BY DEF Cardinality, Life!Cardinality
    <3>8. Life!Arrive(i)
      BY <3>2, <3>5, <3>6, <3>7 DEF Life!Arrive
    <3>9. QED
      BY <3>8 DEF Life!LifeNext
  <2>7. CASE Retold(i)
    <3>1. i \in Told' => i \in Told
      BY <2>7, LifeState DEF Retold
    <3>2. Told' = Told \/ Told' = Told \ {i}
      BY <2>1, <3>1
    <3>3. Verdict' = Verdict /\ Born' = Born
      BY <2>3, <2>4, <2>7 DEF Retold
    <3>4. QED
      BY <3>2, <3>3 DEF Life!Withdraw, Life!LifeNext, Life!lifeVars
  <2>8. ASSUME NEW w \in Workers, i \in worker[w].todo,
               Hidden(w, i) \/ Scored(w, i) \/ Worded(w, i)
        PROVE  [Life!LifeNext]_Life!lifeVars
    <3>1. Exists(i) /\ Exists(i)'
      BY <2>8 DEF Typed, TypeOK, Rows, Hidden, Scored, Worded, SamePlace, Exists
    <3>2. CASE Hidden(w, i)
      <4>1. row[i].quality = "null" /\ row'[i].quality = "dup"
        BY <2>8, <3>2 DEF Hidden, Vetted
      <4>2. Verdict[i] = "queued" /\ Verdict'[i] = "hidden"
        BY <3>1, <4>1, LifeState DEF VerdictOf
      <4>3. PICK j \in Rows : {i, j} \in Similar /\ row[j].born < row[i].born
        BY <3>2 DEF Hidden, HasOlderCopy
      <4>4. j \in Life!Here /\ {i, j} \in Similar /\ Born[j] < Born[i]
        BY <4>3, HereIsRows, LifeState DEF Rows
      <4>5. Life!Hide(i)
        BY <2>1, <2>3, <2>5, <3>2, <4>2, <4>4, Zenon DEF Life!Hide, Hidden
      <4>6. QED
        BY <4>5 DEF Life!LifeNext
    <3>3. CASE Scored(w, i)
      <4>1. row[i].quality = "null" /\ row'[i].quality = "good"
        BY <2>8, <3>3 DEF Scored, Vetted
      <4>2. Verdict[i] = "queued" /\ Verdict'[i] = "vetted"
        BY <3>1, <4>1, LifeState DEF VerdictOf
      <4>3. Life!Vet(i)
        BY <2>1, <2>3, <2>5, <3>3, <4>2, Zenon DEF Life!Vet, Scored
      <4>4. QED
        BY <4>3 DEF Life!LifeNext
    <3>4. CASE Worded(w, i)
      <4>1. row[i].quality = "good"
        BY <2>8, <3>4 DEF Worded, Vetted
      <4>2. Verdict[i] = "vetted"
        BY <3>1, <4>1, LifeState DEF VerdictOf
      <4>3. Verdict' = Verdict /\ Born' = Born
        BY <2>3, <2>4, <3>4 DEF Worded
      <4>4. Told' = Told \cup {i} \/ Told' = Told \ {i}
        BY <2>1
      <4>5. QED
        BY <4>2, <4>3, <4>4 DEF Life!Tell, Life!Withdraw, Life!LifeNext
    <3>5. QED
      BY <2>8, <3>2, <3>3, <3>4
  <2>9. RowStep
    BY NextEffects DEF Effects
  <2>10. row'[i] # row[i]
    BY <1>2 DEF Quiet, SamePlace, SameText
  <2>11. QED
    BY <2>6, <2>7, <2>8, <2>9, <2>10 DEF RowStep
<1>3. QED
  BY <1>1, <1>2

\* With one judge the pipeline implements the life of an item: it arrives after
\* those there are, gets one verdict, is hidden only behind an older copy, and
\* has texts only once vetted, whatever re-ingest and failures come between.
THEOREM ImplementsLife == SoleJudge /\ Spec => ImplementsItemLife
<1> SUFFICES ASSUME SoleJudge
             PROVE  Spec => ImplementsItemLife
  OBVIOUS
<1>1. Init => Blank
  BY DEF Init, Blank, NoRow
<1>2. Typed /\ Blank /\ [Next]_vars => Blank'
  BY BlankStep
<1>3. Init => Life!LifeInit
  BY DEF Init, Life!LifeInit, Verdict, Born, Told, NoRow, Exists
<1>4. Typed /\ Vetted /\ Blank /\ [Next]_vars => [Life!LifeNext]_Life!lifeVars
  BY LifeStep
<1>5. QED
  BY <1>1, <1>2, <1>3, <1>4, TypedInvariant, VettedInvariant, PTL
     DEF Spec, ImplementsItemLife, Life!LifeSpec

-----------------------------------------------------------------------------
(* The attempts of the body fetchers.                                      *)

\* An execution that will still claim article i with the batch it selected.
WaitsFor(w, i) == worker[w].pc = "body" /\ i \in worker[w].todo /\ worker[w].item # i

Waiting(i) == {w \in Workers : WaitsFor(w, i)}

\* What is spent and what the batches in progress may still spend.
Spent(i) == row[i].attempts + Cardinality(Waiting(i))

AttemptInv ==
    /\ \A w \in Workers : worker[w].pc = "body" => w \in BodyWorkers
    /\ \A i \in Items : Spent(i) > 0 => Spent(i) < MaxAttempts + Cardinality(BodyWorkers)

\* No row gains an attempt; no execution gains a claim.
FewerAttempts == \A i \in Items : row'[i].attempts <= row[i].attempts

FewerClaims ==
    /\ \A w \in Workers : worker'[w].pc = "body" => worker[w].pc = "body"
    /\ \A i \in Items, w \in Workers : WaitsFor(w, i)' => WaitsFor(w, i)

\* A row written with no more attempts than it had.
LEMMA SetRowAttempts ==
  ASSUME Typed, NEW i \in Items, NEW r, SetRow(i, r), r.attempts <= row[i].attempts
  PROVE  FewerAttempts
<1>1. row' = [row EXCEPT ![i] = r] /\ row \in [Items -> RowState]
  BY DEF SetRow, Typed, TypeOK
<1>2. \A j \in Items : row'[j] = (IF j = i THEN r ELSE row[j]) /\ row[j].attempts \in Nat
  BY <1>1 DEF RowState
<1>3. QED
  BY <1>2 DEF FewerAttempts

\* Rows that stay keep their attempts.
LEMMA SameRowsAttempts ==
  ASSUME Typed, UNCHANGED row
  PROVE  FewerAttempts
<1>1. \A j \in Items : row[j].attempts \in Nat
  BY DEF Typed, TypeOK, RowState
<1>2. QED
  BY <1>1 DEF FewerAttempts

\* Ingest: a new row has no attempts, a row written again keeps them.
LEMMA IngestAttempts ==
  ASSUME Typed, NEW w \in Workers, IngestStep(w)
  PROVE  FewerAttempts
<1> DEFINE i == worker[w].item
           n == worker[w].text
           len == IF n > worker[w].seen[i] THEN n ELSE row[i].len
           r == [NoRow EXCEPT !.born = Cardinality(Rows) + 1, !.isNews = i \notin Evergreen,
                     !.body = FeedBodyStatus(i, n), !.len = n]
           p == [NoRow EXCEPT !.born = Cardinality(Rows) + 1, !.isNews = TRUE,
                     !.body = "fetched", !.len = n]
           u == [row[i] EXCEPT !.body = FeedBodyStatus(i, n), !.stale = FALSE, !.len = len]
           d == [row[i] EXCEPT !.isNews = FALSE, !.isRelevant = FALSE, !.story = FALSE]
           a == [row[i] EXCEPT !.body = "fetched", !.len = n]
<1>1. i \in Items
  BY DEF IngestStep, RssInsert, RssUpdate, RssDeflag, ApiInsert, ApiUpdate,
         Typed, TypeOK, IngestHasItem, WorkerState
<1>2. row[i] \in RowState /\ row[i].attempts \in Nat
  BY <1>1 DEF Typed, TypeOK, RowState
<1>3. r.attempts = 0 /\ p.attempts = 0
  BY DEF NoRow
<1>4. u.attempts = row[i].attempts /\ d.attempts = row[i].attempts /\ a.attempts = row[i].attempts
  <2> HIDE DEF len, i
  <2>1. QED
    BY <1>2 DEF RowState
<1>5. UNCHANGED row \/ SetRow(i, r) \/ SetRow(i, p) \/ SetRow(i, u) \/ SetRow(i, d) \/ SetRow(i, a)
  <2>1. CASE RssInsert(w)
    BY <2>1, Zenon DEF RssInsert
  <2>2. CASE ApiInsert(w)
    BY <2>2, Zenon DEF ApiInsert
  <2>3. CASE RssUpdate(w)
    BY <2>3, Zenon DEF RssUpdate
  <2>4. CASE RssDeflag(w)
    BY <2>4, Zenon DEF RssDeflag
  <2>5. CASE ApiUpdate(w)
    BY <2>5, Zenon DEF ApiUpdate
  <2>6. QED
    BY <2>1, <2>2, <2>3, <2>4, <2>5 DEF IngestStep
<1> HIDE DEF r, p, u, d, a, i
<1>6. QED
  BY <1>1, <1>2, <1>3, <1>4, <1>5, SetRowAttempts, SameRowsAttempts

\* Verdicts, texts, pages and the ageing of a claim leave the attempts alone.
LEMMA ItemAttempts ==
  ASSUME Typed, NEW i \in Items,
         \/ \E w \in Workers, b \in BOOLEAN :
               \/ DedupItem(w, i, b) \/ EnrichItem(w, i, b)
               \/ FactsItem(w, i, b) \/ StoriesItem(w, i, b)
         \/ \E w \in Workers, page \in PageLens : worker[w].item = i /\ BodyStore(w, page)
         \/ ClaimGoesStale(i)
  PROVE  FewerAttempts
<1>1. row[i] \in RowState /\ row[i].attempts \in Nat
  BY DEF Typed, TypeOK, RowState
<1>2. ASSUME NEW w \in Workers, NEW b \in BOOLEAN,
             \/ DedupItem(w, i, b) \/ EnrichItem(w, i, b)
             \/ FactsItem(w, i, b) \/ StoriesItem(w, i, b)
      PROVE  FewerAttempts
  <2> DEFINE quality == IF b THEN "dup" ELSE row[i].quality
             facts == row[i].facts \/ b
             story == row[i].story \/ b
             d == [row[i] EXCEPT !.quality = quality]
             e == [row[i] EXCEPT !.isRelevant = b, !.isNews = TRUE, !.quality = "good"]
             f == [row[i] EXCEPT !.facts = facts]
             t == [row[i] EXCEPT !.story = story]
  <2>1. SetRow(i, d) \/ SetRow(i, e) \/ SetRow(i, f) \/ SetRow(i, t)
    BY <1>2, Zenon DEF DedupItem, EnrichItem, FactsItem, StoriesItem
  <2> HIDE DEF quality, facts, story
  <2>2. /\ d.attempts = row[i].attempts /\ e.attempts = row[i].attempts
        /\ f.attempts = row[i].attempts /\ t.attempts = row[i].attempts
    BY <1>1 DEF RowState
  <2> HIDE DEF d, e, f, t
  <2>3. QED
    BY <1>1, <2>1, <2>2, SetRowAttempts
<1>3. ASSUME NEW w \in Workers, NEW page \in PageLens, worker[w].item = i, BodyStore(w, page)
      PROVE  FewerAttempts
  <2> DEFINE len == IF page > worker[w].seen[i] THEN page ELSE row[i].len
             body == IF page = 0 THEN "skipped" ELSE "fetched"
             r == [row[i] EXCEPT !.body = body, !.stale = FALSE, !.len = len]
  <2>1. SetRow(i, r)
    BY <1>3, Zenon DEF BodyStore
  <2> HIDE DEF len, body
  <2>2. r.attempts = row[i].attempts
    BY <1>1 DEF RowState
  <2> HIDE DEF r
  <2>3. QED
    BY <1>1, <2>1, <2>2, SetRowAttempts
<1>4. CASE ClaimGoesStale(i)
  <2> DEFINE r == [row[i] EXCEPT !.stale = TRUE]
  <2>1. SetRow(i, r)
    BY <1>4, Zenon DEF ClaimGoesStale
  <2>2. r.attempts = row[i].attempts
    BY <1>1 DEF RowState
  <2> HIDE DEF r
  <2>3. QED
    BY <1>1, <2>1, <2>2, SetRowAttempts
<1>5. QED
  BY <1>2, <1>3, <1>4

\* An execution whose new state waits for nothing it did not wait for.
LEMMA GotoClaims ==
  ASSUME Typed, NEW w \in Workers, NEW s, Goto(w, s),
         s.pc = "body" => /\ worker[w].pc = "body"
                          /\ \A i \in Items : i \in s.todo /\ s.item # i => WaitsFor(w, i)
  PROVE  FewerClaims
<1>1. \A v \in Workers : worker'[v] = IF v = w THEN s ELSE worker[v]
  BY DEF Goto, Typed, TypeOK
<1>2. QED
  BY <1>1 DEF FewerClaims, WaitsFor

\* An execution that ends.
LEMMA EndClaims ==
  ASSUME Typed, NEW w \in Workers, Goto(w, IdleWorker)
  PROVE  FewerClaims
BY StartTypes, GotoClaims

\* An execution that is done with the article it claimed, or with an item.
LEMMA DropClaims ==
  ASSUME Typed, NEW w \in Workers, NEW i \in Items, DropFromBatch(w, i),
         worker[w].pc = "body" => worker[w].item = i
  PROVE  FewerClaims
<1> DEFINE s == [worker[w] EXCEPT !.todo = @ \ {i}, !.item = NoItem, !.seen[i] = 0]
<1>1. s.todo = worker[w].todo \ {i} /\ s.pc = worker[w].pc /\ Goto(w, s)
  BY DropTypes DEF DropFromBatch
<1> HIDE DEF s
<1>2. QED
  BY <1>1, GotoClaims DEF WaitsFor

\* An execution that selects a batch for another step, or looks an entry up.
LEMMA StartClaims ==
  ASSUME Typed, NEW w \in Workers,
         \/ \E pc \in {"dedup", "enrich", "facts", "stories"} : \E batch : StartBatch(w, pc, batch)
         \/ FeedDelivers(w)
  PROVE  FewerClaims
<1>1. ASSUME NEW pc \in {"dedup", "enrich", "facts", "stories"}, NEW batch,
             StartBatch(w, pc, batch)
      PROVE  FewerClaims
  <2> DEFINE s == [IdleWorker EXCEPT !.pc = pc, !.todo = batch]
  <2>1. Goto(w, s) /\ s.pc = pc
    BY <1>1 DEF StartBatch, IdleWorker
  <2> HIDE DEF s
  <2>2. QED
    BY <2>1, GotoClaims
<1>2. ASSUME NEW i, NEW n, RssLookup(w, i, n) \/ ApiLookup(w, i, n)
      PROVE  FewerClaims
  <2> DEFINE pc == IF Exists(i) THEN "update" ELSE "insert"
             s == [IdleWorker EXCEPT !.pc = pc, !.item = i, !.text = n, !.seen[i] = row[i].len]
             t == [IdleWorker EXCEPT !.pc = pc, !.item = i, !.text = n]
  <2>1. Goto(w, s) \/ Goto(w, t)
    BY <1>2, Zenon DEF RssLookup, ApiLookup
  <2>2. pc # "body"
    OBVIOUS
  <2> HIDE DEF pc
  <2>3. s.pc = pc /\ t.pc = pc
    BY DEF IdleWorker
  <2> HIDE DEF s, t
  <2>4. QED
    BY <2>1, <2>2, <2>3, GotoClaims
<1>3. QED
  BY <1>1, <1>2 DEF FeedDelivers

\* What a step may do to the attempts at an article: nothing; spend one that
\* its batch waits for; or, in a new batch, wait for one below the limit.
AttemptStep(i) ==
    \/ row'[i].attempts <= row[i].attempts /\ Waiting(i)' \subseteq Waiting(i)
    \/ \E w \in Waiting(i) : /\ row'[i].attempts = row[i].attempts + 1
                            /\ Waiting(i)' \subseteq Waiting(i) \ {w}
    \/ row'[i].attempts = row[i].attempts /\ row[i].attempts < MaxAttempts

AttemptEffects ==
    /\ \A w \in Workers : worker'[w].pc = "body" => worker[w].pc = "body" \/ w \in BodyWorkers
    /\ \A i \in Items : AttemptStep(i)

\* A step that claims nothing.
LEMMA NoClaim ==
  ASSUME FewerAttempts, FewerClaims
  PROVE  AttemptEffects
BY DEF FewerAttempts, FewerClaims, AttemptEffects, AttemptStep, Waiting

\* The claim of an article: the row count is not looked at.
LEMMA ClaimAttempts ==
  ASSUME Typed, NEW w \in Workers, NEW i \in worker[w].todo,
         worker[w].pc = "body", worker[w].item = NoItem,
         \/ BodyClaim(w, i)
         \/ UNCHANGED row /\ Goto(w, [worker[w] EXCEPT !.item = i])
  PROVE  AttemptEffects
<1> DEFINE attempts == row[i].attempts + 1
           r == [row[i] EXCEPT !.body = "fetching", !.stale = FALSE, !.attempts = attempts]
           s == [worker[w] EXCEPT !.item = i]
<1>1. /\ i \in Items /\ row \in [Items -> RowState] /\ worker[w] \in WorkerState
      /\ worker[w].todo \subseteq Items /\ NoItem \notin Items
  BY ItemsAssumption DEF Typed, TypeOK, WorkerState
<1>2. Goto(w, s) /\ (UNCHANGED row \/ SetRow(i, r))
  <2>1. CASE BodyClaim(w, i)
    BY <2>1, Zenon DEF BodyClaim
  <2>2. QED
    BY <2>1
<1>3. r.attempts = row[i].attempts + 1 /\ \A j \in Items : row[j].attempts \in Nat
  BY <1>1 DEF RowState
<1>4. s.todo = worker[w].todo /\ s.item = i /\ s.pc = "body"
  BY <1>1 DEF WorkerState
<1> HIDE DEF r, s
<1>5. FewerClaims
  BY <1>1, <1>2, <1>4, GotoClaims DEF WaitsFor
<1>6. WaitsFor(w, i) /\ ~WaitsFor(w, i)'
  <2>1. worker'[w] = s
    BY <1>2 DEF Goto, Typed, TypeOK
  <2>2. QED
    BY <1>1, <1>4, <2>1 DEF WaitsFor
<1>7. \A j \in Items : \/ row'[j].attempts = row[j].attempts
                       \/ j = i /\ row'[j].attempts = row[j].attempts + 1
  BY <1>1, <1>2, <1>3 DEF SetRow
<1>8. ASSUME NEW j \in Items
      PROVE  AttemptStep(j)
  <2>1. Waiting(j)' \subseteq Waiting(j)
    BY <1>5 DEF FewerClaims, Waiting
  <2>2. CASE row'[j].attempts = row[j].attempts
    BY <1>3, <2>1, <2>2 DEF AttemptStep
  <2>3. CASE j = i /\ row'[j].attempts = row[j].attempts + 1
    <3>1. w \in Waiting(j) /\ Waiting(j)' \subseteq Waiting(j) \ {w}
      BY <1>6, <2>1, <2>3 DEF Waiting
    <3>2. QED
      BY <2>3, <3>1 DEF AttemptStep
  <2>4. QED
    BY <1>7, <2>2, <2>3
<1>9. QED
  BY <1>5, <1>8 DEF AttemptEffects, FewerClaims

\* The selection of a batch: it holds articles below the limit only.
LEMMA SelectAttempts ==
  ASSUME Typed, NEW w \in Workers, BodySelect(w)
  PROVE  AttemptEffects
<1> DEFINE taken(i) == [row[i] EXCEPT !.body = "pending", !.stale = FALSE]
           reset == [i \in Items |-> IF Abandoned(row[i]) THEN taken(i) ELSE row[i]]
           due == {i \in Rows \cap Linked : AwaitsBody(reset[i])}
           seen == [i \in Items |-> IF i \in due THEN row[i].len ELSE 0]
           s == [IdleWorker EXCEPT !.pc = "body", !.todo = due, !.seen = seen]
<1>1. row' = reset /\ Goto(w, s) /\ KindOf[w] = "body"
  BY Zenon DEF BodySelect, Idle
<1>2. \A i \in Items : taken(i).attempts = row[i].attempts /\ row[i].attempts \in Nat
  BY DEF Typed, TypeOK, RowState
<1> HIDE DEF taken
<1>3. \A i \in Items : reset[i].attempts = row[i].attempts
  BY <1>2
<1> HIDE DEF reset
<1>4. \A i \in due : row[i].attempts < MaxAttempts
  BY <1>3 DEF AwaitsBody, Rows
<1> HIDE DEF due, seen
<1>5. s.todo = due /\ s.pc = "body"
  BY DEF IdleWorker
<1> HIDE DEF s
<1>6. \A v \in Workers : worker'[v] = IF v = w THEN s ELSE worker[v]
  BY <1>1 DEF Goto, Typed, TypeOK
<1>7. \A v \in Workers : worker'[v].pc = "body" => worker[v].pc = "body" \/ v \in BodyWorkers
  BY <1>1, <1>6 DEF BodyWorkers
<1>8. ASSUME NEW i \in Items
      PROVE  AttemptStep(i)
  <2>1. row'[i].attempts = row[i].attempts
    BY <1>1, <1>3
  <2>2. CASE i \in due
    BY <1>4, <2>1, <2>2 DEF AttemptStep
  <2>3. CASE i \notin due
    <3>1. Waiting(i)' \subseteq Waiting(i)
      BY <1>5, <1>6, <2>3 DEF Waiting, WaitsFor
    <3>2. QED
      BY <1>2, <2>1, <3>1 DEF AttemptStep
  <2>4. QED
    BY <2>2, <2>3
<1>9. QED
  BY <1>7, <1>8 DEF AttemptEffects

\* A failure spends no attempt.
LEMMA FailureAttempts ==
  ASSUME Typed, NEW w \in Workers, Failure(w)
  PROVE  AttemptEffects
<1>1. UNCHANGED row /\ FewerAttempts
  BY SameRowsAttempts DEF Failure
<1>2. CASE FailItem(w)
  <2>1. ASSUME NEW i \in worker[w].todo, DropFromBatch(w, i)
        PROVE  FewerClaims
    <3>1. i \in Items /\ worker[w].pc # "body"
      BY <1>2 DEF FailItem, Typed, TypeOK, WorkerState
    <3>2. QED
      BY <2>1, <3>1, DropClaims
  <2>2. FewerClaims
    BY <1>2, <2>1, EndClaims DEF FailItem
  <2>3. QED
    BY <1>1, <2>2, NoClaim
<1>3. CASE FailClaim(w)
  BY <1>1, <1>3, ClaimAttempts DEF FailClaim
<1>4. CASE FailStore(w)
  <2>1. worker[w].item \in Items
    BY <1>4 DEF FailStore, Typed, TypeOK, WorkerState
  <2>2. FewerClaims
    BY <1>4, <2>1, DropClaims DEF FailStore
  <2>3. QED
    BY <1>1, <2>2, NoClaim
<1>5. CASE FailDedupQuery(w)
  BY <1>1, <1>5, StartClaims, NoClaim DEF FailDedupQuery
<1>6. QED
  BY <1>2, <1>3, <1>4, <1>5 DEF Failure

\* What every step of the pipeline does to the attempts.
LEMMA NextAttempts ==
  ASSUME Typed, [Next]_vars
  PROVE  AttemptEffects
<1>1. ASSUME NEW w \in Workers, FeedDelivers(w)
      PROVE  AttemptEffects
  <2>1. UNCHANGED row
    BY <1>1 DEF FeedDelivers, RssLookup, ApiLookup
  <2>2. QED
    BY <1>1, <2>1, SameRowsAttempts, StartClaims, NoClaim
<1>2. ASSUME NEW w \in Workers, IngestStep(w)
      PROVE  AttemptEffects
  <2>1. CASE Goto(w, IdleWorker)
    BY <1>2, <2>1, IngestAttempts, EndClaims, NoClaim
  <2>2. CASE ~Goto(w, IdleWorker)
    <3> DEFINE s == [worker[w] EXCEPT !.pc = "deflag"]
    <3>1. Goto(w, s)
      BY <1>2, <2>2 DEF IngestStep, RssInsert, RssUpdate, RssDeflag, ApiInsert, ApiUpdate
    <3>2. s.pc = "deflag"
      BY DEF Typed, TypeOK, WorkerState
    <3> HIDE DEF s
    <3>3. QED
      BY <1>2, <3>1, <3>2, IngestAttempts, GotoClaims, NoClaim
  <2>3. QED
    BY <2>1, <2>2
<1>3. ASSUME NEW w \in Workers, NEW pc, EndBatch(w, pc)
      PROVE  AttemptEffects
  BY <1>3, SameRowsAttempts, EndClaims, NoClaim DEF EndBatch
<1>4. ASSUME NEW w \in Workers, BodyStep(w)
      PROVE  AttemptEffects
  <2>1. ASSUME NEW i \in Items, BodyClaim(w, i)
        PROVE  AttemptEffects
    BY <2>1, ClaimAttempts DEF BodyClaim
  <2>2. ASSUME NEW page \in PageLens, BodyStore(w, page)
        PROVE  AttemptEffects
    <3>1. worker[w].item \in Items /\ DropFromBatch(w, worker[w].item)
      BY <2>2 DEF BodyStore, Typed, TypeOK, WorkerState
    <3>2. FewerAttempts
      BY <2>2, <3>1, ItemAttempts
    <3>3. QED
      BY <3>1, <3>2, DropClaims, NoClaim
  <2>3. QED
    BY <1>3, <1>4, <2>1, <2>2, SelectAttempts DEF BodyStep
<1>5. ASSUME NEW w \in Workers, JudgeStep(w) \/ TextStep(w)
      PROVE  AttemptEffects
  <2>1. ASSUME NEW i \in Items, NEW b \in BOOLEAN,
               \/ DedupItem(w, i, b) \/ EnrichItem(w, i, b)
               \/ FactsItem(w, i, b) \/ StoriesItem(w, i, b)
        PROVE  AttemptEffects
    <3>1. DropFromBatch(w, i) /\ worker[w].pc # "body"
      BY <2>1 DEF DedupItem, EnrichItem, FactsItem, StoriesItem
    <3>2. QED
      BY <2>1, <3>1, ItemAttempts, DropClaims, NoClaim
  <2>2. CASE DedupSelect(w) \/ EnrichSelect(w) \/ FactsSelect(w) \/ StoriesSelect(w)
    <3>1. UNCHANGED row /\ \E pc \in {"dedup", "enrich", "facts", "stories"} :
                               \E batch : StartBatch(w, pc, batch)
      BY <2>2, Zenon DEF DedupSelect, EnrichSelect, FactsSelect, StoriesSelect
    <3>2. QED
      BY <3>1, SameRowsAttempts, StartClaims, NoClaim
  <2>3. QED
    BY <1>3, <1>5, <2>1, <2>2 DEF JudgeStep, TextStep
<1>6. ASSUME NEW i \in Items, ClaimGoesStale(i)
      PROVE  AttemptEffects
  <2>1. FewerClaims
    BY <1>6 DEF ClaimGoesStale, FewerClaims, WaitsFor
  <2>2. QED
    BY <1>6, <2>1, ItemAttempts, NoClaim
<1>7. CASE Crash
  <2>1. \A w \in Workers : worker'[w].pc = "idle"
    BY <1>7, StartTypes DEF Crash
  <2>2. QED
    BY <1>7, <2>1, SameRowsAttempts, NoClaim DEF Crash, FewerClaims, WaitsFor
<1>8. CASE UNCHANGED vars
  BY <1>8, SameRowsAttempts, NoClaim DEF vars, FewerClaims, WaitsFor
<1>9. QED
  BY <1>1, <1>2, <1>4, <1>5, <1>6, <1>7, <1>8, FailureAttempts DEF Next, Step

\* The executions that wait for an article are body fetchers, finitely many.
LEMMA WaitingFinite ==
  ASSUME NEW i \in Items, \A w \in Waiting(i) : w \in BodyWorkers
  PROVE  /\ IsFiniteSet(Waiting(i)) /\ Cardinality(Waiting(i)) \in Nat
         /\ Cardinality(BodyWorkers) \in Nat
         /\ Cardinality(Waiting(i)) <= Cardinality(BodyWorkers)
<1>1. BodyWorkers \subseteq Workers /\ Waiting(i) \subseteq BodyWorkers
  BY DEF BodyWorkers
<1>2. IsFiniteSet(BodyWorkers)
  BY <1>1, WorkersAssumption, FS_Subset
<1>3. QED
  BY <1>1, <1>2, FS_Subset, FS_CardinalityType

\* An attempt is spent by an execution that no longer waits; a batch that
\* starts to wait read fewer attempts than the maximum.
LEMMA AttemptInvStep ==
  ASSUME Typed, AttemptInv, [Next]_vars
  PROVE  AttemptInv'
<1>1. AttemptEffects /\ row' \in [Items -> RowState]
  BY NextAttempts, NextEffects DEF Effects, TypedNext
<1>2. \A w \in Workers : worker'[w].pc = "body" => w \in BodyWorkers
  BY <1>1 DEF AttemptEffects, AttemptInv
<1>3. ASSUME NEW i \in Items, Spent(i)' > 0
      PROVE  Spent(i)' < MaxAttempts + Cardinality(BodyWorkers)
  <2>1. /\ \A w \in Waiting(i) : w \in BodyWorkers
        /\ \A w \in Waiting(i)' : w \in BodyWorkers
    BY <1>2 DEF Waiting, WaitsFor, AttemptInv
  <2>2. /\ IsFiniteSet(Waiting(i)) /\ Cardinality(Waiting(i)) \in Nat
        /\ Cardinality(BodyWorkers) \in Nat
    BY <2>1, WaitingFinite
  <2>3. BodyWorkers \subseteq Workers /\ IsFiniteSet(BodyWorkers)
    BY WorkersAssumption, FS_Subset DEF BodyWorkers
  <2>4. /\ Cardinality(Waiting(i)') \in Nat
        /\ Cardinality(Waiting(i)') <= Cardinality(BodyWorkers)
    BY <2>1, <2>3, FS_Subset, FS_CardinalityType
  <2>5. row[i].attempts \in Nat /\ row'[i].attempts \in Nat /\ MaxAttempts \in Nat
    BY <1>1, BoundsAssumption DEF Typed, TypeOK, RowState
  <2>6. /\ Spent(i) = row[i].attempts + Cardinality(Waiting(i))
        /\ Spent(i)' = row'[i].attempts + Cardinality(Waiting(i)')
    BY DEF Spent
  <2>7. Spent(i) > 0 => Spent(i) < MaxAttempts + Cardinality(BodyWorkers)
    BY DEF AttemptInv
  <2>8. CASE row'[i].attempts <= row[i].attempts /\ Waiting(i)' \subseteq Waiting(i)
    <3>1. Cardinality(Waiting(i)') <= Cardinality(Waiting(i))
      BY <2>2, <2>8, FS_Subset
    <3>2. QED
      BY <1>3, <2>2, <2>4, <2>5, <2>6, <2>7, <2>8, <3>1
  <2>9. ASSUME NEW w \in Waiting(i), row'[i].attempts = row[i].attempts + 1,
               Waiting(i)' \subseteq Waiting(i) \ {w}
        PROVE  Spent(i)' < MaxAttempts + Cardinality(BodyWorkers)
    <3>1. /\ IsFiniteSet(Waiting(i) \ {w})
          /\ Cardinality(Waiting(i) \ {w}) = Cardinality(Waiting(i)) - 1
      BY <2>2, FS_RemoveElement
    <3>2. Cardinality(Waiting(i)') <= Cardinality(Waiting(i)) - 1
      BY <2>9, <3>1, FS_Subset
    <3>3. QED
      BY <1>3, <2>2, <2>4, <2>5, <2>6, <2>7, <2>9, <3>2
  <2>10. CASE row'[i].attempts = row[i].attempts /\ row[i].attempts < MaxAttempts
    BY <2>2, <2>4, <2>5, <2>6, <2>10
  <2>11. QED
    BY <1>1, <2>8, <2>9, <2>10 DEF AttemptEffects, AttemptStep
<1>4. QED
  BY <1>2, <1>3 DEF AttemptInv, BodyWorkers

\* No article is claimed more than maxBodyAttempts times plus once for every
\* other body batch that overlaps, whatever re-ingest, crashes and resets do:
\* what is spent and what the batches in progress may still spend never
\* exceeds that sum.
THEOREM AttemptsBounded == Spec => []AttemptsAreBounded
<1>1. ASSUME Init
      PROVE  AttemptInv
  <2>1. \A w \in Workers : worker[w].pc = "idle"
    BY <1>1, StartTypes DEF Init
  <2>2. \A i \in Items : row[i].attempts = 0 /\ Waiting(i) = {}
    BY <1>1, <2>1 DEF Init, NoRow, Waiting, WaitsFor
  <2>3. \A i \in Items : Spent(i) = 0
    BY <2>2, FS_EmptySet DEF Spent
  <2>4. QED
    BY <2>1, <2>3 DEF AttemptInv
<1>2. Typed /\ AttemptInv /\ [Next]_vars => AttemptInv'
  BY AttemptInvStep
<1>3. ASSUME Typed, AttemptInv
      PROVE  AttemptsAreBounded
  <2> SUFFICES ASSUME NEW i \in Items, row[i].attempts > 0
               PROVE  row[i].attempts < MaxAttempts + Cardinality(BodyWorkers)
    BY DEF AttemptsAreBounded
  <2>1. \A w \in Waiting(i) : w \in BodyWorkers
    BY <1>3 DEF AttemptInv, Waiting, WaitsFor
  <2>2. Cardinality(Waiting(i)) \in Nat /\ Cardinality(BodyWorkers) \in Nat
    BY <2>1, WaitingFinite
  <2>3. row[i].attempts \in Nat /\ MaxAttempts \in Nat
    BY <1>3, BoundsAssumption DEF Typed, TypeOK, RowState
  <2>4. Spent(i) > 0 => Spent(i) < MaxAttempts + Cardinality(BodyWorkers)
    BY <1>3 DEF AttemptInv
  <2>5. QED
    BY <2>2, <2>3, <2>4 DEF Spent
<1>4. QED
  BY <1>1, <1>2, <1>3, TypedInvariant, PTL DEF Spec
=============================================================================
