----------------------------- MODULE ChunkEmbed -----------------------------
(***************************************************************************)
(* Chunks and embeddings of one news item (internal/pipeline/chunk.go and  *)
(* embed.go) while RSS re-ingest and body fetches rewrite its text.        *)
(* Chunkers replace the chunk rows in a transaction, embedders fill in the *)
(* vectors by row id; both work from what an earlier query returned.       *)
(***************************************************************************)
EXTENDS Naturals, FiniteSets

CONSTANTS
    Versions,    \* texts the item may have, named by their lengths
    Summaries,   \* feed summaries; RSS hashes these, not the text
    SummaryOf,   \* SummaryOf[v]: the summary the feed sends along with text v
    ChunksOf,    \* ChunksOf[v]: how many chunks SplitByHeadings makes of v
    Chunkers, Embedders,
    MaxWrites,   \* bounds on the content writes of "rss" and of "page"
    Batches,     \* names for the rows one transaction inserts
    MaxFaults,   \* bound on failures and crashes
    None

ASSUME VersionsAssumption ==
    /\ Versions \subseteq Nat
    /\ SummaryOf \in [Versions -> Summaries]
    /\ ChunksOf \in [Versions -> Nat \ {0}]
ASSUME BoundsAssumption ==
    /\ MaxWrites \in [{"rss", "page"} -> Nat]
    /\ MaxFaults \in Nat
\* Row ids are never used again: the rows, the transactions and the vectors
\* under way refer to fewer batches than there are, one for each chunker in
\* each of them.
ASSUME BatchesAssumption ==
    /\ IsFiniteSet(Chunkers) /\ IsFiniteSet(Embedders) /\ IsFiniteSet(Batches)
    /\ Cardinality(Batches) > Cardinality(Chunkers)
                                 + Cardinality(Chunkers) * Cardinality(Embedders)
                                 + Cardinality(Chunkers) * Cardinality(Chunkers)

VARIABLES
    item,      \* [text, hash, chunkedHash] of the news_item row
    chunks,    \* the news_chunk rows: [id, text, vec], id = <<batch, chunk_index>>
    chunker,   \* chunker[c]: the rows read and the transaction
    embedder,  \* embedder[e]: chunk rows whose vector is being computed
    writes, faults   \* content writes of each kind and failures left

vars == <<item, chunks, chunker, embedder, writes, faults>>

IdleChunker == [pc |-> "idle", text |-> None, hash |-> None, doomed |-> {}]

\* content_hash over a feed summary, and over a text a page yielded.
SummaryHash(v) == <<"summary", SummaryOf[v]>>
TextHash(v) == <<"text", v>>

Init ==
    /\ \E v \in Versions : item = [text |-> v, hash |-> SummaryHash(v), chunkedHash |-> None]
    /\ chunks = {}
    /\ chunker = [c \in Chunkers |-> IdleChunker]
    /\ embedder = [e \in Embedders |-> {}]
    /\ writes = MaxWrites /\ faults = MaxFaults

-----------------------------------------------------------------------------
Write(kind, text, hash) ==
    /\ writes[kind] > 0
    /\ writes' = [writes EXCEPT ![kind] = @ - 1]
    /\ item' = [item EXCEPT !.text = text, !.hash = hash]
    /\ UNCHANGED <<chunks, chunker, embedder, faults>>

\* updateExistingItem with a longer feed text.
RssReplacesText(v) == v > item.text /\ Write("rss", v, SummaryHash(v))

\* updateExistingItem otherwise: the summary's hash without the text.
RssKeepsText(v) == v <= item.text /\ Write("rss", item.text, SummaryHash(v))

\* Mutant of PageReplacesText: the hash is cleared.
PageReplacesTextUnhashed(v) == v > item.text /\ Write("page", v, None)

\* processItem with a longer page: text and its hash.
PageReplacesText(v) == v > item.text /\ Write("page", v, TextHash(v))

-----------------------------------------------------------------------------
\* The WHERE clause of ChunkBatch.
NeedsChunking == chunks = {} \/ item.chunkedHash # item.hash

ChunkSelect(c) ==
    /\ chunker[c].pc = "idle"
    /\ NeedsChunking
    /\ chunker' = [chunker EXCEPT ![c] = [pc |-> "read", text |-> item.text,
                                          hash |-> item.hash, doomed |-> {}]]
    /\ UNCHANGED <<item, chunks, embedder, writes, faults>>

\* The transaction's DELETE: the statement sees the rows committed so far.
ChunkDelete(c) ==
    /\ chunker[c].pc = "read"
    /\ chunker' = [chunker EXCEPT ![c].pc = "tx", ![c].doomed = {k.id : k \in chunks}]
    /\ UNCHANGED <<item, chunks, embedder, writes, faults>>

\* New ids: a batch no row, transaction or vector under way still refers to.
NewBatch ==
    CHOOSE b \in Batches :
        /\ \A k \in chunks \cup UNION {embedder[e] : e \in Embedders} : k.id[1] # b
        /\ \A c \in Chunkers : \A id \in chunker[c].doomed : id[1] # b

\* Rows that another transaction put in place of the deleted ones are found
\* by ON CONFLICT: they get the new text and keep their id and vector.
Upsert(kept, v) ==
    LET Row(x) == IF \E k \in kept : k.id[2] = x
                  THEN [(CHOOSE k \in kept : k.id[2] = x) EXCEPT !.text = v]
                  ELSE [id |-> <<NewBatch, x>>, text |-> v, vec |-> None]
    IN  {k \in kept : k.id[2] > ChunksOf[v]} \cup {Row(x) : x \in 1..ChunksOf[v]}

CommitWith(c, hash) ==
    /\ chunker[c].pc = "tx"
    /\ chunks' = Upsert({k \in chunks : k.id \notin chunker[c].doomed}, chunker[c].text)
    /\ item' = [item EXCEPT !.chunkedHash = hash]
    /\ chunker' = [chunker EXCEPT ![c] = IdleChunker]
    /\ UNCHANGED <<embedder, writes, faults>>

\* Mutant of ChunkCommit: the hash current at commit time is recorded.
ChunkCommitRereading(c) == CommitWith(c, item.hash)

\* INSERT ... ON CONFLICT, chunked_content_hash := the hash read, COMMIT.
ChunkCommit(c) == CommitWith(c, chunker[c].hash)

-----------------------------------------------------------------------------
EmbedSelect(e) ==
    /\ embedder[e] = {}
    /\ embedder' = [embedder EXCEPT ![e] = {k \in chunks : k.vec = None}]
    /\ UNCHANGED <<item, chunks, chunker, writes, faults>>

\* Mutant of EmbedStore: the row is found by its chunk index.
EmbedStoreByIndex(e, k) ==
    /\ k \in embedder[e]
    /\ chunks' = {IF r.id[2] = k.id[2] THEN [r EXCEPT !.vec = k.text] ELSE r : r \in chunks}
    /\ embedder' = [embedder EXCEPT ![e] = @ \ {k}]
    /\ UNCHANGED <<item, chunker, writes, faults>>

\* The vector of the text read goes to the row of that id, if it still exists.
EmbedStore(e, k) ==
    /\ k \in embedder[e]
    /\ chunks' = {IF r.id = k.id THEN [r EXCEPT !.vec = k.text] ELSE r : r \in chunks}
    /\ embedder' = [embedder EXCEPT ![e] = @ \ {k}]
    /\ UNCHANGED <<item, chunker, writes, faults>>

-----------------------------------------------------------------------------
\* An embedding or its UPDATE fails, or a chunk transaction is rolled back:
\* logged and left to a later batch.
Failure ==
    /\ faults > 0 /\ faults' = faults - 1
    /\ \/ \E e \in Embedders : \E k \in embedder[e] :
              embedder' = [embedder EXCEPT ![e] = @ \ {k}] /\ UNCHANGED chunker
       \/ \E c \in Chunkers :
              /\ chunker[c].pc # "idle"
              /\ chunker' = [chunker EXCEPT ![c] = IdleChunker]
              /\ UNCHANGED embedder
    /\ UNCHANGED <<item, chunks, writes>>

\* The daemon dies; open transactions are rolled back.
Crash ==
    /\ faults > 0 /\ faults' = faults - 1
    /\ chunker' = [c \in Chunkers |-> IdleChunker]
    /\ embedder' = [e \in Embedders |-> {}]
    /\ UNCHANGED <<item, chunks, writes>>

ChunkStep(c) == ChunkSelect(c) \/ ChunkDelete(c) \/ ChunkCommit(c)

EmbedStep(e) == EmbedSelect(e) \/ \E k \in embedder[e] : EmbedStore(e, k)

Writes == \E v \in Versions : RssReplacesText(v) \/ RssKeepsText(v) \/ PageReplacesText(v)

Next ==
    \/ Writes
    \/ \E c \in Chunkers : ChunkStep(c)
    \/ \E e \in Embedders : EmbedStep(e)
    \/ Failure
    \/ Crash

\* Batches are scheduled again and again and their calls time out.
Fairness == /\ \A c \in Chunkers : WF_vars(ChunkStep(c))
            /\ \A e \in Embedders : WF_vars(EmbedStep(e))

Spec == Init /\ [][Next]_vars /\ Fairness

-----------------------------------------------------------------------------
Hashes == {SummaryHash(v) : v \in Versions} \cup {TextHash(v) : v \in Versions}

RowIds == Batches \X (Nat \ {0})

\* Type invariant; (item, chunk_index) is unique, as the table demands.
TypeOK ==
    /\ item.text \in Versions
    /\ item.hash \in Hashes /\ item.chunkedHash \in Hashes \cup {None}
    /\ chunks \subseteq [id : RowIds, text : Versions, vec : Versions \cup {None}]
    /\ \A k, l \in chunks : k.id[2] = l.id[2] => k = l
    /\ \A c \in Chunkers :
          /\ chunker[c].pc \in {"idle", "read", "tx"}
          /\ chunker[c].pc # "idle" => chunker[c].text \in Versions
    /\ \A kind \in DOMAIN MaxWrites : writes[kind] \in 0..MaxWrites[kind]
    /\ faults \in 0..MaxFaults

\* A vector belongs to the text beside it, although the row may have been
\* deleted and the item re-chunked while the vector was computed
\* (embed.go:91-93 against chunk.go:131-147; chunk.go:40-43: chunks are
\* inserted "without embeddings - embeddings are added by the Embedder").
VectorsMatchTexts == \A k \in chunks : k.vec \in {None, k.text}

NoRssWrite == writes["rss"] = MaxWrites["rss"]

\* After the last page write the item ends up with all chunks of its text,
\* each with its vector, whatever batches failed or died, unless RSS wrote.
Searchable ==
    /\ {k.id[2] : k \in chunks} = 1..ChunksOf[item.text]
    /\ \A k \in chunks : k.text = item.text /\ k.vec = item.text

EventuallySearchable == <>[](NoRssWrite => Searchable)
=============================================================================
