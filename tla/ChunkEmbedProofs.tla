-------------------------- MODULE ChunkEmbedProofs --------------------------
(***************************************************************************)
(* Proofs about ChunkEmbed.tla for every set of texts, summaries, chunkers *)
(* and embedders.  The rows keep their form and their unique index however *)
(* chunk transactions overlap.  What the vectors hold needs one chunker:   *)
(* overlapping transactions meet in ON CONFLICT (chunk.go:137), which      *)
(* keeps the vector of the text it replaces, and VectorsMatchTexts is not  *)
(* true of them.                                                           *)
(***************************************************************************)
EXTENDS ChunkEmbed, TLAPS, FiniteSetTheorems

\* One chunk batch at a time, as the schedule alone has it.
SoleChunker == \A c, d \in Chunkers : c = d

-----------------------------------------------------------------------------
(* The strengthened invariants.                                            *)

ItemType == [text : Versions, hash : Hashes, chunkedHash : Hashes \cup {None}]

Row == [id : RowIds, text : Versions, vec : Versions \cup {None}]

ChunkerState ==
    [pc : {"idle", "read", "tx"}, text : Versions \cup {None},
     hash : Hashes \cup {None}, doomed : SUBSET RowIds]

ChunkersOK ==
    /\ chunker \in [Chunkers -> ChunkerState]
    /\ \A c \in Chunkers : chunker[c].pc # "idle" =>
                              chunker[c].text \in Versions /\ chunker[c].hash \in Hashes

CountsOK ==
    /\ writes \in [{"rss", "page"} -> Nat]
    /\ \A kind \in {"rss", "page"} : writes[kind] <= MaxWrites[kind]
    /\ faults \in 0..MaxFaults

ChunksOK ==
    /\ chunks \subseteq Row
    /\ \A k, l \in chunks : k.id[2] = l.id[2] => k = l

Typed ==
    /\ item \in ItemType
    /\ ChunksOK
    /\ ChunkersOK
    /\ embedder \in [Embedders -> SUBSET Row]
    /\ CountsOK

\* The batch each chunker inserted last, as far as rows of it are left.
NoBatch == CHOOSE b : b \notin Batches

Maps == [Chunkers -> Batches \cup {NoBatch}]

\* The rows are the last batches of the chunkers; a transaction deletes what
\* is left of the one its own chunker inserted before.
OwnedBy(f) ==
    /\ \A k \in chunks : \E c \in Chunkers : k.id[1] = f[c]
    /\ \A c \in Chunkers : chunker[c].pc = "tx" =>
           \A k \in chunks : k.id[1] = f[c] => k.id \in chunker[c].doomed

\* Ids read together are of no more batches than there are chunkers.
Within(ids) == \E f \in Maps : \A i \in ids : \E c \in Chunkers : i[1] = f[c]

FewBatches ==
    /\ \E f \in Maps : OwnedBy(f)
    /\ \A e \in Embedders : Within({k.id : k \in embedder[e]})
    /\ \A c \in Chunkers : Within(chunker[c].doomed)

Base == Typed /\ FewBatches

\* The transaction deletes every row there is.
InTx == \A c \in Chunkers : chunker[c].pc = "tx" =>
            \A k \in chunks : k.id \in chunker[c].doomed

\* A row that a vector is computed for still has the text it was read with.
TextsStand ==
    \A e \in Embedders : \A k \in embedder[e] : \A r \in chunks :
        r.id = k.id => r.text = k.text

Exact == InTx /\ TextsStand /\ VectorsMatchTexts

-----------------------------------------------------------------------------
(* New row ids.                                                            *)

LEMMA NoBatchIsNone == NoBatch \notin Batches
BY NoSetContainsEverything DEF NoBatch

\* A set of ids within those of one that is Within is so too.
LEMMA WithinLess ==
  ASSUME NEW S, NEW T, Within(S), T \subseteq S
  PROVE  Within(T)
BY DEF Within

LEMMA WithinNone == Within({})
<1> DEFINE f == [c \in Chunkers |-> NoBatch]
<1>1. f \in Maps
  BY DEF Maps
<1> QED BY <1>1 DEF Within

\* A function has no more values than arguments.
LEMMA FewValues ==
  ASSUME NEW S, IsFiniteSet(S), NEW f, f = [x \in S |-> f[x]]
  PROVE  LET T == {f[x] : x \in S}
         IN  IsFiniteSet(T) /\ Cardinality(T) \in Nat /\ Cardinality(T) <= Cardinality(S)
<1> DEFINE T == {f[x] : x \in S}
<1>1. f \in Surjection(S, T)
  BY DEF Surjection
<1> HIDE DEF T
<1>2. IsFiniteSet(T) /\ Cardinality(T) <= Cardinality(S)
  BY <1>1, FS_Surjection
<1>3. Cardinality(T) \in Nat
  BY <1>2, FS_CardinalityType
<1> QED BY <1>2, <1>3 DEF T

\* The values of a function of two arguments.
LEMMA FewPairs ==
  ASSUME NEW A, NEW B, IsFiniteSet(A), IsFiniteSet(B), NEW P, P = A \X B,
         NEW f, f = [p \in P |-> f[p]]
  PROVE  LET T == {f[p] : p \in P}
         IN  IsFiniteSet(T) /\ Cardinality(T) <= Cardinality(A) * Cardinality(B)
<1>1. IsFiniteSet(P) /\ Cardinality(P) = Cardinality(A) * Cardinality(B)
  BY FS_Product
<1>2. LET T == {f[p] : p \in P}
      IN  IsFiniteSet(T) /\ Cardinality(T) \in Nat /\ Cardinality(T) <= Cardinality(P)
  BY <1>1, FewValues
<1> QED BY <1>1, <1>2

\* A union is no larger than its parts together.
LEMMA UnionBound ==
  ASSUME NEW S, NEW T, IsFiniteSet(S), IsFiniteSet(T), NEW m \in Nat, NEW n \in Nat,
         Cardinality(S) <= m, Cardinality(T) <= n
  PROVE  IsFiniteSet(S \cup T) /\ Cardinality(S \cup T) <= m + n
<1>1. IsFiniteSet(S \cup T)
      /\ Cardinality(S \cup T) = Cardinality(S) + Cardinality(T) - Cardinality(S \cap T)
  BY FS_Union
<1>2. Cardinality(S \cap T) \in Nat /\ Cardinality(S) \in Nat /\ Cardinality(T) \in Nat
  BY FS_Intersection, FS_CardinalityType
<1> QED BY <1>1, <1>2

\* There is a batch that nothing under way refers to, and NewBatch is one.
LEMMA BatchLeft ==
  ASSUME FewBatches
  PROVE  /\ NewBatch \in Batches
         /\ \A k \in chunks : k.id[1] # NewBatch
         /\ \A e \in Embedders : \A k \in embedder[e] : k.id[1] # NewBatch
         /\ \A c \in Chunkers : \A id \in chunker[c].doomed : id[1] # NewBatch
<1> DEFINE Fits(f, ids) == \A i \in ids : \E c \in Chunkers : i[1] = f[c]
           ef == [e \in Embedders |-> CHOOSE f \in Maps : Fits(f, {k.id : k \in embedder[e]})]
           df == [d \in Chunkers |-> CHOOSE f \in Maps : Fits(f, chunker[d].doomed)]
           eb == [p \in Chunkers \X Embedders |-> ef[p[2]][p[1]]]
           db == [p \in Chunkers \X Chunkers |-> df[p[2]][p[1]]]
           EB == {eb[p] : p \in Chunkers \X Embedders}
           DB == {db[p] : p \in Chunkers \X Chunkers}
           Free(b) ==
             /\ \A k \in chunks \cup UNION {embedder[e] : e \in Embedders} : k.id[1] # b
             /\ \A c \in Chunkers : \A id \in chunker[c].doomed : id[1] # b
<1>1. PICK f \in Maps : \A k \in chunks : \E c \in Chunkers : k.id[1] = f[c]
  BY DEF FewBatches, OwnedBy
<1> DEFINE CB == {f[c] : c \in Chunkers}
<1>2. \A e \in Embedders : \A k \in embedder[e] : k.id[1] \in EB
  <2> SUFFICES ASSUME NEW e \in Embedders, NEW k \in embedder[e] PROVE k.id[1] \in EB
    OBVIOUS
  <2>1. \E g \in Maps : Fits(g, {l.id : l \in embedder[e]})
    BY DEF FewBatches, Within
  <2>2. Fits(ef[e], {l.id : l \in embedder[e]})
    <3> DEFINE ids == {l.id : l \in embedder[e]}
    <3>1. ef[e] = CHOOSE g \in Maps : Fits(g, ids)
      OBVIOUS
    <3> HIDE DEF Fits, ids, ef
    <3>2. Fits(ef[e], ids)
      BY <2>1, <3>1, Zenon DEF ids
    <3> QED BY <3>2 DEF ids
  <2>3. PICK c \in Chunkers : k.id[1] = ef[e][c]
    BY <2>2
  <2> HIDE DEF ef
  <2>4. <<c, e>> \in Chunkers \X Embedders /\ eb[<<c, e>>] = ef[e][c]
    OBVIOUS
  <2> HIDE DEF eb
  <2> QED BY <2>3, <2>4
<1>3. \A d \in Chunkers : \A id \in chunker[d].doomed : id[1] \in DB
  <2> SUFFICES ASSUME NEW d \in Chunkers, NEW id \in chunker[d].doomed PROVE id[1] \in DB
    OBVIOUS
  <2>1. \E g \in Maps : Fits(g, chunker[d].doomed)
    BY DEF FewBatches, Within
  <2>2. Fits(df[d], chunker[d].doomed)
    <3>1. df[d] = CHOOSE g \in Maps : Fits(g, chunker[d].doomed)
      OBVIOUS
    <3> HIDE DEF Fits, df
    <3> QED BY <2>1, <3>1, Zenon
  <2>3. PICK c \in Chunkers : id[1] = df[d][c]
    BY <2>2
  <2> HIDE DEF df
  <2>4. <<c, d>> \in Chunkers \X Chunkers /\ db[<<c, d>>] = df[d][c]
    OBVIOUS
  <2> HIDE DEF db
  <2> QED BY <2>3, <2>4
<1>4. IsFiniteSet(CB) /\ Cardinality(CB) <= Cardinality(Chunkers)
  <2>1. f = [c \in Chunkers |-> f[c]]
    BY DEF Maps
  <2> QED BY <2>1, FewValues, BatchesAssumption
<1>5. IsFiniteSet(EB) /\ Cardinality(EB) <= Cardinality(Chunkers) * Cardinality(Embedders)
  <2> DEFINE P == Chunkers \X Embedders
  <2>1. eb = [p \in P |-> eb[p]] /\ P = Chunkers \X Embedders
    OBVIOUS
  <2> HIDE DEF eb, P
  <2>2. LET T == {eb[p] : p \in P}
        IN  /\ IsFiniteSet(T)
            /\ Cardinality(T) <= Cardinality(Chunkers) * Cardinality(Embedders)
    BY <2>1, FewPairs, BatchesAssumption
  <2> QED BY <2>2 DEF P
<1>6. IsFiniteSet(DB) /\ Cardinality(DB) <= Cardinality(Chunkers) * Cardinality(Chunkers)
  <2> DEFINE P == Chunkers \X Chunkers
  <2>1. db = [p \in P |-> db[p]] /\ P = Chunkers \X Chunkers
    OBVIOUS
  <2> HIDE DEF db, P
  <2>2. LET T == {db[p] : p \in P}
        IN  /\ IsFiniteSet(T)
            /\ Cardinality(T) <= Cardinality(Chunkers) * Cardinality(Chunkers)
    BY <2>1, FewPairs, BatchesAssumption
  <2> QED BY <2>2 DEF P
<1> HIDE DEF ef, df, eb, db, EB, DB
<1>7. \A b : b \notin (CB \cup EB) \cup DB => Free(b)
  <2> SUFFICES ASSUME NEW b, b \notin CB, b \notin EB, b \notin DB PROVE Free(b)
    OBVIOUS
  <2>1. \A k \in chunks : k.id[1] # b
    BY <1>1
  <2> QED BY <1>2, <1>3, <2>1
<1> HIDE DEF CB
<1>8. \E b \in Batches : b \notin (CB \cup EB) \cup DB
  <2> SUFFICES ASSUME Batches \subseteq (CB \cup EB) \cup DB PROVE FALSE
    OBVIOUS
  <2> DEFINE nc == Cardinality(Chunkers)
             ne == Cardinality(Embedders)
             U == CB \cup EB
             W == U \cup DB
  <2>1. nc \in Nat /\ ne \in Nat
    BY FS_CardinalityType, BatchesAssumption
  <2>2. nc * ne \in Nat /\ nc * nc \in Nat /\ nc + nc * ne \in Nat
    <3> HIDE DEF nc, ne
    <3> QED BY <2>1
  <2> HIDE DEF nc, ne
  <2>3. IsFiniteSet(U) /\ Cardinality(U) <= nc + nc * ne
    BY <1>4, <1>5, <2>1, <2>2, UnionBound DEF nc, ne
  <2> HIDE DEF U
  <2>4. IsFiniteSet(W) /\ Cardinality(W) <= (nc + nc * ne) + nc * nc
    BY <1>6, <2>2, <2>3, UnionBound DEF nc
  <2>5. Batches \subseteq W
    BY DEF U
  <2> HIDE DEF W
  <2>6. /\ Cardinality(Batches) <= Cardinality(W)
        /\ Cardinality(Batches) \in Nat /\ Cardinality(W) \in Nat
    BY <2>4, <2>5, FS_Subset, FS_CardinalityType, BatchesAssumption
  <2>7. Cardinality(Batches) > nc + nc * ne + nc * nc
    BY BatchesAssumption DEF nc, ne
  <2> QED BY <2>2, <2>4, <2>6, <2>7
<1>9. NewBatch = CHOOSE b \in Batches : Free(b)
  BY Zenon DEF NewBatch
<1>10. \E b \in Batches : Free(b)
  BY <1>7, <1>8
<1> HIDE DEF Free
<1>11. NewBatch \in Batches /\ Free(NewBatch)
  BY <1>9, <1>10, Zenon
<1> QED BY <1>11 DEF Free

-----------------------------------------------------------------------------
(* The rows keep their form: every step, however chunkers overlap.         *)

\* Writes change the item alone.
LEMMA WriteTyped == ASSUME Base, Writes PROVE Base' /\ UNCHANGED <<chunks, chunker, embedder>>
<1>1. PICK v \in Versions :
        RssReplacesText(v) \/ RssKeepsText(v) \/ PageReplacesText(v)
  BY DEF Writes
<1>2. SummaryHash(v) \in Hashes /\ TextHash(v) \in Hashes
  BY DEF Hashes
<1>3. PICK kind \in {"rss", "page"}, text \in Versions, hash \in Hashes : Write(kind, text, hash)
  <2>1. item.text \in Versions
    BY DEF Base, Typed, ItemType
  <2>2. CASE RssReplacesText(v)
    BY <1>2, <2>2 DEF RssReplacesText
  <2>3. CASE RssKeepsText(v)
    BY <1>2, <2>1, <2>3 DEF RssKeepsText
  <2>4. CASE PageReplacesText(v)
    BY <1>2, <2>4 DEF PageReplacesText
  <2> QED BY <1>1, <2>2, <2>3, <2>4
<1>4. UNCHANGED <<chunks, chunker, embedder, faults>>
  BY <1>3 DEF Write
<1>5. item' \in ItemType
  BY <1>3 DEF Write, ItemType, Base, Typed
<1>6. CountsOK'
  BY <1>3, BoundsAssumption DEF Write, Base, Typed, CountsOK
<1>7. Typed'
  BY <1>4, <1>5, <1>6 DEF Base, Typed, ChunksOK, ChunkersOK
<1> QED BY <1>4, <1>7 DEF Base, FewBatches, OwnedBy, Within

\* A chunker that reads, or locks the rows it will delete.
LEMMA ChunkReadTyped ==
  ASSUME Base, NEW c \in Chunkers, ChunkSelect(c) \/ ChunkDelete(c)
  PROVE  /\ Base' /\ UNCHANGED <<chunks, embedder>>
         /\ \A b \in Chunkers : b # c => chunker'[b] = chunker[b]
         /\ chunker'[c].pc = "tx" => \A k \in chunks : k.id \in chunker'[c].doomed
<1>1. UNCHANGED <<item, chunks, embedder, writes, faults>>
  BY DEF ChunkSelect, ChunkDelete
<1>2. chunker \in [Chunkers -> ChunkerState] /\ chunker[c] \in ChunkerState
  BY DEF Base, Typed, ChunkersOK
<1>3. PICK f \in Maps : OwnedBy(f)
  BY DEF Base, FewBatches
<1> DEFINE d == chunker'[c]
<1>4. /\ d \in ChunkerState /\ (d.pc # "idle" => d.text \in Versions /\ d.hash \in Hashes)
      /\ Within(d.doomed)
      /\ d.pc = "tx" => \A k \in chunks : k.id \in d.doomed
      /\ chunker' = [chunker EXCEPT ![c] = d]
  <2>1. CASE ChunkSelect(c)
    <3> DEFINE r == [pc |-> "read", text |-> item.text, hash |-> item.hash, doomed |-> {}]
    <3>1. r \in ChunkerState /\ r.text \in Versions /\ r.hash \in Hashes
          /\ r.pc = "read" /\ r.doomed = {}
      BY DEF Base, Typed, ItemType, ChunkerState
    <3>2. chunker' = [chunker EXCEPT ![c] = r]
      BY <2>1, Zenon DEF ChunkSelect
    <3> HIDE DEF r
    <3> QED BY <1>2, <3>1, <3>2, WithinNone
  <2>2. CASE ChunkDelete(c)
    <3> DEFINE ids == {k.id : k \in chunks}
               r == [chunker[c] EXCEPT !.pc = "tx", !.doomed = ids]
    <3>1. ids \in SUBSET RowIds
      BY DEF Base, Typed, ChunksOK, Row
    <3>2. Within(ids)
      BY <1>3 DEF OwnedBy, Within
    <3>3. \A k \in chunks : k.id \in ids
      OBVIOUS
    <3> HIDE DEF ids
    <3>4. r \in ChunkerState /\ r.pc = "tx" /\ r.doomed = ids
          /\ r.text = chunker[c].text /\ r.hash = chunker[c].hash
      BY <1>2, <3>1 DEF ChunkerState
    <3>5. chunker' = [chunker EXCEPT ![c] = r]
      BY <2>2, Zenon DEF ChunkDelete, ids
    <3>6. chunker[c].text \in Versions /\ chunker[c].hash \in Hashes
      BY <2>2 DEF ChunkDelete, Base, Typed, ChunkersOK
    <3> HIDE DEF r
    <3> QED BY <1>2, <3>2, <3>3, <3>4, <3>5, <3>6
  <2> QED BY <2>1, <2>2
<1> HIDE DEF d
<1>5. chunker' \in [Chunkers -> ChunkerState] /\ chunker'[c] = d
      /\ \A b \in Chunkers : b # c => chunker'[b] = chunker[b]
  BY <1>2, <1>4
<1>6. ChunkersOK'
  BY <1>4, <1>5 DEF Base, Typed, ChunkersOK
<1>7. Typed'
  BY <1>1, <1>6 DEF Base, Typed, ChunksOK, CountsOK
<1>8. FewBatches'
  <2>1. OwnedBy(f)'
    BY <1>1, <1>3, <1>4, <1>5 DEF OwnedBy
  <2>2. \A b \in Chunkers : Within(chunker[b].doomed)'
    <3>1. \A b \in Chunkers : Within(chunker'[b].doomed)
      BY <1>4, <1>5 DEF Base, FewBatches
    <3> QED BY <3>1 DEF Within
  <2>3. \A e \in Embedders : Within({k.id : k \in embedder[e]})'
    BY <1>1 DEF Base, FewBatches, Within
  <2> QED BY <2>1, <2>2, <2>3 DEF FewBatches
<1> QED BY <1>1, <1>4, <1>5, <1>7, <1>8 DEF Base

\* An idle chunker.
LEMMA IdleIsState ==
  /\ IdleChunker \in ChunkerState /\ IdleChunker.pc = "idle" /\ IdleChunker.doomed = {}
BY DEF IdleChunker, ChunkerState

\* What ON CONFLICT leaves: each index once, on new ids or on ids kept.
LEMMA UpsertRows ==
  ASSUME ChunksOK, NewBatch \in Batches, NEW kept \in SUBSET chunks, NEW v \in Versions
  PROVE  /\ Upsert(kept, v) \subseteq Row
         /\ \A k, l \in Upsert(kept, v) : k.id[2] = l.id[2] => k = l
         /\ \A r \in Upsert(kept, v) : r.id[1] = NewBatch \/ \E k \in kept : r.id = k.id
<1> DEFINE n == ChunksOf[v]
           Has(x) == \E k \in kept : k.id[2] = x
           At(x) == CHOOSE k \in kept : k.id[2] = x
           NewRow(x) == [id |-> <<NewBatch, x>>, text |-> v, vec |-> None]
           At2(x) == [At(x) EXCEPT !.text = v]
           R(x) == IF Has(x) THEN At2(x) ELSE NewRow(x)
           Left == {k \in kept : k.id[2] > n}
<1>1. Upsert(kept, v) = Left \cup {R(x) : x \in 1..n}
  BY DEF Upsert
<1>2. n \in Nat
  BY VersionsAssumption
<1>3. ASSUME NEW x \in 1..n
      PROVE  /\ R(x) \in Row /\ R(x).id[2] = x
             /\ R(x).id[1] = NewBatch \/ \E k \in kept : R(x).id = k.id
  <2>1. CASE Has(x)
    <3>1. At(x) \in kept /\ At(x).id[2] = x
      BY <2>1
    <3>2. R(x) = At2(x)
      BY <2>1
    <3> HIDE DEF R, At, Has
    <3>3. At(x) \in Row
      BY <3>1 DEF ChunksOK
    <3>4. At2(x) \in Row /\ At2(x).id = At(x).id
      BY <3>3 DEF Row
    <3> QED BY <3>1, <3>2, <3>4
  <2>2. CASE ~Has(x)
    <3>1. x \in Nat \ {0}
      BY <1>2
    <3>2. NewRow(x) \in Row /\ NewRow(x).id = <<NewBatch, x>>
      BY <3>1 DEF Row, RowIds
    <3>3. R(x) = NewRow(x)
      BY <2>2
    <3> HIDE DEF R, NewRow
    <3> QED BY <3>2, <3>3
  <2> QED BY <2>1, <2>2
<1> HIDE DEF n, R
<1>4. \A r \in Upsert(kept, v) : r \in Left \/ \E x \in 1..n : r = R(x)
  BY <1>1
<1>5. \A r \in Left : r \in Row /\ r.id[2] \in Nat /\ r.id[2] > n
  BY DEF ChunksOK, Row, RowIds
<1>6. ASSUME NEW k \in Upsert(kept, v), NEW l \in Upsert(kept, v), k.id[2] = l.id[2]
      PROVE  k = l
  <2>1. CASE k \in Left /\ l \in Left
    BY <1>6, <2>1 DEF ChunksOK
  <2>2. ASSUME NEW x \in 1..n, k = R(x) PROVE k = l
    <3>1. k.id[2] = x /\ ~(x > n)
      BY <1>2, <1>3, <2>2
    <3>2. l \notin Left
      BY <1>5, <1>6, <3>1
    <3>3. PICK y \in 1..n : l = R(y)
      BY <1>4, <3>2
    <3>4. x = y
      BY <1>3, <1>6, <3>1, <3>3
    <3> QED BY <2>2, <3>3, <3>4
  <2>3. ASSUME NEW x \in 1..n, l = R(x), k \in Left PROVE k = l
    BY <1>2, <1>3, <1>5, <1>6, <2>3
  <2> QED BY <1>4, <2>1, <2>2, <2>3
<1> QED BY <1>3, <1>4, <1>5, <1>6

\* A transaction commits: the rows it found, and those that others inserted
\* meanwhile, make way for its own or take its text.
LEMMA CommitTyped ==
  ASSUME Base, NEW c \in Chunkers, ChunkCommit(c)
  PROVE  Base' /\ UNCHANGED embedder
<1> DEFINE v == chunker[c].text
           kept == {k \in chunks : k.id \notin chunker[c].doomed}
<1>1. /\ chunker[c].pc = "tx" /\ UNCHANGED <<embedder, writes, faults>>
      /\ chunks' = Upsert(kept, v)
      /\ item' = [item EXCEPT !.chunkedHash = chunker[c].hash]
      /\ chunker' = [chunker EXCEPT ![c] = IdleChunker]
  BY DEF ChunkCommit, CommitWith
<1>2. v \in Versions /\ chunker[c].hash \in Hashes
  BY <1>1 DEF Base, Typed, ChunkersOK
<1>3. kept \in SUBSET chunks /\ \A k \in kept : k.id \notin chunker[c].doomed
  OBVIOUS
<1> HIDE DEF v, kept
<1>4. NewBatch \in Batches /\ \A k \in chunks : k.id[1] # NewBatch
  BY BatchLeft DEF Base
<1>5. ChunksOK'
      /\ \A r \in chunks' : r.id[1] = NewBatch \/ \E k \in kept : r.id = k.id
  <2>1. ChunksOK
    BY DEF Base, Typed
  <2> QED BY <1>1, <1>2, <1>3, <1>4, <2>1, UpsertRows DEF ChunksOK
<1>6. /\ chunker' \in [Chunkers -> ChunkerState]
      /\ chunker'[c] = IdleChunker
      /\ \A d \in Chunkers : d # c => chunker'[d] = chunker[d]
  BY <1>1, IdleIsState DEF Base, Typed, ChunkersOK
<1>7. item' \in ItemType
  BY <1>1, <1>2 DEF Base, Typed, ItemType
<1>8. Typed'
  <2>1. ChunkersOK'
    BY <1>6, IdleIsState DEF Base, Typed, ChunkersOK
  <2> QED BY <1>1, <1>5, <1>7, <2>1 DEF Base, Typed, CountsOK
<1>9. PICK f \in Maps : OwnedBy(f)
  BY DEF Base, FewBatches
<1>10. PICK g \in Maps :
          /\ g[c] = NewBatch
          /\ \A d \in Chunkers : d # c => g[d] # NewBatch
          /\ \A d \in Chunkers : d # c /\ g[d] # NoBatch => g[d] = f[d]
          /\ \A d \in Chunkers : d # c /\ f[d] # NewBatch => g[d] = f[d]
  <2> DEFINE h == [d \in Chunkers |-> IF d = c THEN NewBatch
                                      ELSE IF f[d] = NewBatch THEN NoBatch ELSE f[d]]
  <2>1. NoBatch # NewBatch
    BY <1>4, NoBatchIsNone
  <2>2. /\ h \in Maps /\ h[c] = NewBatch
        /\ \A d \in Chunkers : d # c => h[d] # NewBatch
        /\ \A d \in Chunkers : d # c /\ h[d] # NoBatch => h[d] = f[d]
        /\ \A d \in Chunkers : d # c /\ f[d] # NewBatch => h[d] = f[d]
    BY <1>4, <2>1 DEF Maps
  <2> HIDE DEF h
  <2> QED BY <2>2
<1>11. OwnedBy(g)'
  <2>1. ASSUME NEW r \in chunks' PROVE \E d \in Chunkers : r.id[1] = g[d]
    <3>1. CASE r.id[1] = NewBatch
      BY <1>10, <3>1
    <3>2. CASE r.id[1] # NewBatch
      <4>1. PICK k \in kept : r.id = k.id
        BY <1>5, <3>2
      <4>2. PICK d \in Chunkers : k.id[1] = f[d]
        BY <1>3, <1>9 DEF OwnedBy
      <4>3. d # c
        BY <1>1, <1>3, <1>9, <4>2 DEF OwnedBy
      <4> QED BY <1>10, <3>2, <4>1, <4>2, <4>3
    <3> QED BY <3>1, <3>2
  <2>2. ASSUME NEW d \in Chunkers, chunker'[d].pc = "tx", NEW r \in chunks', r.id[1] = g[d]
        PROVE  r.id \in chunker'[d].doomed
    <3>1. d # c /\ chunker'[d] = chunker[d]
      BY <1>6, <2>2, IdleIsState
    <3>2. PICK k \in kept : r.id = k.id
      BY <1>5, <1>10, <2>2, <3>1
    <3>3. r.id[1] \in Batches
      BY <1>5 DEF ChunksOK, Row, RowIds
    <3>4. k.id[1] = f[d]
      BY <1>10, <2>2, <3>1, <3>2, <3>3, NoBatchIsNone
    <3>5. k \in chunks
      BY <1>3
    <3> QED BY <1>9, <2>2, <3>1, <3>2, <3>4, <3>5 DEF OwnedBy
  <2> QED BY <2>1, <2>2 DEF OwnedBy
<1>12. FewBatches'
  <2>1. \A d \in Chunkers : Within(chunker'[d].doomed)
    BY <1>6, IdleIsState, WithinNone DEF Base, FewBatches
  <2>2. \A e \in Embedders : Within({k.id : k \in embedder'[e]})
    BY <1>1 DEF Base, FewBatches
  <2> QED BY <1>10, <1>11, <2>1, <2>2 DEF FewBatches, Within
<1> QED BY <1>1, <1>8, <1>12 DEF Base

\* An embedder reads the rows without a vector.
LEMMA EmbedSelectTyped == ASSUME Base, NEW e \in Embedders, EmbedSelect(e) PROVE Base'
<1> DEFINE S == {k \in chunks : k.vec = None}
<1>1. /\ UNCHANGED <<item, chunks, chunker, writes, faults>>
      /\ embedder' = [embedder EXCEPT ![e] = S]
  BY DEF EmbedSelect
<1>2. S \subseteq chunks /\ S \in SUBSET Row
  BY DEF Base, Typed, ChunksOK
<1> HIDE DEF S
<1>3. embedder' \in [Embedders -> SUBSET Row] /\ embedder'[e] = S
      /\ \A d \in Embedders : d # e => embedder'[d] = embedder[d]
  BY <1>1, <1>2 DEF Base, Typed
<1>4. Typed'
  BY <1>1, <1>3 DEF Base, Typed, ChunksOK, ChunkersOK, CountsOK
<1>5. PICK f \in Maps : OwnedBy(f)
  BY DEF Base, FewBatches
<1>6. OwnedBy(f)'
  BY <1>1, <1>5 DEF OwnedBy
<1>7. \A d \in Embedders : Within({k.id : k \in embedder'[d]})
  <2>1. Within({k.id : k \in S})
    BY <1>2, <1>5 DEF OwnedBy, Within
  <2> QED BY <1>3, <2>1 DEF Base, FewBatches
<1>8. \A d \in Chunkers : Within(chunker'[d].doomed)
  BY <1>1 DEF Base, FewBatches
<1> QED BY <1>4, <1>6, <1>7, <1>8 DEF Base, FewBatches, Within

\* A vector is stored with the row of its id.
LEMMA EmbedStoreTyped ==
  ASSUME Base, NEW e \in Embedders, NEW k \in embedder[e], EmbedStore(e, k)
  PROVE  Base'
<1> DEFINE Stored(r) == IF r.id = k.id THEN [r EXCEPT !.vec = k.text] ELSE r
<1>1. /\ UNCHANGED <<item, chunker, writes, faults>>
      /\ chunks' = {Stored(r) : r \in chunks}
      /\ embedder' = [embedder EXCEPT ![e] = embedder[e] \ {k}]
  BY Zenon DEF EmbedStore
<1>2. k.text \in Versions
  BY DEF Base, Typed, Row
<1>3. ASSUME NEW r \in chunks
      PROVE  Stored(r) \in Row /\ Stored(r).id = r.id
  BY <1>2 DEF Base, Typed, ChunksOK, Row
<1> HIDE DEF Stored
<1>4. \A l \in chunks' : \E r \in chunks : l = Stored(r)
  BY <1>1
<1>5. ChunksOK'
  <2>1. chunks' \subseteq Row
    BY <1>3, <1>4
  <2>2. ASSUME NEW l \in chunks', NEW m \in chunks', l.id[2] = m.id[2] PROVE l = m
    <3>1. PICK r \in chunks : l = Stored(r)
      BY <1>4
    <3>2. PICK t \in chunks : m = Stored(t)
      BY <1>4
    <3>3. r = t
      BY <1>3, <2>2, <3>1, <3>2 DEF Base, Typed, ChunksOK
    <3> QED BY <3>1, <3>2, <3>3
  <2> QED BY <2>1, <2>2 DEF ChunksOK
<1>6. embedder' \in [Embedders -> SUBSET Row]
      /\ \A d \in Embedders : embedder'[d] \subseteq embedder[d]
  BY <1>1 DEF Base, Typed
<1>7. Typed'
  BY <1>1, <1>5, <1>6 DEF Base, Typed, ChunkersOK, CountsOK
<1>8. PICK f \in Maps : OwnedBy(f)
  BY DEF Base, FewBatches
<1>9. OwnedBy(f)'
  BY <1>1, <1>3, <1>4, <1>8 DEF OwnedBy
<1>10. \A d \in Embedders : Within({l.id : l \in embedder'[d]})
  <2> SUFFICES ASSUME NEW d \in Embedders PROVE Within({l.id : l \in embedder'[d]})
    OBVIOUS
  <2>1. Within({l.id : l \in embedder[d]})
    BY DEF Base, FewBatches
  <2>2. {l.id : l \in embedder'[d]} \subseteq {l.id : l \in embedder[d]}
    BY <1>6
  <2> QED BY <2>1, <2>2, WithinLess
<1>11. \A d \in Chunkers : Within(chunker'[d].doomed)
  BY <1>1 DEF Base, FewBatches
<1> QED BY <1>7, <1>9, <1>10, <1>11 DEF Base, FewBatches, Within

\* Work under way is given up: by one of them, or by all in a crash.
LEMMA GivenUp ==
  ASSUME Base, Failure \/ Crash
  PROVE  /\ Base' /\ UNCHANGED chunks
         /\ \A e \in Embedders : embedder'[e] \subseteq embedder[e]
         /\ \A c \in Chunkers : chunker'[c].pc # "idle" => chunker'[c] = chunker[c]
<1>1. embedder \in [Embedders -> SUBSET Row] /\ chunker \in [Chunkers -> ChunkerState]
  BY DEF Base, Typed, ChunkersOK
<1>2. UNCHANGED <<item, chunks, writes>> /\ faults > 0 /\ faults' = faults - 1
  BY DEF Failure, Crash
<1>3. /\ embedder' \in [Embedders -> SUBSET Row]
      /\ \A e \in Embedders : embedder'[e] \subseteq embedder[e]
      /\ chunker' \in [Chunkers -> ChunkerState]
      /\ \A c \in Chunkers : chunker'[c] = chunker[c] \/ chunker'[c] = IdleChunker
  <2>1. ASSUME NEW e \in Embedders, NEW k \in embedder[e],
               embedder' = [embedder EXCEPT ![e] = embedder[e] \ {k}], UNCHANGED chunker
        PROVE  embedder' \in [Embedders -> SUBSET Row]
               /\ \A d \in Embedders : embedder'[d] \subseteq embedder[d]
    BY <1>1, <2>1
  <2>2. ASSUME NEW c \in Chunkers, chunker' = [chunker EXCEPT ![c] = IdleChunker]
        PROVE  chunker' \in [Chunkers -> ChunkerState]
               /\ \A d \in Chunkers : chunker'[d] = chunker[d] \/ chunker'[d] = IdleChunker
    BY <1>1, <2>2, IdleIsState
  <2>3. CASE Failure
    BY <1>1, <2>1, <2>2, <2>3 DEF Failure
  <2>4. CASE Crash
    BY <2>4, IdleIsState DEF Crash
  <2> QED BY <2>3, <2>4
<1>4. \A c \in Chunkers : /\ chunker'[c].pc # "idle" => chunker'[c] = chunker[c]
                          /\ chunker'[c].doomed \subseteq chunker[c].doomed
  BY <1>3, IdleIsState
<1>5. ChunkersOK' /\ CountsOK'
  BY <1>2, <1>3, <1>4, BoundsAssumption DEF Base, Typed, ChunkersOK, CountsOK
<1>6. Typed'
  BY <1>2, <1>3, <1>5 DEF Base, Typed, ChunksOK
<1>7. PICK f \in Maps : OwnedBy(f)
  BY DEF Base, FewBatches
<1>8. OwnedBy(f)'
  <2>1. ASSUME NEW c \in Chunkers, chunker'[c].pc = "tx"
        PROVE  chunker'[c] = chunker[c]
    BY <1>4, <2>1
  <2> QED BY <1>2, <1>7, <2>1 DEF OwnedBy
<1>9. \A d \in Embedders : Within({l.id : l \in embedder'[d]})
  <2> SUFFICES ASSUME NEW d \in Embedders PROVE Within({l.id : l \in embedder'[d]})
    OBVIOUS
  <2>1. Within({l.id : l \in embedder[d]})
    BY DEF Base, FewBatches
  <2>2. {l.id : l \in embedder'[d]} \subseteq {l.id : l \in embedder[d]}
    BY <1>3
  <2> QED BY <2>1, <2>2, WithinLess
<1>10. \A d \in Chunkers : Within(chunker'[d].doomed)
  BY <1>4, WithinLess DEF Base, FewBatches
<1> QED BY <1>2, <1>3, <1>4, <1>6, <1>8, <1>9, <1>10 DEF Base, FewBatches, Within

\* An item that was never chunked.
LEMMA InitBase == ASSUME Init PROVE Base
<1>1. PICK v \in Versions : item = [text |-> v, hash |-> SummaryHash(v), chunkedHash |-> None]
  BY DEF Init
<1>2. item \in ItemType
  BY <1>1 DEF ItemType, Hashes
<1>3. ChunkersOK
  BY IdleIsState DEF Init, ChunkersOK
<1>4. CountsOK /\ ChunksOK /\ embedder \in [Embedders -> SUBSET Row]
  BY BoundsAssumption DEF Init, CountsOK, ChunksOK
<1>5. \A c \in Chunkers : chunker[c].doomed = {} /\ chunker[c].pc = "idle"
  BY IdleIsState DEF Init
<1>6. \A e \in Embedders : {k.id : k \in embedder[e]} = {}
  BY DEF Init
<1>7. FewBatches
  <2> DEFINE f == [c \in Chunkers |-> NoBatch]
  <2>1. f \in Maps
    BY DEF Maps
  <2>2. OwnedBy(f)
    BY DEF Init, OwnedBy
  <2> QED BY <1>5, <1>6, <2>1, <2>2, WithinNone DEF FewBatches
<1> QED BY <1>2, <1>3, <1>4, <1>7 DEF Base, Typed

\* Every step keeps the rows in form.
LEMMA NextBase == ASSUME Base, [Next]_vars PROVE Base'
<1>1. CASE UNCHANGED vars
  BY <1>1 DEF vars, Base, Typed, ChunksOK, ChunkersOK, CountsOK, FewBatches, OwnedBy, Within
<1>2. ASSUME NEW c \in Chunkers, ChunkStep(c) PROVE Base'
  BY <1>2, ChunkReadTyped, CommitTyped DEF ChunkStep
<1>3. ASSUME NEW e \in Embedders, EmbedStep(e) PROVE Base'
  BY <1>3, EmbedSelectTyped, EmbedStoreTyped DEF EmbedStep
<1> QED BY <1>1, <1>2, <1>3, WriteTyped, GivenUp DEF Next

-----------------------------------------------------------------------------
(* The vectors are of the texts: with one chunker.                         *)

\* The transaction's own rows alone are left, and nobody computes a vector
\* for them yet.
LEMMA CommitExact ==
  ASSUME SoleChunker, Base, Exact, NEW c \in Chunkers, ChunkCommit(c)
  PROVE  Exact'
<1> DEFINE v == chunker[c].text
           n == ChunksOf[v]
           Fresh(x) == [id |-> <<NewBatch, x>>, text |-> v, vec |-> None]
<1>1. /\ chunker[c].pc = "tx" /\ UNCHANGED embedder
      /\ chunks' = Upsert({k \in chunks : k.id \notin chunker[c].doomed}, v)
      /\ chunker' = [chunker EXCEPT ![c] = IdleChunker]
  BY DEF ChunkCommit, CommitWith
<1>2. {k \in chunks : k.id \notin chunker[c].doomed} = {}
  BY <1>1 DEF Exact, InTx
<1>3. chunks' = {Fresh(x) : x \in 1..n}
  <2>1. Upsert({}, v) = {Fresh(x) : x \in 1..n}
    BY DEF Upsert
  <2> QED BY <1>1, <1>2, <2>1
<1>4. \A x \in 1..n : Fresh(x).id = <<NewBatch, x>> /\ Fresh(x).vec = None
  OBVIOUS
<1> HIDE DEF Fresh, v, n
<1>5. \A r \in chunks' : r.id[1] = NewBatch /\ r.vec = None
  BY <1>3, <1>4
<1>6. InTx'
  <2>1. chunker'[c] = IdleChunker
    BY <1>1 DEF Base, Typed, ChunkersOK
  <2>2. \A d \in Chunkers : chunker'[d].pc = "idle"
    BY <2>1, IdleIsState DEF SoleChunker
  <2> QED BY <2>2 DEF InTx
<1>7. TextsStand'
  <2>1. \A e \in Embedders : \A k \in embedder[e] : k.id[1] # NewBatch
    BY BatchLeft DEF Base
  <2> QED BY <1>1, <1>5, <2>1 DEF TextsStand
<1>8. VectorsMatchTexts'
  BY <1>5 DEF VectorsMatchTexts
<1> QED BY <1>6, <1>7, <1>8 DEF Exact

\* A chunker that reads, or locks the rows it will delete.
LEMMA ChunkReadExact ==
  ASSUME SoleChunker, Base, Exact, NEW c \in Chunkers, ChunkSelect(c) \/ ChunkDelete(c)
  PROVE  Exact'
<1>1. /\ UNCHANGED <<chunks, embedder>>
      /\ chunker'[c].pc = "tx" => \A k \in chunks : k.id \in chunker'[c].doomed
  BY ChunkReadTyped
<1>2. \A d \in Chunkers : d = c
  BY DEF SoleChunker
<1> QED BY <1>1, <1>2 DEF Exact, InTx, TextsStand, VectorsMatchTexts

\* An embedder reads the rows without a vector.
LEMMA EmbedSelectExact ==
  ASSUME Base, Exact, NEW e \in Embedders, EmbedSelect(e)
  PROVE  Exact'
<1> DEFINE S == {k \in chunks : k.vec = None}
<1>1. UNCHANGED <<chunks, chunker>> /\ embedder' = [embedder EXCEPT ![e] = S]
  BY DEF EmbedSelect
<1>2. S \subseteq chunks
  OBVIOUS
<1> HIDE DEF S
<1>3. embedder'[e] = S /\ \A d \in Embedders : d # e => embedder'[d] = embedder[d]
  BY <1>1, <1>2 DEF Base, Typed
<1>4. TextsStand'
  <2> SUFFICES ASSUME NEW d \in Embedders, NEW k \in embedder'[d], NEW r \in chunks,
                      r.id = k.id
               PROVE  r.text = k.text
    BY <1>1 DEF TextsStand
  <2>1. CASE d = e
    <3>1. k \in chunks
      BY <1>2, <1>3, <2>1
    <3>2. k = r
      BY <3>1 DEF Base, Typed, ChunksOK
    <3> QED BY <3>2
  <2>2. CASE d # e
    BY <1>3, <2>2 DEF Exact, TextsStand
  <2> QED BY <2>1, <2>2
<1> QED BY <1>1, <1>4 DEF Exact, InTx, VectorsMatchTexts

\* A vector is stored with the row of its id, which still has its text.
LEMMA EmbedStoreExact ==
  ASSUME Base, Exact, NEW e \in Embedders, NEW k \in embedder[e], EmbedStore(e, k)
  PROVE  Exact'
<1> DEFINE Stored(r) == IF r.id = k.id THEN [r EXCEPT !.vec = k.text] ELSE r
<1>1. /\ UNCHANGED chunker
      /\ chunks' = {Stored(r) : r \in chunks}
      /\ embedder' = [embedder EXCEPT ![e] = embedder[e] \ {k}]
  BY Zenon DEF EmbedStore
<1>2. ASSUME NEW r \in chunks
      PROVE  /\ Stored(r).id = r.id /\ Stored(r).text = r.text
             /\ Stored(r).vec \in {None, r.text}
  <2>1. r \in Row /\ r.vec \in {None, r.text}
    BY DEF Base, Typed, ChunksOK, Exact, VectorsMatchTexts
  <2>2. CASE r.id = k.id
    <3>1. r.text = k.text
      BY <2>2 DEF Exact, TextsStand
    <3>2. Stored(r) = [r EXCEPT !.vec = k.text]
      BY <2>2, Zenon
    <3> HIDE DEF Stored
    <3> QED BY <2>1, <3>1, <3>2 DEF Row
  <2>3. CASE r.id # k.id
    BY <2>1, <2>3
  <2> QED BY <2>2, <2>3
<1> HIDE DEF Stored
<1>3. \A l \in chunks' : \E r \in chunks : l = Stored(r)
  BY <1>1
<1>4. \A d \in Embedders : embedder'[d] \subseteq embedder[d]
  BY <1>1 DEF Base, Typed
<1>5. InTx'
  BY <1>1, <1>2, <1>3 DEF Exact, InTx
<1>6. TextsStand'
  BY <1>2, <1>3, <1>4 DEF Exact, TextsStand
<1>7. VectorsMatchTexts'
  BY <1>2, <1>3 DEF VectorsMatchTexts
<1> QED BY <1>5, <1>6, <1>7 DEF Exact

\* Every step keeps the vectors those of the texts.
LEMMA NextExact == ASSUME SoleChunker, Base, Exact, [Next]_vars PROVE Exact'
<1>1. CASE UNCHANGED vars
  BY <1>1 DEF vars, Exact, InTx, TextsStand, VectorsMatchTexts
<1>2. ASSUME NEW c \in Chunkers, ChunkStep(c) PROVE Exact'
  BY <1>2, ChunkReadExact, CommitExact DEF ChunkStep
<1>3. ASSUME NEW e \in Embedders, EmbedStep(e) PROVE Exact'
  BY <1>3, EmbedSelectExact, EmbedStoreExact DEF EmbedStep
<1>4. CASE Writes
  BY <1>4, WriteTyped DEF Exact, InTx, TextsStand, VectorsMatchTexts
<1>5. CASE Failure \/ Crash
  <2>1. /\ UNCHANGED chunks
        /\ \A e \in Embedders : embedder'[e] \subseteq embedder[e]
        /\ \A c \in Chunkers : chunker'[c].pc # "idle" => chunker'[c] = chunker[c]
    BY <1>5, GivenUp
  <2>2. InTx'
    <3>1. ASSUME NEW c \in Chunkers, chunker'[c].pc = "tx"
          PROVE  chunker'[c] = chunker[c]
      BY <2>1, <3>1
    <3> QED BY <2>1, <3>1 DEF Exact, InTx
  <2> QED BY <2>1, <2>2 DEF Exact, TextsStand, VectorsMatchTexts
<1> QED BY <1>1, <1>2, <1>3, <1>4, <1>5 DEF Next

-----------------------------------------------------------------------------
(* The theorems.                                                           *)

\* The strengthened invariants, and those of one chunker.
LEMMA BaseInvariance == Spec => []Base
<1>1. Init => Base
  BY InitBase
<1>2. Base /\ [Next]_vars => Base'
  BY NextBase
<1> QED BY <1>1, <1>2, PTL DEF Spec

\* The rows have the form the table gives them, with (item, chunk_index)
\* unique, however the transactions of any number of chunkers overlap: what
\* the DELETE did not see is met by ON CONFLICT (chunk.go:131-147).  As many
\* batches as assumed always leave a new one: rows read together are of no
\* more batches than there are chunkers.
THEOREM TypeCorrect == Spec => []TypeOK
<1>1. ASSUME Typed PROVE TypeOK
  <2>1. item.text \in Versions /\ item.hash \in Hashes /\ item.chunkedHash \in Hashes \cup {None}
    BY <1>1 DEF Typed, ItemType
  <2>2. chunks \subseteq [id : RowIds, text : Versions, vec : Versions \cup {None}]
        /\ \A k, l \in chunks : k.id[2] = l.id[2] => k = l
    BY <1>1 DEF Typed, ChunksOK, Row
  <2>3. \A c \in Chunkers : /\ chunker[c].pc \in {"idle", "read", "tx"}
                            /\ chunker[c].pc # "idle" => chunker[c].text \in Versions
    BY <1>1 DEF Typed, ChunkersOK, ChunkerState
  <2>4. /\ \A kind \in DOMAIN MaxWrites : writes[kind] \in 0..MaxWrites[kind]
        /\ faults \in 0..MaxFaults
    BY <1>1, BoundsAssumption DEF Typed, CountsOK
  <2> QED BY <2>1, <2>2, <2>3, <2>4 DEF TypeOK
<1>2. Base => TypeOK
  BY <1>1 DEF Base
<1> QED BY <1>2, BaseInvariance, PTL

\* A stored vector is that of the text beside it: a vector that was computed
\* while its row was deleted and the item chunked again never reaches a row of
\* another text (embed.go:91-93 against chunk.go:131-147).
THEOREM VectorsMatch == SoleChunker /\ Spec => []VectorsMatchTexts
<1> SUFFICES ASSUME SoleChunker PROVE Spec => []VectorsMatchTexts
  OBVIOUS
<1>1. Init => Exact
  <2>1. ASSUME Init PROVE \A c \in Chunkers : chunker[c].pc = "idle"
    BY <2>1, IdleIsState DEF Init
  <2> QED BY <2>1 DEF Init, Exact, InTx, TextsStand, VectorsMatchTexts
<1>2. Base /\ Exact /\ [Next]_vars => Exact'
  BY NextExact
<1>3. Exact => VectorsMatchTexts
  BY DEF Exact
<1> QED BY <1>1, <1>2, <1>3, BaseInvariance, PTL DEF Spec
=============================================================================
