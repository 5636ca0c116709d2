------------------------------ MODULE Clusters ------------------------------
(***************************************************************************)
(* Story clusters (internal/pipeline/cluster.go): a pass selects the       *)
(* newest items without a cluster and gives each the cluster of a similar  *)
(* item or one of its own.  The membership is kept twice, as cluster_id of *)
(* the item and as item_ids of the cluster, by separate statements; the    *)
(* job's pass and a manual one may overlap.                                *)
(***************************************************************************)
EXTENDS Naturals, Sequences, FiniteSets

CONSTANTS
    Items,       \* numbers: a newer item has a larger one
    SourceOf,    \* SourceOf[i]: the source of the item
    KeyOf,       \* KeyOf[i]: clusterKeyHash of title or id; equal titles share it
    Similar,     \* sets of two items whose vectors meet the threshold
    Passes,      \* clustering passes that may be under way at once
    Schedules,   \* the sets of them that are used
    Limit,       \* items of a pass (200)
    None,
    MaxFaults    \* bound on failed statements and crashes

Keys == {KeyOf[i] : i \in Items}

ASSUME ClusterAssumption ==
    /\ Items \subseteq Nat /\ IsFiniteSet(Items) /\ Limit \in Nat \ {0} /\ MaxFaults \in Nat
    /\ Schedules \subseteq SUBSET Passes /\ IsFiniteSet(Passes)
    /\ None \notin Keys /\ None \notin Items

VARIABLES
    embedded,   \* the items with embedded chunks
    clusterOf,  \* news_item.cluster_id, by cluster_key
    itemIds,    \* story_cluster.item_ids; empty: no such cluster
    score,      \* importance_score: the numbers of items and sources it was computed from
    used,       \* the passes of this behaviour
    pass,       \* pass[c]: the local state of a pass
    faults

vars == <<embedded, clusterOf, itemIds, score, used, pass, faults>>

Idle == [pc |-> "idle", todo |-> {}, item |-> None, target |-> None, weight |-> <<1, 1>>]

Init ==
    /\ embedded = {} /\ faults = MaxFaults /\ used \in Schedules
    /\ clusterOf = [i \in Items |-> None]
    /\ itemIds = [k \in Keys |-> <<>>] /\ score = [k \in Keys |-> <<0, 0>>]
    /\ pass = [c \in Passes |-> Idle]

Fail == faults > 0 /\ faults' = faults - 1
Listed(i, k) == \E n \in DOMAIN itemIds[k] : itemIds[k][n] = i
Unclustered == {i \in Items : clusterOf[i] = None}

\* The present item is done with, stored or skipped.
NextItem(c) == pass' = [pass EXCEPT ![c] = [Idle EXCEPT !.pc = "next", !.todo = pass[c].todo]]

\* Mutant of Newest: off by one.
NewestBut(S) == {i \in S : Cardinality({j \in S : j > i}) + 1 < Limit}

\* ORDER BY created_at DESC LIMIT.
Newest(S) == {i \in S : Cardinality({j \in S : j > i}) < Limit}

\* The query of AssignBatch; a pass whose query fails is over at once.
Select(c) ==
    /\ c \in used /\ pass[c].pc = "idle" /\ Unclustered # {}
    /\ pass' = [pass EXCEPT ![c] = [Idle EXCEPT !.pc = "next", !.todo = Newest(Unclustered)]]
    /\ UNCHANGED <<embedded, clusterOf, itemIds, score, used, faults>>

\* Mutant of ReadVectors: the item stays among those to do.
ReadVectorsAgain(c) ==
    /\ pass[c].pc = "next"
    /\ \E i \in pass[c].todo : pass' = [pass EXCEPT ![c].item = i, ![c].pc = "create"]
    /\ UNCHANGED <<embedded, clusterOf, itemIds, score, used, faults>>

\* processItem reads the item and its vectors; an error skips the item.
ReadVectors(c) ==
    /\ pass[c].pc = "next"
    /\ \E i \in pass[c].todo :
          LET started == [Idle EXCEPT !.todo = pass[c].todo \ {i}, !.item = i] IN
          /\ \A j \in pass[c].todo : j <= i
          /\ \/ /\ pass' = [pass EXCEPT ![c] =
                     [started EXCEPT !.pc = IF i \in embedded THEN "nearest" ELSE "create"]]
                /\ UNCHANGED faults
             \/ pass' = [pass EXCEPT ![c].todo = @ \ {i}] /\ Fail
    /\ UNCHANGED <<embedded, clusterOf, itemIds, score, used>>

EndPass(c) ==
    /\ pass[c].pc = "next" /\ pass[c].todo = {}
    /\ pass' = [pass EXCEPT ![c] = Idle]
    /\ UNCHANGED <<embedded, clusterOf, itemIds, score, used, faults>>

\* tryReuseCluster: the cluster of the nearest item with vectors, if it is near
\* enough; the item itself when another pass has just clustered it.
Neighbours(i) ==
    {j \in embedded : clusterOf[j] # None /\ (j = i \/ {i, j} \in Similar)}

FindNearest(c) ==
    LET near == Neighbours(pass[c].item) IN
    /\ pass[c].pc = "nearest"
    /\ \/ /\ near # {}
          /\ \E j \in near :
               pass' = [pass EXCEPT ![c].pc = "assign", ![c].target = clusterOf[j]]
          /\ UNCHANGED faults
       \/ near = {} /\ pass' = [pass EXCEPT ![c].pc = "create"] /\ UNCHANGED faults
       \/ near # {} /\ pass' = [pass EXCEPT ![c].pc = "create"] /\ Fail
    /\ UNCHANGED <<embedded, clusterOf, itemIds, score, used>>

\* createCluster's INSERT ... ON CONFLICT appends without looking.
Create(c) ==
    LET i == pass[c].item k == KeyOf[i] IN
    /\ pass[c].pc = "create"
    /\ \/ /\ itemIds' = [itemIds EXCEPT ![k] = Append(@, i)]
          /\ pass' = [pass EXCEPT ![c].pc = "assign", ![c].target = k]
          /\ UNCHANGED faults
       \/ NextItem(c) /\ UNCHANGED itemIds /\ Fail
    /\ UNCHANGED <<embedded, clusterOf, score, used>>

\* The UPDATE of news_item; a failure skips the item.
Assign(c) ==
    /\ pass[c].pc = "assign"
    /\ \/ /\ clusterOf' = [clusterOf EXCEPT ![pass[c].item] = pass[c].target]
          /\ pass' = [pass EXCEPT ![c].pc = "list"]
          /\ UNCHANGED faults
       \/ NextItem(c) /\ UNCHANGED clusterOf /\ Fail
    /\ UNCHANGED <<embedded, itemIds, score, used>>

\* Mutant of List: a cluster that has items is not extended.
ListFirst(c) ==
    LET i == pass[c].item k == pass[c].target IN
    /\ pass[c].pc = "list"
    /\ itemIds' = [itemIds EXCEPT ![k] = IF itemIds[k] # <<>> THEN @ ELSE Append(@, i)]
    /\ pass' = [pass EXCEPT ![c].pc = "weigh"]
    /\ UNCHANGED <<embedded, clusterOf, score, used, faults>>

\* The UPDATE of item_ids, only for an item not yet listed; an error is logged.
List(c) ==
    LET i == pass[c].item k == pass[c].target IN
    /\ pass[c].pc = "list"
    /\ \/ /\ itemIds' = [itemIds EXCEPT ![k] = IF Listed(i, k) THEN @ ELSE Append(@, i)]
          /\ UNCHANGED faults
       \/ UNCHANGED itemIds /\ Fail
    /\ pass' = [pass EXCEPT ![c].pc = "weigh"]
    /\ UNCHANGED <<embedded, clusterOf, score, used>>

Weight(k) == <<Len(itemIds[k]), Cardinality({SourceOf[i] : i \in {j \in Items : clusterOf[j] = k}})>>

\* computeImportanceScore: an error counts as one item of one source.
Weigh(c) ==
    /\ pass[c].pc = "weigh"
    /\ \/ pass' = [pass EXCEPT ![c].pc = "score", ![c].weight = Weight(pass[c].target)] /\ UNCHANGED faults
       \/ pass' = [pass EXCEPT ![c].pc = "score", ![c].weight = <<1, 1>>] /\ Fail
    /\ UNCHANGED <<embedded, clusterOf, itemIds, score, used>>

Score(c) ==
    /\ pass[c].pc = "score"
    /\ \/ score' = [score EXCEPT ![pass[c].target] = pass[c].weight] /\ UNCHANGED faults
       \/ UNCHANGED score /\ Fail
    /\ NextItem(c)
    /\ UNCHANGED <<embedded, clusterOf, itemIds, used>>

\* The chunker and the embedder: an item gets its vectors, or loses them while
\* it is chunked again.
Embedding ==
    /\ \E i \in Items : embedded' = IF i \in embedded THEN embedded \ {i} ELSE embedded \cup {i}
    /\ UNCHANGED <<clusterOf, itemIds, score, used, pass, faults>>

\* The daemon dies between two statements.
Crash ==
    /\ Fail /\ pass' = [c \in Passes |-> Idle]
    /\ UNCHANGED <<embedded, clusterOf, itemIds, score, used>>

PassStep(c) ==
    \/ Select(c) \/ ReadVectors(c) \/ FindNearest(c) \/ Create(c) \/ Assign(c)
    \/ List(c) \/ Weigh(c) \/ Score(c) \/ EndPass(c)

Next == (\E c \in Passes : PassStep(c)) \/ Embedding \/ Crash

\* The step is scheduled every few minutes and each statement ends.
Spec == Init /\ [][Next]_vars /\ \A c \in Passes : WF_vars(PassStep(c))

-----------------------------------------------------------------------------
\* Type invariant, with the foreign key of news_item.cluster_id.
TypeOK ==
    /\ embedded \subseteq Items /\ used \in Schedules /\ faults \in 0..MaxFaults
    /\ clusterOf \in [Items -> Keys \cup {None}] /\ itemIds \in [Keys -> Seq(Items)]
    /\ \A i \in Items : clusterOf[i] # None => itemIds[clusterOf[i]] # <<>>
    /\ \A c \in Passes :
         /\ pass[c].pc \in {"idle", "next", "nearest", "create", "assign", "list", "weigh", "score"}
         /\ pass[c].todo \subseteq Items /\ pass[c].item \notin pass[c].todo
         /\ pass[c].pc \in {"assign", "list", "weigh", "score"} => itemIds[pass[c].target] # <<>>

InHand(i) == \E c \in used : pass[c].item = i

\* The cluster an item points to lists it, however passes overlap, unless a
\* statement failed or the item is still in the hands of a pass.
MembersAreListed ==
    faults = MaxFaults => \A i \in Items :
        clusterOf[i] # None /\ ~InHand(i) => Listed(i, clusterOf[i])

\* A single pass at a time also lists an item once and in no other cluster,
\* and leaves every cluster with the score of its present members.
LoneListsAreExact ==
    faults = MaxFaults /\ Cardinality(used) = 1 =>
        \A k \in Keys : \A i \in Items :
            /\ Listed(i, k) /\ ~InHand(i) => clusterOf[i] = k
            /\ Cardinality({n \in DOMAIN itemIds[k] : itemIds[k][n] = i}) <= 1
            /\ (\A c \in used : pass[c].target # k) => score[k] \in {<<0, 0>>, Weight(k)}

\* Both copies of the membership agree as far as the code can promise.
ClustersAreConsistent == MembersAreListed /\ LoneListsAreExact

\* Every item gets a cluster in the end: an item that failed, or was left out
\* by the limit, is selected again, also by a pass that overlaps another.
EveryItemIsClustered == <>(Unclustered = {})
=============================================================================
