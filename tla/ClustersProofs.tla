--------------------------- MODULE ClustersProofs ---------------------------
(***************************************************************************)
(* Proofs about Clusters.tla for every set of items, keys, similarities    *)
(* and overlapping passes, and every limit.                                *)
(***************************************************************************)
EXTENDS Clusters, TLAPS, FiniteSetTheorems

-----------------------------------------------------------------------------
(* The strengthened invariants.                                            *)

PassState ==
    [pc : {"idle", "next", "nearest", "create", "assign", "list", "weigh", "score"},
     todo : SUBSET Items, item : Items \cup {None}, target : Keys \cup {None},
     weight : Nat \X Nat]

\* A pass has an item in hand, and later a cluster that exists.
PassGood(r) ==
    /\ r.item \notin r.todo
    /\ r.pc \in {"idle", "next"} => r.item = None
    /\ r.pc \notin {"idle", "next"} => r.item \in Items
    /\ r.pc \in {"idle", "next", "nearest", "create"} => r.target = None
    /\ r.pc \in {"assign", "list", "weigh", "score"} =>
          r.target \in Keys /\ itemIds[r.target] # <<>>

TablesOK ==
    /\ embedded \subseteq Items /\ used \in Schedules /\ faults \in 0..MaxFaults
    /\ clusterOf \in [Items -> Keys \cup {None}] /\ itemIds \in [Keys -> Seq(Items)]
    /\ score \in [Keys -> Nat \X Nat]
    /\ \A i \in Items : clusterOf[i] # None => itemIds[clusterOf[i]] # <<>>

PassesOK ==
    /\ pass \in [Passes -> PassState]
    /\ \A c \in Passes : PassGood(pass[c])
    /\ \A c \in Passes : c \notin used => pass[c].pc = "idle"

NoFault == faults = MaxFaults

\* The cluster an item points to lists it, or the pass that set the pointer is
\* about to list it there.
Pointed ==
    NoFault => \A i \in Items :
        clusterOf[i] # None =>
            \/ Listed(i, clusterOf[i])
            \/ \E c \in used : /\ pass[c].pc = "list" /\ pass[c].item = i
                               /\ pass[c].target = clusterOf[i]

\* A lone pass, in state r: its items have no cluster yet, only the item in
\* hand may be listed without pointing back, no item is listed twice, and the
\* clusters that are not in hand have their score.
LoneGood(r) ==
    /\ \A i \in r.todo : clusterOf[i] = None
    /\ r.pc \in {"nearest", "create", "assign"} => clusterOf[r.item] = None
    /\ r.pc \in {"list", "weigh", "score"} => clusterOf[r.item] = r.target
    /\ \A k \in Keys : \A i \in Items :
          Listed(i, k) => \/ clusterOf[i] = k
                          \/ r.pc = "assign" /\ r.item = i /\ r.target = k
    /\ \A k \in Keys : \A m, n \in DOMAIN itemIds[k] : itemIds[k][m] = itemIds[k][n] => m = n
    /\ \A k \in Keys : r.target # k => score[k] \in {<<0, 0>>, Weight(k)}
    /\ r.pc = "score" => r.weight = Weight(r.target)

Lone == NoFault => \A c \in Passes : used = {c} => LoneGood(pass[c])

Inv == TablesOK /\ PassesOK /\ Pointed /\ Lone

-----------------------------------------------------------------------------
(* Lemmas.                                                                 *)

\* The numbers a score is computed from.
LEMMA WeightType ==
  ASSUME TablesOK, NEW k \in Keys
  PROVE  Weight(k) \in Nat \X Nat
<1> DEFINE S == {j \in Items : clusterOf[j] = k}
           f == [i \in S |-> SourceOf[i]]
           T == {SourceOf[i] : i \in S}
<1>1. IsFiniteSet(S)
  <2>1. S \in SUBSET Items
    OBVIOUS
  <2> HIDE DEF S
  <2> QED BY <2>1, FS_Subset, ClusterAssumption
<1> HIDE DEF S
<1>2. f \in Surjection(S, T)
  BY DEF Surjection
<1> HIDE DEF f, T
<1>3. Cardinality(T) \in Nat
  BY <1>1, <1>2, FS_Surjection, FS_CardinalityType
<1>4. Len(itemIds[k]) \in Nat
  BY DEF TablesOK
<1>5. Weight(k) = <<Len(itemIds[k]), Cardinality(T)>>
  BY Zenon DEF Weight, T, S
<1> QED BY <1>3, <1>4, <1>5

\* The key of an item is a key, and no key or item is None.
LEMMA KeysAre ==
  /\ \A i \in Items : KeyOf[i] \in Keys
  /\ None \notin Keys /\ None \notin Items
BY ClusterAssumption DEF Keys

\* What is in a list, and a list that has nothing twice.
In(j, s) == \E n \in DOMAIN s : s[n] = j
OnceEach(s) == \A m, n \in DOMAIN s : s[m] = s[n] => m = n

\* Appending lists the item and leaves what was listed.
LEMMA Appended ==
  ASSUME NEW s \in Seq(Items), NEW i \in Items
  PROVE  /\ Append(s, i) \in Seq(Items) /\ Append(s, i) # <<>>
         /\ \A j \in Items : In(j, Append(s, i)) <=> (j = i \/ In(j, s))
         /\ OnceEach(s) /\ ~In(i, s) => OnceEach(Append(s, i))
<1> PICK t : t = Append(s, i)
  OBVIOUS
<1>1. /\ t \in Seq(Items) /\ Len(t) = Len(s) + 1 /\ Len(s) \in Nat
      /\ DOMAIN s = 1..Len(s) /\ DOMAIN t = 1..Len(t)
      /\ \A n \in 1..Len(s) : t[n] = s[n]
      /\ t[Len(s) + 1] = i
  OBVIOUS
<1> DEFINE l == Len(s)
<1>2. t # <<>>
  BY <1>1
<1>3. DOMAIN s = 1..l /\ DOMAIN t = 1..(l + 1) /\ l \in Nat
      /\ (\A n \in 1..l : t[n] = s[n]) /\ t[l + 1] = i
  BY <1>1
<1> HIDE DEF l
<1>4. ASSUME NEW j \in Items
      PROVE  (\E n \in DOMAIN t : t[n] = j) <=> (j = i \/ \E n \in DOMAIN s : s[n] = j)
  <2>1. ASSUME NEW n \in DOMAIN t, t[n] = j
        PROVE  j = i \/ \E m \in DOMAIN s : s[m] = j
    <3>1. n \in 1..l \/ n = l + 1
      BY <1>3
    <3> QED BY <1>3, <2>1, <3>1
  <2>2. l + 1 \in DOMAIN t /\ \A n \in DOMAIN s : n \in DOMAIN t
    BY <1>3
  <2> QED BY <1>3, <2>1, <2>2
<1>5. ASSUME \A m, n \in DOMAIN s : s[m] = s[n] => m = n, \A n \in DOMAIN s : s[n] # i,
             NEW m \in DOMAIN t, NEW n \in DOMAIN t, t[m] = t[n]
      PROVE  m = n
  <2>1. (m \in 1..l \/ m = l + 1) /\ (n \in 1..l \/ n = l + 1)
    BY <1>3
  <2> QED BY <1>3, <1>5, <2>1
<1> QED BY <1>1, <1>2, <1>4, <1>5 DEF In, OnceEach

\* Only a pass of this behaviour is under way, and it is one of the passes.
LEMMA InUse ==
  ASSUME TablesOK, PassesOK
  PROVE  /\ used \subseteq Passes
         /\ \A c \in Passes : pass[c].pc # "idle" => c \in used
BY ClusterAssumption DEF TablesOK, PassesOK

\* A failed statement is counted, and what holds without faults is void.
LEMMA Failing ==
  ASSUME TablesOK, Fail
  PROVE  faults' \in 0..MaxFaults /\ ~NoFault'
BY ClusterAssumption DEF TablesOK, Fail, NoFault

\* A pass that moves to a good state while no cluster loses its items.
LEMMA PassMoves ==
  ASSUME TablesOK, PassesOK, NEW c \in used, NEW r \in PassState, PassGood(r)',
         pass' = [pass EXCEPT ![c] = r], used' = used,
         \A k \in Keys : itemIds[k] # <<>> => itemIds'[k] # <<>>
  PROVE  PassesOK'
<1>1. c \in Passes
  BY InUse
<1>2. pass' \in [Passes -> PassState]
  BY <1>1 DEF PassesOK
<1>3. ASSUME NEW d \in Passes PROVE PassGood(pass[d])'
  <2>1. CASE d = c
    <3>1. pass'[d] = r
      BY <1>1, <2>1 DEF PassesOK
    <3> QED BY <3>1 DEF PassGood
  <2>2. CASE d # c
    <3>1. pass'[d] = pass[d] /\ PassGood(pass[d])
      BY <2>2 DEF PassesOK
    <3> QED BY <3>1 DEF PassGood
  <2> QED BY <2>1, <2>2
<1>4. ASSUME NEW d \in Passes, d \notin used' PROVE pass'[d].pc = "idle"
  BY <1>4 DEF PassesOK
<1> QED BY <1>2, <1>3, <1>4 DEF PassesOK

\* What is said of a lone pass is said of its new state.
LEMMA LoneMoves ==
  ASSUME TablesOK, PassesOK, NEW c \in used, NEW r,
         pass' = [pass EXCEPT ![c] = r], used' = used,
         NoFault' /\ used = {c} => LoneGood(r)'
  PROVE  Lone'
<1>1. c \in Passes /\ pass'[c] = r
  BY InUse DEF PassesOK
<1>2. ASSUME NoFault', NEW d \in Passes, used' = {d} PROVE LoneGood(pass[d])'
  <2>1. d = c
    BY <1>2
  <2>2. LoneGood(r)'
    BY <1>2, <2>1
  <2> QED BY <1>1, <2>1, <2>2 DEF LoneGood, Listed, Weight
<1> QED BY <1>2 DEF Lone

\* Pointers stay listed, or about to be, while lists only grow and no pass
\* leaves its listing behind.
LEMMA PointedMoves ==
  ASSUME TablesOK, PassesOK, Pointed, NEW c \in used, NEW r,
         pass' = [pass EXCEPT ![c] = r], used' = used, clusterOf' = clusterOf,
         NoFault' => NoFault, pass[c].pc # "list",
         \A i \in Items, k \in Keys : Listed(i, k) => Listed(i, k)'
  PROVE  Pointed'
<1> SUFFICES ASSUME NoFault', NEW i \in Items, clusterOf[i] # None
             PROVE  \/ Listed(i, clusterOf[i])'
                    \/ \E d \in used : /\ pass'[d].pc = "list" /\ pass'[d].item = i
                                       /\ pass'[d].target = clusterOf[i]
  BY DEF Pointed
<1>1. clusterOf[i] \in Keys
  BY DEF TablesOK
<1>2. CASE Listed(i, clusterOf[i])
  BY <1>1, <1>2 DEF Listed
<1>3. ASSUME NEW d \in used, pass[d].pc = "list", pass[d].item = i,
             pass[d].target = clusterOf[i]
      PROVE  pass'[d] = pass[d]
  BY <1>3, InUse DEF PassesOK
<1> QED BY <1>2, <1>3 DEF Pointed

\* A step of a pass that touches no table.
LEMMA PassOnly ==
  ASSUME Inv, NEW c \in used, NEW r \in PassState, PassGood(r),
         pass' = [pass EXCEPT ![c] = r], pass[c].pc # "list",
         UNCHANGED <<embedded, clusterOf, itemIds, score, used>>,
         UNCHANGED faults \/ Fail,
         NoFault /\ used = {c} /\ LoneGood(pass[c]) => LoneGood(r)
  PROVE  Inv'
<1>1. TablesOK /\ PassesOK /\ Pointed /\ Lone
  BY DEF Inv
<1>2. faults' \in 0..MaxFaults /\ (NoFault' => NoFault)
  BY <1>1, Failing DEF TablesOK, NoFault
<1>3. TablesOK'
  BY <1>1, <1>2 DEF TablesOK
<1>4. PassGood(r)'
  BY DEF PassGood
<1>5. PassesOK'
  BY <1>1, <1>4, PassMoves
<1>6. ASSUME NEW i, NEW k, Listed(i, k) PROVE Listed(i, k)'
  BY <1>6 DEF Listed
<1>7. Pointed'
  BY <1>1, <1>2, <1>6, PointedMoves
<1>8. ASSUME NoFault', used = {c} PROVE LoneGood(r)'
  <2>1. LoneGood(pass[c])
    BY <1>1, <1>2, <1>8, InUse DEF Lone
  <2>2. LoneGood(r)
    BY <1>2, <1>8, <2>1
  <2> QED BY <2>2 DEF LoneGood, Listed, Weight
<1>9. Lone'
  BY <1>1, <1>8, LoneMoves
<1> QED BY <1>3, <1>5, <1>7, <1>9 DEF Inv

\* A statement fails: the pass goes on with its item, or without it.
LEMMA PassFails ==
  ASSUME Inv, NEW c \in used, NEW r \in PassState, PassGood(r),
         pass' = [pass EXCEPT ![c] = r], Fail,
         UNCHANGED <<embedded, clusterOf, itemIds, score, used>>
  PROVE  Inv'
<1>1. faults' \in 0..MaxFaults /\ ~NoFault'
  BY Failing DEF Inv
<1>2. PassGood(r)'
  BY DEF PassGood
<1>3. PassesOK'
  BY <1>2, PassMoves DEF Inv
<1> QED BY <1>1, <1>3 DEF Inv, TablesOK, Pointed, Lone

-----------------------------------------------------------------------------
(* Every action keeps the invariant.                                       *)

\* A pass between two items, or at rest.
Resting(p, S) == [Idle EXCEPT !.pc = p, !.todo = S]

\* It has no item and no cluster in hand.
LEMMA Rests ==
  ASSUME NEW S \in SUBSET Items, NEW p \in {"idle", "next"}
  PROVE  /\ Resting(p, S) \in PassState /\ PassGood(Resting(p, S))
         /\ Resting(p, S).pc = p /\ Resting(p, S).todo = S
         /\ Resting(p, S).item = None /\ Resting(p, S).target = None
<1> PICK r : r = Resting(p, S)
  OBVIOUS
<1>1. /\ r.pc = p /\ r.todo = S /\ r.item = None /\ r.target = None
      /\ r \in PassState
  BY DEF Idle, PassState, Resting
<1>2. PassGood(r)
  BY <1>1, KeysAre DEF PassGood
<1> QED BY <1>1, <1>2

\* Select of AssignBatch: what is selected has no cluster.
LEMMA SelectKeeps ==
  ASSUME Inv, NEW c \in Passes, Select(c)
  PROVE  Inv'
<1> PICK S : S = Newest(Unclustered)
  OBVIOUS
<1> PICK r : r = Resting("next", S)
  OBVIOUS
<1>1. S \in SUBSET Items /\ \A i \in S : clusterOf[i] = None
  BY DEF Newest, Unclustered
<1>2. /\ r \in PassState /\ PassGood(r)
      /\ r.pc = "next" /\ r.todo = S /\ r.item = None /\ r.target = None
  <2>1. S \in SUBSET Items /\ "next" \in {"idle", "next"}
    BY <1>1
  <2> QED BY <2>1, Rests
<1>3. c \in used /\ pass[c].pc = "idle" /\ pass' = [pass EXCEPT ![c] = r]
  BY Zenon DEF Select, Resting
<1>4. pass[c].target = None
  BY <1>3 DEF Inv, PassesOK, PassGood
<1>5. ASSUME LoneGood(pass[c]) PROVE LoneGood(r)
  BY <1>1, <1>2, <1>3, <1>4, <1>5, KeysAre DEF LoneGood
<1> QED BY <1>2, <1>3, <1>5, PassOnly DEF Select

\* The end of a pass.
LEMMA EndPassKeeps ==
  ASSUME Inv, NEW c \in Passes, EndPass(c)
  PROVE  Inv'
<1> PICK r : r = Resting("idle", {})
  OBVIOUS
<1>1. r = Idle
  BY DEF Idle, Resting
<1>2. /\ r \in PassState /\ PassGood(r)
      /\ r.pc = "idle" /\ r.todo = {} /\ r.item = None /\ r.target = None
  <2>1. {} \in SUBSET Items /\ "idle" \in {"idle", "next"}
    OBVIOUS
  <2> QED BY <2>1, Rests
<1>3. pass[c].pc = "next" /\ pass' = [pass EXCEPT ![c] = r]
  BY <1>1, Zenon DEF EndPass
<1>4. pass[c].target = None /\ c \in used
  BY <1>3, InUse DEF Inv, PassesOK, PassGood
<1>5. ASSUME LoneGood(pass[c]) PROVE LoneGood(r)
  BY <1>2, <1>3, <1>4, <1>5, KeysAre DEF LoneGood
<1> QED BY <1>2, <1>3, <1>4, <1>5, PassOnly DEF EndPass

\* processItem: the item taken leaves the list; one that fails is skipped.
LEMMA ReadVectorsKeeps ==
  ASSUME Inv, NEW c \in Passes, ReadVectors(c)
  PROVE  Inv'
<1>1. pass[c].pc = "next" /\ pass[c].target = None /\ pass[c].item = None /\ c \in used
      /\ pass[c] \in PassState
  BY InUse DEF Inv, PassesOK, PassGood, ReadVectors
<1> PICK i \in pass[c].todo :
        \/ /\ pass' = [pass EXCEPT ![c] =
                 [[Idle EXCEPT !.todo = pass[c].todo \ {i}, !.item = i]
                  EXCEPT !.pc = IF i \in embedded THEN "nearest" ELSE "create"]]
           /\ UNCHANGED faults
        \/ pass' = [pass EXCEPT ![c].todo = @ \ {i}] /\ Fail
  BY Zenon DEF ReadVectors
<1>2. UNCHANGED <<embedded, clusterOf, itemIds, score, used>>
  BY DEF ReadVectors
<1>3. i \in Items /\ i # None
  BY <1>1, KeysAre DEF PassState
<1> PICK S : S = pass[c].todo \ {i}
  OBVIOUS
<1>4. S \in SUBSET Items /\ i \notin S /\ S \subseteq pass[c].todo
  BY <1>1 DEF PassState
<1>5. CASE /\ pass' = [pass EXCEPT ![c] =
                 [[Idle EXCEPT !.todo = pass[c].todo \ {i}, !.item = i]
                  EXCEPT !.pc = IF i \in embedded THEN "nearest" ELSE "create"]]
           /\ UNCHANGED faults
  <2> PICK p : p = IF i \in embedded THEN "nearest" ELSE "create"
    OBVIOUS
  <2> PICK r : r = [[Idle EXCEPT !.todo = S, !.item = i] EXCEPT !.pc = p]
    OBVIOUS
  <2>1. pass' = [pass EXCEPT ![c] = r]
    BY <1>5, Zenon
  <2>2. p \in {"nearest", "create"}
    OBVIOUS
  <2>3. r.pc = p /\ r.todo = S /\ r.item = i /\ r.target = None /\ r \in PassState
    BY <1>3, <1>4, <2>2 DEF Idle, PassState
  <2>4. PassGood(r)
    BY <1>3, <1>4, <2>2, <2>3 DEF PassGood
  <2>5. ASSUME LoneGood(pass[c]) PROVE LoneGood(r)
    BY <1>1, <1>4, <2>2, <2>3, <2>5, KeysAre DEF LoneGood
  <2> QED BY <1>1, <1>2, <1>5, <2>1, <2>3, <2>4, <2>5, PassOnly
<1>6. CASE pass' = [pass EXCEPT ![c].todo = @ \ {i}] /\ Fail
  <2> PICK r : r = [pass[c] EXCEPT !.todo = S]
    OBVIOUS
  <2>1. pass' = [pass EXCEPT ![c] = r]
    BY <1>6, Zenon
  <2>2. /\ r.pc = "next" /\ r.todo = S /\ r.item = None /\ r.target = None
        /\ r \in PassState
    BY <1>1, <1>4 DEF PassState
  <2>3. PassGood(r)
    BY <1>4, <2>2, KeysAre DEF PassGood
  <2>4. ASSUME LoneGood(pass[c]) PROVE LoneGood(r)
    BY <1>1, <1>4, <2>2, <2>4, KeysAre DEF LoneGood
  <2> QED BY <1>1, <1>2, <1>6, <2>1, <2>2, <2>3, <2>4, PassOnly
<1> QED BY <1>5, <1>6

\* tryReuseCluster: the cluster taken is that of an item, hence not empty.
LEMMA FindNearestKeeps ==
  ASSUME Inv, NEW c \in Passes, FindNearest(c)
  PROVE  Inv'
<1>1. /\ pass[c].pc = "nearest" /\ pass[c].target = None /\ pass[c].item \in Items
      /\ c \in used /\ pass[c] \in PassState /\ pass[c].item \notin pass[c].todo
  BY InUse DEF Inv, PassesOK, PassGood, FindNearest
<1>2. UNCHANGED <<embedded, clusterOf, itemIds, score, used>>
  BY DEF FindNearest
<1>3. CASE UNCHANGED faults /\ \E j \in Neighbours(pass[c].item) :
               pass' = [pass EXCEPT ![c].pc = "assign", ![c].target = clusterOf[j]]
  <2> PICK j \in Neighbours(pass[c].item) :
          pass' = [pass EXCEPT ![c].pc = "assign", ![c].target = clusterOf[j]]
    BY <1>3
  <2> PICK k : k = clusterOf[j]
    OBVIOUS
  <2>1. k \in Keys /\ itemIds[k] # <<>>
    BY DEF Neighbours, Inv, TablesOK
  <2> PICK r : r = [pass[c] EXCEPT !.pc = "assign", !.target = k]
    OBVIOUS
  <2>2. pass' = [pass EXCEPT ![c] = r]
    BY Zenon
  <2>3. /\ r.pc = "assign" /\ r.todo = pass[c].todo /\ r.item = pass[c].item
        /\ r.target = k /\ r \in PassState
    BY <1>1, <2>1 DEF PassState
  <2>4. PassGood(r)
    BY <1>1, <2>1, <2>3 DEF PassGood
  <2>5. ASSUME LoneGood(pass[c]) PROVE LoneGood(r)
    BY <1>1, <2>3, <2>5, KeysAre DEF LoneGood
  <2> QED BY <1>1, <1>2, <1>3, <2>2, <2>3, <2>4, <2>5, PassOnly
<1>4. CASE pass' = [pass EXCEPT ![c].pc = "create"] /\ (UNCHANGED faults \/ Fail)
  <2> PICK r : r = [pass[c] EXCEPT !.pc = "create"]
    OBVIOUS
  <2>1. pass' = [pass EXCEPT ![c] = r]
    BY <1>4, Zenon
  <2>2. /\ r.pc = "create" /\ r.todo = pass[c].todo /\ r.item = pass[c].item
        /\ r.target = None /\ r \in PassState
    BY <1>1 DEF PassState
  <2>3. PassGood(r)
    BY <1>1, <2>2 DEF PassGood
  <2>4. ASSUME LoneGood(pass[c]) PROVE LoneGood(r)
    BY <1>1, <2>2, <2>4, KeysAre DEF LoneGood
  <2> QED BY <1>1, <1>2, <1>4, <2>1, <2>2, <2>3, <2>4, PassOnly
<1> QED BY <1>3, <1>4, Zenon DEF FindNearest

\* computeImportanceScore: the numbers are those of the cluster.
LEMMA WeighKeeps ==
  ASSUME Inv, NEW c \in Passes, Weigh(c)
  PROVE  Inv'
<1>1. /\ pass[c].pc = "weigh" /\ pass[c].target \in Keys /\ pass[c].item \in Items
      /\ c \in used /\ pass[c] \in PassState /\ PassGood(pass[c])
  BY InUse DEF Inv, PassesOK, PassGood, Weigh
<1>2. UNCHANGED <<embedded, clusterOf, itemIds, score, used>>
  BY DEF Weigh
<1> PICK w : /\ pass' = [pass EXCEPT ![c].pc = "score", ![c].weight = w]
             /\ \/ w = Weight(pass[c].target) /\ UNCHANGED faults
                \/ w = <<1, 1>> /\ Fail
  BY Zenon DEF Weigh
<1>3. w \in Nat \X Nat
  BY <1>1, WeightType DEF Inv
<1> PICK r : r = [pass[c] EXCEPT !.pc = "score", !.weight = w]
  OBVIOUS
<1>4. pass' = [pass EXCEPT ![c] = r]
  BY Zenon
<1>5. /\ r.pc = "score" /\ r.todo = pass[c].todo /\ r.item = pass[c].item
      /\ r.target = pass[c].target /\ r.weight = w /\ r \in PassState
  BY <1>1, <1>3 DEF PassState
<1>6. PassGood(r)
  BY <1>1, <1>5 DEF PassGood
<1>7. CASE w = Weight(pass[c].target) /\ UNCHANGED faults
  <2>1. ASSUME LoneGood(pass[c]) PROVE LoneGood(r)
    BY <1>1, <1>5, <1>7, <2>1 DEF LoneGood
  <2> QED BY <1>1, <1>2, <1>4, <1>5, <1>6, <1>7, <2>1, PassOnly
<1>8. CASE w = <<1, 1>> /\ Fail
  BY <1>1, <1>2, <1>4, <1>5, <1>6, <1>8, PassFails
<1> QED BY <1>7, <1>8

\* createCluster: the item is in no cluster yet, so that the append does not
\* list it twice while the pass is alone.
LEMMA CreateKeeps ==
  ASSUME Inv, NEW c \in Passes, Create(c)
  PROVE  Inv'
<1> PICK i : i = pass[c].item
  OBVIOUS
<1> PICK k : k = KeyOf[i]
  OBVIOUS
<1>1. /\ pass[c].pc = "create" /\ pass[c].target = None /\ i \in Items
      /\ c \in used /\ pass[c] \in PassState /\ i \notin pass[c].todo
  BY InUse DEF Inv, PassesOK, PassGood, Create
<1>2. UNCHANGED <<embedded, clusterOf, score, used>> /\ k \in Keys
  BY <1>1, KeysAre DEF Create
<1>3. CASE NextItem(c) /\ UNCHANGED itemIds /\ Fail
  <2> PICK r : r = Resting("next", pass[c].todo)
    OBVIOUS
  <2>1. pass' = [pass EXCEPT ![c] = r]
    BY <1>3, Zenon DEF NextItem, Resting
  <2>2. pass[c].todo \in SUBSET Items
    BY <1>1 DEF PassState
  <2>3. r \in PassState /\ PassGood(r)
    BY <2>2, Rests
  <2> QED BY <1>1, <1>2, <1>3, <2>1, <2>3, PassFails
<1>4. CASE /\ itemIds' = [itemIds EXCEPT ![k] = Append(@, i)]
           /\ pass' = [pass EXCEPT ![c].pc = "assign", ![c].target = k]
           /\ UNCHANGED faults
  <2> PICK s : s = itemIds[k]
    OBVIOUS
  <2> PICK t : t = Append(s, i)
    OBVIOUS
  <2>1. s \in Seq(Items) /\ itemIds' = [itemIds EXCEPT ![k] = t]
    BY <1>2, <1>4 DEF Inv, TablesOK
  <2>2. /\ t \in Seq(Items) /\ t # <<>>
        /\ \A j \in Items : In(j, t) <=> (j = i \/ In(j, s))
        /\ OnceEach(s) /\ ~In(i, s) => OnceEach(t)
    BY <1>1, <2>1, Appended
  <2>3. /\ itemIds' \in [Keys -> Seq(Items)] /\ itemIds'[k] = t
        /\ \A l \in Keys : l # k => itemIds'[l] = itemIds[l]
    <3>1. t \in Seq(Items)
      BY <2>2
    <3> QED BY <1>2, <2>1, <3>1 DEF Inv, TablesOK
  <2>4. \A l \in Keys : itemIds[l] # <<>> => itemIds'[l] # <<>>
    BY <2>2, <2>3
  <2>5. \A j \in Items, l \in Keys : Listed(j, l)' <=> (j = i /\ l = k) \/ Listed(j, l)
    <3> SUFFICES ASSUME NEW j \in Items, NEW l \in Keys
                 PROVE  Listed(j, l)' <=> (j = i /\ l = k) \/ Listed(j, l)
      OBVIOUS
    <3>1. CASE l = k
      <4>1. In(j, t) <=> (j = i \/ In(j, s))
        BY <2>2
      <4>2. itemIds'[l] = t /\ itemIds[l] = s
        BY <2>3, <3>1
      <4> QED BY <3>1, <4>1, <4>2, Zenon DEF Listed, In
    <3>2. CASE l # k
      BY <2>3, <3>2 DEF Listed
    <3> QED BY <3>1, <3>2
  <2>6. TablesOK'
    BY <1>2, <1>4, <2>3, <2>4 DEF Inv, TablesOK
  <2> PICK r : r = [pass[c] EXCEPT !.pc = "assign", !.target = k]
    OBVIOUS
  <2>7. pass' = [pass EXCEPT ![c] = r]
    BY <1>4, Zenon
  <2>8. /\ r.pc = "assign" /\ r.todo = pass[c].todo /\ r.item = i
        /\ r.target = k /\ r \in PassState
    BY <1>1, <1>2 DEF PassState
  <2>9. PassGood(r)'
    BY <1>1, <1>2, <2>2, <2>3, <2>8 DEF PassGood
  <2>10. PassesOK'
    BY <1>1, <1>2, <2>4, <2>7, <2>8, <2>9, PassMoves DEF Inv
  <2>11. Pointed'
    BY <1>1, <1>2, <1>4, <2>5, <2>7, PointedMoves DEF Inv, NoFault
  <2>12. ASSUME NoFault', used = {c} PROVE LoneGood(r)'
    <3>1. LoneGood(pass[c])
      BY <1>1, <1>4, <2>12 DEF Inv, Lone, NoFault
    <3>2. \A j \in r.todo : clusterOf[j] = None
      BY <2>8, <3>1 DEF LoneGood
    <3>3. clusterOf[i] = None
      BY <1>1, <3>1 DEF LoneGood
    <3>4. \A l \in Keys : ~Listed(i, l)
      BY <1>1, <3>1, <3>3, KeysAre DEF LoneGood
    <3>5. \A l \in Keys : \A j \in Items :
             Listed(j, l)' => clusterOf[j] = l \/ (r.pc = "assign" /\ r.item = j /\ r.target = l)
      BY <1>1, <2>5, <2>8, <3>1 DEF LoneGood
    <3>6. \A l \in Keys : \A m, n \in DOMAIN itemIds'[l] : itemIds'[l][m] = itemIds'[l][n] => m = n
      <4> SUFFICES ASSUME NEW l \in Keys
                   PROVE  \A m, n \in DOMAIN itemIds'[l] : itemIds'[l][m] = itemIds'[l][n] => m = n
        OBVIOUS
      <4>1. \A m, n \in DOMAIN itemIds[l] : itemIds[l][m] = itemIds[l][n] => m = n
        BY <3>1 DEF LoneGood
      <4>2. CASE l = k
        <5>1. ~In(i, s)
          BY <1>2, <3>4 DEF Listed, In
        <5>2. itemIds'[l] = t /\ itemIds[l] = s
          BY <2>3, <4>2
        <5> QED BY <2>2, <4>1, <5>1, <5>2, Zenon DEF OnceEach
      <4>3. CASE l # k
        BY <2>3, <4>1, <4>3
      <4> QED BY <4>2, <4>3
    <3>7. ASSUME NEW l \in Keys, r.target # l PROVE score[l] \in {<<0, 0>>, Weight(l)'}
      <4>1. score[l] \in {<<0, 0>>, Weight(l)}
        BY <1>1, <3>1, KeysAre DEF LoneGood
      <4>2. itemIds'[l] = itemIds[l]
        BY <2>3, <2>8, <3>7
      <4>3. Weight(l)' = Weight(l)
        BY <1>2, <4>2 DEF Weight
      <4> QED BY <4>1, <4>3
    <3> QED BY <1>2, <2>8, <3>2, <3>3, <3>5, <3>6, <3>7 DEF LoneGood
  <2>13. Lone'
    BY <1>1, <1>2, <2>7, <2>12, LoneMoves DEF Inv
  <2> QED BY <2>6, <2>10, <2>11, <2>13 DEF Inv
<1> QED BY <1>3, <1>4, Zenon DEF Create

\* The UPDATE of news_item: until the list is extended the pass vouches for it.
LEMMA AssignKeeps ==
  ASSUME Inv, NEW c \in Passes, Assign(c)
  PROVE  Inv'
<1> PICK i : i = pass[c].item
  OBVIOUS
<1> PICK k : k = pass[c].target
  OBVIOUS
<1>1. /\ pass[c].pc = "assign" /\ k \in Keys /\ i \in Items /\ itemIds[k] # <<>>
      /\ c \in used /\ pass[c] \in PassState /\ i \notin pass[c].todo
  BY InUse DEF Inv, PassesOK, PassGood, Assign
<1>2. UNCHANGED <<embedded, itemIds, score, used>>
  BY DEF Assign
<1>3. CASE NextItem(c) /\ UNCHANGED clusterOf /\ Fail
  <2> PICK r : r = Resting("next", pass[c].todo)
    OBVIOUS
  <2>1. pass' = [pass EXCEPT ![c] = r]
    BY <1>3, Zenon DEF NextItem, Resting
  <2>2. pass[c].todo \in SUBSET Items
    BY <1>1 DEF PassState
  <2>3. r \in PassState /\ PassGood(r)
    BY <2>2, Rests
  <2> QED BY <1>1, <1>2, <1>3, <2>1, <2>3, PassFails
<1>4. CASE /\ clusterOf' = [clusterOf EXCEPT ![i] = k]
           /\ pass' = [pass EXCEPT ![c].pc = "list"] /\ UNCHANGED faults
  <2>1. /\ clusterOf' \in [Items -> Keys \cup {None}] /\ clusterOf'[i] = k
        /\ \A j \in Items : j # i => clusterOf'[j] = clusterOf[j]
    BY <1>1, <1>4 DEF Inv, TablesOK
  <2>2. TablesOK'
    BY <1>1, <1>2, <1>4, <2>1 DEF Inv, TablesOK
  <2> PICK r : r = [pass[c] EXCEPT !.pc = "list"]
    OBVIOUS
  <2>3. pass' = [pass EXCEPT ![c] = r]
    BY <1>4, Zenon
  <2>4. /\ r.pc = "list" /\ r.todo = pass[c].todo /\ r.item = i
        /\ r.target = k /\ r \in PassState
    BY <1>1 DEF PassState
  <2>5. PassGood(r)'
    BY <1>1, <1>2, <2>4 DEF PassGood
  <2>6. PassesOK'
    BY <1>1, <1>2, <2>3, <2>4, <2>5, PassMoves DEF Inv
  <2>7. c \in Passes /\ pass'[c] = r /\ \A d \in used : d # c => pass'[d] = pass[d]
    BY <1>1, <2>3, InUse DEF Inv, PassesOK
  <2>8. ASSUME NoFault', NEW j \in Items, clusterOf'[j] # None
        PROVE  \/ Listed(j, clusterOf'[j])
               \/ \E d \in used : /\ pass'[d].pc = "list" /\ pass'[d].item = j
                                  /\ pass'[d].target = clusterOf'[j]
    <3>1. CASE j = i
      BY <1>1, <2>1, <2>4, <2>7, <3>1
    <3>2. CASE j # i
      <4>1. \/ Listed(j, clusterOf[j])
            \/ \E d \in used : /\ pass[d].pc = "list" /\ pass[d].item = j
                               /\ pass[d].target = clusterOf[j]
        BY <1>4, <2>1, <2>8, <3>2 DEF Inv, Pointed, NoFault
      <4> QED BY <1>1, <2>1, <2>7, <3>2, <4>1
    <3> QED BY <3>1, <3>2
  <2>9. Pointed'
    BY <1>2, <2>8 DEF Pointed, Listed
  <2>10. ASSUME NoFault', used = {c} PROVE LoneGood(r)'
    <3>1. LoneGood(pass[c])
      BY <1>1, <1>4, <2>10 DEF Inv, Lone, NoFault
    <3>2. \A j \in r.todo : clusterOf'[j] = None
      BY <1>1, <2>1, <2>4, <3>1 DEF LoneGood, PassState
    <3>3. clusterOf[i] = None
      BY <1>1, <3>1 DEF LoneGood
    <3>4. ASSUME NEW l \in Keys, NEW j \in Items, Listed(j, l)
          PROVE  clusterOf'[j] = l
      BY <1>1, <2>1, <3>1, <3>3, <3>4, KeysAre DEF LoneGood
    <3>5. \A l \in Keys : \A m, n \in DOMAIN itemIds[l] : itemIds[l][m] = itemIds[l][n] => m = n
      BY <3>1 DEF LoneGood
    <3>6. ASSUME NEW l \in Keys, r.target # l PROVE score[l] \in {<<0, 0>>, Weight(l)'}
      <4>1. score[l] \in {<<0, 0>>, Weight(l)}
        BY <2>4, <3>1, <3>6 DEF LoneGood
      <4>2. {j \in Items : clusterOf'[j] = l} = {j \in Items : clusterOf[j] = l}
        BY <2>1, <2>4, <3>3, <3>6, KeysAre
      <4>3. Weight(l)' = Weight(l)
        BY <1>2, <4>2 DEF Weight
      <4> QED BY <4>1, <4>3
    <3> QED BY <1>2, <2>1, <2>4, <3>2, <3>4, <3>5, <3>6 DEF LoneGood, Listed
  <2>11. Lone'
    BY <1>1, <1>2, <2>3, <2>10, LoneMoves DEF Inv
  <2> QED BY <2>2, <2>6, <2>9, <2>11 DEF Inv
<1> QED BY <1>3, <1>4, Zenon DEF Assign

\* The UPDATE of item_ids: the pointer set before is listed from here on.
LEMMA ListKeeps ==
  ASSUME Inv, NEW c \in Passes, List(c)
  PROVE  Inv'
<1> PICK i : i = pass[c].item
  OBVIOUS
<1> PICK k : k = pass[c].target
  OBVIOUS
<1> PICK r : r = [pass[c] EXCEPT !.pc = "weigh"]
  OBVIOUS
<1>1. /\ pass[c].pc = "list" /\ k \in Keys /\ i \in Items /\ itemIds[k] # <<>>
      /\ c \in used /\ pass[c] \in PassState /\ i \notin pass[c].todo
  BY InUse DEF Inv, PassesOK, PassGood, List
<1>2. UNCHANGED <<embedded, clusterOf, score, used>>
  BY DEF List
<1>3. pass' = [pass EXCEPT ![c] = r]
  BY Zenon DEF List
<1>4. /\ r.pc = "weigh" /\ r.todo = pass[c].todo /\ r.item = i
      /\ r.target = k /\ r \in PassState
  BY <1>1 DEF PassState
<1>5. CASE UNCHANGED itemIds /\ Fail
  <2>1. PassGood(r)
    BY <1>1, <1>4 DEF PassGood
  <2> QED BY <1>1, <1>2, <1>3, <1>4, <1>5, <2>1, PassFails
<1>6. CASE /\ itemIds' = [itemIds EXCEPT ![k] = IF Listed(i, k) THEN @ ELSE Append(@, i)]
           /\ UNCHANGED faults
  <2> PICK s : s = itemIds[k]
    OBVIOUS
  <2> PICK t : t = IF Listed(i, k) THEN s ELSE Append(s, i)
    OBVIOUS
  <2>1. s \in Seq(Items) /\ s # <<>> /\ itemIds' = [itemIds EXCEPT ![k] = t]
    BY <1>1, <1>6, Zenon DEF Inv, TablesOK
  <2>2. Listed(i, k) <=> In(i, s)
    BY DEF Listed, In
  <2>3. /\ t \in Seq(Items) /\ t # <<>>
        /\ \A j \in Items : In(j, t) <=> (j = i \/ In(j, s))
        /\ OnceEach(s) => OnceEach(t)
    <3>1. CASE Listed(i, k)
      BY <2>1, <2>2, <3>1
    <3>2. CASE ~Listed(i, k)
      <4>1. t = Append(s, i)
        BY <3>2
      <4> QED BY <1>1, <2>1, <2>2, <3>2, <4>1, Appended
    <3> QED BY <3>1, <3>2
  <2>4. /\ itemIds' \in [Keys -> Seq(Items)] /\ itemIds'[k] = t
        /\ \A l \in Keys : l # k => itemIds'[l] = itemIds[l]
    <3>1. t \in Seq(Items)
      BY <2>3
    <3> QED BY <1>1, <2>1, <3>1 DEF Inv, TablesOK
  <2>5. \A l \in Keys : itemIds[l] # <<>> => itemIds'[l] # <<>>
    BY <2>3, <2>4
  <2>6. \A j \in Items, l \in Keys : Listed(j, l)' <=> (j = i /\ l = k) \/ Listed(j, l)
    <3> SUFFICES ASSUME NEW j \in Items, NEW l \in Keys
                 PROVE  Listed(j, l)' <=> (j = i /\ l = k) \/ Listed(j, l)
      OBVIOUS
    <3>1. CASE l = k
      <4>1. In(j, t) <=> (j = i \/ In(j, s))
        BY <2>3
      <4>2. itemIds'[l] = t /\ itemIds[l] = s
        BY <2>4, <3>1
      <4> QED BY <3>1, <4>1, <4>2, Zenon DEF Listed, In
    <3>2. CASE l # k
      BY <2>4, <3>2 DEF Listed
    <3> QED BY <3>1, <3>2
  <2>7. TablesOK'
    BY <1>2, <1>6, <2>4, <2>5 DEF Inv, TablesOK
  <2>8. PassGood(r)'
    BY <1>1, <1>4, <2>5 DEF PassGood
  <2>9. PassesOK'
    BY <1>1, <1>2, <1>3, <1>4, <2>5, <2>8, PassMoves DEF Inv
  <2>10. \A d \in used : d # c => pass'[d] = pass[d]
    BY <1>1, <1>3, InUse DEF Inv, PassesOK
  <2>11. ASSUME NoFault', NEW j \in Items, NEW l \in Keys, clusterOf[j] = l
         PROVE  \/ Listed(j, l)'
                \/ \E d \in used : /\ pass'[d].pc = "list" /\ pass'[d].item = j
                                   /\ pass'[d].target = l
    <3>1. \/ Listed(j, l)
          \/ \E d \in used : /\ pass[d].pc = "list" /\ pass[d].item = j
                             /\ pass[d].target = l
      BY <1>6, <2>11, KeysAre DEF Inv, Pointed, NoFault
    <3>2. CASE Listed(j, l)
      BY <2>6, <3>2
    <3>3. ASSUME NEW d \in used, pass[d].pc = "list", pass[d].item = j, pass[d].target = l
          PROVE  Listed(j, l)' \/ pass'[d] = pass[d]
      <4>1. CASE d = c
        BY <2>6, <3>3, <4>1
      <4>2. CASE d # c
        BY <2>10, <4>2
      <4> QED BY <4>1, <4>2
    <3> QED BY <3>1, <3>2, <3>3
  <2>12. Pointed'
    <3> SUFFICES ASSUME NoFault', NEW j \in Items, NEW l, l = clusterOf[j], l # None
                 PROVE  \/ \E n \in DOMAIN itemIds'[l] : itemIds'[l][n] = j
                        \/ \E d \in used : /\ pass'[d].pc = "list" /\ pass'[d].item = j
                                           /\ pass'[d].target = l
      BY <1>2 DEF Pointed, Listed
    <3>1. l \in Keys
      BY DEF Inv, TablesOK
    <3> QED BY <2>11, <3>1 DEF Listed
  <2>13. ASSUME NoFault', used = {c} PROVE LoneGood(r)'
    <3>1. LoneGood(pass[c])
      BY <1>1, <1>6, <2>13 DEF Inv, Lone, NoFault
    <3>2. (\A j \in r.todo : clusterOf[j] = None) /\ clusterOf[i] = k
      BY <1>1, <1>4, <3>1 DEF LoneGood
    <3>3. \A l \in Keys : \A j \in Items : Listed(j, l)' => clusterOf[j] = l
      BY <1>1, <2>6, <3>1, <3>2 DEF LoneGood
    <3>4. \A l \in Keys : \A m, n \in DOMAIN itemIds'[l] : itemIds'[l][m] = itemIds'[l][n] => m = n
      <4> SUFFICES ASSUME NEW l \in Keys
                   PROVE  \A m, n \in DOMAIN itemIds'[l] : itemIds'[l][m] = itemIds'[l][n] => m = n
        OBVIOUS
      <4>1. \A m, n \in DOMAIN itemIds[l] : itemIds[l][m] = itemIds[l][n] => m = n
        BY <3>1 DEF LoneGood
      <4>2. CASE l = k
        <5>1. itemIds'[l] = t /\ itemIds[l] = s
          BY <2>4, <4>2
        <5> QED BY <2>3, <4>1, <5>1, Zenon DEF OnceEach
      <4>3. CASE l # k
        BY <2>4, <4>1, <4>3
      <4> QED BY <4>2, <4>3
    <3>5. ASSUME NEW l \in Keys, r.target # l PROVE score[l] \in {<<0, 0>>, Weight(l)'}
      <4>1. score[l] \in {<<0, 0>>, Weight(l)}
        BY <1>4, <3>1, <3>5 DEF LoneGood
      <4>2. itemIds'[l] = itemIds[l]
        BY <1>4, <2>4, <3>5
      <4>3. Weight(l)' = Weight(l)
        BY <1>2, <4>2 DEF Weight
      <4> QED BY <4>1, <4>3
    <3> QED BY <1>2, <1>4, <3>2, <3>3, <3>4, <3>5 DEF LoneGood
  <2>14. Lone'
    BY <1>1, <1>2, <1>3, <2>13, LoneMoves DEF Inv
  <2> QED BY <2>7, <2>9, <2>12, <2>14 DEF Inv
<1> QED BY <1>5, <1>6, Zenon DEF List

\* updateImportanceScore: the last cluster in hand has its score.
LEMMA ScoreKeeps ==
  ASSUME Inv, NEW c \in Passes, Score(c)
  PROVE  Inv'
<1> PICK k : k = pass[c].target
  OBVIOUS
<1> PICK w : w = pass[c].weight
  OBVIOUS
<1> PICK r : r = Resting("next", pass[c].todo)
  OBVIOUS
<1>1. /\ pass[c].pc = "score" /\ k \in Keys /\ w \in Nat \X Nat
      /\ c \in used /\ pass[c] \in PassState /\ pass[c].todo \in SUBSET Items
  BY InUse DEF Inv, PassesOK, PassState, PassGood, Score
<1>2. UNCHANGED <<embedded, clusterOf, itemIds, used>>
  BY DEF Score
<1>3. pass' = [pass EXCEPT ![c] = r]
  BY Zenon DEF Score, NextItem, Resting
<1>4. /\ r \in PassState /\ PassGood(r)
      /\ r.pc = "next" /\ r.todo = pass[c].todo /\ r.item = None /\ r.target = None
  BY <1>1, Rests
<1>5. CASE UNCHANGED score /\ Fail
  BY <1>1, <1>2, <1>3, <1>4, <1>5, PassFails
<1>6. CASE score' = [score EXCEPT ![k] = w] /\ UNCHANGED faults
  <2>1. /\ score' \in [Keys -> Nat \X Nat] /\ score'[k] = w
        /\ \A l \in Keys : l # k => score'[l] = score[l]
    BY <1>1, <1>6 DEF Inv, TablesOK
  <2>2. TablesOK'
    BY <1>2, <1>6, <2>1 DEF Inv, TablesOK
  <2>3. PassGood(r)'
    BY <1>2, <1>4 DEF PassGood
  <2>4. PassesOK'
    BY <1>1, <1>2, <1>3, <1>4, <2>3, PassMoves DEF Inv
  <2>5. \A i \in Items, l \in Keys : Listed(i, l) => Listed(i, l)'
    BY <1>2 DEF Listed
  <2>6. Pointed'
    BY <1>1, <1>2, <1>3, <1>6, <2>5, PointedMoves DEF Inv, NoFault
  <2>7. ASSUME NoFault', used = {c} PROVE LoneGood(r)'
    <3>1. LoneGood(pass[c])
      BY <1>1, <1>6, <2>7 DEF Inv, Lone, NoFault
    <3>2. ASSUME NEW l \in Keys PROVE score'[l] \in {<<0, 0>>, Weight(l)}
      <4>1. CASE l = k
        BY <1>1, <2>1, <3>1, <4>1 DEF LoneGood
      <4>2. CASE l # k
        BY <2>1, <3>1, <4>2 DEF LoneGood
      <4> QED BY <4>1, <4>2
    <3>3. \A l \in Keys : Weight(l)' = Weight(l)
      BY <1>2 DEF Weight
    <3>4. \A l \in Keys : \A i \in Items : Listed(i, l) => clusterOf[i] = l
      BY <1>1, <3>1 DEF LoneGood
    <3>5. \A l \in Keys : \A m, n \in DOMAIN itemIds[l] : itemIds[l][m] = itemIds[l][n] => m = n
      BY <3>1 DEF LoneGood
    <3>6. \A i \in r.todo : clusterOf[i] = None
      BY <1>4, <3>1 DEF LoneGood
    <3> QED BY <1>2, <1>4, <3>2, <3>3, <3>4, <3>5, <3>6 DEF LoneGood, Listed
  <2>8. Lone'
    BY <1>1, <1>2, <1>3, <2>7, LoneMoves DEF Inv
  <2> QED BY <2>2, <2>4, <2>6, <2>8 DEF Inv
<1> QED BY <1>5, <1>6, Zenon DEF Score

\* Only the vectors change, if anything does.
LEMMA Untouched ==
  ASSUME Inv, embedded' \subseteq Items,
         UNCHANGED <<clusterOf, itemIds, score, used, pass, faults>>
  PROVE  Inv'
<1>1. TablesOK'
  BY DEF Inv, TablesOK
<1>2. PassesOK'
  BY DEF Inv, PassesOK, PassGood
<1>3. Pointed'
  BY DEF Inv, Pointed, NoFault, Listed
<1>4. ASSUME NoFault, NEW c \in Passes, used = {c} PROVE LoneGood(pass[c])'
  <2>1. LoneGood(pass[c])
    BY <1>4 DEF Inv, Lone
  <2>2. \A k : Weight(k)' = Weight(k)
    BY DEF Weight
  <2>3. \A i, k : Listed(i, k)' = Listed(i, k)
    BY DEF Listed
  <2> QED BY <2>1, <2>2, <2>3, Zenon DEF LoneGood
<1>5. Lone'
  BY <1>4 DEF Lone, NoFault
<1> QED BY <1>1, <1>2, <1>3, <1>5 DEF Inv

\* The chunker and the embedder only change which items have vectors.
LEMMA EmbeddingKeeps ==
  ASSUME Inv, Embedding
  PROVE  Inv'
BY Untouched DEF Inv, TablesOK, Embedding

\* After a crash every pass is at rest.
LEMMA CrashKeeps ==
  ASSUME Inv, Crash
  PROVE  Inv'
<1>1. /\ UNCHANGED <<embedded, clusterOf, itemIds, score, used>>
      /\ faults' \in 0..MaxFaults /\ ~NoFault'
  BY Failing DEF Inv, Crash
<1>2. \A c \in Passes : pass'[c] = Idle
  BY DEF Crash
<1>3. Idle \in PassState /\ Idle.pc = "idle" /\ Idle.todo = {} /\ Idle.item = None
      /\ Idle.target = None
  BY DEF Idle, PassState
<1>4. pass' \in [Passes -> PassState]
  BY <1>3 DEF Crash
<1>5. ASSUME NEW c \in Passes PROVE PassGood(pass[c])'
  BY <1>2, <1>3, KeysAre DEF PassGood
<1> QED BY <1>1, <1>2, <1>3, <1>4, <1>5 DEF Inv, TablesOK, PassesOK, Pointed, Lone

\* At the start there are no clusters, and every pass is at rest.
LEMMA InitKeeps ==
  ASSUME Init
  PROVE  Inv
<1>1. Idle \in PassState /\ Idle.pc = "idle" /\ Idle.todo = {} /\ Idle.item = None
      /\ Idle.target = None
  BY DEF Idle, PassState
<1>2. pass \in [Passes -> PassState] /\ \A c \in Passes : pass[c] = Idle
  BY <1>1 DEF Init
<1>3. TablesOK
  BY ClusterAssumption DEF Init, TablesOK
<1>4. PassesOK
  BY <1>1, <1>2, KeysAre DEF PassesOK, PassGood
<1>5. Pointed
  BY DEF Init, Pointed
<1>6. LoneGood(Idle)
  BY <1>1 DEF Init, LoneGood, Listed
<1>7. Lone
  <2> SUFFICES ASSUME NEW c \in Passes, used = {c} PROVE LoneGood(pass[c])
    BY DEF Lone
  <2> QED BY <1>2, <1>6
<1> QED BY <1>3, <1>4, <1>5, <1>7 DEF Inv

\* The invariant holds throughout, for every set of items, keys and
\* similarities, every schedule of overlapping passes and every limit.
THEOREM Invariance == Spec => []Inv
<1>1. Init => Inv
  BY InitKeeps
<1>2. Inv /\ [Next]_vars => Inv'
  <2> SUFFICES ASSUME Inv, [Next]_vars PROVE Inv'
    OBVIOUS
  <2>1. ASSUME NEW c \in Passes, PassStep(c) PROVE Inv'
    <3>1. CASE Select(c)
      BY <3>1, SelectKeeps
    <3>2. CASE ReadVectors(c)
      BY <3>2, ReadVectorsKeeps
    <3>3. CASE FindNearest(c)
      BY <3>3, FindNearestKeeps
    <3>4. CASE Create(c)
      BY <3>4, CreateKeeps
    <3>5. CASE Assign(c)
      BY <3>5, AssignKeeps
    <3>6. CASE List(c)
      BY <3>6, ListKeeps
    <3>7. CASE Weigh(c)
      BY <3>7, WeighKeeps
    <3>8. CASE Score(c)
      BY <3>8, ScoreKeeps
    <3>9. CASE EndPass(c)
      BY <3>9, EndPassKeeps
    <3> QED BY <2>1, <3>1, <3>2, <3>3, <3>4, <3>5, <3>6, <3>7, <3>8, <3>9 DEF PassStep
  <2>2. CASE Embedding
    BY <2>2, EmbeddingKeeps
  <2>3. CASE Crash
    BY <2>3, CrashKeeps
  <2>4. CASE UNCHANGED vars
    BY <2>4, Untouched DEF vars, Inv, TablesOK
  <2> QED BY <2>1, <2>2, <2>3, <2>4 DEF Next
<1> QED BY <1>1, <1>2, PTL DEF Spec

\* Types, and the foreign key of news_item.cluster_id: no item points to a
\* cluster that has no items, and no pass holds one.
THEOREM TypeCorrect == Spec => []TypeOK
<1>1. Inv => TypeOK
  BY DEF Inv, TablesOK, PassesOK, PassState, PassGood, TypeOK
<1> QED BY <1>1, Invariance, PTL

\* However passes overlap, the cluster an item points to lists it; and a pass
\* that is alone keeps both copies of the membership, and the scores, exact.
THEOREM Consistency == Spec => []ClustersAreConsistent
<1>1. Inv => MembersAreListed
  BY DEF Inv, Pointed, NoFault, MembersAreListed, InHand
<1>2. Inv => LoneListsAreExact
  <2> SUFFICES ASSUME Inv, NoFault, Cardinality(used) = 1,
                      NEW k \in Keys, NEW i \in Items
               PROVE  /\ Listed(i, k) /\ ~InHand(i) => clusterOf[i] = k
                      /\ Cardinality({n \in DOMAIN itemIds[k] : itemIds[k][n] = i}) <= 1
                      /\ (\A c \in used : pass[c].target # k) => score[k] \in {<<0, 0>>, Weight(k)}
    BY DEF LoneListsAreExact, NoFault
  <2>1. used \subseteq Passes
    BY InUse DEF Inv
  <2>2. IsFiniteSet(used)
    BY <2>1, FS_Subset, ClusterAssumption
  <2>3. PICK c : used = {c}
    BY <2>2, FS_Singleton
  <2>4. c \in Passes /\ LoneGood(pass[c])
    BY <2>1, <2>3 DEF Inv, Lone
  <2>5. Listed(i, k) /\ ~InHand(i) => clusterOf[i] = k
    BY <2>3, <2>4 DEF LoneGood, InHand
  <2>6. Cardinality({n \in DOMAIN itemIds[k] : itemIds[k][n] = i}) <= 1
    <3> DEFINE P == {n \in DOMAIN itemIds[k] : itemIds[k][n] = i}
    <3>1. \A m, n \in P : m = n
      BY <2>4 DEF LoneGood
    <3> HIDE DEF P
    <3>2. P = {} \/ \E n : P = {n}
      BY <3>1
    <3>3. Cardinality(P) = 0 \/ Cardinality(P) = 1
      BY <3>2, FS_EmptySet, FS_Singleton
    <3> QED BY <3>3 DEF P
  <2>7. (\A d \in used : pass[d].target # k) => score[k] \in {<<0, 0>>, Weight(k)}
    BY <2>3, <2>4 DEF LoneGood
  <2> QED BY <2>5, <2>6, <2>7
<1> QED BY <1>1, <1>2, Invariance, PTL DEF ClustersAreConsistent

=============================================================================
