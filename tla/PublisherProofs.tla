-------------------------- MODULE PublisherProofs --------------------------
(***************************************************************************)
(* Proofs about Publisher.tla for every set of sections, evidence records, *)
(* publishers and failures.                                                *)
(***************************************************************************)
EXTENDS Publisher, TLAPS, FiniteSetTheorems

-----------------------------------------------------------------------------
(* The strengthened invariants.                                            *)

\* A failure class nothing of which has happened.
NoLoss == faults["unlisted"] = MaxFaults["unlisted"]
NoTear == faults["torn"] = MaxFaults["torn"]
NoMiss == faults["missed"] = MaxFaults["missed"]
NoCut == faults["cut"] = MaxFaults["cut"]

FaultClasses == {"clean", "torn", "missed", "unlisted", "cut", "any"}

Pcs == {"idle", "prepare", "render", "log", "validate", "finalize", "sync", "commit", "push"}

RunState ==
    [pc : Pcs, todo : SUBSET (Substance \cup {"evidence"}),
     summary : [added : SUBSET Evidence, superseded : SUBSET Evidence]]

IsTree(tree) == tree = [f \in Files |-> tree[f]] /\ TreeOK(tree)

\* Only the holder of the lock is under way.
Locked == /\ lock \in Publishers \cup {NoOne}
          /\ \A p \in Publishers : At(p, "idle") <=> lock # p

RunsOK ==
    /\ run \in [Publishers -> RunState]
    /\ \A p \in Publishers : run[p].summary.added \cap run[p].summary.superseded = {}

Typed ==
    /\ IsTree(staging) /\ IsTree(corpus) /\ IsTree(head)
    /\ pushed \in BOOLEAN /\ expired \subseteq Evidence
    /\ faults \in [FaultClasses -> Nat]
    /\ \A c \in FaultClasses : faults[c] <= MaxFaults[c]
    /\ RunsOK
    /\ Locked

\* A file the manifest lists has the content the manifest lists.
Consistent(tree) ==
    tree["manifest"] # Absent =>
        \A f \in Manifested : tree["manifest"][f] \in {Absent, tree[f]}

\* What is still to copy is staged, what is not to copy any more was copied.
Copied(p) ==
    /\ run[p].todo \subseteq Substance
    /\ \A f \in run[p].todo : staging[f] # Absent
    /\ \A f \in Substance : staging[f] # Absent => f \in run[p].todo \/ corpus[f] = staging[f]

\* A log under way was started.  Until a manifest is lost: the staged tree is
\* listed as it is, and what is committed was listed.
ListedAt(p) ==
    /\ At(p, "log") => staging["log"] # Absent
    /\ At(p, "sync") => Copied(p)
    /\ NoLoss => /\ run[p].pc \in {"validate", "finalize", "sync"} =>
                       staging["manifest"] = [f \in Manifested |-> staging[f]]
                 /\ At(p, "commit") => Consistent(corpus)

Listed == /\ NoLoss => Consistent(head)
          /\ \A p \in Publishers : ListedAt(p)

\* The log of a tree knows the superseded records of the retention window ...
SupersededIn(tree) ==
    \A e \in Evidence : tree[e] = "superseded" /\ e \notin expired =>
        tree["log"] # Absent /\ tree["log"][e] = "superseded"

\* ... and all records, until it is cut or a copy torn.
AllIn(tree) ==
    NoTear /\ NoCut => \A e \in Evidence :
        tree[e] # Absent => tree["log"] # Absent /\ tree["log"][e] # Absent

LoggedIn(tree) == SupersededIn(tree) /\ AllIn(tree)

\* No superseded record of the window is missing from the staged tree.
Carried == \A e \in Evidence :
    corpus[e] = "superseded" /\ e \notin expired => staging[e] # Absent

\* The summary names what the staged evidence changes about the corpus.
Summed(s) ==
    \A e \in Evidence :
        /\ staging[e] = "superseded" => e \in s.superseded
        /\ staging[e] # Absent => e \in s.added \cup s.superseded \/ corpus[e] # Absent

\* The staged log is complete: for the staged tree, and until one is cut or torn
\* for what stays in the corpus beside it.
Complete ==
    /\ staging["log"] # Absent
    /\ \A e \in Evidence :
          /\ staging[e] = "superseded" => staging["log"][e] = "superseded"
          /\ NoTear /\ NoCut /\ (staging[e] # Absent \/ corpus[e] # Absent) =>
                staging["log"][e] # Absent

\* Until evidence is missed: the staged tree is logged from the manifest on, and
\* the corpus once it was copied; until a copy is torn the corpus has all records
\* in its log, except while it is copied to.
RecordedAt(p) ==
    /\ At(p, "render") /\ "evidence" \in run[p].todo =>
          \A e \in Evidence : staging[e] = Absent
    /\ (At(p, "render") /\ "evidence" \notin run[p].todo) \/ At(p, "log") =>
          Carried /\ Summed(run[p].summary)
    /\ At(p, "log") /\ NoCut => staging["log"] = LogOf(corpus)
    /\ run[p].pc \in {"validate", "finalize", "sync"} => Carried /\ Complete
    /\ At(p, "commit") => SupersededIn(corpus)

Recorded ==
    NoMiss => /\ LoggedIn(head)
              /\ \A p \in Publishers : RecordedAt(p)
              /\ AllIn(corpus) \/ \E p \in Publishers : At(p, "sync")

Inv == Typed /\ Listed /\ Recorded

-----------------------------------------------------------------------------
(* Lemmas about the operators of the model.                                *)

\* The clock has a value left: NewStamp is a stamp whatever the trees hold.
LEMMA FreshStamp == ASSUME NEW f PROVE NewStamp(f) \in Stamps
<1> DEFINE Trees == {staging, corpus, head}
           Manifests == {t["manifest"] : t \in Trees} \ {Absent}
           Used == {t[f] : t \in Trees \cup Manifests}
           U1 == {staging[f]}
           U2 == U1 \cup {corpus[f]}
           U3 == U2 \cup {head[f]}
           U4 == U3 \cup {staging["manifest"][f]}
           U5 == U4 \cup {corpus["manifest"][f]}
           U6 == U5 \cup {head["manifest"][f]}
<1>1. Used \subseteq U6
  OBVIOUS
<1>2. IsFiniteSet(U6) /\ Cardinality(U6) <= 6
  <2>1. IsFiniteSet(U1) /\ Cardinality(U1) = 1
    BY FS_Singleton, Zenon
  <2> HIDE DEF U1
  <2>2. IsFiniteSet(U2) /\ Cardinality(U2) \in Nat /\ Cardinality(U2) <= 2
    BY <2>1, FS_AddElement
  <2> HIDE DEF U2
  <2>3. IsFiniteSet(U3) /\ Cardinality(U3) \in Nat /\ Cardinality(U3) <= 3
    BY <2>2, FS_AddElement
  <2> HIDE DEF U3
  <2>4. IsFiniteSet(U4) /\ Cardinality(U4) \in Nat /\ Cardinality(U4) <= 4
    BY <2>3, FS_AddElement
  <2> HIDE DEF U4
  <2>5. IsFiniteSet(U5) /\ Cardinality(U5) \in Nat /\ Cardinality(U5) <= 5
    BY <2>4, FS_AddElement
  <2> HIDE DEF U5
  <2>6. IsFiniteSet(U6) /\ Cardinality(U6) <= 6
    <3> DEFINE x == head["manifest"][f]
    <3> HIDE DEF x
    <3> DEFINE n == Cardinality(U5)
    <3>1. /\ IsFiniteSet(U5 \cup {x})
          /\ Cardinality(U5 \cup {x}) = n \/ Cardinality(U5 \cup {x}) = n + 1
      BY <2>5, FS_AddElement, Zenon
    <3>2. n \in Nat /\ n <= 5
      BY <2>5
    <3> HIDE DEF n
    <3>3. Cardinality(U5 \cup {x}) <= 6
      BY <3>1, <3>2
    <3> QED BY <3>1, <3>3 DEF x
  <2> QED BY <2>6
<1> HIDE DEF U1, U2, U3, U4, U5, U6, Used
<1>3. \E s \in Stamps : s \notin Used
  <2> SUFFICES ASSUME Stamps \subseteq U6 PROVE FALSE
    BY <1>1
  <2>1. Cardinality(Stamps) <= Cardinality(U6) /\ Cardinality(U6) \in Nat
        /\ Cardinality(Stamps) \in Nat
    BY <1>2, FS_Subset, FS_CardinalityType
  <2> QED BY <2>1, <1>2, StampsAssumption
<1>4. NewStamp(f) = CHOOSE s \in Stamps : s \notin Used
  BY Zenon DEF NewStamp, Used, Trees, Manifests
<1> QED BY <1>3, <1>4, Zenon

-----------------------------------------------------------------------------
(* Lemmas about trees.                                                     *)

ManifestOK(tree) ==
    tree["manifest"] # Absent => /\ DOMAIN tree["manifest"] = Manifested
                                 /\ \A f \in Manifested : ContentOK(tree["manifest"], f)

\* The files of a tree have their names and their kinds.
LEMMA Names ==
  /\ "manifest" \in Files /\ "manifest" \notin Substance
  /\ "log" \in Substance /\ "index" \in Substance /\ "log" # "index"
  /\ "evidence" \notin Sections
  /\ Files = Substance \cup {"manifest"}
  /\ Manifested \subseteq Substance /\ "log" \notin Manifested
  /\ Substance = Sections \cup Evidence \cup {"index", "log"}
  /\ Sections \cap Evidence = {}
  /\ {"log", "index", "manifest"} \cap Evidence = {}
  /\ {"log", "index", "manifest"} \cap Sections = {}
BY FilesAreDistinct DEF Files, Substance, Rendered, Manifested

\* A tree is its files, each of its kind, and a manifest.
LEMMA TreeMade ==
  ASSUME NEW t
  PROVE  IsTree(t) <=> /\ t = [f \in Files |-> t[f]]
                       /\ \A f \in Substance : ContentOK(t, f)
                       /\ ManifestOK(t)
BY DEF IsTree, TreeOK, ManifestOK

\* Writing a file of its kind leaves a tree.
LEMMA FileWritten ==
  ASSUME NEW t, IsTree(t), NEW f \in Substance, NEW c,
         \/ c = Absent
         \/ f \in Sections \cup {"index"} /\ c \in Stamps
         \/ f \in Evidence /\ c \in {"current", "superseded"}
         \/ f = "log" /\ c \in Logs
  PROVE  IsTree([t EXCEPT ![f] = c])
<1> DEFINE u == [t EXCEPT ![f] = c]
<1>1. t = [g \in Files |-> t[g]] /\ f \in Files /\ f # "manifest"
  BY Names, TreeMade
<1>2. u = [g \in Files |-> IF g = f THEN c ELSE t[g]]
  BY <1>1
<1>3. u = [g \in Files |-> u[g]] /\ u["manifest"] = t["manifest"]
      /\ u[f] = c /\ \A g \in Substance : g # f => u[g] = t[g]
  BY <1>1, <1>2, Names
<1> HIDE DEF u
<1>4. \A g \in Substance : ContentOK(u, g)
  BY <1>3, TreeMade DEF ContentOK
<1>5. ManifestOK(u)
  BY <1>3, TreeMade, Zenon DEF ManifestOK
<1>6. IsTree(u)
  BY <1>3, <1>4, <1>5, TreeMade, Zenon
<1> QED BY <1>6 DEF u

\* A manifest of the tree as it stands is a manifest, and it is not nothing.
LEMMA ManifestWritten ==
  ASSUME NEW t, IsTree(t)
  PROVE  LET m == [f \in Manifested |-> t[f]]
         IN  m # Absent /\ IsTree([t EXCEPT !["manifest"] = m])
<1> DEFINE m == [f \in Manifested |-> t[f]]
           u == [t EXCEPT !["manifest"] = m]
<1>1. t = [g \in Files |-> t[g]]
  BY TreeMade
<1>2. \A f \in Substance : ContentOK(t, f)
  BY TreeMade
<1>3. m \in [Manifested -> Contents]
  <2>1. \A f \in Manifested : t[f] \in Contents
    BY <1>2, Names DEF ContentOK, Contents
  <2> QED BY <2>1
<1>4. m # Absent
  BY <1>3, AbsentAssumption
<1>5. DOMAIN m = Manifested /\ \A f \in Manifested : m[f] = t[f]
  OBVIOUS
<1> HIDE DEF m
<1>6. u = [g \in Files |-> IF g = "manifest" THEN m ELSE t[g]]
  BY <1>1
<1>7. u = [g \in Files |-> u[g]] /\ u["manifest"] = m /\ \A g \in Substance : u[g] = t[g]
  BY <1>6, Names
<1> HIDE DEF u
<1>8. \A g \in Substance : ContentOK(u, g)
  BY <1>2, <1>7 DEF ContentOK
<1>9. ManifestOK(u)
  BY <1>2, <1>5, <1>7, Names DEF ContentOK, ManifestOK
<1>10. IsTree(u)
  BY <1>7, <1>8, <1>9, TreeMade, Zenon
<1> QED BY <1>4, <1>10 DEF u, m

\* A staged file may be copied: a file of a tree written to another.
LEMMA FileCopied ==
  ASSUME NEW t, IsTree(t), NEW u, IsTree(u), NEW f \in Files
  PROVE  IsTree([t EXCEPT ![f] = u[f]])
<1>1. CASE f # "manifest"
  <2>1. f \in Substance /\ ContentOK(u, f)
    BY <1>1, Names, TreeMade
  <2> DEFINE c == u[f]
  <2> HIDE DEF c
  <2>2. IsTree([t EXCEPT ![f] = c])
    BY <2>1, FileWritten DEF ContentOK, c
  <2> QED BY <2>2 DEF c
<1>2. CASE f = "manifest"
  <2> DEFINE w == [t EXCEPT !["manifest"] = u["manifest"]]
  <2>1. t = [g \in Files |-> t[g]]
    BY TreeMade
  <2>2. w = [g \in Files |-> IF g = "manifest" THEN u["manifest"] ELSE t[g]]
    BY <2>1
  <2>3. w = [g \in Files |-> w[g]] /\ w["manifest"] = u["manifest"]
        /\ \A g \in Substance : w[g] = t[g]
    BY <2>2, Names
  <2> HIDE DEF w
  <2>4. \A g \in Substance : ContentOK(w, g)
    BY <2>3, TreeMade DEF ContentOK
  <2>5. ManifestOK(w)
    BY <2>3, TreeMade, Zenon DEF ManifestOK
  <2>6. IsTree(w)
    BY <2>3, <2>4, <2>5, TreeMade, Zenon
  <2> QED BY <2>6, <1>2 DEF w
<1> QED BY <1>1, <1>2

-----------------------------------------------------------------------------
(* Lemmas about the progress of the runs and about failures.               *)

\* Whoever is under way holds the lock, and nobody else is under way.
LEMMA Holder ==
  ASSUME Typed, NEW p \in Publishers, ~At(p, "idle")
  PROVE  lock = p /\ \A q \in Publishers : q # p => At(q, "idle")
BY DEF Typed, Locked

\* A run goes on, or starts when nobody is under way.
LEMMA Went ==
  ASSUME Typed, NEW p \in Publishers, NEW pc \in Pcs \ {"idle"},
         NEW todo \in SUBSET (Substance \cup {"evidence"}),
         run' = [run EXCEPT ![p].pc = pc, ![p].todo = todo],
         lock' = p, lock \in {p, NoOne}
  PROVE  /\ RunsOK' /\ Locked'
         /\ run'[p].pc = pc /\ run'[p].todo = todo /\ run'[p].summary = run[p].summary
         /\ \A q \in Publishers : q # p => run'[q].pc = "idle"
<1> DEFINE r == [run[p] EXCEPT !.pc = pc, !.todo = todo]
<1>1. run \in [Publishers -> RunState] /\ run[p] \in RunState
  BY DEF Typed, RunsOK
<1>2. run' = [run EXCEPT ![p] = r]
  BY Zenon
<1>3. r \in RunState /\ r.pc = pc /\ r.todo = todo /\ r.summary = run[p].summary
  BY <1>1 DEF RunState
<1> HIDE DEF r
<1>4. run' \in [Publishers -> RunState] /\ run'[p] = r
      /\ \A q \in Publishers : q # p => run'[q] = run[q]
  BY <1>1, <1>2, <1>3
<1>5. \A q \in Publishers : q # p => run'[q].pc = "idle"
  BY <1>4, PublishersAssumption DEF Typed, Locked, At
<1>6. RunsOK'
  BY <1>3, <1>4 DEF Typed, RunsOK
<1>7. Locked'
  BY <1>3, <1>4, <1>5 DEF Locked, At
<1> QED BY <1>3, <1>4, <1>5, <1>6, <1>7

\* A run returns and nobody is under way.
LEMMA Returned ==
  ASSUME Typed, NEW p \in Publishers, ~At(p, "idle"), Return(p)
  PROVE  /\ RunsOK' /\ Locked'
         /\ \A q \in Publishers : run'[q].pc = "idle"
<1>1. run \in [Publishers -> RunState] /\ run' = [run EXCEPT ![p] = IdleRun] /\ lock' = NoOne
  BY DEF Typed, RunsOK, Return
<1>2. IdleRun \in RunState /\ IdleRun.pc = "idle"
      /\ IdleRun.summary.added \cap IdleRun.summary.superseded = {}
  BY DEF IdleRun, RunState, NoSummary, Pcs
<1> HIDE DEF IdleRun
<1>3. run' \in [Publishers -> RunState] /\ run'[p] = IdleRun
      /\ \A q \in Publishers : q # p => run'[q] = run[q]
  BY <1>1, <1>2
<1>4. \A q \in Publishers : run'[q].pc = "idle"
  BY <1>2, <1>3, Holder DEF At
<1>5. RunsOK'
  BY <1>2, <1>3 DEF Typed, RunsOK
<1>6. Locked'
  BY <1>1, <1>4, PublishersAssumption DEF Locked, At
<1> QED BY <1>4, <1>5, <1>6

FaultsOK ==
    /\ faults \in [FaultClasses -> Nat]
    /\ \A c \in FaultClasses : faults[c] <= MaxFaults[c]

\* What no step of a run takes back: failures stay failures.
Later ==
    /\ FaultsOK' /\ expired' = expired
    /\ NoLoss' => NoLoss
    /\ NoTear' => NoTear
    /\ NoMiss' => NoMiss
    /\ NoCut' => NoCut

\* Without a failure the failures are those there were.
LEMMA Unfailed == ASSUME Typed, UNCHANGED <<faults, expired>> PROVE Later
BY DEF Typed, Later, FaultsOK, NoLoss, NoTear, NoMiss, NoCut

\* A failure is one fewer left, for good.
LEMMA Failed ==
  ASSUME Typed, NEW kind, Fails(kind), UNCHANGED expired
  PROVE  /\ Later
         /\ NoLoss' => FaultClass(kind) # "unlisted"
         /\ NoTear' => FaultClass(kind) # "torn"
         /\ NoMiss' => FaultClass(kind) # "missed"
         /\ NoCut' => FaultClass(kind) # "cut"
<1> DEFINE c == FaultClass(kind)
<1>1. c \in FaultClasses \ {"any"}
  BY Zenon DEF FaultClass, FaultClasses
<1> HIDE DEF c
<1>2. faults \in [FaultClasses -> Nat] /\ \A d \in FaultClasses : faults[d] <= MaxFaults[d]
  BY DEF Typed
<1>3. /\ faults[c] > 0 /\ faults["any"] > 0
      /\ faults' = [faults EXCEPT ![c] = @ - 1, !["any"] = @ - 1]
  BY Zenon DEF Fails, c
<1>4. MaxFaults \in [FaultClasses -> Nat]
  BY FaultsAssumption DEF FaultClasses
<1>5. "any" \in FaultClasses
  BY DEF FaultClasses
<1>6. faults' \in [FaultClasses -> Nat]
      /\ \A d \in FaultClasses :
           faults'[d] = IF d = c \/ d = "any" THEN faults[d] - 1 ELSE faults[d]
  BY <1>1, <1>2, <1>3, <1>5
<1>7. FaultsOK'
  BY <1>2, <1>3, <1>4, <1>6 DEF FaultsOK
<1>8. ASSUME NEW d \in FaultClasses, faults'[d] = MaxFaults[d]
      PROVE  faults[d] = MaxFaults[d] /\ c # d
  BY <1>8, <1>2, <1>4, <1>6
<1>9. {"unlisted", "torn", "missed", "cut"} \subseteq FaultClasses
  BY DEF FaultClasses
<1>10. /\ NoLoss' => NoLoss /\ c # "unlisted"
       /\ NoTear' => NoTear /\ c # "torn"
       /\ NoMiss' => NoMiss /\ c # "missed"
       /\ NoCut' => NoCut /\ c # "cut"
  BY <1>8, <1>9 DEF NoLoss, NoTear, NoMiss, NoCut
<1> QED BY <1>7, <1>10 DEF c, Later

\* Which failures tear a copy, miss evidence, lose a manifest, cut the log.
LEMMA Classes ==
  /\ \A k \in {"crash", "sync"} : FaultClass(k) = "torn"
  /\ \A k \in {"evidence", "record", "append"} : FaultClass(k) = "missed"
  /\ \A k \in {"manifest", "extras"} : FaultClass(k) = "unlisted"
  /\ FaultClass("cut") = "cut"
<1>1. \A k \in {"crash", "sync"} : FaultClass(k) = "torn"
  <2> TAKE k \in {"crash", "sync"}
  <2>1. k \notin {"evidence", "record", "append"} /\ k \notin {"manifest", "extras"} /\ k # "cut"
    OBVIOUS
  <2> QED BY <2>1, Zenon DEF FaultClass
<1>2. \A k \in {"evidence", "record", "append"} : FaultClass(k) = "missed"
  <2> TAKE k \in {"evidence", "record", "append"}
  <2>1. k \notin {"crash", "sync"} /\ k \notin {"manifest", "extras"} /\ k # "cut"
    OBVIOUS
  <2> QED BY <2>1, Zenon DEF FaultClass
<1>3. \A k \in {"manifest", "extras"} : FaultClass(k) = "unlisted"
  <2> TAKE k \in {"manifest", "extras"}
  <2>1. k \notin {"crash", "sync"} /\ k \notin {"evidence", "record", "append"} /\ k # "cut"
    OBVIOUS
  <2> QED BY <2>1, Zenon DEF FaultClass
<1>4. FaultClass("cut") = "cut"
  <2>1. \A k \in {"crash", "sync", "evidence", "record", "append", "manifest", "extras"} :
            k # "cut"
    OBVIOUS
  <2> QED BY <2>1, Zenon DEF FaultClass
<1> QED BY <1>1, <1>2, <1>3, <1>4

\* A log that knows the records of an untouched tree still knows them.
LEMMA StillLogged ==
  ASSUME Later
  PROVE  /\ UNCHANGED head /\ LoggedIn(head) => LoggedIn(head)'
         /\ UNCHANGED corpus /\ AllIn(corpus) => AllIn(corpus)'
         /\ UNCHANGED corpus /\ SupersededIn(corpus) => SupersededIn(corpus)'
BY DEF Later, LoggedIn, SupersededIn, AllIn

-----------------------------------------------------------------------------
(* The invariants, seen from the run that takes a step.                    *)

\* What the invariants say of the run under way and the trees.
LEMMA Before ==
  ASSUME Inv, NEW p \in Publishers, ~At(p, "idle")
  PROVE  /\ Typed /\ lock = p
         /\ ListedAt(p) /\ (NoLoss => Consistent(head))
         /\ NoMiss => /\ LoggedIn(head) /\ RecordedAt(p)
                      /\ ~At(p, "sync") => AllIn(corpus)
<1>1. Typed /\ lock = p /\ \A q \in Publishers : q # p => At(q, "idle")
  BY Holder DEF Inv
<1>2. \A q \in Publishers : At(q, "sync") => q = p
  BY <1>1 DEF At
<1> QED BY <1>1, <1>2 DEF Inv, Listed, Recorded

\* What has to be shown of the run that took a step and the trees.
LEMMA After ==
  ASSUME NEW p \in Publishers, \A q \in Publishers : q # p => run'[q].pc = "idle",
         Typed', ListedAt(p)', NoLoss' => Consistent(head'),
         NoMiss' => /\ LoggedIn(head)' /\ RecordedAt(p)'
                    /\ AllIn(corpus)' \/ run'[p].pc = "sync"
  PROVE  Inv'
<1>1. ASSUME NEW q \in Publishers PROVE ListedAt(q)' /\ (NoMiss' => RecordedAt(q)')
  <2>1. CASE q = p
    BY <2>1
  <2>2. CASE q # p
    <3>1. run'[q].pc = "idle"
      BY <2>2
    <3> QED BY <3>1 DEF ListedAt, RecordedAt, At
  <2> QED BY <2>1, <2>2
<1>2. Listed'
  BY <1>1 DEF Listed
<1>3. Recorded'
  BY <1>1 DEF Recorded, At
<1> QED BY <1>2, <1>3 DEF Inv

\* A run that returns without having torn the corpus.
LEMMA Stopped ==
  ASSUME Inv, NEW p \in Publishers, ~At(p, "idle"), Return(p),
         UNCHANGED <<staging, corpus, head>>, pushed' \in BOOLEAN, Later,
         NoTear' => ~At(p, "sync")
  PROVE  Inv'
<1>1. RunsOK' /\ Locked' /\ \A q \in Publishers : run'[q].pc = "idle"
  BY Returned DEF Inv
<1>2. Typed'
  BY <1>1 DEF Inv, Typed, FaultsOK, Later
<1>3. ListedAt(p)' /\ RecordedAt(p)'
  BY <1>1 DEF ListedAt, RecordedAt, At
<1>4. NoLoss' => Consistent(head')
  BY Before DEF Later
<1>5. NoMiss' => LoggedIn(head)' /\ AllIn(corpus)'
  <2>1. ~NoTear' => AllIn(corpus)'
    BY DEF AllIn
  <2>2. NoTear' /\ NoMiss' => LoggedIn(head)' /\ AllIn(corpus)'
    BY Before, StillLogged DEF Later
  <2>3. NoMiss' => LoggedIn(head)'
    BY Before, StillLogged DEF Later
  <2> QED BY <2>1, <2>2, <2>3
<1> QED BY <1>1, <1>2, <1>3, <1>4, <1>5, After

-----------------------------------------------------------------------------
(* The steps of a run.                                                     *)

\* A run starts when nobody is under way.
LEMMA EnterStep == ASSUME Inv, NEW p \in Publishers, Enter(p) PROVE Inv'
<1>1. Typed /\ At(p, "idle") /\ lock = NoOne /\ \A q \in Publishers : At(q, "idle")
  BY PublishersAssumption DEF Inv, Typed, Locked, Enter
<1>2. /\ RunsOK' /\ Locked' /\ run'[p].pc = "prepare"
      /\ \A q \in Publishers : q # p => run'[q].pc = "idle"
  <2>1. "prepare" \in Pcs \ {"idle"} /\ {} \in SUBSET (Substance \cup {"evidence"})
    BY DEF Pcs
  <2> QED BY <1>1, <2>1, Went DEF Enter, Goto
<1>3. UNCHANGED <<staging, corpus, head, pushed, expired, faults>> /\ Later
  BY <1>1, Unfailed DEF Enter
<1>4. Typed'
  BY <1>1, <1>2, <1>3 DEF Typed
<1>5. NoMiss' => LoggedIn(head)' /\ AllIn(corpus)'
  <2>1. NoMiss => LoggedIn(head) /\ AllIn(corpus)
    BY <1>1 DEF Inv, Recorded, At
  <2> QED BY <2>1, <1>3, StillLogged DEF Later
<1>6. NoLoss' => Consistent(head')
  BY <1>3 DEF Inv, Listed, Later
<1>7. ListedAt(p)' /\ RecordedAt(p)'
  BY <1>2 DEF ListedAt, RecordedAt, At
<1> QED BY <1>2, <1>4, <1>5, <1>6, <1>7, After

\* A run goes on to pc with todo left to do.
LEMMA Going ==
  ASSUME Typed, NEW p \in Publishers, ~At(p, "idle"),
         NEW pc \in Pcs \ {"idle"}, NEW todo \in SUBSET (Substance \cup {"evidence"}),
         Goto(p, pc, todo), lock' = lock
  PROVE  /\ RunsOK' /\ Locked'
         /\ run'[p].pc = pc /\ run'[p].todo = todo /\ run'[p].summary = run[p].summary
         /\ \A q \in Publishers : q # p => run'[q].pc = "idle"
BY Holder, Went DEF Goto

\* An empty tree is a tree.
LEMMA EmptyIsTree == IsTree(EmptyTree)
<1>1. \A f \in Files : EmptyTree[f] = Absent
  BY DEF EmptyTree
<1>2. EmptyTree = [f \in Files |-> EmptyTree[f]]
  BY DEF EmptyTree
<1>3. \A f \in Substance : ContentOK(EmptyTree, f)
  BY <1>1, Names DEF ContentOK
<1>4. ManifestOK(EmptyTree)
  BY <1>1, Names DEF ManifestOK
<1> QED BY <1>2, <1>3, <1>4, TreeMade, Zenon

\* The staging tree is emptied.
LEMMA PrepareStep == ASSUME Inv, NEW p \in Publishers, PrepareStaging(p), UNCHANGED expired PROVE Inv'
<1>1. ~At(p, "idle") /\ ~At(p, "sync")
  BY DEF PrepareStaging, At
<1>2. UNCHANGED <<corpus, head, pushed, lock, faults>> /\ staging' = EmptyTree /\ Later
  BY Unfailed DEF PrepareStaging, Inv
<1>3. /\ RunsOK' /\ Locked' /\ run'[p].pc = "render"
      /\ run'[p].todo = Sections \cup {"evidence"}
      /\ \A q \in Publishers : q # p => run'[q].pc = "idle"
  <2>1. "render" \in Pcs \ {"idle"}
        /\ Sections \cup {"evidence"} \in SUBSET (Substance \cup {"evidence"})
    BY Names DEF Pcs
  <2> QED BY <1>1, <1>2, <2>1, Going, Before DEF PrepareStaging
<1>4. Typed'
  BY <1>2, <1>3, EmptyIsTree, Before, <1>1 DEF Typed
<1>5. ListedAt(p)' /\ RecordedAt(p)'
  <2>1. \A e \in Evidence : staging'[e] = Absent
    BY <1>2, Names DEF EmptyTree
  <2> QED BY <1>3, <2>1 DEF ListedAt, RecordedAt, At
<1>6. /\ NoLoss' => Consistent(head')
      /\ NoMiss' => LoggedIn(head)' /\ AllIn(corpus)'
  BY <1>1, <1>2, Before, StillLogged DEF Later
<1> QED BY <1>3, <1>4, <1>5, <1>6, After

\* A section is rendered, or fails and is left as it was.
LEMMA SectionStep ==
  ASSUME Inv, NEW p \in Publishers, NEW s \in Sections,
         RenderSection(p, s) \/ SkipSection(p, s), UNCHANGED expired
  PROVE  Inv'
<1>1. At(p, "render") /\ ~At(p, "idle") /\ ~At(p, "sync") /\ Typed
  BY Before DEF RenderSection, SkipSection, Rendering, At
<1>2. UNCHANGED <<corpus, head, pushed, lock>> /\ Goto(p, "render", run[p].todo \ {s})
  BY DEF RenderSection, SkipSection
<1>3. /\ RunsOK' /\ Locked' /\ run'[p].pc = "render"
      /\ run'[p].todo = run[p].todo \ {s} /\ run'[p].summary = run[p].summary
      /\ \A q \in Publishers : q # p => run'[q].pc = "idle"
  <2>1. "render" \in Pcs \ {"idle"} /\ run[p] \in RunState
    BY <1>1 DEF Pcs, Typed, RunsOK
  <2>2. run[p].todo \ {s} \in SUBSET (Substance \cup {"evidence"})
    BY <2>1 DEF RunState
  <2> QED BY <1>1, <1>2, <2>1, <2>2, Going
<1>4. Later
  BY <1>1, Failed, Unfailed DEF RenderSection, SkipSection
<1>5. IsTree(staging') /\ \A e \in Evidence : staging'[e] = staging[e]
  <2>1. CASE UNCHANGED staging
    BY <1>1, <2>1 DEF Typed
  <2>2. CASE staging' = [staging EXCEPT ![s] = NewStamp(s)]
    <3>1. s \in Substance /\ s \notin Evidence /\ IsTree(staging)
      BY <1>1, Names DEF Typed
    <3>2. IsTree(staging')
      BY <2>2, <3>1, FreshStamp, FileWritten
    <3> QED BY <2>2, <3>1, <3>2, Names, TreeMade
  <2> QED BY <2>1, <2>2 DEF RenderSection, SkipSection
<1>6. Typed'
  BY <1>1, <1>2, <1>3, <1>4, <1>5 DEF Typed, FaultsOK, Later
<1>7. ListedAt(p)'
  BY <1>3 DEF ListedAt, At
<1>8. NoMiss' => RecordedAt(p)'
  <2>1. NoMiss' => RecordedAt(p) /\ ("evidence" \in run'[p].todo <=> "evidence" \in run[p].todo)
    BY <1>1, <1>3, <1>4, Names, Before DEF Later
  <2> QED BY <1>1, <1>2, <1>3, <1>4, <1>5, <2>1 DEF RecordedAt, At, Carried, Summed, Later
<1>9. /\ NoLoss' => Consistent(head')
      /\ NoMiss' => LoggedIn(head)' /\ AllIn(corpus)'
  BY <1>1, <1>2, <1>4, Before, StillLogged DEF Later
<1> QED BY <1>3, <1>6, <1>7, <1>8, <1>9, After

\* Records of the corpus and relevant ones may be written to the staged tree.
LEMMA RecordsWritten ==
  ASSUME Typed, NEW relevant \in SUBSET Evidence, NEW written \in SUBSET Evidence
  PROVE  LET t == WithRecords(written, relevant)
         IN  /\ IsTree(t)
             /\ \A e \in Evidence : t[e] = IF e \notin written THEN staging[e]
                                           ELSE IF e \in relevant THEN "current"
                                                ELSE "superseded"
<1> DEFINE t == WithRecords(written, relevant)
<1>1. IsTree(staging)
  BY DEF Typed
<1>2. /\ t = [f \in Files |-> t[f]]
      /\ \A f \in Files : t[f] = IF f \notin written THEN staging[f]
                                ELSE IF f \in relevant THEN "current" ELSE "superseded"
  BY DEF WithRecords
<1> HIDE DEF t
<1>3. \A f \in Substance : ContentOK(t, f)
  BY <1>1, <1>2, Names, TreeMade DEF ContentOK
<1>4. t["manifest"] = staging["manifest"]
  BY <1>2, Names
<1>5. ManifestOK(t)
  BY <1>1, <1>4, TreeMade, Zenon DEF ManifestOK
<1>6. IsTree(t)
  BY <1>2, <1>3, <1>5, TreeMade, Zenon
<1> QED BY <1>2, <1>6, Names DEF t

\* The evidence is rendered, whole or with records passed over: what was in
\* the corpus and is not relevant any more stays, as superseded.
LEMMA EvidenceStep ==
  ASSUME Inv, NEW p \in Publishers, NEW relevant \in SUBSET Evidence,
         NEW known \in SUBSET Evidence, NEW missed \in SUBSET Evidence,
         EvidenceDone(p, known, missed, relevant), UNCHANGED expired,
         \/ known = Previous /\ missed = {} /\ UNCHANGED faults
         \/ Fails("record")
  PROVE  Inv'
<1>1. /\ At(p, "render") /\ ~At(p, "idle") /\ ~At(p, "sync") /\ Typed
      /\ "evidence" \in run[p].todo /\ relevant \cap expired = {}
  BY Before DEF EvidenceDone, Rendering, At
<1>2. UNCHANGED <<corpus, head, pushed, lock>>
  BY DEF EvidenceDone
<1> DEFINE todo == run[p].todo \ {"evidence"}
           summary == [added |-> relevant \ known, superseded |-> known \ relevant]
           r == [run[p] EXCEPT !.todo = todo, !.summary = summary]
<1>3. /\ RunsOK' /\ Locked' /\ run'[p].pc = "render"
      /\ run'[p].todo = todo /\ run'[p].summary = summary
      /\ \A q \in Publishers : q # p => run'[q].pc = "idle"
  <2>1. run \in [Publishers -> RunState] /\ run[p] \in RunState
    BY <1>1 DEF Typed, RunsOK
  <2>2. run' = [run EXCEPT ![p] = r]
    BY Zenon DEF EvidenceDone
  <2>3. summary \in [added : SUBSET Evidence, superseded : SUBSET Evidence]
        /\ summary.added \cap summary.superseded = {}
    OBVIOUS
  <2> HIDE DEF summary
  <2>4. r \in RunState /\ r.pc = run[p].pc /\ r.todo = todo /\ r.summary = summary
    BY <2>1, <2>3 DEF RunState
  <2> HIDE DEF r, todo
  <2>5. run' \in [Publishers -> RunState] /\ run'[p] = r
        /\ \A q \in Publishers : q # p => run'[q] = run[q]
    BY <2>1, <2>2, <2>4
  <2>6. \A q \in Publishers : q # p => run'[q].pc = "idle"
    BY <1>1, <2>5, Holder DEF At
  <2>7. RunsOK'
    BY <1>1, <2>3, <2>4, <2>5 DEF Typed, RunsOK
  <2>8. Locked'
    BY <1>1, <1>2, <2>4, <2>5 DEF Typed, Locked, At
  <2> QED BY <1>1, <2>4, <2>5, <2>6, <2>7, <2>8 DEF At
<1> HIDE DEF r
<1>4. Later /\ (NoMiss' => known = Previous /\ missed = {})
  BY <1>1, Failed, Unfailed, Classes
<1> DEFINE written == (known \cup relevant) \ missed
           t == WithRecords(written, relevant)
<1>5. /\ IsTree(t)
      /\ \A e \in Evidence : t[e] = IF e \notin written THEN staging[e]
                                    ELSE IF e \in relevant THEN "current"
                                         ELSE "superseded"
  <2> HIDE DEF written
  <2>1. written \in SUBSET Evidence
    BY DEF written
  <2> QED BY <1>1, <2>1, RecordsWritten
<1>6. staging' = [t EXCEPT !["index"] = NewStamp("index")]
  BY Zenon DEF EvidenceDone, t, written
<1> HIDE DEF t
<1>7. IsTree(staging') /\ \A e \in Evidence : staging'[e] = t[e]
  <2>1. "index" \in Substance /\ "index" \notin Evidence /\ NewStamp("index") \in Stamps
    BY Names, FreshStamp
  <2>2. IsTree(staging')
    BY <1>5, <1>6, <2>1, FileWritten
  <2> QED BY <1>5, <1>6, <2>1, <2>2, Names, TreeMade
<1>8. Typed'
  BY <1>1, <1>2, <1>3, <1>4, <1>7 DEF Typed, FaultsOK, Later
<1>9. ListedAt(p)'
  BY <1>3 DEF ListedAt, At
<1>10. NoMiss' => RecordedAt(p)'
  <2> SUFFICES ASSUME NoMiss' PROVE RecordedAt(p)'
    OBVIOUS
  <2>1. known = Previous /\ missed = {} /\ \A e \in Evidence : staging[e] = Absent
    BY <1>1, <1>4, Before DEF RecordedAt, Later
  <2>2. \A e \in Evidence :
          /\ e \in known \cup relevant <=> staging'[e] # Absent
          /\ staging'[e] = "superseded" => e \in known \ relevant
    BY <1>5, <1>7, <2>1, AbsentAssumption DEF written
  <2>3. \A e \in Evidence : e \in known <=> corpus'[e] # Absent /\ e \notin expired'
    BY <1>2, <1>4, <2>1 DEF Previous, Later
  <2>4. Carried'
    BY <2>2, <2>3, AbsentAssumption DEF Carried
  <2>5. summary.added = relevant \ known /\ summary.superseded = known \ relevant
    BY DEF summary
  <2>6. Summed(run[p].summary)'
    BY <1>3, <2>2, <2>3, <2>5 DEF Summed
  <2> QED BY <1>3, <2>4, <2>6 DEF RecordedAt, At
<1>11. /\ NoLoss' => Consistent(head')
       /\ NoMiss' => LoggedIn(head)' /\ AllIn(corpus)'
  BY <1>1, <1>2, <1>4, Before, StillLogged DEF Later
<1> QED BY <1>3, <1>8, <1>9, <1>10, <1>11, After

\* The evidence fails half written: a torn failure.
LEMMA SkipEvidenceStep ==
  ASSUME Inv, NEW p \in Publishers, NEW written \in SUBSET Evidence,
         NEW relevant \in SUBSET Evidence,
         SkipEvidence(p, written, relevant), UNCHANGED expired
  PROVE  Inv'
<1>1. /\ At(p, "render") /\ ~At(p, "idle") /\ ~At(p, "sync") /\ Typed
      /\ Fails("evidence")
  BY Before DEF SkipEvidence, Rendering, At
<1>2. UNCHANGED <<corpus, head, pushed, lock>>
  BY DEF SkipEvidence
<1>3. /\ RunsOK' /\ Locked' /\ run'[p].pc = "render"
      /\ \A q \in Publishers : q # p => run'[q].pc = "idle"
  <2>1. "render" \in Pcs \ {"idle"} /\ run[p] \in RunState
    BY <1>1 DEF Pcs, Typed, RunsOK
  <2>2. run[p].todo \ {"evidence"} \in SUBSET (Substance \cup {"evidence"})
    BY <2>1 DEF RunState
  <2> QED BY <1>1, <1>2, <2>1, <2>2, Going DEF SkipEvidence
<1>4. Later /\ ~NoMiss'
  BY <1>1, Failed, Classes
<1>5. IsTree(staging')
  BY <1>1, RecordsWritten DEF SkipEvidence
<1>6. Typed'
  BY <1>1, <1>2, <1>3, <1>4, <1>5 DEF Typed, FaultsOK, Later
<1>7. ListedAt(p)' /\ (NoLoss' => Consistent(head'))
  BY <1>1, <1>2, <1>3, <1>4, Before DEF ListedAt, At, Later
<1> QED BY <1>3, <1>4, <1>6, <1>7, After

\* The previous log is a log, and knows what LoggedIn says of the corpus.
LEMMA PreviousIsLog ==
  ASSUME Typed
  PROVE  /\ NoLog \in Logs /\ LogOf(corpus) \in Logs
         /\ corpus["log"] # Absent => LogOf(corpus) = corpus["log"]
<1>1. NoLog \in Logs
  BY DEF NoLog, Logs
<1>2. corpus["log"] = Absent \/ corpus["log"] \in Logs
  BY Names, TreeMade DEF Typed, ContentOK
<1> QED BY <1>1, <1>2 DEF LogOf

\* The new log starts as the previous one, or as what is left of it.
LEMMA CarryStep ==
  ASSUME Inv, NEW p \in Publishers,
         CarryLog(p) \/ \E lost \in SUBSET Evidence : CutLog(p, lost), UNCHANGED expired
  PROVE  Inv'
<1>1. /\ At(p, "render") /\ ~At(p, "idle") /\ ~At(p, "sync") /\ Typed
      /\ run[p].todo = {} /\ Goto(p, "log", {})
      /\ UNCHANGED <<corpus, head, pushed, lock>>
  BY Before DEF CarryLog, CutLog, At
<1>2. /\ RunsOK' /\ Locked' /\ run'[p].pc = "log" /\ run'[p].summary = run[p].summary
      /\ \A q \in Publishers : q # p => run'[q].pc = "idle"
  <2>1. "log" \in Pcs \ {"idle"} /\ {} \in SUBSET (Substance \cup {"evidence"})
    BY DEF Pcs
  <2> QED BY <1>1, <2>1, Going
<1>3. \E kept \in Logs :
        /\ staging' = [staging EXCEPT !["log"] = kept]
        /\ \/ kept = LogOf(corpus) /\ UNCHANGED faults
           \/ Fails("cut")
  <2>1. CASE CarryLog(p)
    BY <1>1, <2>1, PreviousIsLog DEF CarryLog
  <2>2. CASE \E lost \in SUBSET Evidence : CutLog(p, lost)
    <3>1. PICK lost \in SUBSET Evidence : CutLog(p, lost)
      BY <2>2
    <3> DEFINE kept == [e \in Evidence |-> IF e \in lost THEN Absent ELSE LogOf(corpus)[e]]
    <3>2. kept \in Logs
      BY <1>1, PreviousIsLog DEF Logs
    <3>3. staging' = [staging EXCEPT !["log"] = kept] /\ Fails("cut")
      BY <3>1, Zenon DEF CutLog
    <3> QED BY <3>2, <3>3
  <2> QED BY <2>1, <2>2
<1>4. PICK kept \in Logs :
        /\ staging' = [staging EXCEPT !["log"] = kept]
        /\ \/ kept = LogOf(corpus) /\ UNCHANGED faults
           \/ Fails("cut")
  BY <1>3, Zenon
<1>5. Later /\ (NoCut' => kept = LogOf(corpus))
  BY <1>1, <1>4, Failed, Unfailed, Classes
<1>6. /\ IsTree(staging') /\ staging'["log"] = kept
      /\ \A e \in Evidence : staging'[e] = staging[e]
  <2>1. IsTree(staging) /\ "log" \in Substance /\ "log" \notin Evidence
    BY <1>1, Names DEF Typed
  <2>2. IsTree(staging')
    BY <1>4, <2>1, FileWritten
  <2> QED BY <1>4, <2>1, <2>2, Names, TreeMade
<1>7. Typed'
  BY <1>1, <1>2, <1>5, <1>6 DEF Typed, FaultsOK, Later
<1>8. ListedAt(p)'
  BY <1>2, <1>6, AbsentAssumption DEF ListedAt, At
<1>9. NoMiss' => RecordedAt(p)'
  <2> SUFFICES ASSUME NoMiss' PROVE RecordedAt(p)'
    OBVIOUS
  <2>1. Carried /\ Summed(run[p].summary)
    BY <1>1, <1>5, Before DEF RecordedAt, Later
  <2>2. Carried' /\ Summed(run[p].summary)'
    BY <1>1, <1>2, <1>5, <1>6, <2>1 DEF Carried, Summed, Later
  <2>3. NoCut' => staging'["log"] = LogOf(corpus)'
    BY <1>1, <1>5, <1>6 DEF LogOf, NoLog
  <2> QED BY <1>2, <2>2, <2>3 DEF RecordedAt, At
<1>10. /\ NoLoss' => Consistent(head')
       /\ NoMiss' => LoggedIn(head)' /\ AllIn(corpus)'
  BY <1>1, <1>5, Before, StillLogged DEF Later
<1> QED BY <1>2, <1>7, <1>8, <1>9, <1>10, After

\* What the log has after the entries of a run were appended, all of them or
\* not: a log, in which all superseded records are superseded.
LEMMA LogWritten ==
  ASSUME Typed, staging["log"] # Absent, NEW s, s.added \cap s.superseded = {},
         NEW lost \in SUBSET Evidence
  PROVE  /\ Logged(s) \in Logs /\ LoggedBut(lost, s) \in Logs
         /\ \A e \in Evidence :
               /\ e \in s.added \cup s.superseded => Logged(s)[e] # Absent
               /\ e \in s.superseded => Logged(s)[e] = "superseded"
               /\ e \notin s.added \cup s.superseded => Logged(s)[e] = staging["log"][e]
<1>1. staging["log"] \in Logs /\ LogOf(staging) = staging["log"]
  BY Names, TreeMade DEF Typed, ContentOK, LogOf
<1>2. \A e \in Evidence : staging["log"][e] \in {Absent, "added", "superseded"}
  BY <1>1 DEF Logs
<1> DEFINE V(e) == CASE e \in s.added -> "added"
                     [] e \in s.superseded -> "superseded"
                     [] OTHER -> LogOf(staging)[e]
<1>3. Logged(s) = [e \in Evidence |-> V(e)]
  BY Zenon DEF Logged
<1>4. \A e \in Evidence :
        /\ e \in s.added => V(e) = "added"
        /\ e \in s.superseded => V(e) = "superseded"
        /\ e \notin s.added \cup s.superseded => V(e) = staging["log"][e]
  BY <1>1
<1> HIDE DEF V
<1>5. Logged(s) \in Logs /\ \A e \in Evidence : Logged(s)[e] = V(e)
  BY <1>2, <1>3, <1>4 DEF Logs
<1>6. LoggedBut(lost, s) \in Logs
  BY <1>1, <1>2, <1>5 DEF LoggedBut, Logs
<1> QED BY <1>4, <1>5, <1>6, AbsentAssumption

\* The log is completed, and the manifest written unless that fails.
LEMMA ManifestStep ==
  ASSUME Inv, NEW p \in Publishers, UNCHANGED expired,
         \/ RenderManifest(p) \/ SkipManifest(p)
         \/ \E lost \in SUBSET Evidence : MissEntries(p, lost)
  PROVE  Inv'
<1> DEFINE summary == run[p].summary
           With(log) == [staging EXCEPT !["log"] = log]
           M(log) == [f \in Manifested |-> With(log)[f]]
<1>1. /\ At(p, "log") /\ ~At(p, "idle") /\ ~At(p, "sync") /\ Typed
      /\ Goto(p, "validate", {}) /\ UNCHANGED <<corpus, head, pushed, lock>>
  BY Before DEF RenderManifest, SkipManifest, MissEntries, ManifestDone, At
<1>2. /\ RunsOK' /\ Locked' /\ run'[p].pc = "validate"
      /\ \A q \in Publishers : q # p => run'[q].pc = "idle"
  <2>1. "validate" \in Pcs \ {"idle"} /\ {} \in SUBSET (Substance \cup {"evidence"})
    BY DEF Pcs
  <2> QED BY <1>1, <2>1, Going
<1>3. /\ summary.added \cap summary.superseded = {} /\ IsTree(staging)
      /\ staging["log"] # Absent
  BY <1>1, Before DEF Typed, RunsOK, ListedAt
<1> HIDE DEF summary
<1>4. \E log \in Logs :
        /\ \/ staging' = [With(log) EXCEPT !["manifest"] = M(log)]
           \/ staging' = With(log) /\ Fails("manifest")
        /\ \/ UNCHANGED faults /\ log = Logged(summary)
           \/ Fails("manifest") /\ log = Logged(summary)
           \/ Fails("append")
  <2>1. CASE RenderManifest(p)
    <3>1. Logged(summary) \in Logs
      BY <1>1, <1>3, LogWritten
    <3>2. staging' = [With(Logged(summary)) EXCEPT !["manifest"] = M(Logged(summary))]
          /\ UNCHANGED faults
      BY <2>1, Zenon DEF RenderManifest, ManifestDone, summary
    <3> HIDE DEF With, M
    <3> QED BY <3>1, <3>2
  <2>2. CASE SkipManifest(p)
    <3>1. Logged(summary) \in Logs
      BY <1>1, <1>3, LogWritten
    <3>2. staging' = With(Logged(summary)) /\ Fails("manifest")
      BY <2>2, Zenon DEF SkipManifest, summary
    <3> HIDE DEF With, M
    <3> QED BY <3>1, <3>2
  <2>3. CASE \E lost \in SUBSET Evidence : MissEntries(p, lost)
    <3>1. PICK lost \in SUBSET Evidence : MissEntries(p, lost)
      BY <2>3
    <3> DEFINE log == LoggedBut(lost, summary)
    <3>2. log \in Logs
      BY <1>1, <1>3, LogWritten
    <3>3. staging' = [With(log) EXCEPT !["manifest"] = M(log)] /\ Fails("append")
      BY <3>1, Zenon DEF MissEntries, ManifestDone, summary
    <3> HIDE DEF With, M, log
    <3> QED BY <3>2, <3>3
  <2> QED BY <2>1, <2>2, <2>3
<1> HIDE DEF With, M
<1>5. PICK log \in Logs :
        /\ \/ staging' = [With(log) EXCEPT !["manifest"] = M(log)]
           \/ staging' = With(log) /\ Fails("manifest")
        /\ \/ UNCHANGED faults /\ log = Logged(summary)
           \/ Fails("manifest") /\ log = Logged(summary)
           \/ Fails("append")
  BY <1>4, Zenon
<1> DEFINE logged == With(log)
           m == M(log)
<1>6. /\ Later /\ (NoMiss' => log = Logged(summary)) /\ (NoLoss' => ~Fails("manifest"))
  BY <1>1, <1>5, Failed, Unfailed, Classes
<1>7. /\ IsTree(logged) /\ logged["log"] = log
      /\ \A f \in Files : f # "log" => logged[f] = staging[f]
  BY <1>3, Names, FileWritten, TreeMade DEF With
<1> HIDE DEF logged
<1>8. m = [f \in Manifested |-> logged[f]]
  BY DEF M, logged
<1> HIDE DEF m
<1>9. m # Absent /\ IsTree([logged EXCEPT !["manifest"] = m])
  BY <1>7, <1>8, ManifestWritten
<1>10. \/ staging' = [logged EXCEPT !["manifest"] = m]
       \/ staging' = logged /\ Fails("manifest")
  BY <1>5 DEF logged, m
<1>11. IsTree(staging') /\ \A f \in Substance : staging'[f] = logged[f]
  BY <1>7, <1>9, <1>10, Names, TreeMade
<1>12. Typed'
  BY <1>1, <1>2, <1>6, <1>11 DEF Typed, FaultsOK, Later
<1>13. ListedAt(p)' /\ (NoLoss' => Consistent(head'))
  <2>1. ASSUME NoLoss' PROVE staging'["manifest"] = [f \in Manifested |-> staging'[f]]
    <3>1. staging' = [logged EXCEPT !["manifest"] = m]
      BY <2>1, <1>6, <1>10
    <3>2. staging'["manifest"] = m
      BY <3>1, <1>7, Names, TreeMade
    <3> QED BY <3>2, <1>8, <1>11, Names
  <2>2. NoLoss' => Consistent(head')
    BY <1>1, <1>6, Before DEF Later
  <2> QED BY <1>2, <2>1, <2>2 DEF ListedAt, At
<1>14. NoMiss' => LoggedIn(head)' /\ AllIn(corpus)' /\ RecordedAt(p)'
  <2> SUFFICES ASSUME NoMiss' PROVE LoggedIn(head)' /\ AllIn(corpus)' /\ RecordedAt(p)'
    OBVIOUS
  <2>1. /\ LoggedIn(head) /\ AllIn(corpus)
        /\ Carried /\ Summed(summary) /\ (NoCut => staging["log"] = LogOf(corpus))
    BY <1>1, <1>6, Before DEF RecordedAt, summary, Later, At
  <2>2. \A e \in Evidence : staging'[e] = staging[e]
    BY <1>7, <1>11, Names
  <2>3. staging'["log"] = log /\ log = Logged(summary) /\ log # Absent
    BY <1>6, <1>7, <1>11, Names, AbsentAssumption
  <2>4. \A e \in Evidence :
          /\ e \in summary.added \cup summary.superseded => log[e] # Absent
          /\ e \in summary.superseded => log[e] = "superseded"
          /\ e \notin summary.added \cup summary.superseded => log[e] = staging["log"][e]
    BY <1>1, <1>3, <2>3, LogWritten
  <2>5. \A e \in Evidence : staging[e] = "superseded" => log[e] = "superseded"
    BY <2>1, <2>4 DEF Summed
  <2>6. ASSUME NoTear, NoCut, NEW e \in Evidence, staging[e] # Absent \/ corpus[e] # Absent
        PROVE  log[e] # Absent
    <3>1. CASE e \in summary.added \cup summary.superseded
      BY <3>1, <2>4
    <3>2. CASE e \notin summary.added \cup summary.superseded
      <4>1. corpus[e] # Absent
        BY <2>1, <2>6, <3>2 DEF Summed
      <4>2. corpus["log"] # Absent /\ corpus["log"][e] # Absent
        BY <2>1, <2>6, <4>1 DEF AllIn
      <4> QED BY <1>1, <2>1, <2>4, <2>6, <3>2, <4>2, PreviousIsLog
    <3> QED BY <3>1, <3>2
  <2>7. Complete'
    BY <1>1, <1>6, <2>2, <2>3, <2>5, <2>6 DEF Complete, Later
  <2>8. Carried'
    BY <1>1, <1>6, <2>1, <2>2 DEF Carried, Later
  <2>9. LoggedIn(head)' /\ AllIn(corpus)'
    BY <1>1, <1>6, <2>1, StillLogged
  <2> QED BY <1>2, <2>7, <2>8, <2>9 DEF RecordedAt, At
<1> QED BY <1>2, <1>12, <1>13, <1>14, After

\* The staged tree is found valid: an export ends, a daily run goes on.
LEMMA ValidateStep == ASSUME Inv, NEW p \in Publishers, ValidateStaging(p), UNCHANGED expired PROVE Inv'
<1>1. /\ At(p, "validate") /\ ~At(p, "idle") /\ ~At(p, "sync") /\ Typed
      /\ UNCHANGED <<staging, corpus, head, pushed, faults>> /\ Later
  BY Before, Unfailed DEF ValidateStaging, At
<1>2. CASE Return(p)
  BY <1>1, <1>2, Stopped DEF Typed
<1>3. CASE Goto(p, "finalize", {}) /\ UNCHANGED lock
  <2>1. /\ RunsOK' /\ Locked' /\ run'[p].pc = "finalize"
        /\ \A q \in Publishers : q # p => run'[q].pc = "idle"
    <3>1. "finalize" \in Pcs \ {"idle"} /\ {} \in SUBSET (Substance \cup {"evidence"})
      BY DEF Pcs
    <3> QED BY <1>1, <1>3, <3>1, Going
  <2>2. Typed'
    BY <1>1, <2>1 DEF Typed
  <2>3. ListedAt(p)' /\ (NoLoss' => Consistent(head'))
    BY <1>1, <2>1, Before DEF ListedAt, At, Later
  <2>4. NoMiss' => LoggedIn(head)' /\ AllIn(corpus)' /\ RecordedAt(p)'
    BY <1>1, <2>1, Before, StillLogged DEF RecordedAt, At, Carried, Complete, Later
  <2> QED BY <2>1, <2>2, <2>3, <2>4, After
<1> QED BY <1>2, <1>3 DEF ValidateStaging

\* What differs from the corpus is to be copied, or nothing does.
LEMMA FinalizeStep == ASSUME Inv, NEW p \in Publishers, Finalize(p), UNCHANGED expired PROVE Inv'
<1>1. /\ At(p, "finalize") /\ ~At(p, "idle") /\ ~At(p, "sync") /\ Typed
      /\ UNCHANGED <<staging, corpus, head, pushed, faults>> /\ Later
  BY Before, Unfailed DEF Finalize, At
<1>2. CASE Return(p)
  BY <1>1, <1>2, Stopped DEF Typed
<1> DEFINE todo == {f \in Substance : staging[f] # Absent}
<1>3. CASE Goto(p, "sync", todo) /\ UNCHANGED lock
  <2>1. /\ RunsOK' /\ Locked' /\ run'[p].pc = "sync" /\ run'[p].todo = todo
        /\ \A q \in Publishers : q # p => run'[q].pc = "idle"
    <3>1. "sync" \in Pcs \ {"idle"} /\ todo \in SUBSET (Substance \cup {"evidence"})
      BY DEF Pcs
    <3> HIDE DEF todo
    <3> QED BY <1>1, <1>3, <3>1, Going
  <2>2. Typed'
    BY <1>1, <2>1 DEF Typed
  <2>3. ListedAt(p)' /\ (NoLoss' => Consistent(head'))
    <3>1. Copied(p)'
      BY <1>1, <2>1 DEF Copied
    <3> QED BY <1>1, <2>1, <3>1, Before DEF ListedAt, At, Later
  <2>4. NoMiss' => LoggedIn(head)' /\ RecordedAt(p)'
    BY <1>1, <2>1, Before, StillLogged DEF RecordedAt, At, Carried, Complete, Later
  <2> QED BY <2>1, <2>2, <2>3, <2>4, After
<1> QED BY <1>2, <1>3 DEF Finalize

\* One file is copied.
LEMMA SyncFileStep ==
  ASSUME Inv, NEW p \in Publishers, NEW f \in Substance, SyncFile(p, f), UNCHANGED expired
  PROVE  Inv'
<1>1. /\ At(p, "sync") /\ ~At(p, "idle") /\ Typed /\ f \in run[p].todo
      /\ UNCHANGED <<staging, head, pushed, lock, faults>> /\ Later
      /\ corpus' = [corpus EXCEPT ![f] = staging[f]]
      /\ Goto(p, "sync", run[p].todo \ {f})
  BY Before, Unfailed DEF SyncFile, At
<1>2. /\ RunsOK' /\ Locked' /\ run'[p].pc = "sync" /\ run'[p].todo = run[p].todo \ {f}
      /\ \A q \in Publishers : q # p => run'[q].pc = "idle"
  <2>1. "sync" \in Pcs \ {"idle"} /\ run[p] \in RunState
    BY <1>1 DEF Pcs, Typed, RunsOK
  <2>2. run[p].todo \ {f} \in SUBSET (Substance \cup {"evidence"})
    BY <2>1 DEF RunState
  <2> QED BY <1>1, <2>1, <2>2, Going
<1>3. IsTree(staging) /\ IsTree(corpus)
  BY <1>1 DEF Typed
<1>4. IsTree(corpus') /\ corpus'[f] = staging[f]
      /\ \A g \in Files : g # f => corpus'[g] = corpus[g]
  BY <1>1, <1>3, FileCopied, Names, TreeMade
<1>5. Typed'
  BY <1>1, <1>2, <1>4 DEF Typed
<1>6. ListedAt(p)' /\ (NoLoss' => Consistent(head'))
  <2>1. Copied(p) /\ ListedAt(p)
    BY <1>1, Before DEF ListedAt
  <2>2. Copied(p)'
    BY <1>1, <1>2, <1>4, <2>1, Names DEF Copied
  <2> QED BY <1>1, <1>2, <2>1, <2>2, Before DEF ListedAt, At, Later
<1>7. NoMiss' => LoggedIn(head)' /\ RecordedAt(p)'
  <2> SUFFICES ASSUME NoMiss' PROVE LoggedIn(head)' /\ RecordedAt(p)'
    OBVIOUS
  <2>1. LoggedIn(head) /\ Complete /\ Carried
    BY <1>1, Before DEF RecordedAt, At, Later
  <2>2. \A e \in Evidence : corpus'[e] \in {corpus[e], staging[e]}
    BY <1>4, Names
  <2>3. Carried'
    BY <1>1, <2>1, <2>2, AbsentAssumption DEF Carried, Later
  <2>4. Complete'
    BY <1>1, <2>1, <2>2 DEF Complete, Later
  <2>5. LoggedIn(head)'
    BY <1>1, <2>1, StillLogged
  <2> QED BY <1>2, <2>3, <2>4, <2>5 DEF RecordedAt, At
<1> QED BY <1>2, <1>5, <1>6, <1>7, After

\* Everything staged was copied; the manifest follows unless that fails.
LEMMA ExtrasStep ==
  ASSUME Inv, NEW p \in Publishers, SyncExtras(p) \/ SkipExtras(p), UNCHANGED expired
  PROVE  Inv'
<1>1. /\ At(p, "sync") /\ ~At(p, "idle") /\ Typed /\ run[p].todo = {}
      /\ UNCHANGED <<staging, head, pushed, lock>> /\ Goto(p, "commit", {})
  BY Before DEF SyncExtras, SkipExtras, At
<1>2. /\ RunsOK' /\ Locked' /\ run'[p].pc = "commit"
      /\ \A q \in Publishers : q # p => run'[q].pc = "idle"
  <2>1. "commit" \in Pcs \ {"idle"} /\ {} \in SUBSET (Substance \cup {"evidence"})
    BY DEF Pcs
  <2> QED BY <1>1, <2>1, Going
<1>3. IsTree(staging) /\ IsTree(corpus)
  BY <1>1 DEF Typed
<1> DEFINE extended == [corpus EXCEPT !["manifest"] = staging["manifest"]]
<1>4. IsTree(extended) /\ extended["manifest"] = staging["manifest"]
      /\ \A f \in Substance : extended[f] = corpus[f]
  BY <1>3, FileCopied, Names, TreeMade
<1> HIDE DEF extended
<1>5. \/ /\ corpus' = IF staging["manifest"] = Absent THEN corpus ELSE extended
         /\ UNCHANGED faults
      \/ UNCHANGED corpus /\ Fails("extras")
  BY Zenon DEF SyncExtras, SkipExtras, extended
<1>6. Later /\ (NoLoss' => ~Fails("extras"))
  BY <1>1, <1>5, Failed, Unfailed, Classes
<1>7. IsTree(corpus') /\ \A f \in Substance : corpus'[f] = corpus[f]
  BY <1>3, <1>4, <1>5
<1>8. Typed'
  BY <1>1, <1>2, <1>6, <1>7 DEF Typed, FaultsOK, Later
<1>9. \A f \in Substance : staging[f] # Absent => corpus'[f] = staging[f]
  BY <1>1, <1>7, Before DEF ListedAt, Copied
<1>10. ListedAt(p)' /\ (NoLoss' => Consistent(head'))
  <2> SUFFICES ASSUME NoLoss' PROVE Consistent(corpus') /\ Consistent(head')
    BY <1>2 DEF ListedAt, At
  <2>1. staging["manifest"] = [f \in Manifested |-> staging[f]] /\ Consistent(head)
    BY <1>1, <1>6, Before DEF ListedAt, At, Later
  <2>2. staging["manifest"] # Absent
    BY <1>3, <2>1, ManifestWritten
  <2>3. corpus'["manifest"] = staging["manifest"]
    BY <1>4, <1>5, <1>6, <2>2
  <2> QED BY <1>1, <1>9, <2>1, <2>3, Names DEF Consistent
<1>11. NoMiss' => LoggedIn(head)' /\ LoggedIn(corpus)' /\ RecordedAt(p)'
  <2> SUFFICES ASSUME NoMiss' PROVE LoggedIn(head)' /\ LoggedIn(corpus)'
    BY <1>2 DEF RecordedAt, LoggedIn, At
  <2>1. LoggedIn(head) /\ Complete /\ Carried
    BY <1>1, <1>6, Before DEF RecordedAt, At, Later
  <2>2. corpus'["log"] = staging["log"] /\ staging["log"] # Absent
    BY <1>9, <2>1, Names DEF Complete
  <2>3. \A e \in Evidence : corpus'[e] = corpus[e]
    BY <1>7, Names
  <2>4. ASSUME NEW e \in Evidence, corpus'[e] = "superseded", e \notin expired'
        PROVE  staging["log"][e] = "superseded"
    <3>1. staging[e] # Absent
      BY <1>6, <2>1, <2>3, <2>4 DEF Carried, Later
    <3>2. staging[e] = "superseded"
      BY <1>9, <2>4, <3>1, Names
    <3> QED BY <2>1, <3>2 DEF Complete
  <2>5. NoTear' /\ NoCut' => \A e \in Evidence : corpus'[e] # Absent => staging["log"][e] # Absent
    BY <1>6, <2>1, <2>3 DEF Complete, Later
  <2>6. LoggedIn(corpus)'
    BY <2>2, <2>4, <2>5 DEF LoggedIn, SupersededIn, AllIn
  <2>7. LoggedIn(head)'
    BY <1>1, <1>6, <2>1, StillLogged
  <2> QED BY <2>6, <2>7
<1> QED BY <1>2, <1>8, <1>10, <1>11, After DEF LoggedIn

\* The corpus is committed, unless nothing changed.
LEMMA CommitStep == ASSUME Inv, NEW p \in Publishers, Commit(p), UNCHANGED expired PROVE Inv'
<1>1. /\ At(p, "commit") /\ ~At(p, "idle") /\ ~At(p, "sync") /\ Typed
      /\ UNCHANGED <<staging, corpus, faults>> /\ Later
  BY Before, Unfailed DEF Commit, At
<1>2. CASE Return(p) /\ UNCHANGED <<head, pushed>>
  BY <1>1, <1>2, Stopped DEF Typed
<1>3. CASE head' = corpus /\ pushed' = FALSE /\ Goto(p, "push", {}) /\ UNCHANGED lock
  <2>1. /\ RunsOK' /\ Locked' /\ run'[p].pc = "push"
        /\ \A q \in Publishers : q # p => run'[q].pc = "idle"
    <3>1. "push" \in Pcs \ {"idle"} /\ {} \in SUBSET (Substance \cup {"evidence"})
      BY DEF Pcs
    <3> QED BY <1>1, <1>3, <3>1, Going
  <2>2. Typed'
    BY <1>1, <1>3, <2>1 DEF Typed
  <2>3. ListedAt(p)' /\ RecordedAt(p)'
    BY <2>1 DEF ListedAt, RecordedAt, At
  <2>4. NoLoss' => Consistent(head')
    BY <1>1, <1>3, Before DEF ListedAt, Later
  <2>5. NoMiss' => LoggedIn(head)' /\ AllIn(corpus)'
    <3>1. NoMiss' => SupersededIn(corpus) /\ AllIn(corpus)
      BY <1>1, Before DEF RecordedAt, At, Later
    <3>2. NoMiss' => LoggedIn(corpus)'
      BY <1>1, <3>1, StillLogged DEF LoggedIn
    <3>3. LoggedIn(corpus)' => LoggedIn(head)' /\ AllIn(corpus)'
      BY <1>1, <1>3 DEF LoggedIn, SupersededIn, AllIn
    <3> QED BY <3>2, <3>3
  <2> QED BY <2>1, <2>2, <2>3, <2>4, <2>5, After
<1> QED BY <1>2, <1>3 DEF Commit

\* The commit reaches the remote.
LEMMA PushStep == ASSUME Inv, NEW p \in Publishers, Push(p), UNCHANGED expired PROVE Inv'
<1>1. /\ ~At(p, "idle") /\ ~At(p, "sync") /\ Typed /\ Return(p) /\ pushed' = TRUE
      /\ UNCHANGED <<staging, corpus, head, faults>>
  BY DEF Inv, Push, At
<1> QED BY <1>1, Stopped, Unfailed

\* An error ends the run; in the middle of the copy it tears the corpus.
LEMMA AbortStep == ASSUME Inv, NEW p \in Publishers, Abort(p), UNCHANGED expired PROVE Inv'
<1>1. /\ Typed /\ Return(p) /\ UNCHANGED <<staging, corpus, head, pushed>>
  BY DEF Inv, Abort
<1>2. PICK kind \in {"prepare", "validate", "sync", "commit", "push"} :
        At(p, kind) /\ Fails(kind)
  BY DEF Abort
<1>3. ~At(p, "idle")
  BY <1>2 DEF At
<1>4. Later /\ (NoTear' => FaultClass(kind) # "torn")
  BY <1>1, <1>2, Failed
<1>5. NoTear' => ~At(p, "sync")
  BY <1>2, <1>4, Classes DEF At
<1> QED BY <1>1, <1>3, <1>4, <1>5, Stopped DEF Typed

\* A crash ends the run wherever it is and frees the lock.
LEMMA CrashStep == ASSUME Inv, Crash PROVE Inv'
<1>1. /\ Typed /\ Fails("crash") /\ lock' = NoOne /\ lock # NoOne
      /\ run' = [q \in Publishers |-> IdleRun]
      /\ UNCHANGED <<staging, corpus, head, pushed, expired>>
  BY DEF Inv, Crash
<1>2. PICK p \in Publishers : p = lock
  BY <1>1 DEF Typed, Locked
<1>3. IdleRun \in RunState /\ IdleRun.pc = "idle"
      /\ IdleRun.summary.added \cap IdleRun.summary.superseded = {}
  BY DEF IdleRun, RunState, NoSummary, Pcs
<1> HIDE DEF IdleRun
<1>4. \A q \in Publishers : run'[q] = IdleRun
  BY <1>1
<1>5. RunsOK' /\ Locked'
  BY <1>1, <1>3, <1>4, PublishersAssumption DEF RunsOK, Locked, At
<1>6. Later /\ ~NoTear'
  BY <1>1, Failed, Classes
<1>7. Typed'
  BY <1>1, <1>5, <1>6 DEF Typed, FaultsOK, Later
<1>8. ListedAt(p)' /\ (NoLoss' => Consistent(head'))
  BY <1>1, <1>3, <1>4, <1>6 DEF ListedAt, At, Inv, Listed, Later
<1>9. NoMiss' => LoggedIn(head)' /\ AllIn(corpus)' /\ RecordedAt(p)'
  <2>1. AllIn(corpus)' /\ RecordedAt(p)'
    BY <1>3, <1>4, <1>6 DEF AllIn, RecordedAt, At
  <2>2. NoMiss' => LoggedIn(head)'
    BY <1>1, <1>6, StillLogged DEF Inv, Recorded, Later
  <2> QED BY <2>1, <2>2
<1> QED BY <1>3, <1>4, <1>7, <1>8, <1>9, After

\* What leaves the retention window is asked for less, never for more.
LEMMA ExpireStep == ASSUME Inv, NEW e \in Evidence, Expire(e) PROVE Inv'
<1>1. /\ Typed /\ expired' = expired \cup {e}
      /\ UNCHANGED <<staging, corpus, head, pushed, lock, run, faults>>
  BY DEF Inv, Expire
<1>2. Typed'
  BY <1>1 DEF Typed, RunsOK, Locked, At
<1>3. Listed'
  BY <1>1 DEF Inv, Listed, ListedAt, Copied, NoLoss, At
<1>4. /\ LoggedIn(head) => LoggedIn(head)'
      /\ AllIn(corpus) => AllIn(corpus)'
      /\ SupersededIn(corpus) => SupersededIn(corpus)'
      /\ Carried => Carried'
      /\ Complete => Complete'
  BY <1>1 DEF LoggedIn, SupersededIn, AllIn, Carried, Complete, NoTear, NoCut
<1>5. \A q \in Publishers : RecordedAt(q) => RecordedAt(q)'
  <2> TAKE q \in Publishers
  <2>1. Summed(run[q].summary) => Summed(run[q].summary)'
    BY <1>1 DEF Summed
  <2>2. LogOf(corpus)' = LogOf(corpus)
    BY <1>1 DEF LogOf, NoLog
  <2> QED BY <1>1, <1>4, <2>1, <2>2 DEF RecordedAt, NoCut, At
<1>6. Recorded'
  BY <1>1, <1>4, <1>5 DEF Inv, Recorded, NoMiss, At
<1> QED BY <1>2, <1>3, <1>6 DEF Inv

-----------------------------------------------------------------------------
(* The theorems.                                                           *)

\* Nothing is there before the first run.
LEMMA InitInv == ASSUME Init PROVE Inv
<1>1. IsTree(staging) /\ IsTree(corpus) /\ IsTree(head)
  BY EmptyIsTree DEF Init
<1>2. \A f \in Files : staging[f] = Absent /\ corpus[f] = Absent /\ head[f] = Absent
  BY DEF Init, EmptyTree
<1>3. IdleRun \in RunState /\ IdleRun.pc = "idle"
      /\ IdleRun.summary.added \cap IdleRun.summary.superseded = {}
  BY DEF IdleRun, RunState, NoSummary, Pcs
<1>4. \A p \in Publishers : run[p].pc = "idle"
  BY <1>3 DEF Init
<1>5. Locked /\ RunsOK
  <2> HIDE DEF IdleRun
  <2>1. run = [p \in Publishers |-> IdleRun] /\ lock = NoOne
    BY DEF Init
  <2> QED BY <1>3, <1>4, <2>1, PublishersAssumption DEF Locked, RunsOK, At
<1>6. Typed
  BY <1>1, <1>5, FaultsAssumption DEF Init, Typed, FaultClasses
<1>7. Listed
  BY <1>2, <1>4, Names DEF Listed, ListedAt, Consistent, At
<1>8. Recorded
  BY <1>2, <1>4, Names, AbsentAssumption DEF Recorded, RecordedAt, LoggedIn, SupersededIn, AllIn, At
<1> QED BY <1>6, <1>7, <1>8 DEF Inv

\* Every step keeps the invariants.
LEMMA NextInv == ASSUME Inv, [Next]_vars PROVE Inv'
<1>1. ASSUME NEW p \in Publishers, Continue(p) PROVE Inv'
  <2>1. ASSUME NEW relevant \in SUBSET Evidence, RenderEvidence(p, relevant), UNCHANGED expired
        PROVE  Inv'
    <3>1. Previous \in SUBSET Evidence /\ {} \in SUBSET Evidence
      BY DEF Previous
    <3> QED BY <2>1, <3>1, EvidenceStep DEF RenderEvidence
  <2> QED BY <1>1, <2>1, PrepareStep, SectionStep, CarryStep, ManifestStep, ValidateStep,
             FinalizeStep, SyncFileStep, ExtrasStep, CommitStep, PushStep DEF Continue
<1>2. ASSUME NEW p \in Publishers, Failure(p) PROVE Inv'
  <2>1. ASSUME NEW known \in SUBSET Evidence, NEW missed \in SUBSET Evidence,
               NEW relevant \in SUBSET Evidence,
               MissRecords(p, known, missed, relevant), UNCHANGED expired
        PROVE  Inv'
    BY <2>1, EvidenceStep DEF MissRecords
  <2> QED BY <1>2, <2>1, AbortStep, SectionStep, SkipEvidenceStep, CarryStep,
             ManifestStep, ExtrasStep DEF Failure
<1>3. CASE UNCHANGED vars
  BY <1>3 DEF vars, Inv, Typed, RunsOK, Locked, Listed, ListedAt, Recorded, RecordedAt,
              NoLoss, NoTear, NoMiss, NoCut, LoggedIn, SupersededIn, AllIn, Copied,
              Carried, Summed, Complete, LogOf, NoLog, At
<1> QED BY <1>1, <1>2, <1>3, EnterStep, CrashStep, ExpireStep DEF Next

\* The invariants hold of every publishing history.
THEOREM Invariance == Spec => []Inv
<1>1. Init => Inv
  BY InitInv
<1>2. Inv /\ [Next]_vars => Inv'
  BY NextInv
<1> QED BY <1>1, <1>2, PTL DEF Spec

\* The trees hold what belongs in them and exactly the run under way holds
\* Publisher.mu (publish.go:44-50).
THEOREM TypeCorrect == Spec => []TypeOK
<1>1. ASSUME Typed PROVE TypeOK
  <2>1. \A c \in DOMAIN MaxFaults : faults[c] \in 0..MaxFaults[c]
    BY <1>1, FaultsAssumption DEF Typed, FaultClasses
  <2>2. {p \in Publishers : ~At(p, "idle")} = {lock} \ {NoOne}
    BY <1>1, PublishersAssumption DEF Typed, Locked
  <2> QED BY <1>1, <2>1, <2>2 DEF Typed, TypeOK, IsTree
<1>2. Inv => TypeOK
  BY <1>1 DEF Inv
<1> QED BY <1>2, Invariance, PTL

\* Until a manifest is lost every commit is consistent: competing runs, failed
\* sections, half copied worktrees and crashes never commit a file that its
\* manifest lists with another content (publish.go:44-80, 216-310).
THEOREM Consistency == Spec => []CommitsAreConsistent
<1>1. Inv => CommitsAreConsistent
  BY DEF Inv, Listed, NoLoss, Consistent, CommitsAreConsistent
<1> QED BY <1>1, Invariance, PTL

\* While no record and no entry is missed no evidence goes silently, whatever
\* crashes, and also when the log is capped or lost: a committed record of the
\* retention window that is superseded is so in the committed log, and until a
\* log is cut or a copy torn every committed record is there
\* (current_leaguemates_manifest.go:311-401, evidence.go:82-106, publish.go:262-292).
THEOREM NothingSilent == Spec => []EvidenceIsLogged
<1>1. Inv => EvidenceIsLogged
  BY DEF Inv, Recorded, NoTear, NoMiss, NoCut, LoggedIn, SupersededIn, AllIn, LogOf, EvidenceIsLogged
<1> QED BY <1>1, Invariance, PTL
=============================================================================
