----------------------------- MODULE Publisher -----------------------------
(***************************************************************************)
(* Publishing the corpus (internal/corpus): render every section into the  *)
(* staging tree, validate it, copy it file by file into the corpus (the    *)
(* git worktree), commit and push.  Runs come from several cron jobs and   *)
(* from MCP triggers; only Publisher.mu keeps them apart, and it does not  *)
(* survive the process, while the two trees and the repository do.         *)
(***************************************************************************)
EXTENDS Naturals, Sequences, FiniteSets

CONSTANTS
    Sections,   \* the files of the team, datasets, current, leaguemates sections
    Evidence,   \* evidence records, one file each
    Stamps,     \* values NowISO may take: what makes two renders differ
    Publishers, \* Publish calls that may be in progress at once
    ModeOf,     \* ModeOf[p]: "daily" or "export"
    FaultKinds, \* the failures of an instance, and "cut": see CutLog
    MaxFaults,  \* bounds on the failures of each class, see FaultClass, and "any"
    Absent,     \* no such file
    NoOne       \* holder of the free lock

Rendered == Evidence \cup {"index", "log"}
Files == Sections \cup Rendered \cup {"manifest"}
Substance == Files \ {"manifest"}

\* The files a manifest lists: the change log is skipped.
Manifested == Substance \ {"log"}

\* A change log, as the last operation it has for each record, if any.
Logs == [Evidence -> {Absent, "added", "superseded"}]

Contents == {Absent} \cup Stamps \cup {"current", "superseded"}

ASSUME FilesAreDistinct ==
    /\ Sections \cap (Rendered \cup {"manifest", "evidence"}) = {}
    /\ Evidence \cap {"index", "log", "manifest"} = {}
ASSUME AbsentAssumption ==
    /\ Absent \notin {"current", "superseded", "added"}
    /\ Absent \notin Logs
    /\ Absent \notin [Manifested -> Contents]
\* The clock never repeats: three trees and their manifests hold six stamps.
ASSUME StampsAssumption == IsFiniteSet(Stamps) /\ Cardinality(Stamps) > 6
ASSUME PublishersAssumption == NoOne \notin Publishers
ASSUME ModesAssumption == ModeOf \in [Publishers -> {"daily", "export"}]
ASSUME FaultsAssumption ==
    /\ MaxFaults \in [{"clean", "torn", "missed", "unlisted", "cut", "any"} -> Nat]
    /\ FaultKinds \subseteq {"crash", "prepare", "section", "evidence", "record", "cut",
                             "append", "manifest", "validate", "sync", "extras",
                             "commit", "push"}

VARIABLES
    staging, corpus,  \* file trees: [Files -> content]
    head,             \* the tree of the last commit
    pushed,           \* the remote has the last commit
    lock,             \* Publisher.mu
    run,              \* run[p]: progress of p's Publish call
    expired,          \* records published longer ago than evidenceRetentionAge
    faults            \* failures of each class left

vars == <<staging, corpus, head, pushed, lock, run, expired, faults>>

EmptyTree == [f \in Files |-> Absent]

NoSummary == [added |-> {}, superseded |-> {}]

IdleRun == [pc |-> "idle", todo |-> {}, summary |-> NoSummary]

Init ==
    /\ staging = EmptyTree /\ corpus = EmptyTree /\ head = EmptyTree
    /\ pushed = TRUE
    /\ lock = NoOne
    /\ run = [p \in Publishers |-> IdleRun]
    /\ expired = {}
    /\ faults = MaxFaults

At(p, pc) == run[p].pc = pc

Goto(p, pc, todo) == run' = [run EXCEPT ![p].pc = pc, ![p].todo = todo]

\* Mutant of Return: the unlock is missing.
ReturnLocked(p) == run' = [run EXCEPT ![p] = IdleRun] /\ UNCHANGED lock

\* Publish returns; the deferred Unlock runs.
Return(p) == run' = [run EXCEPT ![p] = IdleRun] /\ lock' = NoOne

\* Torn failures can leave the corpus half copied, missed ones evidence that the
\* log of its own run does not speak of, unlisted ones files without a manifest.
FaultClass(kind) ==
    CASE kind \in {"crash", "sync"} -> "torn"
      [] kind \in {"evidence", "record", "append"} -> "missed"
      [] kind \in {"manifest", "extras"} -> "unlisted"
      [] kind = "cut" -> "cut"
      [] OTHER -> "clean"

Fails(kind) ==
    /\ kind \in FaultKinds
    /\ faults[FaultClass(kind)] > 0 /\ faults["any"] > 0
    /\ faults' = [faults EXCEPT ![FaultClass(kind)] = @ - 1, !["any"] = @ - 1]

\* Mutant of Enter: a run that finds the lock taken goes on without it.
EnterAnyway(p) ==
    /\ At(p, "idle")
    /\ lock' = p
    /\ Goto(p, "prepare", {})
    /\ UNCHANGED <<staging, corpus, head, pushed, expired, faults>>

\* TryLock; with the lock taken Publish returns errPublishInProgress at once.
Enter(p) ==
    /\ At(p, "idle")
    /\ lock = NoOne
    /\ lock' = p
    /\ Goto(p, "prepare", {})
    /\ UNCHANGED <<staging, corpus, head, pushed, expired, faults>>

\* prepareStagingDir: whatever an earlier run left is removed.
PrepareStaging(p) ==
    /\ At(p, "prepare")
    /\ staging' = EmptyTree
    /\ Goto(p, "render", Sections \cup {"evidence"})
    /\ UNCHANGED <<corpus, head, pushed, lock, faults>>

\* Mutant of NewStamp: renders of equal data are equal files.
SameStamp(f) == CHOOSE s \in Stamps : TRUE

\* A stamp that f carries in no tree or manifest: the clock has moved on.
NewStamp(f) ==
    LET Trees == {staging, corpus, head}
        Listed == {t["manifest"] : t \in Trees} \ {Absent}
    IN  CHOOSE s \in Stamps : s \notin {t[f] : t \in Trees \cup Listed}

Rendering(p, part) == At(p, "render") /\ part \in run[p].todo

RenderSection(p, s) ==
    /\ s \in Sections /\ Rendering(p, s)
    /\ staging' = [staging EXCEPT ![s] = NewStamp(s)]
    /\ Goto(p, "render", run[p].todo \ {s})
    /\ UNCHANGED <<corpus, head, pushed, lock, faults>>

\* loadExistingRecords: the records of the corpus that are not too old.
Previous == {e \in Evidence \ expired : corpus[e] # Absent}

\* The staged tree with the records in written: relevant items as current
\* records, the other records of the corpus as superseded ones.
WithRecords(written, relevant) ==
    [f \in Files |-> IF f \notin written THEN staging[f]
                    ELSE IF f \in relevant THEN "current" ELSE "superseded"]

\* renderEvidence, when known was read of the corpus and missed could not be
\* written.  Relevant items are younger than the retention age.  The index
\* carries the time; the summary does not know what was not written.
EvidenceDone(p, known, missed, relevant) ==
    /\ Rendering(p, "evidence") /\ relevant \cap expired = {}
    /\ staging' = [WithRecords((known \cup relevant) \ missed, relevant)
                      EXCEPT !["index"] = NewStamp("index")]
    /\ run' = [run EXCEPT ![p].todo = @ \ {"evidence"},
                          ![p].summary = [added |-> relevant \ known,
                                          superseded |-> known \ relevant]]
    /\ UNCHANGED <<corpus, head, pushed, lock>>

RenderEvidence(p, relevant) ==
    EvidenceDone(p, Previous, {}, relevant) /\ UNCHANGED faults

NoLog == [e \in Evidence |-> Absent]

LogOf(tree) == IF tree["log"] = Absent THEN NoLog ELSE tree["log"]

\* carryForwardChangeLog: the new log starts as the previous one.
CarryLog(p) ==
    /\ At(p, "render") /\ run[p].todo = {}
    /\ staging' = [staging EXCEPT !["log"] = LogOf(corpus)]
    /\ Goto(p, "log", {})
    /\ UNCHANGED <<corpus, head, pushed, lock, faults>>

\* Mutant of Logged: an entry for a record that changes, and no other.
LoggedChanges(summary) ==
    [e \in Evidence |->
        CASE e \in summary.added -> "added"
          [] e \in summary.superseded /\ corpus[e] = "current" -> "superseded"
          [] OTHER -> LogOf(staging)[e]]

\* appendEvidenceChangeLog: the records added, then all that are superseded,
\* those of earlier runs once more.  AppendJSONL creates a log that is missing.
Logged(summary) ==
    [e \in Evidence |->
        CASE e \in summary.added -> "added"
          [] e \in summary.superseded -> "superseded"
          [] OTHER -> LogOf(staging)[e]]

\* The log without the entries of this run that could not be appended.
LoggedBut(lost, summary) ==
    [e \in Evidence |-> IF e \in lost THEN LogOf(staging)[e] ELSE Logged(summary)[e]]

\* renderManifest completes the log and writes a manifest of the other files.
ManifestDone(p, log) ==
    LET logged == [staging EXCEPT !["log"] = log]
    IN  /\ At(p, "log")
        /\ staging' = [logged EXCEPT !["manifest"] = [f \in Manifested |-> logged[f]]]
        /\ Goto(p, "validate", {})
        /\ UNCHANGED <<corpus, head, pushed, lock>>

RenderManifest(p) == ManifestDone(p, Logged(run[p].summary)) /\ UNCHANGED faults

\* Validate finds nothing wrong with the files there are: a missing section
\* or manifest is no error.  An export ends here.
ValidateStaging(p) ==
    /\ At(p, "validate")
    /\ IF ModeOf[p] = "export" THEN Return(p)
       ELSE Goto(p, "finalize", {}) /\ UNCHANGED lock
    /\ UNCHANGED <<staging, corpus, head, pushed, faults>>

\* materialChanges: another number of files, or a file that differs.
MaterialChanges == \E f \in Substance : staging[f] # corpus[f]

Finalize(p) ==
    /\ At(p, "finalize")
    /\ IF MaterialChanges
       THEN /\ Goto(p, "sync", {f \in Substance : staging[f] # Absent})
            /\ UNCHANGED lock
       ELSE Return(p)
    /\ UNCHANGED <<staging, corpus, head, pushed, faults>>

\* sync copies the staged files in map order; no corpus file is ever deleted.
SyncFile(p, f) ==
    /\ At(p, "sync") /\ f \in run[p].todo
    /\ corpus' = [corpus EXCEPT ![f] = staging[f]]
    /\ Goto(p, "sync", run[p].todo \ {f})
    /\ UNCHANGED <<staging, head, pushed, lock, faults>>

\* The extras come last; of them only the manifest was not copied before.
SyncExtras(p) ==
    /\ At(p, "sync") /\ run[p].todo = {}
    /\ corpus' = IF staging["manifest"] = Absent THEN corpus
                 ELSE [corpus EXCEPT !["manifest"] = staging["manifest"]]
    /\ Goto(p, "commit", {})
    /\ UNCHANGED <<staging, head, pushed, lock, faults>>

\* gitCommitAndPush: with a clean worktree it returns before the push.
Commit(p) ==
    /\ At(p, "commit")
    /\ IF corpus = head
       THEN Return(p) /\ UNCHANGED <<head, pushed>>
       ELSE /\ head' = corpus /\ pushed' = FALSE
            /\ Goto(p, "push", {}) /\ UNCHANGED lock
    /\ UNCHANGED <<staging, corpus, faults>>

Push(p) ==
    /\ At(p, "push")
    /\ pushed' = TRUE
    /\ Return(p)
    /\ UNCHANGED <<staging, corpus, head, faults>>

-----------------------------------------------------------------------------
(* Failures.                                                               *)

\* Errors that end the run where it is.  Those of commit and push are only
\* logged, which leaves the same state behind.
Abort(p) ==
    /\ \E kind \in {"prepare", "validate", "sync", "commit", "push"} :
          At(p, kind) /\ Fails(kind)
    /\ Return(p)
    /\ UNCHANGED <<staging, corpus, head, pushed>>

\* A section fails: logged, and the other sections are rendered.
SkipSection(p, s) ==
    /\ s \in Sections /\ Rendering(p, s) /\ Fails("section")
    /\ Goto(p, "render", run[p].todo \ {s})
    /\ UNCHANGED <<staging, corpus, head, pushed, lock>>

\* Records of the corpus cannot be read, or current ones cannot be written;
\* either is passed over.
MissRecords(p, known, missed, relevant) ==
    /\ known \subseteq Previous /\ missed \subseteq relevant
    /\ EvidenceDone(p, known, missed, relevant)
    /\ Fails("record")

\* Evidence fails after some records were written: no index, no summary.
SkipEvidence(p, written, relevant) ==
    /\ Rendering(p, "evidence") /\ Fails("evidence")
    /\ relevant \cap expired = {} /\ written \subseteq Previous \cup relevant
    /\ staging' = WithRecords(written, relevant)
    /\ Goto(p, "render", run[p].todo \ {"evidence"})
    /\ UNCHANGED <<corpus, head, pushed, lock>>

\* Entries of the previous log are not carried forward: its oldest, when it is
\* over maxChangeLogBytes, or all, when it cannot be read or written.  Whose
\* entries are left depends on the size of everybody's.
CutLog(p, lost) ==
    /\ At(p, "render") /\ run[p].todo = {} /\ Fails("cut")
    /\ staging' = [staging EXCEPT
         !["log"] = [e \in Evidence |-> IF e \in lost THEN Absent ELSE LogOf(corpus)[e]]]
    /\ Goto(p, "log", {})
    /\ UNCHANGED <<corpus, head, pushed, lock>>

\* AppendJSONL fails for some records: the entry is missing, nothing else.
MissEntries(p, lost) ==
    ManifestDone(p, LoggedBut(lost, run[p].summary)) /\ Fails("append")

\* The manifest fails after the log was completed.
SkipManifest(p) ==
    /\ At(p, "log") /\ Fails("manifest")
    /\ staging' = [staging EXCEPT !["log"] = Logged(run[p].summary)]
    /\ Goto(p, "validate", {})
    /\ UNCHANGED <<corpus, head, pushed, lock>>

\* The manifest cannot be copied: logged, and the run commits.
SkipExtras(p) ==
    /\ At(p, "sync") /\ run[p].todo = {} /\ Fails("extras")
    /\ Goto(p, "commit", {})
    /\ UNCHANGED <<staging, corpus, head, pushed, lock>>

\* The daemon dies; the volumes keep both trees and the repository.
Crash ==
    /\ Fails("crash")
    /\ lock # NoOne
    /\ lock' = NoOne
    /\ run' = [p \in Publishers |-> IdleRun]
    /\ UNCHANGED <<staging, corpus, head, pushed, expired>>

Failure(p) ==
    /\ \/ Abort(p)
       \/ \E s \in Sections : SkipSection(p, s)
       \/ \E known, missed, relevant \in SUBSET Evidence :
             MissRecords(p, known, missed, relevant)
       \/ \E written, relevant \in SUBSET Evidence : SkipEvidence(p, written, relevant)
       \/ \E lost \in SUBSET Evidence : CutLog(p, lost)
       \/ \E lost \in SUBSET Evidence : MissEntries(p, lost)
       \/ SkipManifest(p)
       \/ SkipExtras(p)
    /\ UNCHANGED expired

Continue(p) ==
    /\ \/ PrepareStaging(p)
       \/ \E s \in Sections : RenderSection(p, s)
       \/ \E relevant \in SUBSET Evidence : RenderEvidence(p, relevant)
       \/ CarryLog(p)
       \/ RenderManifest(p)
       \/ ValidateStaging(p)
       \/ Finalize(p)
       \/ \E f \in Substance : SyncFile(p, f)
       \/ SyncExtras(p)
       \/ Commit(p)
       \/ Push(p)
    /\ UNCHANGED expired

\* A record passes the retention age, which counts from its publication.
Expire(e) ==
    /\ e \notin expired /\ corpus[e] # Absent
    /\ expired' = expired \cup {e}
    /\ UNCHANGED <<staging, corpus, head, pushed, lock, run, faults>>

Next ==
    \/ \E p \in Publishers : Enter(p) \/ Continue(p) \/ Failure(p)
    \/ Crash
    \/ \E e \in Evidence : Expire(e)

\* A publish under way goes on, its calls time out.  The schedule keeps
\* starting daily runs; exports are asked for by hand.  Failures are not fair.
Daily == {p \in Publishers : ModeOf[p] = "daily"}

Fairness == /\ \A p \in Publishers : WF_vars(Continue(p))
            /\ \A p \in Daily : WF_vars(Enter(p))

Spec == Init /\ [][Next]_vars /\ Fairness

-----------------------------------------------------------------------------
ContentOK(tree, f) ==
    \/ tree[f] = Absent
    \/ f \in Sections \cup {"index"} /\ tree[f] \in Stamps
    \/ f \in Evidence /\ tree[f] \in {"current", "superseded"}
    \/ f = "log" /\ tree[f] \in Logs

TreeOK(tree) ==
    /\ DOMAIN tree = Files
    /\ \A f \in Substance : ContentOK(tree, f)
    /\ tree["manifest"] # Absent =>
          /\ DOMAIN tree["manifest"] = Manifested
          /\ \A f \in Manifested : ContentOK(tree["manifest"], f)

\* Type invariant, with the lock held by exactly the run that is under way.
TypeOK ==
    /\ TreeOK(staging) /\ TreeOK(corpus) /\ TreeOK(head)
    /\ pushed \in BOOLEAN /\ expired \subseteq Evidence
    /\ \A c \in DOMAIN MaxFaults : faults[c] \in 0..MaxFaults[c]
    /\ {p \in Publishers : ~At(p, "idle")} = {lock} \ {NoOne}

\* Until a manifest is lost every commit is consistent: a file its manifest
\* lists has the content the manifest lists, although runs compete, sections
\* fail and crashes leave the worktree half copied (publish.go:44-80, 216-310).
CommitsAreConsistent ==
    faults["unlisted"] = MaxFaults["unlisted"] /\ head["manifest"] # Absent =>
        \A f \in Manifested : head["manifest"][f] \in {Absent, head[f]}

\* While no record and no log entry is missed, no evidence goes silently, although
\* the log is capped: while a record is of the retention window and superseded,
\* its last entry in the committed log says so, also when older entries were cut
\* off, the previous log was lost or a crash left records without their entries,
\* since every run logs all superseded records anew.  What was added, and what
\* left the window, is remembered only until the log is cut or a copy torn
\* (current_leaguemates_manifest.go:311-401, evidence.go:82-106, publish.go:262-292).
EvidenceIsLogged ==
    faults["missed"] = MaxFaults["missed"] =>
      \A e \in Evidence :
        /\ head[e] = "superseded" /\ e \notin expired => LogOf(head)[e] = "superseded"
        /\ /\ head[e] # Absent
           /\ \A class \in {"torn", "cut"} : faults[class] = MaxFaults[class]
           => LogOf(head)[e] # Absent

\* A commit whose push failed, or was cut off by a crash, reaches the remote
\* with a later run, unless exports keep the lock from the daily runs for ever
\* (git.go:42-68 skips the push when nothing was committed).
RemoteCatchesUp ==
    (<>[](lock \in Daily \cup {NoOne})) => (~pushed ~> pushed)
=============================================================================
