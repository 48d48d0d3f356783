---------------------------- MODULE DurableExport ----------------------------
(***************************************************************************)
(* The two files a campaign leaves behind, leads.csv and checkpoint.sqlite, *)
(* and the protocol that keeps them in step: a row is appended and fsynced, *)
(* then the record is registered and marked committed in SQLite; at         *)
(* start-up the CSV is migrated, recovered and trimmed to the committed     *)
(* count.                                                                   *)
(*                                                                          *)
(* One session at a time writes the files (single committer thread).  A     *)
(* record stands for one collected listing under its fresh uuid.  The same  *)
(* business is collected again, as another record, unless the session's     *)
(* resolver knows it: it is seeded with the committed ones, which are taken *)
(* to fit in the preload, and never forgets one a session handed out.       *)
(***************************************************************************)
EXTENDS Integers, Sequences, FiniteSets, Functions

CONSTANTS Record,    \* record ids
          NoRecord,  \* no commit under way
          BusinessOf,  \* the business a record is of
          Faults     \* the faults that may happen, a subset of FaultKind

FaultKind ==
    { "crash",          \* the process dies outside a rewrite of the CSV
      "rewrite_crash",  \* the process dies, or an unsynced rewrite is lost,
                        \* between open(path, "w") and the rewrite's fsync
      "power_loss",     \* the machine dies: unsynced SQLite commits go too
      "commit_error",   \* append or a checkpoint call raises, the committer goes on
      "schema_change" } \* the column list of the next run differs

(***************************************************************************)
(* What the reader finds where a row was only partly written: too few       *)
(* fields, the last field cut short, or two rows run together on one line.  *)
(***************************************************************************)
Damaged == {"short", "long", "mangled"}

ASSUME RecordAssumption == NoRecord \notin Record /\ Record \cap Damaged = {}
ASSUME FaultsAssumption == Faults \subseteq FaultKind

VARIABLES
    csv,         \* rows of leads.csv after the header
    header,      \* its header: "none" (empty file), "other" or "current" schema
    dirty,       \* the file was rewritten and not fsynced since
    discovered,  \* records table: the ids registered
    commits,     \* records table: committed ids with committed_row, oldest first
    synced,      \* how many of commits survive a power failure
    pc,          \* where the process is
    buf,         \* rows a rewrite holds in memory
    current,     \* the record in the commit stage
    rowCount,    \* AtomicCSVWriter._row_count
    seen         \* the businesses this session's resolver knows

disk == <<csv, header, dirty>>
db   == <<discovered, commits, synced>>
vars == <<csv, header, dirty, discovered, commits, synced, pc, buf, current, rowCount, seen>>

Business  == {BusinessOf[r] : r \in Record}
Committed == [id : Record, row : Nat]
Row       == Record \cup Damaged
Rewriting == {"migrating", "recovering", "truncating"}
Starting  == {"open", "reconcile"} \cup Rewriting
Serving   == {"ready", "registering", "marking"}

TypeOK ==
    /\ csv \in Seq(Row)
    /\ header \in {"none", "other", "current"}
    /\ dirty \in BOOLEAN
    /\ discovered \in SUBSET Record
    /\ commits \in Seq(Committed)
    /\ synced \in 0..Len(commits)
    /\ pc \in {"down"} \cup Starting \cup Serving
    /\ buf \in Seq(Row)
    /\ current \in Record \cup {NoRecord}
    /\ rowCount \in Nat
    /\ seen \in SUBSET Business

Init ==
    /\ csv = <<>> /\ header = "none" /\ dirty = FALSE
    /\ discovered = {} /\ commits = <<>> /\ synced = 0
    /\ pc = "down" /\ buf = <<>> /\ current = NoRecord /\ rowCount = 0
    /\ seen = {}

-----------------------------------------------------------------------------
(* Helpers *)

committedIds == [i \in 1..Len(commits) |-> commits[i].id]

EndsIn(rows, kinds) == rows # <<>> /\ rows[Len(rows)] \in kinds

\* The rows after text for r is added to the file: a row cut inside its last
\* field has no line end, so the text runs on in the same line.
Appended(rows, r, joined) ==
    IF EndsIn(rows, {"long"}) THEN [rows EXCEPT ![Len(rows)] = joined]
                              ELSE Append(rows, r)

\* Mutant: without ORDER BY the rows come in any order, and a rebuilt file may
\* have a committed row moved.
InAnyOrder ==
    LET n == Len(commits) IN
    {[i \in 1..n |-> commits[p[i]].id] : p \in {q \in [1..n -> 1..n] : IsInjective(q)}}

\* iter_committed_rows: ORDER BY committed_row, equal rows in any order.
InRowOrder ==
    LET n == Len(commits)
        Sorted(p) == \A i, j \in 1..n : i < j => commits[p[i]].row <= commits[p[j]].row
    IN  IF \A i, j \in 1..n : i < j => commits[i].row < commits[j].row
        THEN {committedIds}
        ELSE { [i \in 1..n |-> commits[p[i]].id] :
                 p \in {q \in [1..n -> 1..n] : IsInjective(q) /\ Sorted(q)} }

\* open(path, "w"): the file is empty until the rewrite is written out.
BeginRewrite(rows, where) ==
    /\ csv' = <<>> /\ header' = "none"
    /\ buf' = rows
    /\ pc' = where

EndRewrite(fsynced, where) ==
    /\ csv' = buf /\ header' = "current" /\ dirty' = ~fsynced
    /\ buf' = <<>>
    /\ pc' = where

-----------------------------------------------------------------------------
(* Start-up: Pipeline.__init__ *)

\* _migrate_csv_schema returns at once: no file, empty file, current header.
SkipMigration ==
    /\ pc = "down" /\ header # "other"
    /\ pc' = "open"
    /\ UNCHANGED <<disk, db, buf, current, rowCount, seen>>

\* _migrate_csv_schema rebuilds the file from the committed records.
BeginMigration ==
    /\ pc = "down" /\ header = "other"
    /\ \E rows \in InRowOrder : BeginRewrite(rows, "migrating")
    /\ UNCHANGED <<dirty, db, current, rowCount, seen>>

EndMigration ==
    /\ pc = "migrating"
    /\ EndRewrite(TRUE, "open")
    /\ UNCHANGED <<db, current, rowCount, seen>>

\* AtomicCSVWriter._open on a missing or empty file.
OpenNew ==
    /\ pc = "open" /\ header = "none"
    /\ header' = "current" /\ dirty' = FALSE
    /\ rowCount' = 0
    /\ pc' = "reconcile"
    /\ UNCHANGED <<csv, db, buf, current, seen>>

\* _open when _recover finds the last row whole.
OpenExisting ==
    /\ pc = "open" /\ header = "current" /\ ~EndsIn(csv, {"short", "mangled"})
    /\ rowCount' = Len(csv)
    /\ pc' = "reconcile"
    /\ UNCHANGED <<disk, db, buf, current, seen>>

\* _recover: the last row has the wrong number of fields and is dropped.
BeginRecover ==
    /\ pc = "open" /\ header = "current" /\ EndsIn(csv, {"short", "mangled"})
    /\ BeginRewrite(SubSeq(csv, 1, Len(csv) - 1), "recovering")
    /\ UNCHANGED <<dirty, db, current, rowCount, seen>>

EndRecover ==
    /\ pc = "recovering"
    /\ EndRewrite(FALSE, "reconcile")
    /\ rowCount' = Len(buf)
    /\ UNCHANGED <<db, current, seen>>

\* Mutant: the rows beyond the committed count stay.
ReconciledAlways ==
    /\ pc = "reconcile"
    /\ pc' = "ready"
    /\ UNCHANGED <<disk, db, buf, current, rowCount, seen>>

\* Mutant: the resolver of a new session starts empty.
ReconciledUnseeded ==
    /\ pc = "reconcile" /\ rowCount <= Len(commits)
    /\ pc' = "ready"
    /\ UNCHANGED <<disk, db, buf, current, rowCount, seen>>

\* _reconcile_csv_with_checkpoint: nothing beyond the committed count.  The
\* resolver is then seeded with the committed records (seed_sets).
Reconciled ==
    /\ pc = "reconcile" /\ rowCount <= Len(commits)
    /\ seen' = {BusinessOf[r] : r \in Range(committedIds)}
    /\ pc' = "ready"
    /\ UNCHANGED <<disk, db, buf, current, rowCount>>

\* Mutant: no row is cut off.
BeginTruncateNothing ==
    /\ pc = "reconcile" /\ rowCount > Len(commits)
    /\ BeginRewrite(csv, "truncating")
    /\ UNCHANGED <<dirty, db, current, rowCount, seen>>

\* _reconcile_csv_with_checkpoint: truncate_to(committed) keeps the first rows.
BeginTruncate ==
    /\ pc = "reconcile" /\ rowCount > Len(commits)
    /\ BeginRewrite(SubSeq(csv, 1, Len(commits)), "truncating")
    /\ UNCHANGED <<dirty, db, current, rowCount, seen>>

\* truncate_to ends by calling _open again.
EndTruncate ==
    /\ pc = "truncating"
    /\ EndRewrite(TRUE, "open")
    /\ UNCHANGED <<db, current, rowCount, seen>>

-----------------------------------------------------------------------------
(* The commit stage *)

\* A listing reaches the commit stage under a uuid of its own, when the resolver
\* does not know its business yet.
Fresh(r) ==
    /\ r \notin discovered \cup Range(csv) \cup Range(committedIds)
    /\ BusinessOf[r] \notin seen

\* csv.append: write, flush, fsync.
AppendRow(r) ==
    /\ pc = "ready" /\ Fresh(r)
    /\ seen' = seen \cup {BusinessOf[r]}
    /\ csv' = Appended(csv, r, "mangled") /\ dirty' = FALSE
    /\ rowCount' = rowCount + 1
    /\ current' = r
    /\ pc' = "registering"
    /\ UNCHANGED <<header, db, buf>>

RegisterRecord ==
    /\ pc = "registering"
    /\ discovered' = discovered \cup {current}
    /\ pc' = "marking"
    /\ UNCHANGED <<disk, commits, synced, buf, current, rowCount, seen>>

\* Mutant: the row is numbered one too low.
MarkCommittedOffByOne ==
    /\ pc = "marking"
    /\ commits' = Append(commits, [id |-> current, row |-> rowCount - 2])
    /\ current' = NoRecord
    /\ pc' = "ready"
    /\ UNCHANGED <<disk, discovered, synced, buf, rowCount, seen>>

MarkCommitted ==
    /\ pc = "marking"
    /\ commits' = Append(commits, [id |-> current, row |-> rowCount - 1])
    /\ current' = NoRecord
    /\ pc' = "ready"
    /\ UNCHANGED <<disk, discovered, synced, buf, rowCount, seen>>

\* csv.append raises before it counts the row, which is in the file or not.
AppendRaises(r) ==
    /\ "commit_error" \in Faults
    /\ pc = "ready" /\ Fresh(r)
    /\ seen' = seen \cup {BusinessOf[r]}
    /\ csv' \in {csv, Appended(csv, r, "mangled")}
    /\ UNCHANGED <<header, dirty, db, pc, buf, current, rowCount>>

\* register_record or mark_committed raises: _committer_loop counts a failure
\* and takes the next record.  Nothing is rolled back: the resolver goes on
\* knowing the business in this session, and the next one is not seeded with it.
CommitRaises ==
    /\ "commit_error" \in Faults
    /\ pc \in {"registering", "marking"}
    /\ current' = NoRecord
    /\ pc' = "ready"
    /\ UNCHANGED <<disk, db, buf, rowCount, seen>>

\* SQLite (WAL, synchronous=NORMAL) syncs the log only when it checkpoints it.
WalSync ==
    /\ pc # "down" /\ synced # Len(commits)
    /\ synced' = Len(commits)
    /\ UNCHANGED <<disk, discovered, commits, pc, buf, current, rowCount, seen>>

\* Pipeline.close
Close ==
    /\ pc = "ready"
    /\ pc' = "down"
    /\ dirty' = FALSE
    /\ synced' = Len(commits)
    /\ seen' = {}
    /\ UNCHANGED <<csv, header, discovered, commits, buf, current, rowCount>>

-----------------------------------------------------------------------------
(* Faults *)

Stop ==
    /\ pc' = "down" /\ buf' = <<>> /\ current' = NoRecord /\ rowCount' = 0
    /\ seen' = {}

\* What the file may hold after the process stops outside a rewrite: a header
\* or a row of which only a part was written.
FileCutShort ==
    \/ UNCHANGED <<csv, header>>
    \/ pc = "open" /\ header = "none" /\ header' = "other" /\ UNCHANGED csv
    \/ /\ pc = "ready"
       /\ \E part \in {"short", "long"} : csv' = Appended(csv, part, "short")
       /\ UNCHANGED header

Crash ==
    /\ "crash" \in Faults
    /\ pc \notin Rewriting \cup {"down"}
    /\ FileCutShort
    /\ Stop
    /\ UNCHANGED <<dirty, db>>

\* A rewrite that never reached its end leaves some of its rows, the last
\* perhaps cut short.
PartlyWritten(rows) ==
    /\ \E k \in 0..Len(rows), part \in {<<>>, <<"short">>, <<"long">>} :
          /\ k = Len(rows) => part = <<>>
          /\ csv' = SubSeq(rows, 1, k) \o part
    /\ IF csv' = <<>> THEN header' \in {"none", "other", "current"}
                      ELSE header' = "current"

RewriteCrash ==
    /\ "rewrite_crash" \in Faults
    /\ pc \in Rewriting
    /\ PartlyWritten(buf)
    /\ Stop
    /\ UNCHANGED <<dirty, db>>

\* The machine stops (inside a rewrite: RewriteCrash, then this).  SQLite comes
\* back with a prefix of its commits that holds the synced ones.
PowerLoss ==
    /\ "power_loss" \in Faults
    /\ pc \notin Rewriting
    /\ \/ dirty /\ "rewrite_crash" \in Faults /\ PartlyWritten(csv)
       \/ FileCutShort
    /\ dirty' = FALSE
    /\ \E k \in synced..Len(commits) : commits' = SubSeq(commits, 1, k)
    /\ discovered' \in { D \in SUBSET discovered :
                           \A i \in 1..Len(commits') : commits'[i].id \in D }
    /\ Stop
    /\ UNCHANGED synced

\* A column is added to, or removed from, the configuration between runs.
SchemaChange ==
    /\ "schema_change" \in Faults
    /\ pc = "down" /\ header = "current"
    /\ header' = "other"
    /\ UNCHANGED <<csv, dirty, db, pc, buf, current, rowCount, seen>>

-----------------------------------------------------------------------------
Startup ==
    \/ SkipMigration \/ BeginMigration \/ EndMigration
    \/ OpenNew \/ OpenExisting \/ BeginRecover \/ EndRecover
    \/ Reconciled \/ BeginTruncate \/ EndTruncate

Commit == (\E r \in Record : AppendRow(r)) \/ RegisterRecord \/ MarkCommitted

Fault ==
    \/ (\E r \in Record : AppendRaises(r)) \/ CommitRaises
    \/ Crash \/ RewriteCrash \/ PowerLoss \/ SchemaChange

Next == Startup \/ Commit \/ WalSync \/ Close \/ Fault

Spec == Init /\ [][Next]_vars

\* Start-up is straight-line code of the main thread: once begun it goes on
\* unless something stops the process.
FairSpec == Spec /\ WF_vars(Startup)

-----------------------------------------------------------------------------
(* Properties *)

\* The rows a reader of the file gets once the rewrite under way is done.
Contents == IF pc \in Rewriting THEN buf ELSE csv

(***************************************************************************)
(* No committed record is missing from the export: the i-th committed       *)
(* record is the i-th row of leads.csv, whatever stopped the process before *)
(* (csv_writer.py: "a crash never loses a committed row").                  *)
(***************************************************************************)
CommittedRowsExported ==
    \A i \in 1..Len(commits) : i <= Len(Contents) /\ Contents[i] = commits[i].id


(***************************************************************************)
(* When a session is ready for the next record, the export holds exactly    *)
(* the committed records: every row of an interrupted commit is gone, no    *)
(* damaged row is left for later rows to run into.                          *)
(***************************************************************************)
ReadyMeansReconciled == pc = "ready" => csv = committedIds

(***************************************************************************)
(* No business has two rows in the export, however often the process or the *)
(* machine stops: the row of an interrupted commit, which the next session  *)
(* does not know of and collects again under a new uuid, is cut off before  *)
(* (pipeline.py:350: "the same business is cleanly re-collected").  After a *)
(* raising append or checkpoint call, or a rewrite cut short, it is not.    *)
(***************************************************************************)
NoDuplicateRows ==
    \A i, j \in 1..Len(csv) :
        /\ csv[i] \in Record /\ csv[j] \in Record
        /\ BusinessOf[csv[i]] = BusinessOf[csv[j]]
        => i = j

(***************************************************************************)
(* Start-up comes to an end on whatever files the faults left behind:       *)
(* truncate_to re-opens the file, which may recover it once more, and the   *)
(* three steps never chase each other.                                      *)
(***************************************************************************)
StartupTerminates == pc \in Starting ~> pc \in {"ready", "down"}

(***************************************************************************)
(* Rows and checkpoint together implement the abstract export log: leads    *)
(* are only ever added at the end, and only a power failure removes any.    *)
(***************************************************************************)
Log == INSTANCE ExportLog WITH log <- SubSeq(Contents, 1, Len(commits)),
                               stable <- synced
ExportLogSpec == Log!Spec
=============================================================================
