------------------------ MODULE DurableExportProofs ------------------------
(***************************************************************************)
(* Proofs about DurableExport for any number of records and businesses: its *)
(* types, and that start-up does not run in circles, under every fault; and *)
(* as long as no rewrite of the CSV is cut short and no append or           *)
(* checkpoint call raises, that no committed row is ever missing, that the  *)
(* files implement the abstract export log and that no business has two     *)
(* rows.                                                                    *)
(***************************************************************************)
EXTENDS DurableExport, SequenceTheorems, TLAPS

USE RecordAssumption

-----------------------------------------------------------------------------
(* Type correctness, under every fault *)

\* Adding the text of a row to a file leaves a file of rows.
LEMMA AppendedType ==
  ASSUME NEW rows \in Seq(Row), NEW r \in Row, NEW joined \in Row
  PROVE  Appended(rows, r, joined) \in Seq(Row)
<1>1. CASE EndsIn(rows, {"long"})
  BY <1>1, ExceptSeq, LenProperties DEF Appended, EndsIn
<1>2. CASE ~EndsIn(rows, {"long"})
  BY <1>2 DEF Appended
<1>. QED BY <1>1, <1>2

\* A prefix of a sequence is a sequence.
LEMMA PrefixType ==
  ASSUME NEW S, NEW s \in Seq(S), NEW k \in 0..Len(s)
  PROVE  /\ SubSeq(s, 1, k) \in Seq(S)
         /\ Len(SubSeq(s, 1, k)) = k
         /\ \A i \in 1..k : SubSeq(s, 1, k)[i] = s[i]
<1>1. \A i \in 1..k : s[i] \in S
  BY ElementOfSeq
<1>. QED BY <1>1, SubSeqProperties

\* The commits are a sequence of committed records.
LEMMA CommitsType ==
  ASSUME TypeOK
  PROVE  /\ Len(commits) \in Nat
         /\ \A i \in 1..Len(commits) : /\ commits[i] \in Committed
                                      /\ commits[i].id \in Record
                                      /\ commits[i].row \in Nat
<1>1. Len(commits) \in Nat
  BY LenProperties DEF TypeOK
<1>2. \A i \in 1..Len(commits) : commits[i] \in Committed
  BY ElementOfSeq DEF TypeOK
<1>. QED BY <1>1, <1>2 DEF Committed

\* Their ids are a sequence of rows, one for each commit.
LEMMA CommittedIdsType ==
  ASSUME TypeOK
  PROVE  /\ committedIds \in Seq(Row)
         /\ Len(committedIds) = Len(commits)
         /\ \A i \in 1..Len(commits) : committedIds[i] = commits[i].id
<1>1. committedIds \in [1..Len(commits) -> Row]
  BY CommitsType DEF committedIds, Row
<1>. QED BY <1>1, CommitsType, SeqDef DEF committedIds

\* What iter_committed_rows yields is a sequence of rows.
LEMMA InRowOrderType ==
  ASSUME TypeOK, NEW rows \in InRowOrder
  PROVE  rows \in Seq(Row)
<1>. DEFINE n == Len(commits)
<1>1. \A i \in 1..n : commits[i].id \in Row
  BY CommitsType DEF Row
<1>2. \A p \in [1..n -> 1..n] : [i \in 1..n |-> commits[p[i]].id] \in [1..n -> Row]
  BY <1>1
<1>3. rows \in [1..n -> Row] \/ rows = committedIds
  BY <1>2 DEF InRowOrder
<1>. QED BY <1>3, CommitsType, CommittedIdsType, SeqDef

\* A rewrite cut short leaves a file of rows under some header.
LEMMA PartlyWrittenType ==
  ASSUME NEW rows \in Seq(Row), PartlyWritten(rows)
  PROVE  csv' \in Seq(Row) /\ header' \in {"none", "other", "current"}
<1>1. PICK k \in 0..Len(rows), part \in {<<>>, <<"short">>, <<"long">>} :
           csv' = SubSeq(rows, 1, k) \o part
  BY DEF PartlyWritten
<1>2. part \in Seq(Row)
  <2>1. "short" \in Row /\ "long" \in Row
    BY DEF Row, Damaged
  <2>2. <<>> \in Seq(Row) /\ <<"short">> \in Seq(Row) /\ <<"long">> \in Seq(Row)
    BY <2>1
  <2>. QED BY <2>2
<1>3. csv' \in Seq(Row)
  BY <1>1, <1>2, PrefixType, ConcatProperties
<1>. QED BY <1>3 DEF PartlyWritten

\* So does an append or a header cut short.
LEMMA FileCutShortType ==
  ASSUME TypeOK, FileCutShort
  PROVE  csv' \in Seq(Row) /\ header' \in {"none", "other", "current"}
<1>1. \A part \in {"short", "long"} : Appended(csv, part, "short") \in Seq(Row)
  BY AppendedType DEF TypeOK, Row, Damaged
<1>. QED BY <1>1 DEF FileCutShort, TypeOK

(***************************************************************************)
(* Where the process is tells what it holds: a record inside the commit     *)
(* stage, a row count that agrees with the file before it is reconciled,    *)
(* and a header in every file that has rows.                                *)
(***************************************************************************)
ControlOK ==
    /\ pc \in {"registering", "marking"} => current \in Record /\ rowCount > 0
    /\ pc = "reconcile" => rowCount = Len(csv)
    /\ pc \in {"reconcile"} \cup Serving => header = "current"
    /\ header = "none" => csv = <<>>

\* An append or a header cut short leaves no rows without a header.
LEMMA FileCutShortControl ==
  ASSUME TypeOK, ControlOK, FileCutShort
  PROVE  header' = "none" => csv' = <<>>
BY DEF ControlOK, FileCutShort, Serving

\* Neither does a rewrite cut short.
LEMMA PartlyWrittenControl ==
  ASSUME NEW rows, PartlyWritten(rows)
  PROVE  header' = "none" => csv' = <<>>
BY DEF PartlyWritten

\* The resolver is seeded with businesses.
LEMMA SeededType ==
  ASSUME TypeOK
  PROVE  {BusinessOf[r] : r \in Range(committedIds)} \subseteq Business
<1>1. Range(committedIds) \subseteq Record
  BY CommitsType DEF Range, committedIds
<1>. QED BY <1>1 DEF Business

\* Every step keeps the types and where the program can be.
LEMMA TypeStep ==
  ASSUME TypeOK, ControlOK, [Next]_vars
  PROVE  TypeOK' /\ ControlOK'
<1>. USE DEF TypeOK, ControlOK, Starting, Serving, Rewriting
<1>1. CASE SkipMigration
  BY <1>1 DEF SkipMigration, disk, db
<1>2. CASE BeginMigration
  BY <1>2, InRowOrderType DEF BeginMigration, BeginRewrite, db
<1>3. CASE EndMigration
  BY <1>3 DEF EndMigration, EndRewrite, db
<1>4. CASE OpenNew
  BY <1>4 DEF OpenNew, db
<1>5. CASE OpenExisting
  BY <1>5, LenProperties DEF OpenExisting, disk, db
<1>6. CASE BeginRecover
  <2>1. SubSeq(csv, 1, Len(csv) - 1) \in Seq(Row)
    BY <1>6, PrefixType, EmptySeq DEF BeginRecover, EndsIn
  <2>. QED BY <1>6, <2>1 DEF BeginRecover, BeginRewrite, db
<1>7. CASE EndRecover
  BY <1>7, LenProperties DEF EndRecover, EndRewrite, db
<1>8. CASE Reconciled
  BY <1>8, SeededType DEF Reconciled, disk, db
<1>9. CASE BeginTruncate
  <2>1. SubSeq(csv, 1, Len(commits)) \in Seq(Row)
    BY <1>9, PrefixType, CommitsType DEF BeginTruncate
  <2>. QED BY <1>9, <2>1 DEF BeginTruncate, BeginRewrite, db
<1>10. CASE EndTruncate
  BY <1>10 DEF EndTruncate, EndRewrite, db
<1>11. ASSUME NEW r \in Record, AppendRow(r)
       PROVE  TypeOK' /\ ControlOK'
  <2>1. Appended(csv, r, "mangled") \in Seq(Row)
    BY AppendedType DEF Row, Damaged
  <2>2. TypeOK'
    <3>1. dirty' \in BOOLEAN
      BY <1>11, Zenon DEF AppendRow
    <3>2. seen' \in SUBSET Business
      BY <1>11 DEF AppendRow, Business
    <3>. QED BY <1>11, <2>1, <3>1, <3>2 DEF AppendRow, db
  <2>3. header' = "current" /\ rowCount' > 0 /\ pc' = "registering" /\ current' \in Record
    BY <1>11 DEF AppendRow
  <2>. QED BY <2>2, <2>3
<1>12. CASE RegisterRecord
  BY <1>12 DEF RegisterRecord, disk
<1>13. CASE MarkCommitted
  <2>1. [id |-> current, row |-> rowCount - 1] \in Committed
    BY <1>13 DEF MarkCommitted, Committed
  <2>2. /\ commits' \in Seq(Committed)
        /\ Len(commits') = Len(commits) + 1
    BY <1>13, <2>1, AppendProperties DEF MarkCommitted
  <2>. QED BY <1>13, <2>2, CommitsType DEF MarkCommitted, disk
<1>14. CASE WalSync
  BY <1>14, CommitsType DEF WalSync, disk
<1>15. CASE Close
  <2>1. TypeOK'
    <3>1. dirty' \in BOOLEAN
      BY <1>15, Zenon DEF Close
    <3>. QED BY <1>15, <3>1, CommitsType DEF Close
  <2>2. pc' = "down" /\ UNCHANGED <<header, csv>>
    BY <1>15 DEF Close
  <2>. QED BY <2>1, <2>2
<1>16. CASE CommitRaises
  BY <1>16 DEF CommitRaises, disk, db
<1>22. ASSUME NEW r \in Record, AppendRaises(r)
       PROVE  TypeOK' /\ ControlOK'
  <2>1. Appended(csv, r, "mangled") \in Seq(Row)
    BY AppendedType DEF Row, Damaged
  <2>2. seen' \in SUBSET Business
    BY <1>22 DEF AppendRaises, Business
  <2>3. csv' \in Seq(Row) /\ pc = "ready"
    BY <1>22, <2>1 DEF AppendRaises
  <2>. QED BY <1>22, <2>2, <2>3 DEF AppendRaises, db
<1>17. CASE Crash
  BY <1>17, FileCutShortType, FileCutShortControl DEF Crash, Stop, db
<1>18. CASE RewriteCrash
  BY <1>18, PartlyWrittenType, PartlyWrittenControl DEF RewriteCrash, Stop, db
<1>19. CASE PowerLoss
  <2>1. PICK k \in synced..Len(commits) : commits' = SubSeq(commits, 1, k)
    BY <1>19 DEF PowerLoss
  <2>2. commits' \in Seq(Committed) /\ Len(commits') = k
    BY <2>1, PrefixType, CommitsType
  <2>3. /\ csv' \in Seq(Row)
        /\ header' \in {"none", "other", "current"}
        /\ header' = "none" => csv' = <<>>
    BY <1>19, PartlyWrittenType, PartlyWrittenControl, FileCutShortType, FileCutShortControl
       DEF PowerLoss
  <2>4. /\ pc' = "down" /\ buf' = <<>> /\ current' = NoRecord /\ rowCount' = 0
        /\ synced' = synced /\ discovered' \subseteq discovered /\ seen' = {}
    BY <1>19 DEF PowerLoss, Stop
  <2>7. dirty' \in BOOLEAN
    BY <1>19, Zenon DEF PowerLoss
  <2>5. k \in Nat /\ synced \in 0..k
    BY CommitsType
  <2>6. TypeOK'
    BY <2>2, <2>3, <2>4, <2>5, <2>7
  <2>. QED BY <2>3, <2>4, <2>6
<1>20. CASE SchemaChange
  BY <1>20 DEF SchemaChange, db
<1>21. CASE UNCHANGED vars
  BY <1>21 DEF vars
<1>. QED
  BY <1>1, <1>2, <1>3, <1>4, <1>5, <1>6, <1>7, <1>8, <1>9, <1>10, <1>11, <1>12,
     <1>13, <1>14, <1>15, <1>16, <1>17, <1>18, <1>19, <1>20, <1>21, <1>22
     DEF Next, Startup, Commit, Fault

(***************************************************************************)
(* Every variable keeps its type, whichever faults are enabled.             *)
(***************************************************************************)
THEOREM TypeCorrect == Spec => [](TypeOK /\ ControlOK)
<1>1. Init => TypeOK /\ ControlOK
  <2>. SUFFICES ASSUME Init PROVE TypeOK /\ ControlOK
    OBVIOUS
  <2>1. Len(commits) = 0 /\ csv \in Seq(Row) /\ buf \in Seq(Row) /\ commits \in Seq(Committed)
    BY EmptySeq DEF Init
  <2>2. TypeOK
    <3>1. dirty \in BOOLEAN
      BY Zenon DEF Init
    <3>. QED BY <2>1, <3>1 DEF Init, TypeOK
  <2>3. ControlOK
    BY DEF Init, ControlOK, Serving
  <2>. QED BY <2>2, <2>3
<1>. QED BY <1>1, TypeStep, PTL DEF Spec

-----------------------------------------------------------------------------
(* No committed row is ever missing *)

(***************************************************************************)
(* The faults the protocol is built for: the process or the machine may     *)
(* stop, but not inside a rewrite of the CSV, and the calls succeed.        *)
(***************************************************************************)
StopsOnly == Faults \cap {"commit_error", "rewrite_crash"} = {}

(***************************************************************************)
(* The strengthening.  Rows were numbered as they were committed, so the    *)
(* i-th commit names row i-1; and the rows beyond the committed ones are    *)
(* exactly those of the commit under way.                                   *)
(***************************************************************************)
RowsNumbered == \A i \in 1..Len(commits) : commits[i].row = i - 1

CommittedOnce ==
    \A i, j \in 1..Len(commits) : commits[i].id = commits[j].id => i = j

Surplus ==
    /\ pc = "ready" => Len(csv) = Len(commits) /\ rowCount = Len(csv)
    /\ pc \in {"registering", "marking"} =>
          /\ Len(csv) = Len(commits) + 1
          /\ rowCount = Len(csv)
          /\ csv[Len(csv)] = current
          /\ \A i \in 1..Len(commits) : commits[i].id # current

Aligned == CommittedRowsExported /\ RowsNumbered /\ CommittedOnce /\ Surplus

\* A rewrite that keeps at least the committed rows keeps them in place.
LEMMA BeginRewriteAligned ==
  ASSUME TypeOK, ControlOK, Aligned, pc \notin Rewriting,
         NEW k \in Len(commits)..Len(csv), NEW where \in Rewriting,
         BeginRewrite(SubSeq(csv, 1, k), where), UNCHANGED commits
  PROVE  Aligned'
<1>1. /\ buf' = SubSeq(csv, 1, k)
      /\ pc' = where
      /\ commits' = commits
  BY DEF BeginRewrite
<1>2. /\ Len(buf') = k
      /\ \A i \in 1..k : buf'[i] = csv[i]
  BY <1>1, CommitsType, LenProperties, PrefixType DEF TypeOK
<1>3. \A i \in 1..Len(commits) : i <= Len(csv) /\ csv[i] = commits[i].id
  BY DEF Aligned, CommittedRowsExported, Contents
<1>4. CommittedRowsExported'
  BY <1>1, <1>2, <1>3, CommitsType DEF CommittedRowsExported, Contents
<1>. QED
  BY <1>1, <1>4 DEF Aligned, RowsNumbered, CommittedOnce, Surplus, Rewriting

\* The end of a rewrite puts the rows it held in the file.
LEMMA EndRewriteAligned ==
  ASSUME Aligned, pc \in Rewriting, NEW fsynced, NEW where \in {"open", "reconcile"},
         EndRewrite(fsynced, where), UNCHANGED commits
  PROVE  Aligned'
<1>1. csv' = buf /\ pc' = where /\ commits' = commits
  BY DEF EndRewrite
<1>2. CommittedRowsExported'
  BY <1>1 DEF Aligned, CommittedRowsExported, Contents, Rewriting
<1>. QED
  BY <1>1, <1>2 DEF Aligned, RowsNumbered, CommittedOnce, Surplus

\* Steps that leave file and commits alone outside a rewrite.
LEMMA QuietAligned ==
  ASSUME Aligned, pc \notin Rewriting, UNCHANGED <<csv, commits>>,
         pc' \in {"down", "open", "reconcile"}
  PROVE  Aligned'
BY DEF Aligned, CommittedRowsExported, RowsNumbered, CommittedOnce, Surplus,
       Contents, Rewriting

\* The file never ends in a damaged row while a session is ready.
LEMMA ReadyEndsWhole ==
  ASSUME TypeOK, Aligned, pc = "ready"
  PROVE  ~EndsIn(csv, {"short", "long", "mangled"})
<1>. SUFFICES ASSUME csv # <<>>
              PROVE  csv[Len(csv)] \in Record
  BY RecordAssumption DEF EndsIn, Damaged
<1>1. Len(csv) \in 1..Len(commits)
  BY EmptySeq, LenProperties DEF TypeOK, Aligned, Surplus
<1>. QED
  BY <1>1, CommitsType DEF Aligned, CommittedRowsExported, Contents, Rewriting

\* An append to the file of a ready session starts a row of its own.
LEMMA AppendedWhole ==
  ASSUME TypeOK, Aligned, pc = "ready", NEW r \in Row, NEW joined \in Row
  PROVE  /\ Appended(csv, r, joined) = Append(csv, r)
         /\ Len(Append(csv, r)) = Len(csv) + 1
         /\ \A i \in 1..Len(csv) : Append(csv, r)[i] = csv[i]
         /\ Append(csv, r)[Len(csv) + 1] = r
<1>1. ~EndsIn(csv, {"long"})
  BY ReadyEndsWhole DEF EndsIn
<1>. QED BY <1>1, AppendProperties DEF Appended, TypeOK

\* A process that stops outside a rewrite leaves the committed rows in place.
LEMMA FileCutShortAligned ==
  ASSUME TypeOK, Aligned, pc \notin Rewriting, FileCutShort
  PROVE  \A i \in 1..Len(commits) : i <= Len(csv') /\ csv'[i] = commits[i].id
<1>1. \A i \in 1..Len(commits) : i <= Len(csv) /\ csv[i] = commits[i].id
  BY DEF Aligned, CommittedRowsExported, Contents
<1>2. CASE csv' = csv
  BY <1>1, <1>2
<1>3. ASSUME pc = "ready", NEW part \in {"short", "long"},
             csv' = Appended(csv, part, "short")
      PROVE  \A i \in 1..Len(commits) : i <= Len(csv') /\ csv'[i] = commits[i].id
  <2>1. part \in Row /\ "short" \in Row
    BY DEF Row, Damaged
  <2>4. pc = "ready" /\ csv' = Appended(csv, part, "short")
    BY <1>3
  <2>5. csv' = Append(csv, part)
    BY <2>1, <2>4, AppendedWhole
  <2>2. Len(csv') = Len(csv) + 1 /\ \A i \in 1..Len(csv) : csv'[i] = csv[i]
    BY <2>1, <2>5, AppendProperties DEF TypeOK
  <2>3. Len(csv) \in Nat /\ Len(commits) \in Nat
    BY CommitsType, LenProperties DEF TypeOK
  <2>6. \A i \in 1..Len(commits) : i \in 1..Len(csv)
    BY <1>1, <2>3
  <2>. QED BY <1>1, <2>2, <2>3, <2>6
<1>. QED BY <1>2, <1>3 DEF FileCutShort

\* Every step keeps the committed rows in place, the ids of the commits distinct
\* and the rows numbered, as long as nothing but stops and schema changes happens.
LEMMA AlignedStep ==
  ASSUME StopsOnly, TypeOK, ControlOK, Aligned, [Next]_vars
  PROVE  Aligned'
<1>1. CASE SkipMigration
  BY <1>1, QuietAligned DEF SkipMigration, disk, db, Rewriting
<1>2. CASE BeginMigration
  <2>1. \A i, j \in 1..Len(commits) : i < j => commits[i].row < commits[j].row
    BY CommitsType DEF Aligned, RowsNumbered
  <2>2. InRowOrder = {committedIds}
    BY <2>1 DEF InRowOrder
  <2>3. buf' = committedIds /\ pc' = "migrating" /\ commits' = commits
    BY <1>2, <2>2 DEF BeginMigration, BeginRewrite, db
  <2>4. CommittedRowsExported'
    BY <2>3, CommittedIdsType, CommitsType DEF CommittedRowsExported, Contents, Rewriting
  <2>. QED BY <2>3, <2>4 DEF Aligned, RowsNumbered, CommittedOnce, Surplus
<1>3. CASE EndMigration
  BY <1>3, EndRewriteAligned DEF EndMigration, Rewriting, db
<1>4. CASE OpenNew
  BY <1>4, QuietAligned DEF OpenNew, Rewriting, db
<1>5. CASE OpenExisting
  BY <1>5, QuietAligned DEF OpenExisting, disk, Rewriting, db
<1>6. CASE BeginRecover
  <2>1. pc \notin Rewriting /\ commits' = commits
    BY <1>6 DEF BeginRecover, Rewriting, db
  <2>2. csv # <<>> /\ csv[Len(csv)] \in Damaged
    BY <1>6 DEF BeginRecover, EndsIn, Damaged
  <2>3. Len(csv) \in Nat \ {0}
    BY <2>2, EmptySeq DEF TypeOK
  <2>4. Len(commits) <= Len(csv) - 1
    <3>1. \A i \in 1..Len(commits) : i <= Len(csv) /\ csv[i] \in Record
      BY <2>1, CommitsType DEF Aligned, CommittedRowsExported, Contents
    <3>2. Len(csv) \notin 1..Len(commits)
      BY <2>2, <3>1, RecordAssumption
    <3>. QED BY <2>3, <3>1, <3>2, CommitsType
  <2>5. Len(csv) - 1 \in Len(commits)..Len(csv)
    BY <2>3, <2>4, CommitsType
  <2>. QED
    BY <1>6, <2>1, <2>5, BeginRewriteAligned DEF BeginRecover, Rewriting
<1>7. CASE EndRecover
  BY <1>7, EndRewriteAligned DEF EndRecover, Rewriting, db
<1>8. CASE Reconciled
  <2>1. /\ rowCount = Len(csv) /\ rowCount <= Len(commits)
        /\ pc' = "ready"
        /\ UNCHANGED <<csv, commits, rowCount>>
    BY <1>8 DEF Reconciled, ControlOK, disk, db
  <2>2. \A i \in 1..Len(commits) : i <= Len(csv) /\ csv[i] = commits[i].id
    BY <1>8 DEF Reconciled, Aligned, CommittedRowsExported, Contents, Rewriting
  <2>3. Len(csv) = Len(commits)
    BY <2>1, <2>2, CommitsType, LenProperties DEF TypeOK
  <2>4. CommittedRowsExported'
    BY <2>1, <2>2 DEF CommittedRowsExported, Contents, Rewriting
  <2>. QED BY <2>1, <2>3, <2>4 DEF Aligned, RowsNumbered, CommittedOnce, Surplus
<1>9. CASE BeginTruncate
  <2>1. pc \notin Rewriting /\ commits' = commits
    BY <1>9 DEF BeginTruncate, Rewriting, db
  <2>2. Len(commits) \in Len(commits)..Len(csv)
    BY <1>9, CommitsType, LenProperties DEF BeginTruncate, ControlOK, TypeOK
  <2>. QED
    BY <1>9, <2>1, <2>2, BeginRewriteAligned DEF BeginTruncate, Rewriting
<1>10. CASE EndTruncate
  BY <1>10, EndRewriteAligned DEF EndTruncate, Rewriting, db
<1>11. ASSUME NEW r \in Record, AppendRow(r)
       PROVE  Aligned'
  <2>1. /\ pc = "ready" /\ Fresh(r)
        /\ csv' = Appended(csv, r, "mangled")
        /\ rowCount' = rowCount + 1 /\ current' = r
        /\ pc' = "registering"
        /\ commits' = commits
    BY <1>11 DEF AppendRow, db
  <2>2. r \in Row /\ "mangled" \in Row
    BY DEF Row, Damaged
  <2>3. /\ Len(csv') = Len(csv) + 1
        /\ csv'[Len(csv) + 1] = r
        /\ \A i \in 1..Len(csv) : csv'[i] = csv[i]
    BY <2>1, <2>2, AppendedWhole
  <2>4. Len(csv) = Len(commits) /\ rowCount = Len(csv)
    BY <2>1 DEF Aligned, Surplus
  <2>5. \A i \in 1..Len(commits) : csv[i] = commits[i].id
    BY <2>1 DEF Aligned, CommittedRowsExported, Contents, Rewriting
  <2>6. CommittedRowsExported'
    BY <2>1, <2>3, <2>4, <2>5, CommitsType DEF CommittedRowsExported, Contents, Rewriting
  <2>7. \A i \in 1..Len(commits) : commits[i].id # r
    <3>1. \A i \in 1..Len(commits) : commits[i].id \in Range(committedIds)
      BY CommittedIdsType, LenProperties DEF Range
    <3>. QED BY <2>1, <3>1 DEF Fresh
  <2>8. Surplus'
    BY <2>1, <2>3, <2>4, <2>7, CommitsType DEF Surplus
  <2>. QED BY <2>1, <2>6, <2>8 DEF Aligned, RowsNumbered, CommittedOnce
<1>12. CASE RegisterRecord
  <2>1. pc = "registering" /\ pc' = "marking" /\ UNCHANGED <<csv, commits, rowCount, current>>
    BY <1>12 DEF RegisterRecord, disk
  <2>. QED
    BY <2>1 DEF Aligned, CommittedRowsExported, RowsNumbered, CommittedOnce, Surplus,
                Contents, Rewriting
<1>13. CASE MarkCommitted
  <2>. DEFINE new == [id |-> current, row |-> rowCount - 1]
  <2>1. /\ pc = "marking" /\ pc' = "ready"
        /\ commits' = Append(commits, new)
        /\ UNCHANGED <<csv, rowCount>>
    BY <1>13 DEF MarkCommitted, disk
  <2>2. /\ Len(csv) = Len(commits) + 1
        /\ rowCount = Len(csv)
        /\ csv[Len(csv)] = current
        /\ \A i \in 1..Len(commits) : commits[i].id # current
    BY <2>1 DEF Aligned, Surplus
  <2>3. new \in Committed
    BY <2>1 DEF ControlOK, TypeOK, Committed
  <2>4. /\ Len(commits') = Len(commits) + 1
        /\ \A i \in 1..Len(commits) : commits'[i] = commits[i]
        /\ commits'[Len(commits) + 1] = new
    BY <2>1, <2>3, AppendProperties DEF TypeOK
  <2>5. new.id = current /\ new.row = Len(commits)
    BY <2>2, CommitsType
  <2>6. \A i \in 1..Len(commits) : csv[i] = commits[i].id
    BY <2>1 DEF Aligned, CommittedRowsExported, Contents, Rewriting
  <2>7. CommittedRowsExported'
    BY <2>1, <2>2, <2>4, <2>5, <2>6, CommitsType DEF CommittedRowsExported, Contents, Rewriting
  <2>8. RowsNumbered'
    BY <2>4, <2>5, CommitsType DEF Aligned, RowsNumbered
  <2>9. CommittedOnce'
    BY <2>2, <2>4, <2>5, CommitsType DEF Aligned, CommittedOnce
  <2>10. Surplus'
    BY <2>1, <2>2, <2>4 DEF Surplus
  <2>. QED BY <2>7, <2>8, <2>9, <2>10 DEF Aligned
<1>14. CASE WalSync
  BY <1>14 DEF WalSync, disk, Aligned, CommittedRowsExported, RowsNumbered, CommittedOnce,
               Surplus, Contents
<1>15. CASE Close
  BY <1>15, QuietAligned DEF Close, Rewriting
<1>16. CASE CommitRaises
  BY <1>16 DEF CommitRaises, StopsOnly
<1>22. ASSUME NEW r \in Record, AppendRaises(r)
       PROVE  Aligned'
  BY <1>22 DEF AppendRaises, StopsOnly
<1>17. CASE Crash
  <2>1. pc \notin Rewriting /\ FileCutShort /\ pc' = "down" /\ commits' = commits
    BY <1>17 DEF Crash, Stop, db
  <2>2. CommittedRowsExported'
    BY <2>1, FileCutShortAligned DEF CommittedRowsExported, Contents, Rewriting
  <2>. QED BY <2>1, <2>2 DEF Aligned, RowsNumbered, CommittedOnce, Surplus
<1>18. CASE RewriteCrash
  BY <1>18 DEF RewriteCrash, StopsOnly
<1>19. CASE PowerLoss
  <2>1. pc \notin Rewriting /\ FileCutShort /\ pc' = "down"
    BY <1>19 DEF PowerLoss, Stop, StopsOnly
  <2>2. PICK k \in synced..Len(commits) : commits' = SubSeq(commits, 1, k)
    BY <1>19 DEF PowerLoss
  <2>3. k \in 0..Len(commits)
    BY CommitsType DEF TypeOK
  <2>4. Len(commits') = k /\ \A i \in 1..k : commits'[i] = commits[i]
    BY <2>2, <2>3, PrefixType DEF TypeOK
  <2>5. \A i \in 1..k : i \in 1..Len(commits)
    BY <2>3, CommitsType
  <2>6. CommittedRowsExported'
    BY <2>1, <2>4, <2>5, FileCutShortAligned DEF CommittedRowsExported, Contents, Rewriting
  <2>. QED
    BY <2>1, <2>4, <2>5, <2>6 DEF Aligned, RowsNumbered, CommittedOnce, Surplus
<1>20. CASE SchemaChange
  BY <1>20, QuietAligned DEF SchemaChange, Rewriting, db
<1>21. CASE UNCHANGED vars
  BY <1>21 DEF vars, Aligned, CommittedRowsExported, RowsNumbered, CommittedOnce, Surplus,
               Contents
<1>. QED
  BY <1>1, <1>2, <1>3, <1>4, <1>5, <1>6, <1>7, <1>8, <1>9, <1>10, <1>11, <1>12,
     <1>13, <1>14, <1>15, <1>16, <1>17, <1>18, <1>19, <1>20, <1>21, <1>22
     DEF Next, Startup, Commit, Fault

\* Rows and commits are aligned in every reachable state.
LEMMA AlignedAlways ==
  ASSUME StopsOnly
  PROVE  Spec => [](TypeOK /\ ControlOK /\ Aligned)
<1>1. Init => Aligned
  <2>. SUFFICES ASSUME Init PROVE Aligned
    OBVIOUS
  <2>1. Len(commits) = 0 /\ pc = "down"
    BY EmptySeq DEF Init
  <2>. QED
    BY <2>1 DEF Aligned, CommittedRowsExported, RowsNumbered, CommittedOnce, Surplus
<1>2. (TypeOK /\ ControlOK) /\ Aligned /\ [Next]_vars => Aligned'
  BY AlignedStep
<1>. QED BY <1>1, <1>2, TypeCorrect, PTL DEF Spec

(***************************************************************************)
(* Whatever stops the process or the machine outside a rewrite, at whatever *)
(* step and however often, the i-th committed record stays the i-th row of  *)
(* leads.csv.                                                               *)
(***************************************************************************)
THEOREM NoCommittedRowLost ==
  ASSUME StopsOnly
  PROVE  Spec => []CommittedRowsExported
<1>1. Aligned => CommittedRowsExported
  BY DEF Aligned
<1>. QED BY <1>1, AlignedAlways, PTL

(***************************************************************************)
(* Under the same faults a session that is ready for work starts from an    *)
(* export that is exactly the committed records, in commit order.           *)
(***************************************************************************)
THEOREM ReadyIsReconciled ==
  ASSUME StopsOnly
  PROVE  Spec => []ReadyMeansReconciled
<1>1. TypeOK /\ ControlOK /\ Aligned => ReadyMeansReconciled
  <2>. SUFFICES ASSUME TypeOK, Aligned, pc = "ready"
                PROVE  csv = committedIds
    BY DEF ReadyMeansReconciled
  <2>1. Len(csv) = Len(commits)
    BY DEF Aligned, Surplus
  <2>2. \A i \in 1..Len(commits) : csv[i] = commits[i].id
    BY DEF Aligned, CommittedRowsExported, Contents, Rewriting
  <2>. QED
    BY <2>1, <2>2, CommittedIdsType, SeqEqual DEF TypeOK
<1>. QED BY <1>1, AlignedAlways, PTL

-----------------------------------------------------------------------------
(* The files implement the abstract export log *)

exported == SubSeq(Contents, 1, Len(commits))

\* While rows and commits are aligned, the abstract log is the committed ids.
LEMMA ExportedIsCommitted ==
  TypeOK /\ Aligned => exported = committedIds
<1>. SUFFICES ASSUME TypeOK, Aligned
              PROVE  exported = committedIds
  OBVIOUS
<1>1. Contents \in Seq(Row)
  BY DEF TypeOK, Contents
<1>2. Len(commits) \in 0..Len(Contents)
  <2>1. Len(commits) = 0 \/ Len(commits) <= Len(Contents)
    BY CommitsType DEF Aligned, CommittedRowsExported
  <2>. QED BY <1>1, <2>1, CommitsType, LenProperties
<1>3. /\ exported \in Seq(Row)
      /\ Len(exported) = Len(commits)
      /\ \A i \in 1..Len(commits) : exported[i] = Contents[i]
  BY <1>1, <1>2, PrefixType DEF exported
<1>. QED
  BY <1>3, CommittedIdsType, SeqEqual DEF Aligned, CommittedRowsExported

\* A step that leaves the committed records alone leaves the log alone.
LEMMA SameCommits ==
  ASSUME UNCHANGED commits
  PROVE  UNCHANGED committedIds
BY DEF committedIds

\* Every step of the program is a step of the abstract log, or a stutter.
LEMMA ExportedStep ==
  ASSUME StopsOnly, TypeOK, ControlOK, Aligned, [Next]_vars,
         exported = committedIds, (exported = committedIds)'
  PROVE  [Log!Next]_(Log!vars)
<1>. DEFINE Quiet == UNCHANGED <<commits, synced>>
<1>1. ASSUME Quiet
      PROVE  [Log!Next]_(Log!vars)
  <2>1. UNCHANGED <<exported, synced>>
    BY <1>1, SameCommits
  <2>. QED BY <2>1 DEF Log!vars, exported
<1>2. CASE MarkCommitted
  <2>. DEFINE new == [id |-> current, row |-> rowCount - 1]
  <2>1. /\ pc = "marking" /\ synced' = synced
        /\ commits' = Append(commits, new)
    BY <1>2 DEF MarkCommitted
  <2>2. /\ current \in Record
        /\ \A i \in 1..Len(commits) : commits[i].id # current
    BY <2>1 DEF Aligned, Surplus, ControlOK
  <2>3. new \in Committed
    BY <2>1 DEF ControlOK, TypeOK, Committed
  <2>4. /\ Len(commits') = Len(commits) + 1
        /\ \A i \in 1..Len(commits) : commits'[i] = commits[i]
        /\ commits'[Len(commits) + 1].id = current
    BY <2>1, <2>3, AppendProperties DEF TypeOK
  <2>5. /\ Append(committedIds, current) \in Seq(Row)
        /\ Len(Append(committedIds, current)) = Len(commits) + 1
        /\ \A i \in 1..Len(commits) : Append(committedIds, current)[i] = commits[i].id
        /\ Append(committedIds, current)[Len(commits) + 1] = current
    BY <2>2, CommittedIdsType, AppendProperties DEF Row
  <2>6. /\ committedIds' = [i \in 1..(Len(commits) + 1) |-> commits'[i].id]
        /\ DOMAIN Append(committedIds, current) = 1..(Len(commits) + 1)
    BY <2>4, <2>5, LenProperties DEF committedIds
  <2>7. \A i \in 1..(Len(commits) + 1) :
           Append(committedIds, current)[i] = commits'[i].id
    BY <2>4, <2>5, CommitsType
  <2>8. committedIds' = Append(committedIds, current)
    <3>1. Append(committedIds, current)
            = [i \in 1..(Len(commits) + 1) |-> Append(committedIds, current)[i]]
      BY <2>5, <2>6, LenProperties
    <3>. QED BY <2>6, <2>7, <3>1
  <2>9. current \notin Range(committedIds)
    BY <2>2, CommittedIdsType, LenProperties DEF Range
  <2>10. exported' = Append(exported, current) /\ current \notin Range(exported)
    BY <2>8, <2>9
  <2>11. Log!Export(current)
    BY <2>1, <2>10 DEF Log!Export, exported, Log!Range, Range
  <2>. QED BY <2>2, <2>11 DEF Log!Next
<1>3. ASSUME commits' = commits, synced' = Len(commits)
      PROVE  [Log!Next]_(Log!vars)
  <2>1. exported' = exported /\ synced' = Len(exported)
    BY <1>3, SameCommits, CommittedIdsType
  <2>. QED BY <2>1 DEF Log!Next, Log!Stabilize, exported
<1>4. CASE PowerLoss
  <2>1. PICK k \in synced..Len(commits) : commits' = SubSeq(commits, 1, k)
    BY <1>4 DEF PowerLoss
  <2>2. k \in 0..Len(commits) /\ k >= synced /\ synced' = synced
    BY <1>4, CommitsType DEF TypeOK, PowerLoss
  <2>3. Len(commits') = k /\ \A i \in 1..k : commits'[i] = commits[i]
    BY <2>1, <2>2, PrefixType DEF TypeOK
  <2>4. /\ SubSeq(committedIds, 1, k) \in Seq(Row)
        /\ Len(SubSeq(committedIds, 1, k)) = k
        /\ \A i \in 1..k : SubSeq(committedIds, 1, k)[i] = commits[i].id
    BY <2>2, PrefixType, CommittedIdsType, CommitsType
  <2>5. SubSeq(committedIds, 1, k) = [i \in 1..k |-> SubSeq(committedIds, 1, k)[i]]
    BY <2>4, LenProperties
  <2>6. committedIds' = SubSeq(committedIds, 1, k)
    BY <2>3, <2>4, <2>5 DEF committedIds
  <2>7. Len(exported) = Len(commits)
    BY CommittedIdsType
  <2>8. Log!Lose(k)
    BY <2>2, <2>6 DEF Log!Lose, exported
  <2>. QED BY <2>2, <2>7, <2>8 DEF Log!Next, exported
<1>5. CASE RegisterRecord
  BY <1>1, <1>5 DEF RegisterRecord
<1>6. CASE WalSync
  BY <1>3, <1>6 DEF WalSync
<1>7. CASE Close
  BY <1>3, <1>7 DEF Close
<1>8. CASE \E r \in Record : AppendRow(r)
  BY <1>1, <1>8 DEF AppendRow, db
<1>9. CASE Startup
  BY <1>1, <1>9 DEF Startup, SkipMigration, BeginMigration, EndMigration, OpenNew,
                    OpenExisting, BeginRecover, EndRecover, Reconciled, BeginTruncate,
                    EndTruncate, db
<1>10. CASE (\E r \in Record : AppendRaises(r)) \/ CommitRaises \/ Crash \/ RewriteCrash
            \/ SchemaChange
  BY <1>1, <1>10 DEF AppendRaises, CommitRaises, Crash, RewriteCrash, SchemaChange, db
<1>11. CASE UNCHANGED vars
  BY <1>1, <1>11 DEF vars
<1>. QED
  BY <1>2, <1>4, <1>5, <1>6, <1>7, <1>8, <1>9, <1>10, <1>11 DEF Next, Commit, Fault

(***************************************************************************)
(* CSV and checkpoint together behave as one log that leads are appended to *)
(* at the end, each once; only a power failure takes any away, and then     *)
(* only the newest, unsynced ones.                                          *)
(***************************************************************************)
THEOREM ImplementsExportLog ==
  ASSUME StopsOnly
  PROVE  Spec => ExportLogSpec
<1>1. Init => Log!Init
  <2>. SUFFICES ASSUME Init PROVE Log!Init
    OBVIOUS
  <2>1. Len(commits) = 0 /\ synced = 0
    BY EmptySeq DEF Init
  <2>2. SubSeq(Contents, 1, Len(commits)) = <<>>
    BY <2>1, SubSeqEmpty
  <2>. QED BY <2>1, <2>2 DEF Log!Init
<1>2. TypeOK /\ Aligned => exported = committedIds
  BY ExportedIsCommitted
<1>3. /\ TypeOK /\ ControlOK /\ Aligned
      /\ exported = committedIds /\ (exported = committedIds)'
      /\ [Next]_vars
      => [Log!Next]_(Log!vars)
  BY ExportedStep
<1>. QED
  BY <1>1, <1>2, <1>3, AlignedAlways, PTL DEF Spec, ExportLogSpec, Log!Spec

-----------------------------------------------------------------------------
(* No business twice *)

SameBusiness(x, y) == x \in Record /\ y \in Record /\ BusinessOf[x] = BusinessOf[y]

Once(rows) == \A i, j \in 1..Len(rows) : SameBusiness(rows[i], rows[j]) => i = j

(***************************************************************************)
(* Neither the file nor what a rewrite holds has two rows of a business,    *)
(* and the one in the commit stage is none of the committed ones, so that a *)
(* file rebuilt from the commits has none twice either.  It stays so since  *)
(* a working session knows every committed business, and, the rows being    *)
(* aligned with the commits, those are all it has in the file.              *)
(***************************************************************************)
BusinessOnce ==
    \A i, j \in 1..Len(commits) : SameBusiness(commits[i].id, commits[j].id) => i = j

WrittenOnce ==
    /\ Once(csv) /\ Once(buf) /\ BusinessOnce
    /\ pc \in Serving => \A i \in 1..Len(commits) : BusinessOf[commits[i].id] \in seen
    /\ pc \in {"registering", "marking"} =>
          /\ BusinessOf[current] \in seen
          /\ \A i \in 1..Len(commits) : BusinessOf[commits[i].id] # BusinessOf[current]

LEMMA PrefixOnce ==
  ASSUME NEW s \in Seq(Row), Once(s), NEW k \in 0..Len(s)
  PROVE  Once(SubSeq(s, 1, k))
BY PrefixType, LenProperties DEF Once

\* The row of a business that is not in the file, or part of one, is added
\* without a twin.
LEMMA AppendedOnce ==
  ASSUME NEW rows \in Seq(Row), Once(rows), NEW r \in Row, NEW joined \in Damaged,
         r \in Damaged \/ \A i \in 1..Len(rows) : ~SameBusiness(rows[i], r)
  PROVE  Once(Appended(rows, r, joined))
<1>1. Len(rows) \in Nat
  BY LenProperties
<1>2. CASE EndsIn(rows, {"long"})
  <2>1. Appended(rows, r, joined) = [rows EXCEPT ![Len(rows)] = joined]
    BY <1>2 DEF Appended
  <2>2. /\ Len([rows EXCEPT ![Len(rows)] = joined]) = Len(rows)
        /\ \A i \in 1..Len(rows) : [rows EXCEPT ![Len(rows)] = joined][i] =
                                      IF i = Len(rows) THEN joined ELSE rows[i]
    BY LenProperties
  <2>3. \A x : ~SameBusiness(joined, x) /\ ~SameBusiness(x, joined)
    BY DEF SameBusiness
  <2> DEFINE new == Appended(rows, r, joined)
  <2>4. /\ Len(new) = Len(rows)
        /\ \A i \in 1..Len(rows) : new[i] = IF i = Len(rows) THEN joined ELSE rows[i]
    BY <2>1, <2>2
  <2> HIDE DEF new
  <2>5. ASSUME NEW i \in 1..Len(rows), NEW j \in 1..Len(rows), SameBusiness(new[i], new[j])
        PROVE  i = j
    <3>1. i # Len(rows)
      BY <2>3, <2>4, <2>5
    <3>2. j # Len(rows)
      BY <2>3, <2>4, <2>5
    <3>3. SameBusiness(rows[i], rows[j])
      BY <2>4, <2>5, <3>1, <3>2
    <3>. QED BY <3>3 DEF Once
  <2>6. Once(new)
    BY <2>4, <2>5 DEF Once
  <2>. QED BY <2>6 DEF new
<1>3. CASE ~EndsIn(rows, {"long"})
  <2>1. Appended(rows, r, joined) = Append(rows, r)
    BY <1>3 DEF Appended
  <2>2. /\ Len(Append(rows, r)) = Len(rows) + 1
        /\ \A i \in 1..Len(rows) : Append(rows, r)[i] = rows[i]
        /\ Append(rows, r)[Len(rows) + 1] = r
    BY AppendProperties
  <2>3. \A i \in 1..Len(rows) : ~SameBusiness(rows[i], r) /\ ~SameBusiness(r, rows[i])
    BY DEF SameBusiness
  <2>. QED BY <1>1, <2>1, <2>2, <2>3 DEF Once
<1>. QED BY <1>2, <1>3

\* A rewrite cut short has no more leads than the rewrite.
LEMMA PartlyWrittenOnce ==
  ASSUME NEW rows \in Seq(Row), Once(rows), PartlyWritten(rows)
  PROVE  Once(csv')
<1>1. PICK k \in 0..Len(rows), part \in {<<>>, <<"short">>, <<"long">>} :
           csv' = SubSeq(rows, 1, k) \o part
  BY DEF PartlyWritten
<1>2. /\ SubSeq(rows, 1, k) \in Seq(Row) /\ Len(SubSeq(rows, 1, k)) = k /\ k \in Nat
      /\ Once(SubSeq(rows, 1, k))
  BY PrefixType, PrefixOnce
<1>3. "short" \in Damaged /\ "long" \in Damaged
  BY DEF Damaged
<1>4. CASE part = <<>>
  BY <1>1, <1>2, <1>4, ConcatEmptySeq
<1>5. ASSUME NEW x \in Damaged, part = <<x>>
      PROVE  Once(csv')
  <2>1. \A y : ~SameBusiness(x, y) /\ ~SameBusiness(y, x)
    BY DEF SameBusiness
  <2>2. csv' = Append(SubSeq(rows, 1, k), x)
    BY <1>1, <1>2, <1>5
  <2>3. x \in Row
    BY DEF Row
  <2>4. /\ Len(csv') = k + 1 /\ csv'[k + 1] = x
        /\ \A i \in 1..k : csv'[i] = SubSeq(rows, 1, k)[i]
    BY <1>2, <2>2, <2>3, AppendProperties
  <2>. SUFFICES ASSUME NEW i \in 1..(k + 1), NEW j \in 1..(k + 1), SameBusiness(csv'[i], csv'[j])
                PROVE  i = j
    BY <2>4 DEF Once
  <2>5. i \in 1..k /\ j \in 1..k
    BY <1>2, <2>1, <2>4
  <2>. QED BY <1>2, <2>4, <2>5 DEF Once
<1>. QED BY <1>3, <1>4, <1>5

LEMMA FileCutShortOnce ==
  ASSUME TypeOK, Once(csv), FileCutShort
  PROVE  Once(csv')
<1>1. \A part \in {"short", "long"} : Once(Appended(csv, part, "short"))
  BY AppendedOnce DEF TypeOK, Row, Damaged
<1>. QED BY <1>1 DEF FileCutShort

\* The committed records are rebuilt once each, in whichever order.
LEMMA InRowOrderOnce ==
  ASSUME TypeOK, BusinessOnce, NEW rows \in InRowOrder
  PROVE  Once(rows)
<1>. DEFINE n == Len(commits)
<1>1. n \in Nat
  BY CommitsType
<1>2. CASE rows = committedIds
  BY <1>2, CommittedIdsType DEF Once, BusinessOnce
<1>3. ASSUME NEW p \in [1..n -> 1..n], IsInjective(p),
             rows = [i \in 1..n |-> commits[p[i]].id]
      PROVE  Once(rows)
  <2>1. DOMAIN rows = 1..n
    BY <1>3
  <2>2. Len(rows) = n
    BY <1>1, <2>1, InRowOrderType, LenProperties
  <2>. SUFFICES ASSUME NEW i \in 1..n, NEW j \in 1..n, SameBusiness(rows[i], rows[j])
                PROVE  i = j
    BY <2>2 DEF Once
  <2>3. SameBusiness(commits[p[i]].id, commits[p[j]].id) /\ p[i] \in 1..n /\ p[j] \in 1..n
    BY <1>3
  <2>4. p[i] = p[j]
    BY <2>3 DEF BusinessOnce
  <2>. QED BY <1>3, <2>4 DEF IsInjective
<1>. QED BY <1>2, <1>3 DEF InRowOrder

\* Every step writes each business at most once.
LEMMA OnceStep ==
  ASSUME StopsOnly, TypeOK, ControlOK, Aligned, WrittenOnce, [Next]_vars
  PROVE  WrittenOnce'
<1>0. Once(<<>>) /\ csv \in Seq(Row) /\ buf \in Seq(Row) /\ Len(csv) \in Nat /\ Len(buf) \in Nat
  BY EmptySeq, LenProperties DEF TypeOK, Once
<1>1. ASSUME NEW rows, Once(rows), NEW where, where \notin Serving,
             BeginRewrite(rows, where), UNCHANGED commits
      PROVE  WrittenOnce'
  BY <1>0, <1>1 DEF WrittenOnce, BeginRewrite, BusinessOnce, Serving
<1>2. ASSUME NEW fsynced, NEW where, where \notin Serving,
             EndRewrite(fsynced, where), UNCHANGED commits
      PROVE  WrittenOnce'
  BY <1>0, <1>2 DEF WrittenOnce, EndRewrite, BusinessOnce, Serving
<1>3. ASSUME UNCHANGED <<csv, buf, commits>>, pc' \notin Serving
      PROVE  WrittenOnce'
  BY <1>3 DEF WrittenOnce, BusinessOnce, Once, Serving
<1>4. CASE BeginMigration
  <2>1. PICK rows \in InRowOrder : BeginRewrite(rows, "migrating")
    BY <1>4 DEF BeginMigration
  <2>2. Once(rows)
    BY InRowOrderOnce DEF WrittenOnce
  <2>. QED BY <1>1, <1>4, <2>1, <2>2 DEF BeginMigration, db, Serving
<1>5. CASE BeginRecover
  <2>1. Once(SubSeq(csv, 1, Len(csv) - 1))
    BY <1>0, <1>5, PrefixOnce, EmptySeq DEF BeginRecover, EndsIn, WrittenOnce
  <2>. QED BY <1>1, <1>5, <2>1 DEF BeginRecover, db, Serving
<1>6. CASE BeginTruncate
  <2>1. Len(commits) \in 0..Len(csv)
    BY <1>6, CommitsType DEF BeginTruncate, ControlOK
  <2>2. Once(SubSeq(csv, 1, Len(commits)))
    BY <1>0, <2>1, PrefixOnce DEF WrittenOnce
  <2>. QED BY <1>1, <1>6, <2>2 DEF BeginTruncate, db, Serving
<1>7. CASE EndMigration \/ EndRecover \/ EndTruncate
  BY <1>2, <1>7 DEF EndMigration, EndRecover, EndTruncate, db, Serving
<1>8. CASE SkipMigration \/ OpenNew \/ OpenExisting \/ Close \/ SchemaChange
  BY <1>3, <1>8 DEF SkipMigration, OpenNew, OpenExisting, Close, SchemaChange, disk, db, Serving
<1>9. CASE Reconciled
  <2>1. /\ UNCHANGED <<csv, buf, commits>> /\ pc' = "ready"
        /\ seen' = {BusinessOf[r] : r \in Range(committedIds)}
    BY <1>9 DEF Reconciled, disk, db
  <2>2. \A i \in 1..Len(commits) : commits[i].id \in Range(committedIds)
    BY CommittedIdsType, LenProperties DEF Range
  <2>3. \A i \in 1..Len(commits) : BusinessOf[commits[i].id] \in seen'
    BY <2>1, <2>2
  <2>. QED BY <2>1, <2>3 DEF WrittenOnce, BusinessOnce, Once
<1>10. ASSUME NEW r \in Record, AppendRow(r)
       PROVE  WrittenOnce'
  <2>1. /\ csv' = Appended(csv, r, "mangled") /\ current' = r
        /\ UNCHANGED <<buf, commits>>
        /\ pc = "ready" /\ pc' = "registering"
        /\ BusinessOf[r] \notin seen /\ seen' = seen \cup {BusinessOf[r]}
    BY <1>10 DEF AppendRow, Fresh, db
  <2>2. \A i \in 1..Len(commits) : BusinessOf[commits[i].id] \in seen
    BY <2>1 DEF WrittenOnce, Serving
  <2>3. \A i \in 1..Len(csv) : i \in 1..Len(commits) /\ csv[i] = commits[i].id
    BY <2>1, CommitsType DEF Aligned, Surplus, CommittedRowsExported, Contents, Rewriting
  <2>4. \A i \in 1..Len(csv) : ~SameBusiness(csv[i], r)
    BY <2>1, <2>2, <2>3 DEF SameBusiness
  <2>5. Once(csv')
    BY <1>0, <2>1, <2>4, AppendedOnce DEF WrittenOnce, Row, Damaged
  <2>6. BusinessOnce'
    BY <2>1 DEF WrittenOnce, BusinessOnce
  <2>7. Once(buf)'
    BY <2>1 DEF WrittenOnce
  <2>8. \A i \in 1..Len(commits') : BusinessOf[commits'[i].id] \in seen'
                                    /\ BusinessOf[commits'[i].id] # BusinessOf[current']
    BY <2>1, <2>2
  <2>9. BusinessOf[current'] \in seen'
    BY <2>1
  <2>. QED BY <2>1, <2>5, <2>6, <2>7, <2>8, <2>9 DEF WrittenOnce
<1>11. CASE RegisterRecord
  BY <1>11 DEF RegisterRecord, disk, WrittenOnce, BusinessOnce, Once, Serving
<1>12. CASE MarkCommitted
  <2>1. /\ commits' = Append(commits, [id |-> current, row |-> rowCount - 1])
        /\ UNCHANGED <<csv, buf, seen>> /\ pc = "marking" /\ pc' = "ready"
        /\ BusinessOf[current] \in seen
        /\ \A i \in 1..Len(commits) : /\ BusinessOf[commits[i].id] # BusinessOf[current]
                                      /\ BusinessOf[commits[i].id] \in seen
    BY <1>12 DEF MarkCommitted, disk, WrittenOnce, Serving
  <2>2. [id |-> current, row |-> rowCount - 1] \in Committed
    BY <1>12 DEF MarkCommitted, Committed, TypeOK, ControlOK
  <2>3. /\ Len(commits') = Len(commits) + 1 /\ commits'[Len(commits) + 1].id = current
        /\ \A i \in 1..Len(commits) : commits'[i] = commits[i]
    BY <2>1, <2>2, AppendProperties DEF TypeOK
  <2>4. BusinessOnce'
    BY <2>1, <2>3, CommitsType DEF WrittenOnce, BusinessOnce, SameBusiness
  <2>5. \A i \in 1..Len(commits') : BusinessOf[commits'[i].id] \in seen'
    BY <2>1, <2>3, CommitsType
  <2>6. Once(csv)' /\ Once(buf)'
    BY <2>1 DEF WrittenOnce
  <2>. QED BY <2>1, <2>4, <2>5, <2>6 DEF WrittenOnce
<1>13. CASE WalSync \/ UNCHANGED vars
  BY <1>13 DEF WalSync, vars, disk, WrittenOnce, BusinessOnce, Once
<1>14. CASE Crash
  <2>1. Once(csv') /\ UNCHANGED commits /\ pc' = "down" /\ buf' = <<>>
    BY <1>14, FileCutShortOnce DEF Crash, Stop, db, WrittenOnce
  <2>. QED BY <1>0, <2>1 DEF WrittenOnce, BusinessOnce, Serving
<1>15. CASE (\E r \in Record : AppendRaises(r)) \/ CommitRaises \/ RewriteCrash
  BY <1>15 DEF AppendRaises, CommitRaises, RewriteCrash, StopsOnly
<1>16. CASE PowerLoss
  <2>1. Once(csv')
    BY <1>0, <1>16, FileCutShortOnce, PartlyWrittenOnce DEF PowerLoss, WrittenOnce
  <2>2. PICK k \in synced..Len(commits) : commits' = SubSeq(commits, 1, k)
    BY <1>16 DEF PowerLoss
  <2>3. k \in 0..Len(commits)
    BY CommitsType DEF TypeOK
  <2>4. Len(commits') = k /\ \A i \in 1..k : commits'[i] = commits[i]
    BY <2>2, <2>3, PrefixType DEF TypeOK
  <2>5. BusinessOnce'
    BY <2>3, <2>4, CommitsType DEF WrittenOnce, BusinessOnce
  <2>6. pc' = "down" /\ buf' = <<>>
    BY <1>16 DEF PowerLoss, Stop
  <2>. QED BY <1>0, <2>1, <2>5, <2>6 DEF WrittenOnce, Serving
<1>. QED
  BY <1>4, <1>5, <1>6, <1>7, <1>8, <1>9, <1>10, <1>11, <1>12, <1>13, <1>14, <1>15, <1>16
     DEF Next, Startup, Commit, Fault

(***************************************************************************)
(* However often the process or the machine stops outside a rewrite, and    *)
(* whatever is collected again, no business has two rows in the export      *)
(* (Pipeline._commit_stage, _reconcile_csv_with_checkpoint, seed_sets).     *)
(***************************************************************************)
THEOREM NoBusinessTwice ==
  ASSUME StopsOnly
  PROVE  Spec => []NoDuplicateRows
<1>1. Init => WrittenOnce
  BY EmptySeq DEF Init, WrittenOnce, Once, BusinessOnce, Serving
<1>2. (TypeOK /\ ControlOK /\ Aligned) /\ WrittenOnce /\ [Next]_vars => WrittenOnce'
  BY OnceStep
<1>3. WrittenOnce => NoDuplicateRows
  BY DEF WrittenOnce, Once, SameBusiness, NoDuplicateRows
<1>. QED BY <1>1, <1>2, <1>3, AlignedAlways, PTL DEF Spec

-----------------------------------------------------------------------------
(* Start-up comes to an end: the safety part *)

\* The file that is opened has the current header, or none yet.
Openable == pc = "open" => header # "other"

\* The rows there are, or will be once the rewrite is done, are too many.
TooMany == Len(Contents) > Len(commits)

\* Migration comes before the file is opened, and so does truncation: it opens
\* the file again.
Stage ==
    CASE pc \in {"migrating", "truncating"} -> 4
      [] pc = "open" -> 3
      [] pc = "recovering" -> 2
      [] OTHER -> 1

\* A step of start-up leaves it, or takes off the rows that are too many, or
\* goes on to the next stage without new ones.
Advance ==
    \/ pc' \notin Starting
    \/ TooMany /\ ~TooMany'
    \/ (TooMany' => TooMany) /\ Stage' < Stage

\* Whatever happens during start-up is a step of it, or the checkpoint's log is
\* synced, or the process stops.
StartupAdvances == [][(pc \in Starting) => Advance \/ WalSync]_vars

\* A start-up that goes on never reads a header it does not know.
LEMMA OpenableStep ==
  ASSUME TypeOK, Openable, [Next]_vars
  PROVE  Openable'
<1>1. CASE Startup
  BY <1>1 DEF Startup, SkipMigration, BeginMigration, EndMigration, OpenNew, OpenExisting,
     BeginRecover, EndRecover, Reconciled, BeginTruncate, EndTruncate, BeginRewrite,
     EndRewrite, disk, Openable
<1>2. CASE Commit \/ Close
  BY <1>2 DEF Commit, AppendRow, RegisterRecord, MarkCommitted, Close, Openable
<1>3. CASE WalSync
  BY <1>3 DEF WalSync, disk, Openable
<1>4. CASE Fault
  BY <1>4 DEF Fault, AppendRaises, CommitRaises, Crash, RewriteCrash, PowerLoss, SchemaChange, Stop, Openable
<1>5. CASE UNCHANGED vars
  BY <1>5 DEF vars, Openable
<1>. QED BY <1>1, <1>2, <1>3, <1>4, <1>5 DEF Next

\* Each step of start-up advances.
LEMMA AdvanceStep ==
  ASSUME TypeOK, ControlOK, Next, pc \in Starting
  PROVE  Advance \/ WalSync
<1>0. /\ Len(commits) \in Nat /\ Len(csv) \in Nat /\ Len(buf) \in Nat
      /\ csv \in Seq(Row) /\ buf \in Seq(Row)
  BY CommitsType, LenProperties DEF TypeOK
<1>. USE DEF Starting, Rewriting
<1>1. CASE OpenNew \/ OpenExisting
  <2>1. /\ pc = "open" /\ pc' = "reconcile" /\ UNCHANGED <<csv, commits>>
    BY <1>1 DEF OpenNew, OpenExisting, disk, db
  <2>2. TooMany' = TooMany
    BY <2>1 DEF TooMany, Contents
  <2>3. Stage = 3 /\ Stage' = 1
    BY <2>1 DEF Stage
  <2>. QED BY <2>2, <2>3 DEF Advance
<1>2. CASE BeginRecover
  <2>1. /\ pc = "open" /\ pc' = "recovering" /\ commits' = commits
        /\ csv # <<>> /\ buf' = SubSeq(csv, 1, Len(csv) - 1)
    BY <1>2 DEF BeginRecover, BeginRewrite, EndsIn, db
  <2>2. Len(buf') = Len(csv) - 1
    <3>1. Len(csv) - 1 \in 0..Len(csv)
      BY <1>0, <2>1, EmptySeq
    <3>. QED BY <1>0, <2>1, <3>1, PrefixType
  <2>3. TooMany' => TooMany
    BY <1>0, <2>1, <2>2 DEF TooMany, Contents
  <2>4. Stage = 3 /\ Stage' = 2
    BY <2>1 DEF Stage
  <2>. QED BY <2>3, <2>4 DEF Advance
<1>3. CASE EndMigration \/ EndRecover \/ EndTruncate
  <2>1. /\ pc \in Rewriting /\ csv' = buf /\ commits' = commits
        /\ pc' = IF pc = "recovering" THEN "reconcile" ELSE "open"
    BY <1>3 DEF EndMigration, EndRecover, EndTruncate, EndRewrite, db
  <2>2. TooMany' = TooMany
    BY <2>1 DEF TooMany, Contents
  <2>3. Stage' < Stage
    BY <2>1 DEF Stage
  <2>. QED BY <2>2, <2>3 DEF Advance
<1>4. CASE BeginTruncate
  <2>1. /\ pc = "reconcile" /\ pc' = "truncating" /\ commits' = commits
        /\ rowCount > Len(commits) /\ buf' = SubSeq(csv, 1, Len(commits))
    BY <1>4 DEF BeginTruncate, BeginRewrite, db
  <2>2. Len(csv) > Len(commits)
    BY <2>1 DEF ControlOK
  <2>3. Len(buf') = Len(commits)
    <3>1. Len(commits) \in 0..Len(csv)
      BY <1>0, <2>2
    <3>. QED BY <1>0, <2>1, <3>1, PrefixType
  <2>4. TooMany /\ ~TooMany'
    BY <1>0, <2>1, <2>2, <2>3 DEF TooMany, Contents
  <2>. QED BY <2>4 DEF Advance
<1>5. CASE Reconciled \/ Crash \/ RewriteCrash \/ PowerLoss
  <2>1. pc' \in {"ready", "down"}
    BY <1>5 DEF Reconciled, Crash, RewriteCrash, PowerLoss, Stop
  <2>. QED BY <2>1 DEF Advance
<1>6. /\ ~SkipMigration /\ ~BeginMigration /\ ~Commit /\ ~Close /\ ~SchemaChange
      /\ ~CommitRaises /\ ~(\E r \in Record : AppendRaises(r))
  BY DEF AppendRaises, SkipMigration, BeginMigration, Commit, AppendRow, RegisterRecord, MarkCommitted,
     Close, CommitRaises, SchemaChange
<1>. QED BY <1>1, <1>2, <1>3, <1>4, <1>5, <1>6 DEF Next, Startup, Fault

(***************************************************************************)
(* Start-up does not run in circles, on whatever files any fault left       *)
(* behind: it truncates at most once, since re-opening and recovering the   *)
(* truncated file add no rows, and its other steps go one way.  The file it *)
(* opens always has a header it can go on with (Pipeline.__init__).  This   *)
(* is what StartupTerminates rests on.                                      *)
(***************************************************************************)
THEOREM StartupOneWay == Spec => []Openable /\ StartupAdvances
<1>1. Init => Openable
  BY DEF Init, Openable
<1>2. (TypeOK /\ ControlOK) /\ Openable /\ [Next]_vars => Openable'
  BY OpenableStep
<1>3. (TypeOK /\ ControlOK) /\ [Next]_vars => [(pc \in Starting) => Advance \/ WalSync]_vars
  BY AdvanceStep
<1>. QED BY <1>1, <1>2, <1>3, TypeCorrect, PTL DEF Spec, StartupAdvances
=============================================================================
