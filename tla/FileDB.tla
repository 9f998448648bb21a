------------------------------- MODULE FileDB -------------------------------
(***************************************************************************)
(* The metadata database (internal/db/store.go): a row per file, the rows  *)
(* of its chunks, and snapshots.                                           *)
(*                                                                         *)
(* Writers go through Transaction, which holds the mutex of the Store;     *)
(* what they wrote is visible once it is committed.  SQLite is external:   *)
(* a commit is atomic and survives a crash.                                *)
(***************************************************************************)
EXTENDS Naturals, Sequences, FiniteSets, FiniteSetsExt, Functions

CONSTANTS
  File,   \* paths of files, relative to the root
  NoRow,
  NoTx

\* What a row of table files holds.
FileRow == [id : Nat, root : Seq(Seq(Nat)), count : Nat, size : Nat, mtime : Nat]

ASSUME NoRowAssumption == NoRow \notin FileRow

VARIABLES
  files,      \* table files: for each path its row, or NoRow
  rows,       \* table file_chunks: the chunk hashes of each file ID
  lastID,     \* the highest ID given out (AUTOINCREMENT)
  tx,         \* the transaction in progress: its writer and its writes
  enforced,   \* per connection in the pool: whether it enforces foreign keys
  snapshots   \* tables snapshots and snapshot_files

dbVars == <<files, rows, lastID, tx, enforced, snapshots>>

DBInit ==
  /\ files = [p \in File |-> NoRow] /\ rows = <<>> /\ lastID = 0
  /\ tx = NoTx /\ enforced = {TRUE} /\ snapshots = <<>>

\* The hash of the chunk hashes stands for them; no chunks have a hash of their own.
computeMerkleRoot(hashes) == hashes

\* NeedsUpdate: the row is missing, or its size or second differs.
NeedsUpdate(p, size, mtime) ==
  files[p] = NoRow \/ files[p].size # size \/ files[p].mtime # mtime

\* GetFile: readers at the same time may need a second connection, and the PRAGMA
\* was only executed on the first.
ReadTogether(several) ==
  /\ enforced' \in {enforced} \cup (IF several THEN {BOOLEAN} ELSE {})
  /\ UNCHANGED <<files, rows, lastID, tx, snapshots>>

-----------------------------------------------------------------------------

\* The row of a file, with its ID.
WithID(row, id) ==
  [id |-> id, root |-> row.root, count |-> row.count, size |-> row.size, mtime |-> row.mtime]

\* A bug to avoid: the row is written outside of the transaction.
UpsertFileDirectly(w, p, row) ==
  LET id == IF files[p] = NoRow THEN lastID + 1 ELSE files[p].id IN
  /\ tx = NoTx
  /\ files' = [files EXCEPT ![p] = WithID(row, id)]
  /\ rows' = IF id > lastID THEN Append(rows, <<>>) ELSE rows
  /\ lastID' = Max({id, lastID})
  /\ tx' = [by |-> w, files |-> files', rows |-> rows', lastID |-> lastID', id |-> id]
  /\ UNCHANGED <<enforced, snapshots>>

\* UpsertFile begins the transaction of an update: an existing row keeps its ID.
UpsertFile(w, p, row) ==
  LET id == IF files[p] = NoRow THEN lastID + 1 ELSE files[p].id IN
  /\ tx = NoTx
  /\ tx' = [by |-> w, id |-> id,
            files |-> [files EXCEPT ![p] = WithID(row, id)],
            rows |-> IF id > lastID THEN Append(rows, <<>>) ELSE rows,
            lastID |-> Max({id, lastID})]
  /\ UNCHANGED <<files, rows, lastID, enforced, snapshots>>

\* SetFileChunks replaces the chunk rows of the file, and the transaction commits.
SetFileChunks(w, chunks) ==
  /\ tx # NoTx /\ tx.by = w
  /\ files' = tx.files
  /\ rows' = [tx.rows EXCEPT ![tx.id] = chunks]
  /\ lastID' = tx.lastID
  /\ tx' = NoTx
  /\ UNCHANGED <<enforced, snapshots>>

\* DeleteFile, a transaction of one statement.  The chunk rows go with the row
\* only on a connection that enforces foreign keys.
DeleteFile(p) ==
  /\ tx = NoTx
  /\ files' = [files EXCEPT ![p] = NoRow]
  /\ \E cascade \in enforced :
       rows' = IF cascade /\ files[p] # NoRow THEN [rows EXCEPT ![files[p].id] = <<>>] ELSE rows
  /\ UNCHANGED <<lastID, tx, enforced, snapshots>>

\* A bug to avoid: the mutex is not released when the transaction fails.
RollbackLocked(w) ==
  /\ tx # NoTx /\ tx.by = w
  /\ UNCHANGED dbVars

\* The transaction fails and is rolled back, or the process ends within it.
Rollback(w) ==
  /\ tx # NoTx /\ tx.by = w
  /\ tx' = NoTx
  /\ UNCHANGED <<files, rows, lastID, enforced, snapshots>>

\* What CreateSnapshot copies: the path and the size of every file.
Copied == [p \in {q \in File : files[q] # NoRow} |-> files[p].size]

\* SUM(size).
SumSizes(sizes) == FoldFunction(+, 0, sizes)

\* CreateSnapshot: first it counts the files and adds up their sizes ...
CountFiles ==
  /\ tx = NoTx
  /\ tx' = [by |-> "snapshot", count |-> Cardinality(DOMAIN Copied),
            total |-> SumSizes(Copied)]
  /\ UNCHANGED <<files, rows, lastID, enforced, snapshots>>

\* ... then it copies them, in the same transaction.
CopyFiles ==
  /\ tx # NoTx /\ tx.by = "snapshot"
  /\ snapshots' = Append(snapshots,
       [count |-> tx.count, total |-> tx.total, files |-> Copied])
  /\ tx' = NoTx
  /\ UNCHANGED <<files, rows, lastID, enforced>>

-----------------------------------------------------------------------------

\* What is committed fits together, wherever a transaction failed or the process
\* was killed: the chunk rows of a file are those its Merkle root and its count
\* were computed from, and its own, whether or not earlier deletions cascaded; the
\* count and the size of a snapshot are those of the files it lists, though the
\* watcher updates and deletes rows all the time.
TablesFitTogether ==
  /\ \A p \in File : files[p] # NoRow =>
       /\ files[p].id \in DOMAIN rows
       /\ files[p].root = computeMerkleRoot(rows[files[p].id])
       /\ files[p].count = Len(rows[files[p].id])
       /\ \A q \in File \ {p} : files[q] # NoRow => files[q].id # files[p].id
  /\ \A i \in DOMAIN snapshots :
       LET s == snapshots[i] IN
         s.count = Cardinality(DOMAIN s.files) /\ s.total = SumSizes(s.files)
=============================================================================
