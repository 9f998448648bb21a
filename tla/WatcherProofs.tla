---------------------------- MODULE WatcherProofs ----------------------------
(***************************************************************************)
(* Proofs about modules FileDB and Watcher.                                *)
(***************************************************************************)
EXTENDS Watcher, Integers, TLAPS

-----------------------------------------------------------------------------
LEMMA NatMin ==
  ASSUME NEW a \in Nat, NEW b \in Nat
  PROVE  Min({a, b}) \in Nat /\ Min({a, b}) <= a /\ Min({a, b}) <= b /\ Min({a, b}) \in {a, b}
<1>1. \E x \in {a, b} : \A y \in {a, b} : x <= y
  OBVIOUS
<1> QED  BY <1>1 DEF Min

-----------------------------------------------------------------------------
(* Sequences: what is read of a file, and what its chunks hold. *)

LEMMA AppendTypes ==
  ASSUME NEW S, NEW s \in Seq(S), NEW x \in S
  PROVE  /\ Append(s, x) \in Seq(S) /\ Len(Append(s, x)) = Len(s) + 1
         /\ \A i \in 1..Len(s) : Append(s, x)[i] = s[i]
         /\ Append(s, x)[Len(s) + 1] = x
OBVIOUS

LEMMA PartTypes ==
  ASSUME NEW S, NEW s \in Seq(S), NEW m \in Nat, NEW n \in Nat, m <= n, n <= Len(s)
  PROVE  SubSeq(s, m + 1, n) \in Seq(S) /\ Len(SubSeq(s, m + 1, n)) = n - m
OBVIOUS

LEMMA WholePart ==
  ASSUME NEW S, NEW s \in Seq(S)
  PROVE  SubSeq(s, 1, Len(s)) = s
OBVIOUS

\* A part of what was read so far is a part of the data.
SamePart(s, k, m, n) == SubSeq(SubSeq(s, 1, k), m + 1, n) = SubSeq(s, m + 1, n)

LEMMA PartOfPart ==
  ASSUME NEW S, NEW s \in Seq(S), NEW m \in Nat, NEW n \in Nat, NEW k \in Nat,
         m <= n, n <= k, k <= Len(s)
  PROVE  SamePart(s, k, m, n)
BY DEF SamePart

LEMMA ChunkedEmpty == Chunked(<<>>, <<>>)
<1> DEFINE end == [i \in 0..0 |-> 0]
<1>1. end \in [0..Len(<<>>) -> 0..Len(<<>>)] /\ end[0] = 0 /\ Len(<<>>) = 0 /\ DOMAIN <<>> = {}
  OBVIOUS
<1> QED  BY <1>1, Zenon DEF Chunked

\* Reading on to m, after what was read up to at.
LEMMA ChunkedAppend ==
  ASSUME NEW S, NEW data \in Seq(S), NEW at \in Nat, NEW m \in Nat, at <= m, m <= Len(data),
         NEW chunks \in Seq(Seq(S)), Chunked(SubSeq(data, 1, at), chunks)
  PROVE  Chunked(SubSeq(data, 1, m), Append(chunks, SubSeq(data, at + 1, m)))
<1> DEFINE n == Len(chunks)
           new == Append(chunks, SubSeq(data, at + 1, m))
<1>1. /\ Len(SubSeq(data, 1, at)) = at /\ Len(SubSeq(data, 1, m)) = m /\ n \in Nat
      /\ DOMAIN chunks = 1..n
  OBVIOUS
<1>2. /\ Len(new) = n + 1 /\ DOMAIN new = 1..(n + 1)
      /\ new[n + 1] = SubSeq(data, at + 1, m) /\ \A i \in 1..n : new[i] = chunks[i]
  <2>1. SubSeq(data, at + 1, m) \in Seq(S)
    BY PartTypes
  <2> QED  BY <2>1, AppendTypes
<1> HIDE DEF n, new
<1>3. PICK end \in [0..n -> 0..at] :
        /\ end[0] = 0 /\ end[n] = at
        /\ \A i \in 1..n :
             /\ end[i - 1] <= end[i]
             /\ chunks[i] = SubSeq(SubSeq(data, 1, at), end[i - 1] + 1, end[i])
  BY <1>1, Zenon DEF Chunked, n
<1> DEFINE ends == [i \in 0..(n + 1) |-> IF i = n + 1 THEN m ELSE end[i]]
<1>4. ends \in [0..(n + 1) -> 0..m] /\ ends[0] = 0 /\ ends[n + 1] = m /\ ends[n] = at
  BY <1>1, <1>3
<1>5. ASSUME NEW i \in 1..n
      PROVE  /\ ends[i - 1] <= ends[i]
             /\ chunks[i] = SubSeq(SubSeq(data, 1, m), ends[i - 1] + 1, ends[i])
  <2>1. ends[i - 1] = end[i - 1] /\ ends[i] = end[i] /\ i \in 0..n /\ i - 1 \in 0..n
    BY <1>1
  <2> HIDE DEF ends
  <2>2. end[i - 1] \in 0..at /\ end[i] \in 0..at /\ end[i - 1] <= end[i]
    BY <1>3, <2>1, Zenon
  <2> PICK a \in 0..at, b \in 0..at : a = end[i - 1] /\ b = end[i]
    BY <2>2, Zenon
  <2>3. a <= b /\ chunks[i] = SubSeq(SubSeq(data, 1, at), a + 1, b)
    BY <1>3, <2>2, Zenon
  <2>4. a \in Nat /\ b \in Nat /\ b <= at /\ at <= Len(data) /\ b <= m
    OBVIOUS
  <2>5. SamePart(data, at, a, b) /\ SamePart(data, m, a, b)
    BY <2>3, <2>4, PartOfPart, Zenon
  <2> QED  BY <2>1, <2>3, <2>5, Zenon DEF SamePart
<1>6. new[n + 1] = SubSeq(SubSeq(data, 1, m), ends[(n + 1) - 1] + 1, ends[n + 1])
  <2>1. (n + 1) - 1 = n
    BY <1>1
  <2>2. m <= m
    OBVIOUS
  <2>3. SamePart(data, m, at, m)
    BY <2>2, PartOfPart, Zenon
  <2> HIDE DEF ends
  <2> QED  BY <1>2, <1>4, <2>1, <2>3, Zenon DEF SamePart
<1> HIDE DEF ends
<1>7. \A i \in 1..(n + 1) : /\ ends[i - 1] <= ends[i]
                            /\ new[i] = SubSeq(SubSeq(data, 1, m), ends[i - 1] + 1, ends[i])
  <2> SUFFICES ASSUME NEW i \in 1..(n + 1)
               PROVE  /\ ends[i - 1] <= ends[i]
                      /\ new[i] = SubSeq(SubSeq(data, 1, m), ends[i - 1] + 1, ends[i])
    BY Zenon
  <2>1. (i \in 1..n \/ i = n + 1) /\ (n + 1) - 1 = n
    BY <1>1
  <2>2. CASE i \in 1..n
    BY <1>2, <1>5, <2>2, Zenon
  <2>3. CASE i = n + 1
    BY <1>1, <1>4, <1>6, <2>1, <2>3, Zenon
  <2> QED  BY <2>1, <2>2, <2>3, Zenon
<1>8. /\ ends \in [0..Len(new) -> 0..Len(SubSeq(data, 1, m))]
      /\ ends[0] = 0 /\ ends[Len(new)] = Len(SubSeq(data, 1, m))
      /\ \A i \in DOMAIN new : /\ ends[i - 1] <= ends[i]
                              /\ new[i] = SubSeq(SubSeq(data, 1, m), ends[i - 1] + 1, ends[i])
  BY <1>1, <1>2, <1>4, <1>7, Zenon
<1>9. Chunked(SubSeq(data, 1, m), new)
  BY <1>8, Zenon DEF Chunked
<1> QED  BY <1>9, Zenon DEF new

-----------------------------------------------------------------------------
(* The types. *)

Version == [data : Seq(Nat), mtime : Nat, change : Nat]

Reading ==
  [pc : {"read"}, path : File, mtime : Nat, size : Nat,
   inode : Version \cup {NoFile}, at : Nat, chunks : Seq(Seq(Nat))]
Updating ==
  [pc : {"update", "commit"}, path : File, mtime : Nat, size : Nat, chunks : Seq(Seq(Nat))]
Deleting == [pc : {"delete"}, path : File]

\* A snapshot whose totals are those of the files it lists.
SnapshotOf(sizes) ==
  [count |-> Cardinality(DOMAIN sizes), total |-> SumSizes(sizes), files |-> sizes]
Sizes == UNION {[P -> Nat] : P \in SUBSET File}

DBTypes ==
  /\ files \in [File -> FileRow \cup {NoRow}]
  /\ rows \in Seq(Seq(Seq(Nat))) /\ lastID = Len(rows)
  /\ snapshots \in Seq({SnapshotOf(sizes) : sizes \in Sizes})

DiskTypes ==
  /\ disk \in [File -> Version \cup {NoFile}]
  /\ now \in Nat /\ changes \in Nat
  /\ written \in SUBSET [path : File, change : 1..changes, mtime : Nat, size : Nat]

WorkTypes ==
  /\ work \in [Worker -> {Idle} \cup Reading \cup Updating \cup Deleting]
  /\ events \in Seq(File \cup Dir)
  /\ pending \subseteq File /\ batch \subseteq File /\ toScan \subseteq File

-----------------------------------------------------------------------------
(* The tables. *)

\* Every row fits its chunk rows, and no two share an ID.
RowsFit ==
  \A p \in File : files[p] # NoRow =>
    /\ files[p].id \in 1..Len(rows)
    /\ files[p].root = rows[files[p].id] /\ files[p].count = Len(rows[files[p].id])
    /\ \A q \in File \ {p} : files[q] # NoRow => files[q].id # files[p].id

\* The row a worker is about to commit.
RowOf(w) ==
  [root |-> work[w].chunks, count |-> Len(work[w].chunks),
   size |-> work[w].size, mtime |-> work[w].mtime]
IDOf(p) == IF files[p] = NoRow THEN Len(rows) + 1 ELSE files[p].id

\* A transaction holds what its worker read, on top of the present tables ...
TxOf(w) ==
  /\ work[w].pc = "commit" /\ tx.by = w /\ tx.id = IDOf(work[w].path)
  /\ tx.files = [files EXCEPT ![work[w].path] = WithID(RowOf(w), IDOf(work[w].path))]
  /\ tx.rows = (IF files[work[w].path] = NoRow THEN Append(rows, <<>>) ELSE rows)
  /\ tx.lastID = Len(tx.rows)

\* ... or the totals of the present files.
TxFits ==
  tx # NoTx =>
    \/ \E w \in Worker : TxOf(w)
    \/ /\ tx.by = "snapshot"
       /\ tx.count = Cardinality(DOMAIN Copied) /\ tx.total = SumSizes(Copied)

-----------------------------------------------------------------------------
(* The bytes. *)

\* The version on the disk has the second and the size of a stat or a row.
Matches(p, mtime, size) ==
  disk[p] # NoFile /\ disk[p].mtime = mtime /\ Len(disk[p].data) = size

\* Somebody wrote path p in that second with that size.
WasWritten(p, mtime, size) ==
  \E v \in written : v.path = p /\ v.mtime = mtime /\ v.size = size

\* A file that is read and was not removed is there.
ReadsExist ==
  \A w \in Worker : work[w].pc = "read" /\ work[w].inode = NoFile => disk[work[w].path] # NoFile

\* What was read of the version on the disk is the beginning of it, or the version
\* cannot be told from another one.
ReaderOK(w) ==
  work[w].pc = "read" =>
    /\ WasWritten(work[w].path, work[w].mtime, work[w].size)
    /\ Matches(work[w].path, work[w].mtime, work[w].size) =>
         \/ Blurred(work[w].path)
         \/ /\ work[w].inode = NoFile /\ work[w].at <= Len(disk[work[w].path].data)
            /\ Chunked(SubSeq(disk[work[w].path].data, 1, work[w].at), work[w].chunks)

\* What is written to the database is what is on the disk, or the same exception.
UpdaterOK(w) ==
  work[w].pc \in {"update", "commit"} =>
    /\ WasWritten(work[w].path, work[w].mtime, work[w].size)
    /\ Matches(work[w].path, work[w].mtime, work[w].size) =>
         Blurred(work[w].path) \/ Chunked(disk[work[w].path].data, work[w].chunks)

\* What is there was written, and so it is for the row.
FileOK(p) ==
  /\ disk[p] # NoFile =>
       [path |-> p, change |-> disk[p].change,
        mtime |-> disk[p].mtime, size |-> Len(disk[p].data)] \in written
  /\ files[p] # NoRow =>
       /\ WasWritten(p, files[p].mtime, files[p].size)
       /\ Matches(p, files[p].mtime, files[p].size) =>
            Blurred(p) \/ Chunked(disk[p].data, rows[files[p].id])

BytesAgree ==
  /\ \A w \in Worker : ReaderOK(w) /\ UpdaterOK(w)
  /\ \A p \in File : FileOK(p)

-----------------------------------------------------------------------------
(* The paths. *)

Queued(p) == p \in pending \cup batch \/ \E i \in DOMAIN events : events[i] = p

\* The worker will leave the row of its file in step.
Fresh(w) ==
  \/ work[w].pc = "delete" /\ disk[work[w].path] = NoFile
  \/ /\ work[w].pc \in {"read", "update", "commit"}
     /\ Matches(work[w].path, work[w].mtime, work[w].size)
     /\ work[w].pc = "read" => work[w].inode = NoFile

InStep(p) ==
  IF disk[p] = NoFile THEN files[p] = NoRow
  ELSE files[p] # NoRow /\ Matches(p, files[p].mtime, files[p].size)

\* Nobody is at the file and its row is in step, or one worker is and it will be.
Settled(p) ==
  \/ InStep(p) /\ \A w \in Worker : ~Busy(w, p)
  \/ \E w \in Worker : Busy(w, p) /\ Fresh(w) /\ \A v \in Worker \ {w} : ~Busy(v, p)

Attended(p) == p \in lost \cup raced \/ Queued(p) \/ Settled(p)

NothingMissed == \A p \in File : Attended(p)
-----------------------------------------------------------------------------
(* Types are kept. *)

LEMMA WorkCases ==
  ASSUME WorkTypes, NEW w \in Worker
  PROVE  /\ work[w].pc = "idle" => work[w] = Idle
         /\ work[w].pc = "read" => work[w] \in Reading
         /\ work[w].pc \in {"update", "commit"} => work[w] \in Updating
         /\ work[w].pc = "delete" => work[w] \in Deleting
         /\ work[w].pc \in {"idle", "read", "update", "commit", "delete"}
         /\ work[w].pc # "idle" => work[w].path \in File
BY DEF WorkTypes, Idle, Reading, Updating, Deleting

\* What the fields of a job are, and of a function after an assignment.
LEMMA IdleIs == Idle.pc = "idle"
BY DEF Idle

LEMMA ReadingIs ==
  ASSUME NEW x \in Reading
  PROVE  x.at \in Nat /\ x.chunks \in Seq(Seq(Nat)) /\ x.path \in File
BY DEF Reading

Reader(p) ==
  [pc |-> "read", path |-> p, mtime |-> disk[p].mtime, size |-> Len(disk[p].data),
   inode |-> NoFile, at |-> 0, chunks |-> <<>>]

Starts(w, p) ==
  /\ work'[w].pc = "read" /\ work'[w].path = p /\ work'[w].mtime = disk[p].mtime
  /\ work'[w].size = Len(disk[p].data) /\ work'[w].inode = NoFile
  /\ work'[w].at = 0 /\ work'[w].chunks = <<>>
  /\ work'[w].pc # "idle" /\ work'[w].pc \in {"read", "update", "commit"}

LEMMA NewReader ==
  ASSUME NEW p, NEW w, work'[w] = Reader(p)
  PROVE  Starts(w, p)
BY DEF Reader, Starts

Deleter(p) == [pc |-> "delete", path |-> p]

LEMMA NewDeleter ==
  ASSUME NEW p, NEW w, work'[w] = Deleter(p)
  PROVE  work'[w].pc = "delete" /\ work'[w].path = p /\ work'[w].pc # "idle"
BY DEF Deleter

LEMMA Assigned ==
  ASSUME NEW S, NEW T, NEW f \in [S -> T], NEW p \in S, NEW v, NEW g, g = [f EXCEPT ![p] = v]
  PROVE  g[p] = v /\ \A q \in S \ {p} : g[q] = f[q]
OBVIOUS

LEMMA NatFacts ==
  ASSUME NEW n \in Nat
  PROVE  /\ n + 1 \in Nat /\ \A i \in 1..n : i \in Nat
         /\ \A i \in Nat : i <= n /\ i >= n => i = n
OBVIOUS

LEMMA LenIs == \A s \in Seq(Nat) : Len(s) \in Nat
OBVIOUS

LEMMA WritesAre == ChunkSize \in Nat \ {0} /\ \A e \in Writes : e[1] \in Nat /\ e[2] \in Nat
BY WatcherAssumption

\* What a write and a removal do to the disk.
LEMMA WrittenVersion ==
  ASSUME DiskTypes, NEW p \in File, NEW size, NEW seconds, WriteFile(p, size, seconds)
  PROVE  /\ changes' = changes + 1
         /\ disk'[p].change = changes + 1 /\ disk'[p].change = changes' /\ disk'[p].mtime = now'
         /\ written \subseteq written' /\ (size \in Nat => Len(disk'[p].data) = size)
         /\ \A q \in File \ {p} : disk'[q] = disk[q]
<1> DEFINE v == [data |-> [i \in 1..size |-> changes'], mtime |-> now', change |-> changes']
<1>1. disk' = [disk EXCEPT ![p] = v] /\ changes' = changes + 1 /\ written \subseteq written'
  BY Zenon DEF WriteFile
<1>2. v.change = changes' /\ v.mtime = now' /\ (size \in Nat => Len(v.data) = size)
  OBVIOUS
<1> HIDE DEF v
<1>3. disk'[p] = v /\ \A q \in File \ {p} : disk'[q] = disk[q]
  BY <1>1, Assigned, Zenon DEF DiskTypes
<1> QED  BY <1>1, <1>2, <1>3, Zenon

LEMMA RemovedVersion ==
  ASSUME DiskTypes, NEW p \in File, RemoveFile(p)
  PROVE  disk'[p] = NoFile /\ \A q \in File \ {p} : disk'[q] = disk[q]
<1>1. disk' = [disk EXCEPT ![p] = NoFile]
  BY Zenon DEF RemoveFile
<1> QED  BY <1>1, Assigned, Zenon DEF DiskTypes

LEMMA DiskTypesKept ==
  ASSUME DiskTypes, [Next]_vars
  PROVE  DiskTypes'
<1> USE DEF DiskTypes, Version
<1>1. ASSUME NEW p \in File, NEW e \in Writes, WriteFile(p, e[1], e[2])  PROVE DiskTypes'
  <2>1. e[1] \in Nat /\ e[2] \in Nat /\ MaxTime \in Nat
    BY WatcherAssumption
  <2>2. now' \in Nat
    <3>1. now' = Min({now + e[2], MaxTime}) /\ now + e[2] \in Nat
      BY <1>1, <2>1 DEF WriteFile
    <3> QED  BY <2>1, <3>1, NatMin, Zenon
  <2>3. changes' \in Nat /\ changes' = changes + 1 /\ 1..changes \subseteq 1..changes'
    BY <1>1 DEF WriteFile
  <2>4. [i \in 1..e[1] |-> changes'] \in Seq(Nat)
    BY <2>1, <2>3
  <2>5. disk' \in [File -> Version \cup {NoFile}]
    BY <1>1, <2>2, <2>3, <2>4, Zenon DEF WriteFile
  <2>6. written' = written \cup {[path |-> p, change |-> changes', mtime |-> now', size |-> e[1]]}
    BY <1>1 DEF WriteFile
  <2>7. [path |-> p, change |-> changes', mtime |-> now', size |-> e[1]]
          \in [path : File, change : 1..changes', mtime : Nat, size : Nat]
    BY <2>1, <2>2, <2>3
  <2>8. [path : File, change : 1..changes, mtime : Nat, size : Nat]
          \subseteq [path : File, change : 1..changes', mtime : Nat, size : Nat]
    BY <2>3
  <2> QED  BY <2>2, <2>3, <2>5, <2>6, <2>7, <2>8
<1>2. ASSUME NEW p \in File, RemoveFile(p)  PROVE DiskTypes'
  <2>1. /\ disk' = [disk EXCEPT ![p] = NoFile] /\ changes' = changes + 1
        /\ UNCHANGED <<now, written>>
    BY <1>2 DEF RemoveFile
  <2>2. 1..changes \subseteq 1..changes'
    BY <2>1
  <2> QED  BY <2>1, <2>2
<1>3. ASSUME NEW d \in Dir, MakeDir(d)  PROVE DiskTypes'
  <2>1. changes' = changes + 1 /\ UNCHANGED <<disk, now, written>>
    BY <1>3 DEF MakeDir
  <2>2. 1..changes \subseteq 1..changes'
    BY <2>1
  <2> QED  BY <2>1, <2>2
<1>4. CASE UNCHANGED <<diskVars, written>>
  BY <1>4 DEF diskVars
<1> QED
  BY <1>1, <1>2, <1>3, <1>4, Zenon
  DEF Next, Progress, Environment, WorkerStep, vars, history, HandleEvent, FlushPending,
      CreateSnapshot, ProcessFile, OpenFails, ReadChunk, Update, Commit, HandleDelete,
      Start, Stop, ScanAll, ProcessFails

LEMMA NotifyTypes ==
  ASSUME WorkTypes, NEW x \in File \cup Dir, NEW d, Notify(x, d)
  PROVE  events' \in Seq(File \cup Dir)
BY DEF WorkTypes, Notify

LEMMA EventsKept ==
  ASSUME WorkTypes, [Next]_vars
  PROVE  events' \in Seq(File \cup Dir)
<1> DEFINE Goal == events' \in Seq(File \cup Dir)
<1>1. ASSUME NEW p \in File, NEW e \in Writes, WriteFile(p, e[1], e[2])  PROVE Goal
  BY <1>1, NotifyTypes DEF WriteFile
<1>2. ASSUME NEW p \in File, RemoveFile(p)  PROVE Goal
  BY <1>2, NotifyTypes DEF RemoveFile
<1>3. ASSUME NEW d \in Dir, MakeDir(d)  PROVE Goal
  BY <1>3, NotifyTypes DEF MakeDir
<1>4. ASSUME HandleEvent  PROVE Goal
  BY <1>4 DEF HandleEvent, WorkTypes
<1>5. ASSUME Stop  PROVE Goal
  BY <1>5 DEF Stop
<1>6. ASSUME UNCHANGED events  PROVE Goal
  BY <1>6 DEF WorkTypes
<1> HIDE DEF Goal
<1>7. Goal
  BY <1>1, <1>2, <1>3, <1>4, <1>5, <1>6, Zenon
  DEF Next, Progress, Environment, WorkerStep, vars, FlushPending,
      CreateSnapshot, ProcessFile, OpenFails, ReadChunk, Update, Commit, HandleDelete,
      Start, ScanAll, ProcessFails
<1> QED  BY <1>7 DEF Goal

LEMMA QueuesKept ==
  ASSUME WorkTypes, [Next]_vars
  PROVE  pending' \subseteq File /\ batch' \subseteq File /\ toScan' \subseteq File
<1> DEFINE Goal == pending' \subseteq File /\ batch' \subseteq File /\ toScan' \subseteq File
<1>1. ASSUME HandleEvent  PROVE Goal
  <2>1. Head(events) \in File \cup Dir
    BY <1>1 DEF HandleEvent, WorkTypes
  <2> QED  BY <1>1, <2>1 DEF HandleEvent, WorkTypes
<1>2. ASSUME FlushPending  PROVE Goal
  BY <1>2 DEF FlushPending, WorkTypes
<1>3. ASSUME Stop  PROVE Goal
  BY <1>3 DEF Stop
<1>4. ASSUME ScanAll  PROVE Goal
  BY <1>4 DEF ScanAll, WorkTypes
<1>5. ASSUME NEW w \in Worker, ProcessFile(w)  PROVE Goal
  <2>1. UNCHANGED pending /\ \E p \in Queue(w) : Take(w, p)
    BY <1>5, Zenon DEF ProcessFile
  <2> QED  BY <2>1 DEF Take, WorkTypes
<1>6. ASSUME UNCHANGED <<pending, batch, toScan>>  PROVE Goal
  BY <1>6 DEF WorkTypes
<1> HIDE DEF Goal
<1>7. Goal
  BY <1>1, <1>2, <1>3, <1>4, <1>5, <1>6, Zenon
  DEF Next, Progress, Environment, WorkerStep, vars, WriteFile, RemoveFile, MakeDir,
      CreateSnapshot, OpenFails, ReadChunk, Update, Commit, HandleDelete, Start, ProcessFails
<1> QED  BY <1>7 DEF Goal

\* What a worker may hold.
Job == {Idle} \cup Reading \cup Updating \cup Deleting

LEMMA ReadChunkJob ==
  ASSUME DiskTypes, WorkTypes, ReadsExist, NEW w \in Worker, ReadChunk(w)
  PROVE  /\ work[w] \in Reading
         /\ \/ /\ work'[w] \in Updating /\ work'[w].pc = "update"
               /\ work'[w].path = work[w].path /\ work'[w].mtime = work[w].mtime
               /\ work'[w].size = work[w].size /\ work'[w].chunks = work[w].chunks
               /\ work[w].inode = NoFile => work[w].at >= Len(disk[work[w].path].data)
            \/ /\ work'[w] \in Reading /\ work'[w].pc = "read"
               /\ work'[w].path = work[w].path /\ work'[w].mtime = work[w].mtime
               /\ work'[w].size = work[w].size /\ work'[w].inode = work[w].inode
               /\ work[w].inode = NoFile =>
                    LET data == disk[work[w].path].data
                        chunk == NextChunk(data, work[w].at) IN
                    /\ work[w].at < Len(data)
                    /\ work'[w].at = work[w].at + Len(chunk)
                    /\ work'[w].chunks = Append(work[w].chunks, chunk)
         /\ \A v \in Worker \ {w} : work'[v] = work[v]
<1> DEFINE file == Opened(w)
           chunk == NextChunk(file.data, work[w].at)
<1>1. work[w] \in Reading
  BY WorkCases DEF ReadChunk
<1>2. file \in Version
  BY <1>1 DEF ReadsExist, Reading, DiskTypes, Opened
<1>4. /\ work' = [work EXCEPT ![w] =
           IF work[w].at >= Len(file.data)
             THEN [pc |-> "update", path |-> work[w].path, mtime |-> work[w].mtime,
                   size |-> work[w].size, chunks |-> work[w].chunks]
             ELSE [work[w] EXCEPT !.at = work[w].at + Len(chunk),
                                  !.chunks = Append(work[w].chunks, chunk)]]
  BY Zenon DEF ReadChunk
<1>5. work[w].inode = NoFile => file = disk[work[w].path]
  BY DEF Opened
<1> DEFINE n == Len(file.data)
<1>6. n \in Nat /\ work \in [Worker -> Job]
  BY <1>2 DEF WorkTypes, Version, Job
<1>7. CASE work[w].at >= n
  <2>1. work'[w] = [pc |-> "update", path |-> work[w].path, mtime |-> work[w].mtime,
                    size |-> work[w].size, chunks |-> work[w].chunks]
    BY <1>4, <1>6, <1>7, Zenon
  <2>2. \A v \in Worker \ {w} : work'[v] = work[v]
    BY <1>4, <1>6, Zenon
  <2> QED  BY <1>1, <1>5, <1>7, <2>1, <2>2 DEF Reading, Updating
<1>8. CASE ~(work[w].at >= n)
  <2>1. work'[w] = [work[w] EXCEPT !.at = work[w].at + Len(chunk),
                                   !.chunks = Append(work[w].chunks, chunk)]
    BY <1>4, <1>6, <1>8, Zenon
  <2>2. \A v \in Worker \ {w} : work'[v] = work[v]
    BY <1>4, <1>6, Zenon
  <2>3. work[w].at < n
    BY <1>1, <1>6, <1>8 DEF Reading
  <2>4. work[w].inode = NoFile =>
          /\ chunk = NextChunk(disk[work[w].path].data, work[w].at)
          /\ n = Len(disk[work[w].path].data)
    BY <1>5
  <2>6. chunk \in Seq(Nat)
    <3> DEFINE m == Min({work[w].at + ChunkSize, n})
    <3>1. work[w].at + ChunkSize \in Nat /\ file.data \in Seq(Nat) /\ work[w].at \in Nat
      BY <1>1, <1>2, WatcherAssumption DEF Version, Reading
    <3>2. m \in Nat /\ m <= n /\ m \in {work[w].at + ChunkSize, n}
      BY <1>6, <3>1, NatMin, Zenon
    <3>3. chunk = SubSeq(file.data, work[w].at + 1, m)
      BY Zenon DEF NextChunk
    <3> HIDE DEF m, chunk
    <3>4. work[w].at <= m /\ m <= Len(file.data)
      BY <1>6, <2>3, <3>1, <3>2, WatcherAssumption
    <3> QED  BY <3>1, <3>2, <3>3, <3>4, PartTypes, Zenon
  <2> HIDE DEF chunk, n
  <2>5. /\ work'[w] \in Reading /\ work'[w].pc = "read"
        /\ work'[w].path = work[w].path /\ work'[w].mtime = work[w].mtime
        /\ work'[w].size = work[w].size /\ work'[w].inode = work[w].inode
        /\ work'[w].at = work[w].at + Len(chunk)
        /\ work'[w].chunks = Append(work[w].chunks, chunk)
    <3>1. Len(chunk) \in Nat /\ work[w].at + Len(chunk) \in Nat
          /\ Append(work[w].chunks, chunk) \in Seq(Seq(Nat))
      BY <1>1, <2>6 DEF Reading
    <3> QED  BY <1>1, <2>1, <3>1, Zenon DEF Reading
  <2> QED  BY <1>1, <2>2, <2>3, <2>4, <2>5, Zenon
<1> QED  BY <1>7, <1>8

LEMMA WorkKept ==
  ASSUME DiskTypes, WorkTypes, ReadsExist, [Next]_vars
  PROVE  work' \in [Worker -> Job]
<1> DEFINE Goal == work' \in [Worker -> Job]
<1>0. work \in [Worker -> Job] /\ Idle \in Job
  BY Zenon DEF WorkTypes, Job
<1>1. ASSUME NEW p \in File, RemoveFile(p)  PROVE Goal
  <2>1. \A w \in Worker : Busy(w, p) /\ work[w].pc = "read" =>
          [work[w] EXCEPT !.inode = disk[p]] \in Reading
    BY WorkCases, Zenon DEF Reading, DiskTypes
  <2>2. work' = [w \in Worker |->
       IF Busy(w, p) /\ work[w].pc = "read" /\ work[w].inode = NoFile
         THEN [work[w] EXCEPT !.inode = disk[p]] ELSE work[w]]
    BY <1>1, Zenon DEF RemoveFile
  <2> QED  BY <1>0, <2>1, <2>2, Zenon DEF Job
<1>2. ASSUME Stop  PROVE Goal
  BY <1>0, <1>2, Zenon DEF Stop
<1>3. ASSUME NEW w \in Worker, ProcessFile(w)  PROVE Goal
  <2>1. PICK p \in Queue(w) :
         work' = [work EXCEPT ![w] =
         CASE disk[p] = NoFile -> IF w = "flush" THEN [pc |-> "delete", path |-> p] ELSE Idle
           [] disk[p] # NoFile /\ NeedsUpdate(p, Len(disk[p].data), disk[p].mtime) ->
                [pc |-> "read", path |-> p, mtime |-> disk[p].mtime, size |-> Len(disk[p].data),
                 inode |-> NoFile, at |-> 0, chunks |-> <<>>]
           [] OTHER -> Idle]
    BY <1>3, Zenon DEF ProcessFile
  <2>2. p \in File
    BY DEF Queue, WorkTypes
  <2>3. disk[p] # NoFile =>
          [pc |-> "read", path |-> p, mtime |-> disk[p].mtime, size |-> Len(disk[p].data),
                 inode |-> NoFile, at |-> 0, chunks |-> <<>>] \in Job
    BY <2>2 DEF DiskTypes, Version, Reading, Job
  <2>4. [pc |-> "delete", path |-> p] \in Job
    BY <2>2 DEF Deleting, Job
  <2> QED  BY <1>0, <2>1, <2>3, <2>4
<1>4. ASSUME NEW w \in Worker, ReadChunk(w)  PROVE Goal
  <2>1. work'[w] \in Job
    BY <1>4, ReadChunkJob, Zenon DEF Job
  <2>2. work' = [work EXCEPT ![w] = work'[w]]
    BY <1>0, <1>4 DEF ReadChunk
  <2> QED  BY <1>0, <2>1, <2>2, Zenon
<1>5. ASSUME NEW w \in Worker, Update(w)  PROVE Goal
  <2>1. work[w] \in Updating /\ work' = [work EXCEPT ![w].pc = "commit"]
    BY <1>5, WorkCases DEF Update
  <2>2. [work[w] EXCEPT !.pc = "commit"] \in Job
    BY <2>1, Zenon DEF Updating, Job
  <2> QED  BY <1>0, <2>1, <2>2
<1>6. ASSUME NEW w \in Worker, work' = [work EXCEPT ![w] = Idle]  PROVE Goal
  BY <1>0, <1>6, Zenon
<1>7. ASSUME UNCHANGED work  PROVE Goal
  BY <1>0, <1>7, Zenon
<1> HIDE DEF Goal
<1>8. Goal
  BY <1>1, <1>2, <1>3, <1>4, <1>5, <1>6, <1>7, Zenon
  DEF Next, Progress, Environment, WorkerStep, vars, WriteFile, MakeDir, HandleEvent,
      FlushPending, ScanAll, CreateSnapshot, OpenFails, Commit, HandleDelete, Start, ProcessFails
<1> QED  BY <1>8 DEF Goal

LEMMA WorkTypesKept ==
  ASSUME DiskTypes, WorkTypes, ReadsExist, [Next]_vars
  PROVE  WorkTypes'
BY WorkKept, EventsKept, QueuesKept, Zenon DEF WorkTypes, Job

-----------------------------------------------------------------------------
(* The tables fit together. *)

DBInv == DBTypes /\ RowsFit /\ TxFits

\* What the end of an update writes.
CommitWrites(w, p, id) ==
  /\ work[w] \in Updating /\ work[w].pc = "commit" /\ p = work[w].path /\ p \in File
  /\ files' = [files EXCEPT ![p] = WithID(RowOf(w), id)] /\ WithID(RowOf(w), id) \in FileRow
  /\ rows' \in Seq(Seq(Seq(Nat))) /\ lastID' = Len(rows') /\ Len(rows) <= Len(rows')
  /\ id \in 1..Len(rows') /\ rows'[id] = work[w].chunks
  /\ \A i \in 1..Len(rows) : i # id => rows'[i] = rows[i]
  /\ \A q \in File \ {p} : files[q] # NoRow => files[q].id \in 1..Len(rows) /\ files[q].id # id
  /\ tx' = NoTx /\ snapshots' = snapshots

LEMMA CommitEffect ==
  ASSUME DBInv, WorkTypes, NEW w \in Worker, Commit(w)
  PROVE  CommitWrites(w, work[w].path, IDOf(work[w].path))
<1> DEFINE p == work[w].path
           id == IDOf(p)
<1>1. work[w].pc = "commit" /\ work[w] \in Updating /\ p \in File
  BY WorkCases DEF Commit
<1>2. tx # NoTx /\ tx.by = w /\ w # "snapshot"
  BY DEF Commit, SetFileChunks, Worker
<1>3. TxOf(w)
  BY <1>2, Zenon DEF DBInv, TxFits, TxOf
<1>4. /\ files' = tx.files /\ rows' = [tx.rows EXCEPT ![tx.id] = work[w].chunks]
      /\ lastID' = tx.lastID /\ tx' = NoTx /\ snapshots' = snapshots
  BY DEF Commit, SetFileChunks
<1>5. rows \in Seq(Seq(Seq(Nat))) /\ Len(rows) \in Nat
  BY DEF DBInv, DBTypes
<1>6. tx.id = id /\ tx.files = [files EXCEPT ![p] = WithID(RowOf(w), id)] /\ tx.lastID = Len(tx.rows)
  BY <1>3, Zenon DEF TxOf
<1>7. /\ tx.rows \in Seq(Seq(Seq(Nat))) /\ id \in 1..Len(tx.rows) /\ Len(rows) <= Len(tx.rows)
      /\ \A i \in 1..Len(rows) : tx.rows[i] = rows[i]
      /\ id \in Nat
  <2>1. CASE files[p] = NoRow
    <3>1. tx.rows = Append(rows, <<>>) /\ id = Len(rows) + 1
      BY <1>3, <2>1 DEF TxOf, IDOf
    <3>2. <<>> \in Seq(Seq(Nat))
      OBVIOUS
    <3>3. /\ Append(rows, <<>>) \in Seq(Seq(Seq(Nat))) /\ Len(Append(rows, <<>>)) = Len(rows) + 1
          /\ \A i \in 1..Len(rows) : Append(rows, <<>>)[i] = rows[i]
      BY <1>5, <3>2, AppendTypes
    <3> QED  BY <1>5, <3>1, <3>3
  <2>2. CASE files[p] # NoRow
    <3>1. tx.rows = rows /\ id = files[p].id
      BY <1>3, <2>2 DEF TxOf, IDOf
    <3>2. files[p].id \in 1..Len(rows)
      BY <1>1, <2>2 DEF DBInv, RowsFit
    <3> QED  BY <1>5, <3>1, <3>2
  <2> QED  BY <2>1, <2>2
<1>8. \A q \in File \ {p} : files[q] # NoRow => files[q].id \in 1..Len(rows) /\ files[q].id # id
  BY <1>1, <1>5 DEF DBInv, RowsFit, IDOf
<1>9. WithID(RowOf(w), id) \in FileRow
  BY <1>1, <1>7 DEF WithID, RowOf, FileRow, Updating
<1> HIDE DEF id, p
<1>10. work[w].chunks \in Seq(Seq(Nat))
  BY <1>1 DEF Updating
<1>11. /\ rows' \in Seq(Seq(Seq(Nat))) /\ Len(rows') = Len(tx.rows)
       /\ rows'[id] = work[w].chunks
       /\ \A i \in 1..Len(rows) : i # id => rows'[i] = rows[i]
  BY <1>4, <1>5, <1>6, <1>7, <1>10, SMTT(20)
<1> QED
  BY <1>1, <1>4, <1>5, <1>6, <1>7, <1>8, <1>9, <1>11, Zenon DEF CommitWrites, id, p

LEMMA CommitKeeps ==
  ASSUME DBInv, WorkTypes, NEW w \in Worker, Commit(w)
  PROVE  DBInv'
<1> DEFINE p == work[w].path
           id == IDOf(p)
<1>1. CommitWrites(w, p, id)
  BY CommitEffect, Zenon
<1> HIDE DEF p, id
<1>2. files \in [File -> FileRow \cup {NoRow}] /\ p \in File
  BY <1>1, Zenon DEF DBInv, DBTypes, CommitWrites
<1>3. files'[p] = WithID(RowOf(w), id) /\ \A q \in File \ {p} : files'[q] = files[q]
  BY <1>1, <1>2, Zenon DEF CommitWrites
<1>4. DBTypes'
  BY <1>1, <1>2 DEF DBInv, DBTypes, CommitWrites
<1>5. /\ files'[p].id = id /\ files'[p].root = rows'[id] /\ files'[p].count = Len(rows'[id])
      /\ id \in 1..Len(rows')
  <2>1. /\ WithID(RowOf(w), id).id = id /\ WithID(RowOf(w), id).root = work[w].chunks
        /\ WithID(RowOf(w), id).count = Len(work[w].chunks)
    BY DEF WithID, RowOf
  <2> QED  BY <1>1, <1>3, <2>1, Zenon DEF CommitWrites
<1>6. ASSUME NEW q \in File \ {p}, files[q] # NoRow
      PROVE  /\ files'[q].id \in 1..Len(rows') /\ files'[q].id # id
             /\ files'[q].root = rows'[files'[q].id] /\ files'[q].count = Len(rows'[files'[q].id])
  <2>1. /\ files[q].id \in 1..Len(rows) /\ files[q].root = rows[files[q].id]
        /\ files[q].count = Len(rows[files[q].id])
    BY <1>6, Zenon DEF DBInv, RowsFit
  <2>2. files[q].id # id /\ rows'[files[q].id] = rows[files[q].id]
    BY <1>1, <1>6, <2>1, Zenon DEF CommitWrites
  <2>3. 1..Len(rows) \subseteq 1..Len(rows')
    BY <1>1 DEF CommitWrites, DBInv, DBTypes
  <2> QED  BY <1>3, <2>1, <2>2, <2>3, Zenon
<1>7. RowsFit'
  <2> SUFFICES ASSUME NEW q \in File, files'[q] # NoRow
               PROVE  /\ files'[q].id \in 1..Len(rows')
                      /\ files'[q].root = rows'[files'[q].id]
                      /\ files'[q].count = Len(rows'[files'[q].id])
                      /\ \A r \in File \ {q} : files'[r] # NoRow => files'[r].id # files'[q].id
    BY Zenon DEF RowsFit
  <2>1. CASE q = p
    BY <1>3, <1>5, <1>6, <2>1, Zenon
  <2>2. CASE q # p
    <3>1. \A r \in File \ {q} : files'[r] # NoRow => files'[r].id # files'[q].id
      <4> SUFFICES ASSUME NEW r \in File \ {q}, files'[r] # NoRow  PROVE files'[r].id # files'[q].id
        OBVIOUS
      <4>1. CASE r = p
        BY <1>3, <1>5, <1>6, <2>2, <4>1, Zenon
      <4>2. CASE r # p
        <5>1. files'[r] = files[r] /\ files'[q] = files[q]
          BY <1>3, <2>2, <4>2, Zenon
        <5> QED  BY <5>1, ZenonT(30) DEF DBInv, RowsFit
      <4> QED  BY <4>1, <4>2
    <3> QED  BY <1>3, <1>6, <2>2, <3>1, Zenon
  <2> QED  BY <2>1, <2>2
<1>8. TxFits'
  BY <1>1 DEF TxFits, CommitWrites
<1> QED  BY <1>4, <1>7, <1>8 DEF DBInv

LEMMA DeleteKeeps ==
  ASSUME DBInv, WorkTypes, NEW w \in Worker, HandleDelete(w)
  PROVE  /\ DBInv'
         /\ work[w].path \in File
         /\ files' = [files EXCEPT ![work[w].path] = NoRow]
         /\ \A q \in File \ {work[w].path} :
              files[q] # NoRow => rows'[files[q].id] = rows[files[q].id]
<1> DEFINE p == work[w].path
<1>1. /\ files' = [files EXCEPT ![p] = NoRow]
      /\ \/ rows' = rows
         \/ files[p] # NoRow /\ rows' = [rows EXCEPT ![files[p].id] = <<>>]
      /\ UNCHANGED <<lastID, tx, snapshots>> /\ tx = NoTx
  BY DEF HandleDelete, DeleteFile
<1>2. p \in File
  BY WorkCases DEF HandleDelete
<1>3. files \in [File -> FileRow \cup {NoRow}] /\ rows \in Seq(Seq(Seq(Nat))) /\ Len(rows) \in Nat
  BY DEF DBInv, DBTypes
<1> HIDE DEF p
<1>4. /\ rows' \in Seq(Seq(Seq(Nat))) /\ Len(rows') = Len(rows)
      /\ \A q \in File \ {p} : files[q] # NoRow => rows'[files[q].id] = rows[files[q].id]
  <2>1. CASE rows' = rows
    BY <1>3, <2>1
  <2>2. CASE files[p] # NoRow /\ rows' = [rows EXCEPT ![files[p].id] = <<>>]
    <3>1. files[p].id \in 1..Len(rows)
      BY <1>2, <2>2 DEF DBInv, RowsFit
    <3>2. \A q \in File \ {p} : files[q] # NoRow =>
            files[q].id \in 1..Len(rows) /\ files[q].id # files[p].id
      BY <1>2, <2>2, Zenon DEF DBInv, RowsFit
    <3>3. <<>> \in Seq(Seq(Nat))
      OBVIOUS
    <3> QED  BY <1>3, <2>2, <3>1, <3>2, <3>3
  <2> QED  BY <1>1, <2>1, <2>2
<1>5. DBTypes'
  BY <1>1, <1>2, <1>3, <1>4 DEF DBInv, DBTypes
<1>6. files'[p] = NoRow /\ \A q \in File \ {p} : files'[q] = files[q]
  BY <1>1, <1>2, <1>3, Zenon
<1>7. RowsFit'
  <2> SUFFICES ASSUME NEW q \in File, files'[q] # NoRow
               PROVE  /\ files'[q].id \in 1..Len(rows')
                      /\ files'[q].root = rows'[files'[q].id]
                      /\ files'[q].count = Len(rows'[files'[q].id])
                      /\ \A r \in File \ {q} : files'[r] # NoRow => files'[r].id # files'[q].id
    BY Zenon DEF RowsFit
  <2>1. q # p /\ files'[q] = files[q] /\ files[q] # NoRow
    BY <1>6, Zenon
  <2>2. \A r \in File \ {q} : files'[r] # NoRow => files[r] # NoRow /\ files'[r] = files[r]
    BY <1>6, Zenon
  <2>3. /\ files[q].id \in 1..Len(rows) /\ files[q].root = rows[files[q].id]
        /\ files[q].count = Len(rows[files[q].id])
        /\ \A r \in File \ {q} : files[r] # NoRow => files[r].id # files[q].id
    BY <2>1, Zenon DEF DBInv, RowsFit
  <2>4. rows'[files[q].id] = rows[files[q].id]
    BY <1>4, <2>1, Zenon
  <2>5. \A r \in File \ {q} : files'[r] # NoRow => files'[r].id # files'[q].id
    BY <2>1, <2>2, <2>3, Zenon
  <2> QED  BY <1>4, <2>1, <2>3, <2>4, <2>5, Zenon
<1>8. TxFits'
  BY <1>1 DEF TxFits
<1> QED  BY <1>1, <1>2, <1>4, <1>5, <1>7, <1>8, Zenon DEF DBInv, p

LEMMA NatMax ==
  ASSUME NEW a \in Nat, NEW b \in Nat
  PROVE  (a <= b => Max({a, b}) = b) /\ (b <= a => Max({a, b}) = a)
<1>1. \E x \in {a, b} : \A y \in {a, b} : x >= y
  OBVIOUS
<1> QED  BY <1>1 DEF Max

LEMMA UpdateKeeps ==
  ASSUME DBInv, WorkTypes, NEW w \in Worker, Update(w)
  PROVE  TxFits'
<1> DEFINE p == work[w].path
           id == IF files[p] = NoRow THEN lastID + 1 ELSE files[p].id
<1>1. /\ work[w] \in Updating /\ p \in File /\ work' = [work EXCEPT ![w].pc = "commit"]
      /\ work \in [Worker -> Job]
  BY WorkCases, Zenon DEF Update, WorkTypes, Job
<1>2. work'[w] = [work[w] EXCEPT !.pc = "commit"]
  BY <1>1, Zenon
<1>3. /\ work'[w].pc = "commit" /\ work'[w].path = p
      /\ RowOf(w)' = RowOf(w)
  BY <1>1, <1>2 DEF Updating, RowOf
<1>4. /\ tx' = [by |-> w, id |-> id,
            files |-> [files EXCEPT ![p] = WithID(RowOf(w), id)],
            rows |-> IF id > lastID THEN Append(rows, <<>>) ELSE rows,
            lastID |-> Max({id, lastID})]
      /\ UNCHANGED <<files, rows>>
  BY Zenon DEF Update, UpsertFile, RowOf, computeMerkleRoot
<1>5. lastID = Len(rows) /\ Len(rows) \in Nat /\ rows \in Seq(Seq(Seq(Nat)))
  BY DEF DBInv, DBTypes
<1>6. files[p] # NoRow => files[p].id \in 1..Len(rows)
  BY <1>1, SMTT(20) DEF DBInv, RowsFit
<1>7. id = IDOf(p) /\ IDOf(work[w].path)' = id /\ id \in Nat
  <2>1. id = IDOf(p)
    BY <1>5, Zenon DEF IDOf
  <2>2. IDOf(work[w].path)' = IDOf(p)
    BY <1>3, <1>4, Zenon DEF IDOf
  <2>3. id \in Nat
    BY <1>5, <1>6, NatFacts, Zenon
  <2> QED  BY <2>1, <2>2, <2>3, Zenon
<1> HIDE DEF p
<1>8. Max({id, lastID}) = IF files[p] = NoRow THEN lastID + 1 ELSE lastID
  <2>1. CASE files[p] = NoRow
    BY <1>5, <2>1, NatMax
  <2>2. CASE files[p] # NoRow
    <3>1. id <= lastID /\ id \in Nat /\ lastID \in Nat
      BY <1>5, <1>6, <2>2
    <3> QED  BY <2>2, <3>1, NatMax, Zenon
  <2> QED  BY <2>1, <2>2
<1>9. (id > lastID) <=> (files[p] = NoRow)
  BY <1>5, <1>6
<1>10. Len(Append(rows, <<>>)) = Len(rows) + 1
  BY <1>5
<1> HIDE DEF id
<1>11. /\ tx'.by = w /\ tx'.id = id /\ tx'.files = [files EXCEPT ![p] = WithID(RowOf(w), id)]
       /\ tx'.rows = (IF files[p] = NoRow THEN Append(rows, <<>>) ELSE rows)
       /\ tx'.lastID = Len(tx'.rows)
  BY <1>4, <1>5, <1>8, <1>9, <1>10
<1>12. TxOf(w)'
  BY <1>3, <1>4, <1>7, <1>11, Zenon DEF TxOf
<1> QED  BY <1>12, Zenon DEF TxFits

LEMMA CountKeeps ==
  ASSUME DBInv, CountFiles
  PROVE  TxFits'
<1>1. Copied' = Copied
  BY Zenon DEF CountFiles, Copied
<1>2. tx' = [by |-> "snapshot", count |-> Cardinality(DOMAIN Copied), total |-> SumSizes(Copied)]
  BY Zenon DEF CountFiles
<1>3. tx'.by = "snapshot" /\ tx'.count = Cardinality(DOMAIN Copied) /\ tx'.total = SumSizes(Copied)
  BY <1>2
<1>4. SumSizes(Copied)' = SumSizes(Copied) /\ Cardinality(DOMAIN Copied)' = Cardinality(DOMAIN Copied)
  BY <1>1
<1> QED  BY <1>3, <1>4, Zenon DEF TxFits

LEMMA CopyKeeps ==
  ASSUME DBInv, CopyFiles
  PROVE  DBInv'
<1>1. Copied \in Sizes
  <2>1. Copied \in [{q \in File : files[q] # NoRow} -> Nat]
    BY DEF Copied, DBInv, DBTypes, FileRow
  <2>2. {q \in File : files[q] # NoRow} \in SUBSET File
    OBVIOUS
  <2> QED  BY <2>1, <2>2, Zenon DEF Sizes
<1>2. tx.count = Cardinality(DOMAIN Copied) /\ tx.total = SumSizes(Copied)
  <2>1. tx # NoTx /\ tx.by = "snapshot"
    BY DEF CopyFiles
  <2>2. ~\E w \in Worker : TxOf(w)
    BY <2>1 DEF TxOf, Worker
  <2> QED  BY <2>1, <2>2, Zenon DEF DBInv, TxFits
<1>3. snapshots' = Append(snapshots, SnapshotOf(Copied))
  BY <1>2, Zenon DEF CopyFiles, SnapshotOf
<1>4. SnapshotOf(Copied) \in {SnapshotOf(sizes) : sizes \in Sizes}
  BY <1>1, Zenon
<1>5. snapshots' \in Seq({SnapshotOf(sizes) : sizes \in Sizes})
  BY <1>3, <1>4, AppendTypes, Zenon DEF DBInv, DBTypes
<1>6. UNCHANGED <<files, rows, lastID>> /\ tx' = NoTx
  BY DEF CopyFiles
<1> QED  BY <1>5, <1>6, Zenon DEF DBInv, DBTypes, RowsFit, TxFits

\* Other steps leave the tables alone, and the worker in a transaction.
LEMMA TablesStay ==
  ASSUME DBInv, UNCHANGED <<files, rows, lastID, snapshots>>
  PROVE  /\ DBTypes' /\ RowsFit'
         /\ tx' = NoTx => TxFits'
         /\ (tx' = tx /\ \A w \in Worker : work[w].pc = "commit" => work'[w] = work[w]) => TxFits'
<1>1. DBTypes' /\ RowsFit'
  BY Zenon DEF DBInv, DBTypes, RowsFit
<1>2. ASSUME tx' = NoTx  PROVE TxFits'
  BY <1>2, Zenon DEF TxFits
<1>3. ASSUME tx' = tx, \A w \in Worker : work[w].pc = "commit" => work'[w] = work[w]
      PROVE  TxFits'
  <2>1. ASSUME NEW w \in Worker, TxOf(w)  PROVE TxOf(w)'
    <3>1. work'[w] = work[w]
      BY <1>3, <2>1, Zenon DEF TxOf
    <3> QED  BY <1>3, <2>1, <3>1, Zenon DEF TxOf, IDOf, RowOf
  <2>2. SumSizes(Copied)' = SumSizes(Copied) /\ Cardinality(DOMAIN Copied)' = Cardinality(DOMAIN Copied)
    <3>1. Copied' = Copied
      BY Zenon DEF Copied
    <3> QED  BY <3>1
  <2> QED  BY <1>3, <2>1, <2>2, Zenon DEF TxFits, DBInv
<1> QED  BY <1>1, <1>2, <1>3, Zenon

LEMMA DBKept ==
  ASSUME DBInv, DiskTypes, WorkTypes, ReadsExist, [Next]_vars
  PROVE  DBInv'
<1> DEFINE Stay == \A w \in Worker : work[w].pc = "commit" => work'[w] = work[w]
           Calm == UNCHANGED <<files, rows, lastID, snapshots>> /\ (tx' = NoTx \/ (tx' = tx /\ Stay))
<1>0. ASSUME Calm  PROVE DBInv'
  BY <1>0, TablesStay, Zenon DEF DBInv
<1>a. work \in [Worker -> Job]
  BY Zenon DEF WorkTypes, Job
<1>1. ASSUME NEW p \in File, RemoveFile(p)  PROVE Calm
  <2>1. work' = [w \in Worker |->
       IF Busy(w, p) /\ work[w].pc = "read" /\ work[w].inode = NoFile
         THEN [work[w] EXCEPT !.inode = disk[p]] ELSE work[w]]
    BY <1>1, Zenon DEF RemoveFile
  <2>2. Stay
    BY <2>1
  <2> QED  BY <1>1, <2>2, Zenon DEF RemoveFile, dbVars
<1>2. ASSUME NEW w \in Worker, ProcessFile(w)  PROVE Calm
  <2>1. tx = NoTx /\ UNCHANGED <<files, rows, lastID, tx, snapshots>>
    BY <1>2, Zenon DEF ProcessFile, ReadTogether
  <2> QED  BY <2>1
<1>3. ASSUME NEW w \in Worker, ReadChunk(w) \/ OpenFails(w)  PROVE Calm
  <2>1. work[w].pc = "read" /\ UNCHANGED <<files, rows, lastID, tx, snapshots>>
    BY <1>3, Zenon DEF ReadChunk, OpenFails, dbVars
  <2>2. \A v \in Worker \ {w} : work'[v] = work[v]
    BY <1>3, <1>a, ReadChunkJob, Zenon DEF OpenFails
  <2>3. Stay
    BY <2>1, <2>2
  <2> QED  BY <2>1, <2>3, Zenon
<1>4. ASSUME NEW w \in Worker, ProcessFails(w)  PROVE Calm
  <2>1. CASE work[w].pc = "commit"
    BY <1>4, <2>1 DEF ProcessFails, Rollback
  <2>2. CASE work[w].pc # "commit"
    <3>1. UNCHANGED <<files, rows, lastID, tx, snapshots>> /\ work' = [work EXCEPT ![w] = Idle]
      BY <1>4, <2>2, Zenon DEF ProcessFails, dbVars
    <3>2. Stay
      BY <1>a, <2>2, <3>1, Zenon
    <3> QED  BY <3>1, <3>2, Zenon
  <2> QED  BY <2>1, <2>2
<1>5. ASSUME NEW w \in Worker, Update(w)  PROVE DBInv'
  <2>1. UNCHANGED <<files, rows, lastID, snapshots>>
    BY <1>5, Zenon DEF Update, UpsertFile
  <2> QED  BY <1>5, <2>1, UpdateKeeps, TablesStay, Zenon DEF DBInv
<1>6. ASSUME NEW w \in Worker, Commit(w)  PROVE DBInv'
  BY <1>6, CommitKeeps, Zenon
<1>7. ASSUME NEW w \in Worker, HandleDelete(w)  PROVE DBInv'
  BY <1>7, DeleteKeeps, Zenon
<1>8. ASSUME CreateSnapshot  PROVE DBInv'
  <2>1. ASSUME CountFiles  PROVE DBInv'
    <3>1. UNCHANGED <<files, rows, lastID, snapshots>>
      BY <2>1, Zenon DEF CountFiles
    <3> QED  BY <2>1, <3>1, CountKeeps, TablesStay, Zenon DEF DBInv
  <2>2. ASSUME CopyFiles  PROVE DBInv'
    BY <2>2, CopyKeeps, Zenon
  <2> QED  BY <1>8, <2>1, <2>2, Zenon DEF CreateSnapshot
<1>9. ASSUME Stop  PROVE Calm
  BY <1>9 DEF Stop
<1>10. ASSUME UNCHANGED <<dbVars, work>>  PROVE Calm
  BY <1>10, Zenon DEF dbVars
<1> HIDE DEF Stay, Calm
<1> QED
  BY <1>0, <1>1, <1>2, <1>3, <1>4, <1>5, <1>6, <1>7, <1>8, <1>9, <1>10, Zenon
  DEF Next, Progress, Environment, WorkerStep, vars, WriteFile, MakeDir, HandleEvent,
      FlushPending, ScanAll, Start

-----------------------------------------------------------------------------
(* Rows and disk agree about the bytes. *)

LEMMA ReadsExistKept ==
  ASSUME DiskTypes, WorkTypes, ReadsExist, [Next]_vars
  PROVE  ReadsExist'
<1> DEFINE Goal == ReadsExist'
<1>a. work \in [Worker -> Job] /\ disk \in [File -> Version \cup {NoFile}]
  BY Zenon DEF WorkTypes, Job, DiskTypes
<1>1. ASSUME NEW p \in File, NEW e \in Writes, WriteFile(p, e[1], e[2])  PROVE Goal
  <2>1. work' = work /\ \A q \in File : disk[q] # NoFile => disk'[q] # NoFile
    <3>1. disk' \in [File -> Version \cup {NoFile}] /\ [Next]_vars
      BY DiskTypesKept, Zenon DEF DiskTypes
    <3>2. disk'[p] = [data |-> [i \in 1..e[1] |-> changes'], mtime |-> now', change |-> changes']
      BY <1>1, <1>a, Zenon DEF WriteFile
    <3>3. now' \in Nat /\ changes' \in Nat /\ e[1] \in Nat
      BY DiskTypesKept, WatcherAssumption DEF DiskTypes
    <3>4. [i \in 1..e[1] |-> changes'] \in Seq(Nat)
      BY <3>3
    <3>5. disk'[p] # NoFile
      BY <3>2, <3>3, <3>4, WatcherAssumption
    <3> QED  BY <1>1, <1>a, <3>5 DEF WriteFile
  <2> QED  BY <2>1, WorkCases DEF ReadsExist
<1>2. ASSUME NEW p \in File, RemoveFile(p)  PROVE Goal
  <2>1. work' = [w \in Worker |->
       IF Busy(w, p) /\ work[w].pc = "read" /\ work[w].inode = NoFile
         THEN [work[w] EXCEPT !.inode = disk[p]] ELSE work[w]]
    BY <1>2, Zenon DEF RemoveFile
  <2>2. disk[p] # NoFile /\ disk' = [disk EXCEPT ![p] = NoFile]
    BY <1>2 DEF RemoveFile
  <2>3. ASSUME NEW w \in Worker, work'[w].pc = "read", work'[w].inode = NoFile
        PROVE  disk'[work'[w].path] # NoFile
    <3>1. CASE Busy(w, p) /\ work[w].pc = "read" /\ work[w].inode = NoFile
      <4>1. work[w] \in Reading /\ work'[w] = [work[w] EXCEPT !.inode = disk[p]]
        BY <2>1, <3>1, WorkCases
      <4> QED  BY <2>2, <2>3, <4>1 DEF Reading
    <3>2. CASE ~(Busy(w, p) /\ work[w].pc = "read" /\ work[w].inode = NoFile)
      <4>1. work'[w] = work[w]
        BY <2>1, <3>2, Zenon
      <4>2. work[w].pc = "read" /\ work[w].inode = NoFile /\ work[w].path # p
        BY <2>3, <3>2, <4>1 DEF Busy
      <4>3. work[w].path \in File /\ disk[work[w].path] # NoFile
        BY <4>2, WorkCases DEF ReadsExist
      <4> QED  BY <1>a, <2>2, <4>1, <4>2, <4>3
    <3> QED  BY <3>1, <3>2
  <2> QED  BY <2>3, Zenon DEF ReadsExist
<1>3. ASSUME NEW w \in Worker, disk' = disk, \A v \in Worker \ {w} : work'[v] = work[v],
             work'[w].pc = "read" /\ work'[w].inode = NoFile =>
               \/ disk[work'[w].path] # NoFile
               \/ work[w].pc = "read" /\ work[w].inode = NoFile /\ work'[w].path = work[w].path
      PROVE  Goal
  BY <1>3, Zenon DEF ReadsExist
<1>4. ASSUME NEW w \in Worker, ProcessFile(w)  PROVE Goal
  <2>1. PICK p \in Queue(w) :
         work' = [work EXCEPT ![w] =
         CASE disk[p] = NoFile -> IF w = "flush" THEN [pc |-> "delete", path |-> p] ELSE Idle
           [] disk[p] # NoFile /\ NeedsUpdate(p, Len(disk[p].data), disk[p].mtime) ->
                [pc |-> "read", path |-> p, mtime |-> disk[p].mtime, size |-> Len(disk[p].data),
                 inode |-> NoFile, at |-> 0, chunks |-> <<>>]
           [] OTHER -> Idle]
    BY <1>4, Zenon DEF ProcessFile
  <2>2. work'[w].pc = "read" => disk[work'[w].path] # NoFile
    BY <1>a, <2>1 DEF Idle
  <2>3. \A v \in Worker \ {w} : work'[v] = work[v]
    BY <1>a, <2>1, Zenon
  <2>4. disk' = disk
    BY <1>4, Zenon DEF ProcessFile, diskVars
  <2> QED  BY <1>3, <2>2, <2>3, <2>4, Zenon
<1>5. ASSUME NEW w \in Worker, ReadChunk(w)  PROVE Goal
  <2>1. disk' = disk /\ work[w].pc = "read"
    BY <1>5, Zenon DEF ReadChunk, diskVars
  <2>2. /\ \A v \in Worker \ {w} : work'[v] = work[v]
        /\ work'[w].pc # "read" \/ (work'[w].path = work[w].path /\ work'[w].inode = work[w].inode)
    BY <1>5, ReadChunkJob
  <2> QED  BY <1>3, <2>1, <2>2, Zenon
<1>6. ASSUME NEW w \in Worker, Update(w)  PROVE Goal
  <2>1. disk' = disk /\ work' = [work EXCEPT ![w].pc = "commit"] /\ work[w] \in Updating
    BY <1>6, WorkCases, Zenon DEF Update, diskVars
  <2>2. work'[w].pc # "read" /\ \A v \in Worker \ {w} : work'[v] = work[v]
    BY <1>a, <2>1 DEF Updating
  <2> QED  BY <1>3, <2>1, <2>2, Zenon
<1>7. ASSUME NEW w \in Worker, work' = [work EXCEPT ![w] = Idle], disk' = disk  PROVE Goal
  <2>1. work'[w].pc # "read" /\ \A v \in Worker \ {w} : work'[v] = work[v]
    BY <1>a, <1>7 DEF Idle
  <2> QED  BY <1>3, <1>7, <2>1, Zenon
<1>8. ASSUME Stop  PROVE Goal
  BY <1>8 DEF Stop, Idle, ReadsExist
<1>9. ASSUME UNCHANGED <<work, disk>>  PROVE Goal
  BY <1>9, Zenon DEF ReadsExist
<1> HIDE DEF Goal
<1>10. Goal
  BY <1>1, <1>2, <1>4, <1>5, <1>6, <1>7, <1>8, <1>9, Zenon
  DEF Next, Progress, Environment, WorkerStep, vars, diskVars, MakeDir, HandleEvent,
      FlushPending, ScanAll, CreateSnapshot, OpenFails, Commit, HandleDelete, Start, ProcessFails
<1> QED  BY <1>10 DEF Goal

\* A worker takes path p: it will delete the row, read the file or do neither.
Picks(w, p) ==
  \/ disk[p] = NoFile /\ w = "flush" /\ work'[w] = Deleter(p)
  \/ disk[p] = NoFile /\ w # "flush" /\ work'[w] = Idle
  \/ /\ disk[p] # NoFile
     /\ work'[w] = Reader(p)
  \/ /\ disk[p] # NoFile /\ ~NeedsUpdate(p, Len(disk[p].data), disk[p].mtime)
     /\ work'[w] = Idle

Takes(w, p) ==
  /\ p \in File /\ p \in Queue(w) /\ work[w] = Idle
  /\ \A v \in Worker \ {w} : work'[v] = work[v]
  /\ Picks(w, p)
  /\ Take(w, p)
  /\ lost' = (IF disk[p] # NoFile \/ w = "flush" THEN lost \ {p} ELSE lost)
  /\ raced' = (IF \E v \in Worker \ {w} : Busy(v, p) THEN raced \cup {p} ELSE raced)

LEMMA ProcessEffect ==
  ASSUME WorkTypes, NEW w \in Worker, ProcessFile(w)
  PROVE  \E p \in File : Takes(w, p)
<1>a. work \in [Worker -> Job]
  BY Zenon DEF WorkTypes, Job
<1> DEFINE job(p) ==
         CASE disk[p] = NoFile -> IF w = "flush" THEN [pc |-> "delete", path |-> p] ELSE Idle
           [] disk[p] # NoFile /\ NeedsUpdate(p, Len(disk[p].data), disk[p].mtime) ->
                [pc |-> "read", path |-> p, mtime |-> disk[p].mtime, size |-> Len(disk[p].data),
                 inode |-> NoFile, at |-> 0, chunks |-> <<>>]
           [] OTHER -> Idle
<1>1. PICK p \in Queue(w) :
         /\ work[w] = Idle /\ Take(w, p) /\ work' = [work EXCEPT ![w] = job(p)]
         /\ lost' = (IF disk[p] # NoFile \/ w = "flush" THEN lost \ {p} ELSE lost)
         /\ raced' = (IF \E v \in Worker \ {w} : Busy(v, p) THEN raced \cup {p} ELSE raced)
  BY Zenon DEF ProcessFile
<1>2. p \in File
  BY DEF Queue, WorkTypes
<1>3. work'[w] = job(p) /\ \A v \in Worker \ {w} : work'[v] = work[v]
  BY <1>1, <1>a, Zenon
<1>4. CASE disk[p] = NoFile
  <2>1. job(p) = IF w = "flush" THEN Deleter(p) ELSE Idle
    BY <1>4 DEF Deleter
  <2> HIDE DEF job
  <2> QED  BY <1>1, <1>2, <1>3, <1>4, <2>1, Zenon DEF Takes, Picks
<1>5. CASE disk[p] # NoFile /\ NeedsUpdate(p, Len(disk[p].data), disk[p].mtime)
  <2>1. job(p) = Reader(p)
    BY <1>5 DEF Reader
  <2> HIDE DEF job
  <2> QED  BY <1>1, <1>2, <1>3, <1>5, <2>1, Zenon DEF Takes, Picks
<1>6. CASE disk[p] # NoFile /\ ~NeedsUpdate(p, Len(disk[p].data), disk[p].mtime)
  <2>1. job(p) = Idle
    BY <1>6, SMTT(20)
  <2> HIDE DEF job
  <2> QED  BY <1>1, <1>2, <1>3, <1>6, <2>1, Zenon DEF Takes, Picks
<1> QED  BY <1>4, <1>5, <1>6

LEMMA RemoveEffect ==
  ASSUME DiskTypes, WorkTypes, NEW p \in File, RemoveFile(p), NEW w \in Worker
  PROVE  \/ work'[w] = work[w] /\ ~(work[w].pc = "read" /\ work[w].path = p /\ work[w].inode = NoFile)
         \/ /\ work[w].pc = "read" /\ work[w].path = p /\ work'[w].inode = disk[p]
            /\ work'[w].pc = "read" /\ work'[w].path = p
            /\ work'[w].mtime = work[w].mtime /\ work'[w].size = work[w].size
<1>1. work' = [v \in Worker |->
       IF Busy(v, p) /\ work[v].pc = "read" /\ work[v].inode = NoFile
         THEN [work[v] EXCEPT !.inode = disk[p]] ELSE work[v]]
  BY Zenon DEF RemoveFile
<1>2. CASE Busy(w, p) /\ work[w].pc = "read" /\ work[w].inode = NoFile
  <2>1. work[w] \in Reading /\ work'[w] = [work[w] EXCEPT !.inode = disk[p]]
    BY <1>1, <1>2, WorkCases
  <2> QED  BY <1>2, <2>1 DEF Reading, Busy
<1>3. CASE ~(Busy(w, p) /\ work[w].pc = "read" /\ work[w].inode = NoFile)
  <2>1. work'[w] = work[w]
    BY <1>1, <1>3, Zenon
  <2>2. ~(work[w].pc = "read" /\ work[w].path = p /\ work[w].inode = NoFile)
    BY <1>3 DEF Busy
  <2> QED  BY <2>1, <2>2, Zenon
<1> QED  BY <1>2, <1>3

LEMMA UpdateEffect ==
  ASSUME WorkTypes, NEW w \in Worker, Update(w)
  PROVE  /\ work[w].pc = "update" /\ work'[w].pc = "commit"
         /\ work'[w].path = work[w].path /\ work'[w].mtime = work[w].mtime
         /\ work'[w].size = work[w].size /\ work'[w].chunks = work[w].chunks
         /\ \A v \in Worker \ {w} : work'[v] = work[v]
<1>1. work' = [work EXCEPT ![w].pc = "commit"] /\ work[w].pc = "update"
  BY Zenon DEF Update
<1>2. work[w] \in Updating /\ work \in [Worker -> Job]
  BY <1>1, WorkCases, Zenon DEF WorkTypes, Job
<1>3. work'[w] = [work[w] EXCEPT !.pc = "commit"] /\ \A v \in Worker \ {w} : work'[v] = work[v]
  BY <1>1, <1>2, Zenon
<1> QED  BY <1>1, <1>2, <1>3 DEF Updating

LEMMA IdleEffect ==
  ASSUME WorkTypes, NEW w \in Worker, work' = [work EXCEPT ![w] = Idle]
  PROVE  /\ work'[w] = Idle /\ work'[w].pc = "idle"
         /\ \A v \in Worker \ {w} : work'[v] = work[v]
<1>1. work \in [Worker -> Job]
  BY Zenon DEF WorkTypes, Job
<1>2. work'[w] = Idle /\ \A v \in Worker \ {w} : work'[v] = work[v]
  BY <1>1, Zenon
<1> QED  BY <1>2 DEF Idle

LEMMA BlurredStays ==
  ASSUME NEW p, disk'[p] = disk[p], written \subseteq written', Blurred(p)
  PROVE  Blurred(p)'
BY Zenon DEF Blurred

LEMMA WasWrittenStays ==
  ASSUME NEW p, NEW m, NEW s, written \subseteq written', WasWritten(p, m, s)
  PROVE  WasWritten(p, m, s)'
BY Zenon DEF WasWritten

LEMMA WrittenGrows ==
  ASSUME [Next]_vars
  PROVE  written \subseteq written'
<1>1. ASSUME NEW p \in File, NEW e \in Writes, WriteFile(p, e[1], e[2])
      PROVE  written \subseteq written'
  BY <1>1 DEF WriteFile
<1>2. ASSUME UNCHANGED written  PROVE written \subseteq written'
  BY <1>2
<1> QED
  BY <1>1, <1>2, Zenon
  DEF Next, Progress, Environment, WorkerStep, vars, history, HandleEvent, FlushPending,
      CreateSnapshot, ProcessFile, OpenFails, ReadChunk, Update, Commit, HandleDelete,
      RemoveFile, MakeDir, Start, Stop, ScanAll, ProcessFails

LEMMA WorkerStays ==
  ASSUME NEW w \in Worker, work'[w] = work[w], written \subseteq written',
         work[w].pc # "idle" => disk'[work[w].path] = disk[work[w].path],
         ReaderOK(w), UpdaterOK(w)
  PROVE  ReaderOK(w)' /\ UpdaterOK(w)'
<1>1. ASSUME work[w].pc = "read"  PROVE ReaderOK(w)'
  <2>1. disk'[work[w].path] = disk[work[w].path]
    BY <1>1
  <2> QED  BY <1>1, <2>1, BlurredStays, WasWrittenStays, Zenon DEF ReaderOK, Matches
<1>2. ASSUME work[w].pc \in {"update", "commit"}  PROVE UpdaterOK(w)'
  <2>1. disk'[work[w].path] = disk[work[w].path]
    BY <1>2
  <2> QED  BY <1>2, <2>1, BlurredStays, WasWrittenStays, Zenon DEF UpdaterOK, Matches
<1> QED  BY <1>1, <1>2, Zenon DEF ReaderOK, UpdaterOK

LEMMA WorkerDone ==
  ASSUME NEW w \in Worker, work'[w].pc \in {"idle", "delete"}
  PROVE  ReaderOK(w)' /\ UpdaterOK(w)'
<1>1. work'[w].pc # "read" /\ work'[w].pc \notin {"update", "commit"}
  OBVIOUS
<1> QED  BY <1>1, Zenon DEF ReaderOK, UpdaterOK

LEMMA FileStays ==
  ASSUME NEW p \in File, disk'[p] = disk[p], files'[p] = files[p], written \subseteq written',
         files[p] # NoRow => rows'[files[p].id] = rows[files[p].id], FileOK(p)
  PROVE  FileOK(p)'
BY BlurredStays, WasWrittenStays, Zenon DEF FileOK, Matches

\* A version of the second and the size of an earlier one is blurred.
LEMMA Overwritten ==
  ASSUME DiskTypes, NEW p \in File, NEW e \in Writes, WriteFile(p, e[1], e[2]),
         NEW m, NEW s, WasWritten(p, m, s), Matches(p, m, s)'
  PROVE  Blurred(p)'
<1>1. /\ disk'[p].change = changes + 1 /\ changes \in Nat /\ written \subseteq written'
  BY WrittenVersion, Zenon DEF DiskTypes
<1>2. PICK v \in written : v.path = p /\ v.mtime = m /\ v.size = s
  BY Zenon DEF WasWritten
<1>3. v.change \in 1..changes
  BY <1>2, SMTT(20) DEF DiskTypes
<1>4. v.change # disk'[p].change
  BY <1>1, <1>3
<1>5. disk'[p].mtime = m /\ Len(disk'[p].data) = s
  BY Zenon DEF Matches
<1> QED  BY <1>1, <1>2, <1>4, <1>5, ZenonT(30) DEF Blurred

LEMMA WriteAgrees ==
  ASSUME DiskTypes, WorkTypes, DBTypes, BytesAgree, [Next]_vars,
         NEW p \in File, NEW e \in Writes, WriteFile(p, e[1], e[2])
  PROVE  BytesAgree'
<1>0. work' = work /\ files' = files /\ rows' = rows
  BY Zenon DEF WriteFile, dbVars
<1>1. written \subseteq written' /\ \A q \in File \ {p} : disk'[q] = disk[q]
  BY WrittenVersion, WrittenGrows, Zenon
<1>2. ASSUME NEW w \in Worker  PROVE ReaderOK(w)' /\ UpdaterOK(w)'
  <2>1. ReaderOK(w) /\ UpdaterOK(w) /\ work'[w] = work[w]
    BY <1>0, Zenon DEF BytesAgree
  <2>2. CASE work[w].pc = "read" /\ work[w].path = p
    <3>1. WasWritten(p, work[w].mtime, work[w].size)
      BY <2>1, <2>2, Zenon DEF ReaderOK
    <3>2. WasWritten(p, work[w].mtime, work[w].size)'
      BY <1>1, <2>1, <3>1, WasWrittenStays, Zenon
    <3>3. Matches(p, work[w].mtime, work[w].size)' => Blurred(p)'
      BY <2>1, <3>1, Overwritten, Zenon
    <3>4. work'[w].pc \notin {"update", "commit"}
      BY <2>1, <2>2
    <3> QED  BY <2>1, <2>2, <3>2, <3>3, <3>4, Zenon DEF ReaderOK, UpdaterOK
  <2>3. CASE work[w].pc \in {"update", "commit"} /\ work[w].path = p
    <3>1. WasWritten(p, work[w].mtime, work[w].size)
      BY <2>1, <2>3, Zenon DEF UpdaterOK
    <3>2. WasWritten(p, work[w].mtime, work[w].size)'
      BY <1>1, <2>1, <3>1, WasWrittenStays, Zenon
    <3>3. Matches(p, work[w].mtime, work[w].size)' => Blurred(p)'
      BY <2>1, <3>1, Overwritten, Zenon
    <3>4. work'[w].pc # "read"
      BY <2>1, <2>3
    <3> QED  BY <2>1, <2>3, <3>2, <3>3, <3>4, Zenon DEF ReaderOK, UpdaterOK
  <2>4. CASE work[w].pc # "idle" /\ work[w].path # p
    <3>1. work[w].path \in File
      BY <2>4, WorkCases
    <3> QED  BY <1>1, <2>1, <2>4, <3>1, WorkerStays, Zenon
  <2>5. CASE work[w].pc \in {"idle", "delete"}
    BY <2>1, <2>5, WorkerDone
  <2> QED  BY <2>2, <2>3, <2>4, <2>5, WorkCases
<1>3. ASSUME NEW q \in File \ {p}  PROVE FileOK(q)'
  BY <1>0, <1>1, FileStays, Zenon DEF BytesAgree
<1>4. FileOK(p)'
  <2>1. /\ disk'[p].change = changes' /\ disk'[p].mtime = now'
        /\ written' = written \cup {[path |-> p, change |-> changes', mtime |-> now', size |-> e[1]]}
    BY WrittenVersion, Zenon DEF WriteFile
  <2>2. Len(disk'[p].data) = e[1]
    BY WrittenVersion, WritesAre, Zenon
  <2>3. [path |-> p, change |-> disk'[p].change,
        mtime |-> disk'[p].mtime, size |-> Len(disk'[p].data)] \in written'
    BY <2>1, <2>2, Zenon
  <2>4. ASSUME files[p] # NoRow
        PROVE  /\ WasWritten(p, files[p].mtime, files[p].size)'
               /\ Matches(p, files[p].mtime, files[p].size)' => Blurred(p)'
    <3>1. WasWritten(p, files[p].mtime, files[p].size)
      BY <2>4, Zenon DEF BytesAgree, FileOK
    <3>2. WasWritten(p, files[p].mtime, files[p].size)'
      BY <1>0, <1>1, <3>1, WasWrittenStays, Zenon
    <3>3. Matches(p, files[p].mtime, files[p].size)' => Blurred(p)'
      BY <1>0, <3>1, Overwritten, Zenon
    <3> QED  BY <3>2, <3>3
  <2> QED  BY <1>0, <2>3, <2>4, Zenon DEF FileOK
<1> QED  BY <1>2, <1>3, <1>4, Zenon DEF BytesAgree

LEMMA RemoveAgrees ==
  ASSUME DiskTypes, WorkTypes, DBTypes, BytesAgree, [Next]_vars, NEW p \in File, RemoveFile(p)
  PROVE  BytesAgree'
<1>0. files' = files /\ rows' = rows /\ disk'[p] = NoFile
  BY RemovedVersion, Zenon DEF RemoveFile, dbVars
<1>1. written \subseteq written' /\ \A q \in File \ {p} : disk'[q] = disk[q]
  BY RemovedVersion, WrittenGrows, Zenon
<1>2. ASSUME NEW w \in Worker  PROVE ReaderOK(w)' /\ UpdaterOK(w)'
  <2>1. ReaderOK(w) /\ UpdaterOK(w)
    BY Zenon DEF BytesAgree
  <2>2. CASE work[w].pc = "read" /\ work[w].path = p
    <3>1. /\ work'[w].pc = "read" /\ work'[w].path = p
          /\ work'[w].mtime = work[w].mtime /\ work'[w].size = work[w].size
      BY <2>2, RemoveEffect
    <3>2. WasWritten(p, work[w].mtime, work[w].size)
      BY <2>1, <2>2, Zenon DEF ReaderOK
    <3>3. WasWritten(work[w].path, work[w].mtime, work[w].size)'
      BY <1>1, <3>1, <3>2, WasWrittenStays, Zenon
    <3>4. work'[w].pc \notin {"update", "commit"}
      BY <3>1
    <3> QED  BY <1>0, <3>1, <3>3, <3>4, Zenon DEF ReaderOK, UpdaterOK, Matches
  <2>3. CASE work[w].pc \in {"update", "commit"} /\ work[w].path = p
    <3>1. work'[w] = work[w] /\ work[w].pc # "read"
      BY <2>3, RemoveEffect
    <3>2. WasWritten(p, work[w].mtime, work[w].size)
      BY <2>1, <2>3, Zenon DEF UpdaterOK
    <3>3. WasWritten(work[w].path, work[w].mtime, work[w].size)'
      BY <1>1, <2>3, <3>1, <3>2, WasWrittenStays, Zenon
    <3> QED  BY <1>0, <2>3, <3>1, <3>3, Zenon DEF ReaderOK, UpdaterOK, Matches
  <2>4. CASE work[w].pc # "idle" /\ work[w].path # p
    <3>1. work[w].path \in File /\ work'[w] = work[w]
      <4>1. work[w].path \in File
        BY <2>4, WorkCases, Zenon
      <4>2. work'[w] = work[w]
        BY <2>4, RemoveEffect, Zenon
      <4> QED  BY <4>1, <4>2, Zenon
    <3> QED  BY <1>1, <2>1, <2>4, <3>1, WorkerStays, Zenon
  <2>5. CASE work[w].pc \in {"idle", "delete"}
    <3>1. work'[w] = work[w]
      BY <2>5, RemoveEffect
    <3> QED  BY <2>5, <3>1, WorkerDone
  <2> QED  BY <2>2, <2>3, <2>4, <2>5, WorkCases
<1>3. ASSUME NEW q \in File \ {p}  PROVE FileOK(q)'
  BY <1>0, <1>1, FileStays, Zenon DEF BytesAgree
<1>4. FileOK(p)'
  <2>1. ASSUME files[p] # NoRow  PROVE WasWritten(p, files[p].mtime, files[p].size)'
    <3>1. WasWritten(p, files[p].mtime, files[p].size)
      BY <2>1, Zenon DEF BytesAgree, FileOK
    <3> QED  BY <1>0, <1>1, <3>1, WasWrittenStays, Zenon
  <2> QED  BY <1>0, <2>1, Zenon DEF FileOK, Matches
<1> QED  BY <1>2, <1>3, <1>4, Zenon DEF BytesAgree

\* A step of one worker that leaves the disk alone.
LEMMA WorkerAgrees ==
  ASSUME BytesAgree, NEW w \in Worker, disk' = disk, written' = written,
         \A v \in Worker \ {w} : work'[v] = work[v], ReaderOK(w)', UpdaterOK(w)',
         \A p \in File : FileOK(p)'
  PROVE  BytesAgree'
<1>1. ASSUME NEW v \in Worker \ {w}  PROVE ReaderOK(v)' /\ UpdaterOK(v)'
  BY <1>1, WorkerStays, Zenon DEF BytesAgree
<1> QED  BY <1>1, Zenon DEF BytesAgree

LEMMA RowsStay ==
  ASSUME BytesAgree, disk' = disk, written' = written, files' = files, rows' = rows
  PROVE  \A p \in File : FileOK(p)'
BY FileStays, Zenon DEF BytesAgree

LEMMA ProcessAgrees ==
  ASSUME DiskTypes, WorkTypes, BytesAgree, NEW w \in Worker, ProcessFile(w)
  PROVE  BytesAgree'
<1>0. disk' = disk /\ written' = written /\ files' = files /\ rows' = rows
  BY Zenon DEF ProcessFile, ReadTogether, diskVars
<1>1. PICK p \in File : Takes(w, p)
  BY ProcessEffect
<1>2. ReaderOK(w)' /\ UpdaterOK(w)'
  <2>1. CASE work'[w] = Idle \/ work'[w] = Deleter(p)
    <3>1. work'[w].pc \in {"idle", "delete"}
      <4>1. CASE work'[w] = Idle
        BY <4>1, IdleIs, Zenon
      <4>2. CASE work'[w] = Deleter(p)
        BY <4>2, NewDeleter, Zenon
      <4> QED  BY <2>1, <4>1, <4>2, Zenon
    <3> QED  BY <3>1, WorkerDone, Zenon
  <2>2. CASE /\ disk[p] # NoFile
             /\ work'[w] = Reader(p)
    <3>1. /\ work'[w].pc = "read" /\ work'[w].path = p /\ work'[w].mtime = disk[p].mtime
          /\ work'[w].size = Len(disk[p].data) /\ work'[w].inode = NoFile /\ work'[w].at = 0
          /\ work'[w].chunks = <<>>
      <4>1. Starts(w, p)
        BY <2>2, NewReader, Zenon
      <4> QED  BY <4>1, Zenon DEF Starts
    <3>2. disk[p] \in Version
      BY <2>2 DEF DiskTypes
    <3>3. 0 <= Len(disk[p].data) /\ SubSeq(disk[p].data, 1, 0) = <<>>
      BY <3>2 DEF Version
    <3>4. WasWritten(p, disk[p].mtime, Len(disk[p].data))
      <4> DEFINE v == [path |-> p, change |-> disk[p].change,
                       mtime |-> disk[p].mtime, size |-> Len(disk[p].data)]
      <4>1. v \in written
        BY <2>2, Zenon DEF BytesAgree, FileOK
      <4>2. v.path = p /\ v.mtime = disk[p].mtime /\ v.size = Len(disk[p].data)
        OBVIOUS
      <4> QED  BY <4>1, <4>2, Zenon DEF WasWritten
    <3>5. WasWritten(work[w].path, work[w].mtime, work[w].size)'
      BY <1>0, <3>1, <3>4, Zenon DEF WasWritten
    <3>6. work'[w].pc \notin {"update", "commit"}
      BY <3>1
    <3> QED  BY <1>0, <3>1, <3>3, <3>5, <3>6, ChunkedEmpty, Zenon DEF ReaderOK, UpdaterOK
  <2> QED  BY <1>1, <2>1, <2>2, Zenon DEF Takes, Picks
<1>3. \A v \in Worker \ {w} : work'[v] = work[v]
  BY <1>1, Zenon DEF Takes
<1> QED  BY <1>0, <1>2, <1>3, RowsStay, WorkerAgrees, Zenon

LEMMA ReadAgrees ==
  ASSUME DiskTypes, WorkTypes, ReadsExist, BytesAgree, NEW w \in Worker, ReadChunk(w)
  PROVE  BytesAgree'
<1> DEFINE p == work[w].path
           data == disk[p].data
           chunk == NextChunk(data, work[w].at)
<1>0. disk' = disk /\ written' = written /\ files' = files /\ rows' = rows
  BY Zenon DEF ReadChunk, dbVars, diskVars, history
<1>1. work[w] \in Reading /\ work[w].pc = "read" /\ ReaderOK(w)
  BY ReadChunkJob, Zenon DEF BytesAgree, ReadChunk
<1>2. WasWritten(p, work[w].mtime, work[w].size) /\ p \in File
  BY <1>1 DEF ReaderOK, Reading
<1>3. ASSUME Matches(p, work[w].mtime, work[w].size), ~Blurred(p)
      PROVE  /\ work[w].inode = NoFile /\ work[w].at <= Len(data)
             /\ Chunked(SubSeq(data, 1, work[w].at), work[w].chunks)
             /\ data \in Seq(Nat)
  <2>1. data \in Seq(Nat)
    BY <1>2, <1>3 DEF Matches, DiskTypes, Version
  <2> QED  BY <1>1, <1>3, <2>1, Zenon DEF ReaderOK
<1>4. \A v \in Worker \ {w} : work'[v] = work[v]
  BY ReadChunkJob, Zenon
<1>5. ASSUME /\ work'[w].pc = "update"
             /\ work'[w].path = work[w].path /\ work'[w].mtime = work[w].mtime
             /\ work'[w].size = work[w].size /\ work'[w].chunks = work[w].chunks
             /\ work[w].inode = NoFile => work[w].at >= Len(disk[work[w].path].data)
      PROVE  ReaderOK(w)' /\ UpdaterOK(w)'
  <2>1. WasWritten(work[w].path, work[w].mtime, work[w].size)'
    BY <1>0, <1>2, <1>5, Zenon DEF WasWritten
  <2>2. Blurred(work[w].path)' <=> Blurred(p)
    BY <1>0, <1>5, Zenon DEF Blurred
  <2>3. Matches(work[w].path, work[w].mtime, work[w].size)' <=> Matches(p, work[w].mtime, work[w].size)
    BY <1>0, <1>5, Zenon DEF Matches
  <2>4. ASSUME Matches(p, work[w].mtime, work[w].size), ~Blurred(p)
        PROVE  Chunked(data, work[w].chunks)
    <3>1. work[w].at >= Len(data)
      BY <1>3, <1>5, <2>4, Zenon
    <3>2. work[w].at = Len(data)
      <4>1. work[w].at \in Nat /\ Len(data) \in Nat /\ work[w].at <= Len(data)
        BY <1>1, <1>3, <2>4, ReadingIs, LenIs, Zenon
      <4> QED  BY <3>1, <4>1, NatFacts, Zenon
    <3>3. SubSeq(data, 1, Len(data)) = data
      BY <1>3, <2>4, WholePart, Zenon
    <3> QED  BY <1>3, <2>4, <3>2, <3>3, Zenon
  <2>5. work'[w].pc # "read"
    BY <1>5
  <2> QED  BY <1>0, <1>5, <2>1, <2>2, <2>3, <2>4, <2>5, Zenon DEF ReaderOK, UpdaterOK
<1>6. ASSUME /\ work'[w].pc = "read"
             /\ work'[w].path = work[w].path /\ work'[w].mtime = work[w].mtime
             /\ work'[w].size = work[w].size /\ work'[w].inode = work[w].inode
             /\ work[w].inode = NoFile =>
                  /\ work[w].at < Len(data)
                  /\ work'[w].at = work[w].at + Len(chunk)
                  /\ work'[w].chunks = Append(work[w].chunks, chunk)
      PROVE  ReaderOK(w)' /\ UpdaterOK(w)'
  <2>1. WasWritten(work[w].path, work[w].mtime, work[w].size)'
    BY <1>0, <1>2, <1>6, Zenon DEF WasWritten
  <2>2. Blurred(work[w].path)' <=> Blurred(p)
    BY <1>0, <1>6, Zenon DEF Blurred
  <2>3. Matches(work[w].path, work[w].mtime, work[w].size)' <=> Matches(p, work[w].mtime, work[w].size)
    BY <1>0, <1>6, Zenon DEF Matches
  <2>4. ASSUME Matches(p, work[w].mtime, work[w].size), ~Blurred(p)
        PROVE  /\ work'[w].inode = NoFile /\ work'[w].at <= Len(data)
               /\ Chunked(SubSeq(data, 1, work'[w].at), work'[w].chunks)
    <3> DEFINE at == work[w].at
               m == Min({at + ChunkSize, Len(data)})
    <3>1. /\ work[w].inode = NoFile /\ at <= Len(data) /\ data \in Seq(Nat)
          /\ Chunked(SubSeq(data, 1, at), work[w].chunks)
      BY <1>3, <2>4, Zenon
    <3>2. /\ at < Len(data) /\ work'[w].at = at + Len(chunk)
          /\ work'[w].chunks = Append(work[w].chunks, chunk)
      BY <1>6, <3>1, Zenon
    <3>3. at \in Nat /\ ChunkSize \in Nat \ {0} /\ Len(data) \in Nat /\ work[w].chunks \in Seq(Seq(Nat))
      BY <1>1, <3>1, ReadingIs, LenIs, WritesAre, Zenon
    <3>4. m \in Nat /\ m <= Len(data) /\ at <= m
      <4>1. at + ChunkSize \in Nat
        BY <3>3
      <4>2. m \in Nat /\ m <= Len(data) /\ m \in {at + ChunkSize, Len(data)}
        BY <3>3, <4>1, NatMin, Zenon
      <4> HIDE DEF m
      <4> QED  BY <3>2, <3>3, <4>2
    <3>5. chunk = SubSeq(data, at + 1, m)
      BY Zenon DEF NextChunk
    <3> HIDE DEF chunk, m, data, at
    <3>6. chunk \in Seq(Nat) /\ Len(chunk) = m - at
      <4>1. /\ SubSeq(data, at + 1, m) \in Seq(Nat)
            /\ Len(SubSeq(data, at + 1, m)) = m - at
        BY <3>1, <3>3, <3>4
      <4> QED  BY <3>5, <4>1, Zenon
    <3>7. Chunked(SubSeq(data, 1, m), Append(work[w].chunks, SubSeq(data, at + 1, m)))
      BY <3>1, <3>3, <3>4, ChunkedAppend, Zenon
    <3>8. work'[w].at = m
      BY <3>2, <3>3, <3>4, <3>6
    <3>9. Chunked(SubSeq(data, 1, work'[w].at), work'[w].chunks)
      BY <3>2, <3>5, <3>7, <3>8, Zenon
    <3> QED  BY <1>6, <3>1, <3>4, <3>8, <3>9
  <2>5. work'[w].pc \notin {"update", "commit"}
    BY <1>6
  <2> QED  BY <1>0, <1>6, <2>1, <2>2, <2>3, <2>4, <2>5, Zenon DEF ReaderOK, UpdaterOK
<1>7. ReaderOK(w)' /\ UpdaterOK(w)'
  BY <1>5, <1>6, ReadChunkJob, Zenon
<1> QED  BY <1>0, <1>4, <1>7, RowsStay, WorkerAgrees, Zenon

LEMMA UpdateAgrees ==
  ASSUME WorkTypes, BytesAgree, NEW w \in Worker, Update(w)
  PROVE  BytesAgree'
<1>0. disk' = disk /\ written' = written /\ files' = files /\ rows' = rows
  BY Zenon DEF Update, UpsertFile, diskVars, history
<1>1. /\ work[w].pc = "update" /\ work'[w].pc = "commit"
      /\ work'[w].path = work[w].path /\ work'[w].mtime = work[w].mtime
      /\ work'[w].size = work[w].size /\ work'[w].chunks = work[w].chunks
      /\ \A v \in Worker \ {w} : work'[v] = work[v]
  BY UpdateEffect, Zenon
<1>2. UpdaterOK(w)'
  <2>1. UpdaterOK(w) /\ work[w].pc \in {"update", "commit"}
    BY <1>1, Zenon DEF BytesAgree
  <2>2. WasWritten(work[w].path, work[w].mtime, work[w].size)'
    BY <1>0, <1>1, <2>1, Zenon DEF UpdaterOK, WasWritten
  <2>3. Blurred(work[w].path)' <=> Blurred(work[w].path)
    BY <1>0, <1>1, Zenon DEF Blurred
  <2>4. /\ Matches(work[w].path, work[w].mtime, work[w].size)'
           <=> Matches(work[w].path, work[w].mtime, work[w].size)
    BY <1>0, <1>1, Zenon DEF Matches
  <2> QED  BY <1>0, <1>1, <2>1, <2>2, <2>3, <2>4, Zenon DEF UpdaterOK
<1>3. ReaderOK(w)'
  <2>1. work'[w].pc # "read"
    BY <1>1
  <2> QED  BY <2>1, Zenon DEF ReaderOK
<1> QED  BY <1>0, <1>1, <1>2, <1>3, RowsStay, WorkerAgrees, Zenon

LEMMA CommitAgrees ==
  ASSUME DBInv, WorkTypes, BytesAgree, NEW w \in Worker, Commit(w)
  PROVE  BytesAgree'
<1>a. PICK p \in File : p = work[w].path
  BY WorkCases DEF Commit
<1> DEFINE id == IDOf(p)
<1>0. disk' = disk /\ written' = written /\ work' = [work EXCEPT ![w] = Idle]
  BY Zenon DEF Commit, diskVars, history
<1>1. CommitWrites(w, p, id)
  BY <1>a, CommitEffect, Zenon
<1> HIDE DEF id
<1>2. files \in [File -> FileRow \cup {NoRow}] /\ p \in File
  BY <1>1, Zenon DEF DBInv, DBTypes, CommitWrites
<1>3. files'[p] = WithID(RowOf(w), id) /\ \A q \in File \ {p} : files'[q] = files[q]
  BY <1>1, <1>2, Zenon DEF CommitWrites
<1>4. /\ files'[p].id = id /\ files'[p].mtime = work[w].mtime /\ files'[p].size = work[w].size
      /\ rows'[id] = work[w].chunks
  <2>1. /\ WithID(RowOf(w), id).id = id /\ WithID(RowOf(w), id).mtime = work[w].mtime
        /\ WithID(RowOf(w), id).size = work[w].size
    BY DEF WithID, RowOf
  <2> QED  BY <1>1, <1>3, <2>1, Zenon DEF CommitWrites
<1>5. FileOK(p)'
  <2>1. UpdaterOK(w) /\ work[w].pc \in {"update", "commit"} /\ FileOK(p)
    BY <1>1, <1>2 DEF BytesAgree, CommitWrites
  <2> QED  BY <1>0, <1>4, <1>a, <2>1, Zenon DEF UpdaterOK, FileOK, WasWritten, Matches, Blurred
<1>6. ASSUME NEW q \in File \ {p}  PROVE FileOK(q)'
  <2>1. files[q] # NoRow => rows'[files[q].id] = rows[files[q].id]
    BY <1>1, Zenon DEF CommitWrites
  <2> QED  BY <1>0, <1>3, <2>1, FileStays, Zenon DEF BytesAgree
<1>7. /\ ReaderOK(w)' /\ UpdaterOK(w)'
      /\ \A v \in Worker \ {w} : work'[v] = work[v]
  BY <1>0, IdleEffect, WorkerDone, Zenon
<1> QED  BY <1>0, <1>5, <1>6, <1>7, WorkerAgrees, Zenon

LEMMA DeleteAgrees ==
  ASSUME DBInv, WorkTypes, BytesAgree, NEW w \in Worker, HandleDelete(w)
  PROVE  BytesAgree'
<1>a. PICK p \in File : p = work[w].path
  BY WorkCases DEF HandleDelete
<1>0. disk' = disk /\ written' = written /\ work' = [work EXCEPT ![w] = Idle]
  BY Zenon DEF HandleDelete, diskVars, history
<1>1. /\ p \in File /\ files' = [files EXCEPT ![p] = NoRow]
      /\ \A q \in File \ {p} : files[q] # NoRow => rows'[files[q].id] = rows[files[q].id]
  BY <1>a, DeleteKeeps, Zenon
<1>2. files'[p] = NoRow /\ \A q \in File \ {p} : files'[q] = files[q]
  BY <1>1, Zenon DEF DBInv, DBTypes
<1>3. FileOK(p)'
  BY <1>0, <1>1, <1>2, Zenon DEF BytesAgree, FileOK
<1>4. ASSUME NEW q \in File \ {p}  PROVE FileOK(q)'
  BY <1>0, <1>1, <1>2, FileStays, Zenon DEF BytesAgree
<1>5. /\ ReaderOK(w)' /\ UpdaterOK(w)'
      /\ \A v \in Worker \ {w} : work'[v] = work[v]
  BY <1>0, IdleEffect, WorkerDone, Zenon
<1> QED  BY <1>0, <1>3, <1>4, <1>5, WorkerAgrees, Zenon

LEMMA BytesKept ==
  ASSUME DBInv, DiskTypes, WorkTypes, ReadsExist, BytesAgree, [Next]_vars
  PROVE  BytesAgree'
<1> DEFINE Goal == BytesAgree'
<1>a. DBTypes
  BY DEF DBInv
<1>1. ASSUME NEW p \in File, NEW e \in Writes, WriteFile(p, e[1], e[2])  PROVE Goal
  BY <1>1, <1>a, WriteAgrees, Zenon
<1>2. ASSUME NEW p \in File, RemoveFile(p)  PROVE Goal
  BY <1>2, <1>a, RemoveAgrees, Zenon
<1>3. ASSUME NEW w \in Worker, ProcessFile(w)  PROVE Goal
  BY <1>3, ProcessAgrees, Zenon
<1>4. ASSUME NEW w \in Worker, ReadChunk(w)  PROVE Goal
  BY <1>4, ReadAgrees, Zenon
<1>5. ASSUME NEW w \in Worker, Update(w)  PROVE Goal
  BY <1>5, UpdateAgrees, Zenon
<1>6. ASSUME NEW w \in Worker, Commit(w)  PROVE Goal
  BY <1>6, CommitAgrees, Zenon
<1>7. ASSUME NEW w \in Worker, HandleDelete(w)  PROVE Goal
  BY <1>7, DeleteAgrees, Zenon
<1>8. ASSUME NEW w \in Worker, OpenFails(w) \/ ProcessFails(w)  PROVE Goal
  <2>1. /\ disk' = disk /\ written' = written /\ files' = files /\ rows' = rows
        /\ work' = [work EXCEPT ![w] = Idle]
    BY <1>8, Zenon DEF OpenFails, ProcessFails, Rollback, dbVars, diskVars, history
  <2>2. /\ ReaderOK(w)' /\ UpdaterOK(w)'
        /\ \A v \in Worker \ {w} : work'[v] = work[v]
    BY <2>1, IdleEffect, WorkerDone, Zenon
  <2> QED  BY <2>1, <2>2, RowsStay, WorkerAgrees, Zenon
<1>9. ASSUME Stop  PROVE Goal
  <2>1. /\ disk' = disk /\ written' = written /\ files' = files /\ rows' = rows
        /\ work' = [w \in Worker |-> Idle]
    BY <1>9 DEF Stop, diskVars
  <2>2. \A w \in Worker : work'[w].pc \in {"idle", "delete"}
    BY <2>1 DEF Idle
  <2>3. \A w \in Worker : ReaderOK(w)' /\ UpdaterOK(w)'
    BY <2>2, WorkerDone, Zenon
  <2>4. \A p \in File : FileOK(p)'
    BY <2>1, RowsStay, Zenon
  <2> QED  BY <2>3, <2>4, Zenon DEF BytesAgree
<1>10. ASSUME UNCHANGED <<work, disk, written, files, rows>>  PROVE Goal
  <2>1. \A w \in Worker : ReaderOK(w)' /\ UpdaterOK(w)'
    BY <1>10, Zenon DEF BytesAgree, ReaderOK, UpdaterOK, WasWritten, Matches, Blurred
  <2>2. \A p \in File : FileOK(p)'
    BY <1>10, RowsStay, Zenon
  <2> QED  BY <2>1, <2>2, Zenon DEF BytesAgree
<1>11. ASSUME CreateSnapshot  PROVE UNCHANGED <<work, disk, written, files, rows>>
  BY <1>11 DEF CreateSnapshot, CountFiles, CopyFiles, diskVars, history
<1> HIDE DEF Goal
<1>12. Goal
  BY <1>1, <1>2, <1>3, <1>4, <1>5, <1>6, <1>7, <1>8, <1>9, <1>10, <1>11, Zenon
  DEF Next, Progress, Environment, WorkerStep, vars, dbVars, diskVars, history, MakeDir,
      HandleEvent, FlushPending, ScanAll, Start
<1> QED  BY <1>12 DEF Goal

-----------------------------------------------------------------------------
(* No path is missed. *)

LEMMA SettledStays ==
  ASSUME NEW p \in File, disk'[p] = disk[p], files'[p] = files[p], Settled(p),
         \A w \in Worker : work'[w] = work[w] \/ (~Busy(w, p) /\ ~Busy(w, p)')
  PROVE  Settled(p)'
<1>1. \A w \in Worker : Busy(w, p)' <=> Busy(w, p)
  BY Zenon DEF Busy
<1>2. CASE InStep(p) /\ \A w \in Worker : ~Busy(w, p)
  BY <1>1, <1>2, Zenon DEF Settled, InStep, Matches
<1>3. ASSUME NEW w \in Worker, Busy(w, p), Fresh(w), \A v \in Worker \ {w} : ~Busy(v, p)
      PROVE  Settled(p)'
  <2>1. work'[w] = work[w] /\ work[w].path = p
    BY <1>3, Zenon DEF Busy
  <2>2. Fresh(w)'
    BY <1>3, <2>1, Zenon DEF Fresh, Matches
  <2> QED  BY <1>1, <1>3, <2>2, Zenon DEF Settled
<1> QED  BY <1>2, <1>3, Zenon DEF Settled

LEMMA OneWorker ==
  ASSUME NEW p \in File, NEW w \in Worker, Busy(w, p), Settled(p)
  PROVE  Fresh(w) /\ \A v \in Worker \ {w} : ~Busy(v, p)
BY Zenon DEF Settled

LEMMA QueuedStays ==
  ASSUME NEW p, UNCHANGED <<events, pending, batch>>, Queued(p)
  PROVE  Queued(p)'
BY Zenon DEF Queued

LEMMA NotifyQueues ==
  ASSUME WorkTypes, NEW x \in File \cup Dir, NEW d, Notify(x, d), UNCHANGED <<pending, batch>>
  PROVE  /\ lost \subseteq lost'
         /\ \A p : Queued(p) => Queued(p)'
         /\ x \in File => x \in lost' \/ Queued(x)'
<1>1. CASE d \in watched
  <2>1. events' = Append(events, x) /\ lost' = lost
    BY <1>1, Zenon DEF Notify
  <2>2. /\ DOMAIN events = 1..Len(events) /\ DOMAIN events' = 1..(Len(events) + 1)
        /\ \A i \in 1..Len(events) : events'[i] = events[i]
        /\ events'[Len(events) + 1] = x /\ Len(events) \in Nat
    BY <2>1 DEF WorkTypes
  <2>3. \A i \in DOMAIN events : i \in DOMAIN events' /\ events'[i] = events[i]
    BY <2>2
  <2>4. Len(events) + 1 \in DOMAIN events'
    BY <2>2
  <2>5. \A p : Queued(p) => Queued(p)'
    BY <2>3, Zenon DEF Queued
  <2>6. Queued(x)'
    BY <2>2, <2>4, Zenon DEF Queued
  <2> QED  BY <2>1, <2>5, <2>6
<1>2. CASE d \notin watched
  <2>1. events' = events /\ lost' = lost \cup ({x} \cap File)
    BY <1>2, Zenon DEF Notify
  <2>2. \A p : Queued(p) => Queued(p)'
    BY <2>1, QueuedStays, Zenon
  <2> QED  BY <2>1, <2>2, Zenon
<1> QED  BY <1>1, <1>2

LEMMA ChangesAttended ==
  ASSUME DiskTypes, WorkTypes, NothingMissed, [Next]_vars,
         NEW p \in File, RemoveFile(p) \/ \E e \in Writes : WriteFile(p, e[1], e[2])
  PROVE  NothingMissed'
<1>1. /\ Notify(p, DirOf[p]) /\ UNCHANGED <<pending, batch, files, raced>>
      /\ \A q \in File \ {p} : disk'[q] = disk[q]
  <2>1. CASE RemoveFile(p)
    <3>1. Notify(p, DirOf[p]) /\ UNCHANGED <<dbVars, dirs, now, running, watched, pending, batch,
                                            toScan, extras, written, raced>>
      BY <2>1, Zenon DEF RemoveFile
    <3>2. UNCHANGED <<pending, batch, files, raced>>
      BY <3>1, Zenon DEF dbVars
    <3>4. \A q \in File \ {p} : disk'[q] = disk[q]
      BY <2>1, RemovedVersion, Zenon
    <3> QED  BY <3>1, <3>2, <3>4, Zenon
  <2>2. CASE \E e \in Writes : WriteFile(p, e[1], e[2])
    <3>0. PICK e \in Writes : WriteFile(p, e[1], e[2])
      BY <2>2, Zenon
    <3>1. Notify(p, DirOf[p]) /\ UNCHANGED <<dbVars, dirs, running, watched, pending, batch,
                                            toScan, work, extras, raced>>
      BY <3>0, Zenon DEF WriteFile
    <3>2. UNCHANGED <<pending, batch, files, raced>>
      BY <3>1, Zenon DEF dbVars
    <3>4. \A q \in File \ {p} : disk'[q] = disk[q]
      BY <3>0, WrittenVersion, Zenon
    <3> QED  BY <3>1, <3>2, <3>4, Zenon
  <2> QED  BY <2>1, <2>2, Zenon
<1>2. \A w \in Worker : work'[w] = work[w] \/ (work[w].path = p /\ work'[w].path = p)
  <2>1. CASE RemoveFile(p)
    BY <2>1, RemoveEffect, Zenon
  <2>2. CASE \E e \in Writes : WriteFile(p, e[1], e[2])
    BY <2>2, Zenon DEF WriteFile
  <2> QED  BY <2>1, <2>2
<1>3. /\ lost \subseteq lost' /\ \A q : Queued(q) => Queued(q)'
      /\ p \in lost' \/ Queued(p)'
  BY <1>1, NotifyQueues, Zenon
<1>4. Attended(p)'
  BY <1>3, Zenon DEF Attended
<1>5. ASSUME NEW q \in File \ {p}  PROVE Attended(q)'
  <2>1. Attended(q)
    BY Zenon DEF NothingMissed
  <2>2. ASSUME Settled(q)  PROVE Settled(q)'
    <3>1. \A w \in Worker : work'[w] = work[w] \/ (~Busy(w, q) /\ ~Busy(w, q)')
      BY <1>2, Zenon DEF Busy
    <3> QED  BY <1>1, <2>2, <3>1, SettledStays, Zenon
  <2> QED  BY <1>1, <1>3, <2>1, <2>2, Zenon DEF Attended
<1> QED  BY <1>4, <1>5, Zenon DEF NothingMissed

LEMMA EventAttended ==
  ASSUME WorkTypes, NothingMissed, HandleEvent
  PROVE  NothingMissed'
<1>1. UNCHANGED <<disk, files, work, lost, raced, batch>> /\ events' = Tail(events)
  BY DEF HandleEvent, dbVars, diskVars, history
<1>2. ASSUME NEW p \in File, Queued(p)  PROVE Queued(p)'
  <2>1. CASE p \in pending \cup batch
    <3>1. pending \subseteq pending'
      BY DEF HandleEvent
    <3> QED  BY <1>1, <2>1, <3>1, Zenon DEF Queued
  <2>2. ASSUME NEW i \in DOMAIN events, events[i] = p  PROVE Queued(p)'
    <3>1. CASE i = 1
      <4>1. Head(events) = p
        BY <2>2, <3>1 DEF WorkTypes
      <4>2. p \notin Dir
        BY WatcherAssumption, Zenon
      <4>3. p \in pending'
        BY <4>1, <4>2 DEF HandleEvent
      <4> QED  BY <4>3, Zenon DEF Queued
    <3>2. CASE i # 1
      <4>1. i - 1 \in DOMAIN events' /\ events'[i - 1] = p
        BY <1>1, <2>2, <3>2 DEF WorkTypes
      <4> QED  BY <4>1, Zenon DEF Queued
    <3> QED  BY <3>1, <3>2
  <2> QED  BY <1>2, <2>1, <2>2, Zenon DEF Queued
<1>3. \A p \in File : Settled(p) => Settled(p)'
  BY <1>1, SettledStays, Zenon
<1> QED  BY <1>1, <1>2, <1>3, Zenon DEF NothingMissed, Attended

LEMMA FlushAttended ==
  ASSUME NothingMissed, FlushPending
  PROVE  NothingMissed'
<1>1. UNCHANGED <<disk, files, work, lost, raced, events>> /\ batch' = pending /\ batch = {}
  BY DEF FlushPending, dbVars, diskVars, history
<1>2. \A p \in File : Queued(p) => Queued(p)'
  BY <1>1, Zenon DEF Queued
<1>3. \A p \in File : Settled(p) => Settled(p)'
  BY <1>1, SettledStays, Zenon
<1> QED  BY <1>1, <1>2, <1>3, Zenon DEF NothingMissed, Attended

\* A step of worker w at path p concerns no other path.
LEMMA OthersAttended ==
  ASSUME NothingMissed, NEW w \in Worker, NEW p \in File, disk' = disk,
         UNCHANGED <<events, pending>>, batch \ {p} \subseteq batch',
         \A q \in File \ {p} : files'[q] = files[q] /\ (q \in lost \cup raced => q \in lost' \cup raced'),
         \A v \in Worker \ {w} : work'[v] = work[v],
         work[w].pc # "idle" => work[w].path = p, work'[w].pc # "idle" => work'[w].path = p,
         Attended(p)'
  PROVE  NothingMissed'
<1>1. ASSUME NEW q \in File \ {p}  PROVE Attended(q)'
  <2>1. Attended(q)
    BY Zenon DEF NothingMissed
  <2>2. ASSUME Settled(q)  PROVE Settled(q)'
    <3>1. ~Busy(w, q) /\ ~Busy(w, q)'
      BY <1>1, Zenon DEF Busy
    <3>2. \A v \in Worker : work'[v] = work[v] \/ (~Busy(v, q) /\ ~Busy(v, q)')
      BY <3>1, Zenon
    <3>3. disk'[q] = disk[q] /\ files'[q] = files[q]
      BY <1>1, Zenon
    <3> QED  BY <2>2, <3>2, <3>3, SettledStays, Zenon
  <2>3. ASSUME Queued(q)  PROVE Queued(q)'
    <3>1. q \in batch => q \in batch'
      BY <1>1, Zenon
    <3> QED  BY <2>3, <3>1, Zenon DEF Queued
  <2> QED  BY <2>1, <2>2, <2>3, Zenon DEF Attended
<1> QED  BY <1>1, Zenon DEF NothingMissed

LEMMA ProcessAttended ==
  ASSUME DiskTypes, WorkTypes, NothingMissed, NEW w \in Worker, ProcessFile(w)
  PROVE  NothingMissed'
<1>0. UNCHANGED <<disk, files, events, pending>>
  BY ZenonT(30) DEF ProcessFile, ReadTogether, diskVars
<1>1. PICK p \in File : Takes(w, p)
  BY ProcessEffect
<1>2. \A v \in Worker \ {w} : work'[v] = work[v]
  BY <1>1, Zenon DEF Takes
<1>3. work[w].pc = "idle" /\ (work'[w].pc # "idle" => work'[w].path = p)
  <2>1. work[w] = Idle /\ Picks(w, p)
    BY <1>1, Zenon DEF Takes
  <2>2. work'[w] = Reader(p) \/ work'[w] = Deleter(p) => work'[w].path = p
    BY NewReader, NewDeleter, Zenon DEF Starts
  <2>3. work'[w] \in {Reader(p), Deleter(p), Idle}
    BY <2>1, Zenon DEF Picks
  <2> QED  BY <2>1, <2>2, <2>3, IdleIs, Zenon
<1>4. batch \ {p} \subseteq batch' /\ (w # "flush" => batch' = batch)
  <2>1. Take(w, p)
    BY <1>1, Zenon DEF Takes
  <2> QED  BY <2>1, Zenon DEF Take
<1>5. \A q \in File \ {p} : q \in lost \cup raced => q \in lost' \cup raced'
  BY <1>1, Zenon DEF Takes
<1>6. ASSUME p \notin raced'  PROVE \A v \in Worker \ {w} : ~Busy(v, p) /\ ~Busy(v, p)'
  <2>1. \A v \in Worker \ {w} : ~Busy(v, p)
    BY <1>1, <1>6, Zenon DEF Takes
  <2> QED  BY <1>2, <2>1, Zenon DEF Busy
<1>7. Attended(p)'
  <2> SUFFICES ASSUME p \notin raced'  PROVE Attended(p)'
    BY Zenon DEF Attended
  <2>1. \A v \in Worker \ {w} : ~Busy(v, p)'
    BY <1>6, Zenon
  <2>2. ASSUME Busy(w, p)', Fresh(w)'  PROVE Attended(p)'
    BY <2>1, <2>2, Zenon DEF Attended, Settled
  <2>3. CASE disk[p] = NoFile /\ w = "flush" /\ work'[w] = Deleter(p)
    <3>1. work'[w].pc = "delete" /\ work'[w].path = p /\ work'[w].pc # "idle"
      BY <2>3, NewDeleter, Zenon
    <3> QED  BY <1>0, <2>2, <2>3, <3>1, Zenon DEF Busy, Fresh
  <2>4. CASE disk[p] = NoFile /\ w # "flush" /\ work'[w] = Idle
    <3>1. work[w] = Idle /\ lost' = lost
      BY <1>1, <2>4, Zenon DEF Takes
    <3>2. \A v \in Worker : work'[v] = work[v]
      BY <1>2, <2>4, <3>1, Zenon
    <3>3. batch' = batch
      BY <1>4, <2>4, Zenon
    <3>4. p \notin lost' \cup raced' => p \notin lost \cup raced
      BY <1>1, <3>1, Zenon DEF Takes
    <3>5. Attended(p)
      BY Zenon DEF NothingMissed
    <3>6. Queued(p) => Queued(p)'
      BY <1>0, <3>3, QueuedStays, Zenon
    <3>7. Settled(p) => Settled(p)'
      BY <1>0, <3>2, SettledStays, Zenon
    <3> QED  BY <3>4, <3>5, <3>6, <3>7, Zenon DEF Attended
  <2>5. CASE /\ disk[p] # NoFile
        /\ work'[w] = Reader(p)
    <3>1. /\ work'[w].pc = "read" /\ work'[w].path = p /\ work'[w].pc # "idle"
          /\ work'[w].inode = NoFile /\ work'[w].mtime = disk[p].mtime
          /\ work'[w].size = Len(disk[p].data) /\ work'[w].pc \in {"read", "update", "commit"}
      <4>1. Starts(w, p)
        BY <2>5, NewReader, Zenon
      <4> QED  BY <4>1, Zenon DEF Starts
    <3> QED  BY <1>0, <2>2, <2>5, <3>1, Zenon DEF Busy, Fresh, Matches
  <2>6. CASE /\ disk[p] # NoFile /\ ~NeedsUpdate(p, Len(disk[p].data), disk[p].mtime)
             /\ work'[w] = Idle
    <3>1. work'[w].pc = "idle"
      BY <2>6, IdleIs, Zenon
    <3>2. InStep(p)'
      BY <1>0, <2>6, Zenon DEF InStep, Matches, NeedsUpdate
    <3>3. \A v \in Worker : ~Busy(v, p)'
      BY <2>1, <3>1, Zenon DEF Busy
    <3> QED  BY <3>2, <3>3, Zenon DEF Attended, Settled
  <2> QED  BY <1>1, <2>3, <2>4, <2>5, <2>6, Zenon DEF Takes, Picks
<1> QED
  BY <1>0, <1>2, <1>3, <1>4, <1>5, <1>7, OthersAttended, Zenon

\* Reading on and beginning the transaction keep a worker at its path, and fresh.
LEMMA KeepsFresh ==
  ASSUME NothingMissed, NEW w \in Worker, NEW p \in File, Busy(w, p),
         UNCHANGED <<disk, files, events, pending, batch, lost, raced>>,
         \A v \in Worker \ {w} : work'[v] = work[v],
         work'[w].pc # "idle", work'[w].path = work[w].path, Fresh(w) => Fresh(w)'
  PROVE  NothingMissed'
<1>1. Busy(w, p)' /\ work[w].path = p
  BY Zenon DEF Busy
<1>2. Attended(p)'
  <2>1. Attended(p)
    BY Zenon DEF NothingMissed
  <2>2. Queued(p) => Queued(p)'
    BY QueuedStays, Zenon
  <2>3. ASSUME Settled(p)  PROVE Settled(p)'
    <3>1. Fresh(w) /\ \A v \in Worker \ {w} : ~Busy(v, p)
      BY <2>3, OneWorker, Zenon
    <3>2. \A v \in Worker \ {w} : ~Busy(v, p)'
      BY <3>1, Zenon DEF Busy
    <3> QED  BY <1>1, <3>1, <3>2, Zenon DEF Settled
  <2> QED  BY <2>1, <2>2, <2>3, Zenon DEF Attended
<1> QED  BY <1>1, <1>2, OthersAttended, Zenon

LEMMA ReadAttended ==
  ASSUME DiskTypes, WorkTypes, ReadsExist, NothingMissed, NEW w \in Worker, ReadChunk(w)
  PROVE  NothingMissed'
<1>1. UNCHANGED <<disk, files, events, pending, batch, lost, raced>> /\ work[w].pc = "read"
  BY Zenon DEF ReadChunk, dbVars, diskVars, history
<1>2. PICK p \in File : Busy(w, p)
  <2>1. work[w].path \in File /\ work[w].pc # "idle"
    BY <1>1, WorkCases, Zenon
  <2> QED  BY <2>1, Zenon DEF Busy
<1>3. /\ work'[w].pc \in {"read", "update", "commit"} /\ work'[w].pc # "idle"
      /\ work'[w].path = work[w].path /\ work'[w].mtime = work[w].mtime
      /\ work'[w].size = work[w].size
      /\ work'[w].pc = "read" => work'[w].inode = work[w].inode
      /\ \A v \in Worker \ {w} : work'[v] = work[v]
  BY ReadChunkJob
<1>4. Fresh(w) => Fresh(w)'
  <2>1. work[w].pc # "delete"
    BY <1>1
  <2> QED  BY <1>1, <1>3, <2>1, Zenon DEF Fresh, Matches
<1> QED  BY <1>1, <1>2, <1>3, <1>4, KeepsFresh, Zenon

LEMMA UpdateAttended ==
  ASSUME WorkTypes, NothingMissed, NEW w \in Worker, Update(w)
  PROVE  NothingMissed'
<1>1. UNCHANGED <<disk, files, events, pending, batch, lost, raced>>
  BY Zenon DEF Update, UpsertFile, diskVars, history
<1>2. /\ work[w].pc = "update" /\ work'[w].pc = "commit"
      /\ work'[w].path = work[w].path /\ work'[w].mtime = work[w].mtime
      /\ work'[w].size = work[w].size
      /\ \A v \in Worker \ {w} : work'[v] = work[v]
  BY UpdateEffect, Zenon
<1>3. PICK p \in File : Busy(w, p)
  <2>1. work[w].path \in File /\ work[w].pc # "idle"
    BY <1>2, WorkCases
  <2> QED  BY <2>1, ZenonT(30) DEF Busy
<1>4. Fresh(w) => Fresh(w)'
  <2>1. work[w].pc # "delete" /\ work'[w].pc # "read" /\ work'[w].pc \in {"read", "update", "commit"}
    BY <1>2
  <2> QED  BY <1>1, <1>2, <2>1, Zenon DEF Fresh, Matches
<1>5. work'[w].pc # "idle"
  BY <1>2
<1> QED  BY <1>1, <1>2, <1>3, <1>4, <1>5, KeepsFresh, Zenon

\* A worker that is done leaves the path queued, lost or in step.
LEMMA LeavesSettled ==
  ASSUME WorkTypes, NothingMissed, NEW w \in Worker, NEW p \in File, Busy(w, p),
         UNCHANGED <<disk, events, pending, batch, raced>>, lost \subseteq lost',
         \A q \in File \ {p} : files'[q] = files[q],
         work' = [work EXCEPT ![w] = Idle],
         p \in lost' \/ (Fresh(w) => InStep(p)')
  PROVE  NothingMissed'
<1>1. work'[w].pc = "idle" /\ \A v \in Worker \ {w} : work'[v] = work[v]
  BY IdleEffect, Zenon
<1>2. Attended(p)'
  <2>1. Attended(p)
    BY Zenon DEF NothingMissed
  <2>2. Queued(p) => Queued(p)'
    BY QueuedStays, Zenon
  <2>3. ASSUME Settled(p)  PROVE Attended(p)'
    <3>1. Fresh(w) /\ \A v \in Worker \ {w} : ~Busy(v, p)
      BY <2>3, OneWorker, Zenon
    <3>2. \A v \in Worker : ~Busy(v, p)'
      <4>1. ~Busy(w, p)'
        BY <1>1, Zenon DEF Busy
      <4>2. \A v \in Worker \ {w} : ~Busy(v, p)'
        BY <1>1, <3>1, Zenon DEF Busy
      <4> QED  BY <4>1, <4>2, Zenon
    <3>3. ASSUME InStep(p)'  PROVE Attended(p)'
      BY <3>2, <3>3, Zenon DEF Settled, Attended
    <3>4. ASSUME p \in lost'  PROVE Attended(p)'
      BY <3>4, Zenon DEF Attended
    <3> QED  BY <3>1, <3>3, <3>4, Zenon
  <2> QED  BY <2>1, <2>2, <2>3, Zenon DEF Attended
<1>3. work[w].path = p
  BY Zenon DEF Busy
<1>4. \A q \in File : q \in lost \cup raced => q \in lost' \cup raced'
  BY Zenon
<1> QED  BY <1>1, <1>2, <1>3, <1>4, OthersAttended, Zenon

LEMMA CommitAttended ==
  ASSUME DBInv, WorkTypes, NothingMissed, NEW w \in Worker, Commit(w)
  PROVE  NothingMissed'
<1>0. /\ UNCHANGED <<disk, events, pending, batch, lost, raced>>
      /\ work' = [work EXCEPT ![w] = Idle] /\ work[w].pc = "commit"
  BY Zenon DEF Commit, diskVars, history
<1>1. PICK p \in File : p = work[w].path
  BY <1>0, WorkCases
<1>2. CommitWrites(w, p, IDOf(p))
  BY <1>1, CommitEffect, Zenon
<1>3. Busy(w, p)
  BY <1>0, <1>1, Zenon DEF Busy
<1>4. \A q \in File \ {p} : files'[q] = files[q]
  BY <1>2, Assigned, Zenon DEF CommitWrites, DBInv, DBTypes
<1>5. files'[p].mtime = work[w].mtime /\ files'[p].size = work[w].size /\ files'[p] # NoRow
  <2>1. files'[p] = WithID(RowOf(w), IDOf(p)) /\ files'[p] \in FileRow
    BY <1>2, Assigned, Zenon DEF CommitWrites, DBInv, DBTypes
  <2>2. /\ WithID(RowOf(w), IDOf(p)).mtime = work[w].mtime
        /\ WithID(RowOf(w), IDOf(p)).size = work[w].size
    BY DEF WithID, RowOf
  <2> QED  BY <2>1, <2>2, NoRowAssumption, ZenonT(30)
<1>6. Fresh(w) => InStep(p)'
  <2>1. work[w].pc # "delete"
    BY <1>0
  <2> QED  BY <1>0, <1>1, <1>5, <2>1, Zenon DEF Fresh, InStep, Matches
<1> QED  BY <1>0, <1>3, <1>4, <1>6, LeavesSettled, Zenon

LEMMA DeleteAttended ==
  ASSUME DBInv, WorkTypes, NothingMissed, NEW w \in Worker, HandleDelete(w)
  PROVE  NothingMissed'
<1>0. /\ UNCHANGED <<disk, events, pending, batch, lost, raced>>
      /\ work' = [work EXCEPT ![w] = Idle] /\ work[w].pc = "delete"
  BY Zenon DEF HandleDelete, diskVars, history
<1>1. PICK p \in File : p = work[w].path
  BY <1>0, WorkCases
<1>2. files' = [files EXCEPT ![p] = NoRow]
  BY <1>1 DEF HandleDelete, DeleteFile
<1>3. Busy(w, p)
  BY <1>0, <1>1 DEF Busy
<1>4. (\A q \in File \ {p} : files'[q] = files[q]) /\ files'[p] = NoRow
  BY <1>2 DEF DBInv, DBTypes
<1>5. Fresh(w) => InStep(p)'
  <2>1. work[w].pc \notin {"read", "update", "commit"}
    BY <1>0
  <2> QED  BY <1>0, <1>1, <1>4, <2>1, Zenon DEF Fresh, InStep
<1> QED  BY <1>0, <1>3, <1>4, <1>5, LeavesSettled, Zenon

LEMMA FailAttended ==
  ASSUME WorkTypes, NothingMissed, NEW w \in Worker, OpenFails(w) \/ ProcessFails(w)
  PROVE  NothingMissed'
<1>0. /\ UNCHANGED <<disk, files, events, pending, batch, raced>>
      /\ work' = [work EXCEPT ![w] = Idle] /\ work[w].pc # "idle" /\ lost \subseteq lost'
  <2>1. CASE OpenFails(w)
    <3>1. work[w].pc # "idle"
      BY <2>1 DEF OpenFails
    <3> QED  BY <2>1, <3>1, Zenon DEF OpenFails, dbVars, diskVars, history
  <2>2. CASE ProcessFails(w)
    BY <2>2, Zenon DEF ProcessFails, Rollback, dbVars, diskVars
  <2> QED  BY <2>1, <2>2
<1>1. PICK p \in File : p = work[w].path
  BY <1>0, WorkCases
<1>2. Busy(w, p)
  BY <1>0, <1>1 DEF Busy
<1>3. p \in lost' \/ (Fresh(w) => InStep(p)')
  <2>1. CASE OpenFails(w)
    <3>1. work[w].pc = "read" /\ work[w].pc # "delete" /\ work[w].inode # NoFile
      BY <2>1 DEF OpenFails
    <3> QED  BY <3>1, Zenon DEF Fresh
  <2>2. CASE ProcessFails(w)
    BY <1>1, <2>2, Zenon DEF ProcessFails
  <2> QED  BY <2>1, <2>2
<1> QED  BY <1>0, <1>2, <1>3, LeavesSettled, Zenon

LEMMA StopAttended ==
  ASSUME NothingMissed, Stop
  PROVE  NothingMissed'
<1>0. /\ UNCHANGED <<disk, files, raced>> /\ lost' = lost \cup Dropped
      /\ work' = [w \in Worker |-> Idle]
  BY Zenon DEF Stop, diskVars
<1>1. SUFFICES ASSUME NEW p \in File, p \notin lost' \cup raced'  PROVE Settled(p)'
  BY Zenon DEF NothingMissed, Attended
<1>2. ~Queued(p)
  BY <1>0, <1>1, Zenon DEF Queued, Dropped
<1>3. \A w \in Worker : ~Busy(w, p)
  BY <1>0, <1>1, Zenon DEF Busy, Dropped
<1>4. InStep(p)
  BY <1>0, <1>1, <1>2, <1>3, Zenon DEF NothingMissed, Attended, Settled
<1>5. \A w \in Worker : ~Busy(w, p)'
  BY <1>0 DEF Busy, Idle
<1> QED  BY <1>0, <1>4, <1>5, Zenon DEF Settled, InStep, Matches

LEMMA MakeDirAttended ==
  ASSUME WorkTypes, NothingMissed, NEW d \in Dir, MakeDir(d)
  PROVE  NothingMissed'
<1>1. UNCHANGED <<disk, files, work, pending, batch, raced>> /\ Notify(d, Root)
  BY Zenon DEF MakeDir, dbVars
<1>2. lost \subseteq lost' /\ \A p : Queued(p) => Queued(p)'
  BY <1>1, NotifyQueues, Zenon
<1>3. \A p \in File : Settled(p) => Settled(p)'
  BY <1>1, SettledStays, Zenon
<1> QED  BY <1>1, <1>2, <1>3, Zenon DEF NothingMissed, Attended

LEMMA AttendedKept ==
  ASSUME DBInv, DiskTypes, WorkTypes, ReadsExist, NothingMissed, [Next]_vars
  PROVE  NothingMissed'
<1> DEFINE Goal == NothingMissed'
<1>1. ASSUME NEW p \in File, RemoveFile(p) \/ \E e \in Writes : WriteFile(p, e[1], e[2])  PROVE Goal
  BY <1>1, ChangesAttended, Zenon
<1>2. ASSUME NEW d \in Dir, MakeDir(d)  PROVE Goal
  BY <1>2, MakeDirAttended, Zenon
<1>3. ASSUME HandleEvent \/ FlushPending \/ Stop  PROVE Goal
  BY <1>3, EventAttended, FlushAttended, StopAttended, Zenon
<1>4. ASSUME NEW w \in Worker, ProcessFile(w) \/ ReadChunk(w) \/ Update(w)  PROVE Goal
  BY <1>4, ProcessAttended, ReadAttended, UpdateAttended, Zenon
<1>5. ASSUME NEW w \in Worker, Commit(w) \/ HandleDelete(w)  PROVE Goal
  BY <1>5, CommitAttended, DeleteAttended, Zenon
<1>6. ASSUME NEW w \in Worker, OpenFails(w) \/ ProcessFails(w)  PROVE Goal
  BY <1>6, FailAttended, Zenon
<1>7. ASSUME Start \/ ScanAll \/ CreateSnapshot \/ UNCHANGED vars  PROVE Goal
  <2>1. UNCHANGED <<disk, files, work, pending, batch, events, lost, raced>>
    <3>1. CASE Start
      BY <3>1, Zenon DEF Start, dbVars, diskVars, history
    <3>2. CASE ScanAll
      BY <3>2, Zenon DEF ScanAll, dbVars, diskVars, history
    <3>3. CASE CreateSnapshot
      BY <3>3, Zenon DEF CreateSnapshot, CountFiles, CopyFiles, diskVars, history
    <3>4. CASE UNCHANGED vars
      BY <3>4, Zenon DEF vars, dbVars, diskVars, history
    <3> QED  BY <1>7, <3>1, <3>2, <3>3, <3>4, Zenon
  <2>2. \A p \in File : Settled(p) => Settled(p)'
    BY <2>1, SettledStays, Zenon
  <2>3. \A p \in File : Queued(p) => Queued(p)'
    BY <2>1, QueuedStays, Zenon
  <2> QED  BY <2>1, <2>2, <2>3, Zenon DEF NothingMissed, Attended
<1> HIDE DEF Goal
<1>8. Goal
  BY <1>1, <1>2, <1>3, <1>4, <1>5, <1>6, <1>7, Zenon DEF Next, Progress, Environment, WorkerStep
<1> QED  BY <1>8 DEF Goal

-----------------------------------------------------------------------------
(* The theorems. *)

Inv == DBInv /\ DiskTypes /\ WorkTypes /\ ReadsExist /\ BytesAgree /\ NothingMissed

LEMMA InitInv == Init => Inv
<1> SUFFICES ASSUME Init  PROVE Inv
  OBVIOUS
<1>1. DBTypes
  BY DEF Init, DBInit, DBTypes
<1>2. RowsFit /\ TxFits
  BY DEF Init, DBInit, RowsFit, TxFits
<1>3. DiskTypes /\ WorkTypes
  BY DEF Init, DiskTypes, WorkTypes
<1>4. (\A w \in Worker : work[w].pc = "idle") /\ \A p \in File : disk[p] = NoFile /\ files[p] = NoRow
  BY DEF Init, DBInit, Idle
<1>5. \A w \in Worker : work[w].pc \notin {"read", "update", "commit"}
  BY <1>4
<1>6. ReadsExist /\ BytesAgree
  BY <1>4, <1>5, Zenon DEF ReadsExist, BytesAgree, ReaderOK, UpdaterOK, FileOK
<1>7. NothingMissed
  BY <1>4, Zenon DEF NothingMissed, Attended, Settled, InStep, Busy
<1> QED  BY <1>1, <1>2, <1>3, <1>6, <1>7, Zenon DEF Inv, DBInv

LEMMA InvKept == Inv /\ [Next]_vars => Inv'
<1> SUFFICES ASSUME Inv, [Next]_vars  PROVE Inv'
  OBVIOUS
<1>1. DBInv'
  BY DBKept, Zenon DEF Inv
<1>2. DiskTypes'
  BY DiskTypesKept, Zenon DEF Inv
<1>3. WorkTypes'
  BY WorkTypesKept, Zenon DEF Inv
<1>4. ReadsExist'
  BY ReadsExistKept, Zenon DEF Inv
<1>5. BytesAgree'
  BY BytesKept, Zenon DEF Inv
<1>6. NothingMissed'
  BY AttendedKept, Zenon DEF Inv
<1> QED  BY <1>1, <1>2, <1>3, <1>4, <1>5, <1>6, Zenon DEF Inv

LEMMA FilesAreCopied ==
  ASSUME NEW sizes
  PROVE  /\ SnapshotOf(sizes).count = Cardinality(DOMAIN SnapshotOf(sizes).files)
         /\ SnapshotOf(sizes).total = SumSizes(SnapshotOf(sizes).files)
BY DEF SnapshotOf

\* The tables fit together at every moment: no interleaving of the watcher, a scan
\* and a snapshot, and no failed transaction, rollback or crash, leaves a row whose
\* root or count is not of its own chunk rows, or a snapshot whose totals are not
\* of its files.  Transaction, UpsertFile, SetFileChunks, DeleteFile and
\* CreateSnapshot of internal/db/store.go.
THEOREM TablesAlwaysFit == Spec => []TablesFitTogether
<1>1. Inv => TablesFitTogether
  <2> SUFFICES ASSUME Inv  PROVE TablesFitTogether
    OBVIOUS
  <2>1. DBTypes /\ RowsFit
    BY Zenon DEF Inv, DBInv
  <2>2. \A i \in DOMAIN snapshots :
          /\ snapshots[i].count = Cardinality(DOMAIN snapshots[i].files)
          /\ snapshots[i].total = SumSizes(snapshots[i].files)
    <3> SUFFICES ASSUME NEW i \in DOMAIN snapshots
                 PROVE  /\ snapshots[i].count = Cardinality(DOMAIN snapshots[i].files)
                        /\ snapshots[i].total = SumSizes(snapshots[i].files)
      OBVIOUS
    <3>1. snapshots[i] \in {SnapshotOf(sizes) : sizes \in Sizes}
      BY <2>1 DEF DBTypes
    <3>2. PICK sizes \in Sizes : snapshots[i] = SnapshotOf(sizes)
      BY <3>1
    <3> QED  BY <3>2, FilesAreCopied, Zenon
  <2>3. DOMAIN rows = 1..Len(rows)
    BY <2>1 DEF DBTypes
  <2> QED  BY <2>1, <2>2, <2>3, Zenon DEF RowsFit, TablesFitTogether, computeMerkleRoot
<1> QED  BY <1>1, InitInv, InvKept, PTL DEF Spec

\* Whenever the watcher has nothing left to do, the database is in step with the
\* directory, in names, seconds, sizes and bytes, except for the paths named in
\* InStepAtRest, whatever the writers, the scan, the errors and the stops did.
\* handleEvent, flushPending, processFile, handleUpdate, handleDelete and ScanAll of
\* internal/watcher/watcher.go.
THEOREM DatabaseInStep == Spec => []InStepAtRest
<1>1. Inv => InStepAtRest
  <2> SUFFICES ASSUME Inv, AtRest, NEW p \in File \ (lost \cup raced)
               PROVE  IF disk[p] = NoFile THEN files[p] = NoRow
                      ELSE /\ ~NeedsUpdate(p, Len(disk[p].data), disk[p].mtime)
                           /\ Chunked(disk[p].data, rows[files[p].id]) \/ Blurred(p)
    BY Zenon DEF InStepAtRest
  <2>1. \A w \in Worker : work[w].pc = "idle"
    BY DEF AtRest, Idle
  <2>2. ~Queued(p)
    BY DEF AtRest, Queued
  <2>3. InStep(p) /\ FileOK(p)
    BY <2>1, <2>2, Zenon DEF Inv, NothingMissed, Attended, Settled, Busy, BytesAgree
  <2> QED  BY <2>3, Zenon DEF InStep, FileOK, Matches, NeedsUpdate
<1> QED  BY <1>1, InitInv, InvKept, PTL DEF Spec
=============================================================================
