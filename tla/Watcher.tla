------------------------------- MODULE Watcher -------------------------------
(***************************************************************************)
(* The file watcher (internal/watcher/watcher.go): it keeps the database   *)
(* (module FileDB) in step with a directory, by the events of fsnotify and *)
(* by scans.                                                               *)
(*                                                                         *)
(* Two workers process files: "flush", the goroutine that empties the      *)
(* pending set, and "scan", a caller of ScanAll.  A file is read chunk by  *)
(* chunk while it may change.  Hidden names and the wording of events are  *)
(* left out; a file is the version its bytes are of.                       *)
(***************************************************************************)
EXTENDS FileDB

CONSTANTS
  Dir, Root,    \* directories; Root is watched from the start
  DirOf,        \* the directory of each file
  Writes,       \* what a write may do: the size in bytes, and the seconds since the last
  ChunkSize,
  NoFile,
  MaxTime,      \* bound on the clock
  MaxSteps      \* bound on changes, scans, snapshots, errors and stops together

ASSUME WatcherAssumption ==
  /\ Root \in Dir /\ DirOf \in [File -> Dir] /\ File \cap Dir = {}
  /\ Writes \subseteq Nat \X Nat /\ ChunkSize \in Nat \ {0}
  /\ MaxTime \in Nat /\ MaxSteps \in Nat
  /\ NoFile \notin [data : Seq(Nat), mtime : Nat, change : Nat]

VARIABLES
  disk,      \* for each path, NoFile or the bytes, and the second and number of the change
  dirs,      \* directories that exist
  now,       \* the clock, in seconds
  running,   \* the watcher is started
  watched,   \* directories fsnotify watches
  events,    \* the events it has not delivered: paths and new directories
  pending,   \* paths queued for processing
  batch,     \* the paths flushPending has taken and not yet processed
  toScan,    \* the paths ScanAll has still to visit
  work,      \* what each worker does
  changes,   \* how often the directory changed
  extras,    \* how many scans, snapshots, errors and stops there were
  lost,      \* history: paths with a change that nobody will process
  written,   \* history: the changes that wrote a file, with their second and its size
  raced      \* history: processed by both workers at the same time

diskVars == <<disk, dirs, now, changes>>
history == <<lost, written, raced>>
vars == <<dbVars, diskVars, running, watched, events, pending, batch, toScan,
          work, extras, history>>

Worker == {"flush", "scan"}
Idle == [pc |-> "idle"]

Init ==
  /\ DBInit
  /\ disk = [p \in File |-> NoFile] /\ dirs = {Root} /\ now = 0 /\ changes = 0
  /\ running = FALSE /\ watched = {} /\ events = <<>>
  /\ pending = {} /\ batch = {} /\ toScan = {}
  /\ work = [w \in Worker |-> Idle]
  /\ extras = 0
  /\ lost = {} /\ written = {} /\ raced = {}

Busy(w, p) == work[w].pc # "idle" /\ work[w].path = p
-----------------------------------------------------------------------------
(* The file system. *)

\* A change of x, in directory d, is an event if d is watched, and is lost if not.
Notify(x, d) ==
  IF d \in watched THEN events' = Append(events, x) /\ UNCHANGED lost
  ELSE UNCHANGED events /\ lost' = lost \cup ({x} \cap File)

\* Somebody writes a file, some time later: its bytes are all of a new version.
WriteFile(p, size, seconds) ==
  /\ changes + extras < MaxSteps /\ DirOf[p] \in dirs
  /\ changes' = changes + 1
  /\ now' = Min({now + seconds, MaxTime})
  /\ disk' = [disk EXCEPT ![p] =
       [data |-> [i \in 1..size |-> changes'], mtime |-> now', change |-> changes']]
  /\ written' = written \cup {[path |-> p, change |-> changes', mtime |-> now', size |-> size]}
  /\ Notify(p, DirOf[p])
  /\ UNCHANGED <<dbVars, dirs, running, watched, pending, batch, toScan, work,
                 extras, raced>>

\* Somebody removes a file.  Who has it open goes on reading what it was.
RemoveFile(p) ==
  /\ changes + extras < MaxSteps /\ disk[p] # NoFile
  /\ changes' = changes + 1
  /\ disk' = [disk EXCEPT ![p] = NoFile]
  /\ work' = [w \in Worker |->
       IF Busy(w, p) /\ work[w].pc = "read" /\ work[w].inode = NoFile
         THEN [work[w] EXCEPT !.inode = disk[p]] ELSE work[w]]
  /\ Notify(p, DirOf[p])
  /\ UNCHANGED <<dbVars, dirs, now, running, watched, pending, batch, toScan,
                 extras, written, raced>>

MakeDir(d) ==
  /\ changes + extras < MaxSteps /\ d \notin dirs
  /\ changes' = changes + 1
  /\ dirs' = dirs \cup {d}
  /\ Notify(d, Root)
  /\ UNCHANGED <<dbVars, disk, now, running, watched, pending, batch, toScan, work,
                 extras, written, raced>>
-----------------------------------------------------------------------------
(* The watcher. *)

\* Start watches every directory there is.
Start ==
  /\ ~running
  /\ running' = TRUE
  /\ watched' = dirs
  /\ UNCHANGED <<dbVars, diskVars, events, pending, batch, toScan, work, extras, history>>

\* What the goroutines of a stopped watcher have not processed is lost.
Dropped ==
  pending \cup batch \cup (File \cap {events[i] : i \in DOMAIN events})
  \cup {work[w].path : w \in {w \in Worker : work[w].pc # "idle"}}

\* Stop cancels the context: every later database call fails, the watches are
\* closed, and a transaction in progress is rolled back.  A crash looks the same.
Stop ==
  /\ running /\ changes + extras < MaxSteps
  /\ running' = FALSE /\ extras' = extras + 1
  /\ watched' = {} /\ events' = <<>> /\ pending' = {} /\ batch' = {} /\ toScan' = {}
  /\ work' = [w \in Worker |-> Idle]
  /\ tx' = NoTx
  /\ lost' = lost \cup Dropped
  /\ UNCHANGED <<files, rows, lastID, enforced, snapshots, diskVars, written, raced>>

\* handleEvent: a new directory is watched from now on, other paths are queued.
HandleEvent ==
  /\ events # <<>>
  /\ events' = Tail(events)
  /\ IF Head(events) \in Dir
       THEN watched' = watched \cup {Head(events)} /\ UNCHANGED pending
       ELSE pending' = pending \cup {Head(events)} /\ UNCHANGED watched
  /\ UNCHANGED <<dbVars, diskVars, running, batch, toScan, work, extras, history>>

\* A bug to avoid: the map is emptied when its files have been processed.
FlushPendingLate ==
  /\ pending # {} /\ batch = {} /\ work["flush"] = Idle
  /\ \/ batch' = pending /\ UNCHANGED pending
     \/ pending' = {} /\ UNCHANGED batch
  /\ UNCHANGED <<dbVars, diskVars, running, watched, events, toScan, work, extras, history>>

\* flushPending swaps the pending map, at a tick of the debounce timer.
FlushPending ==
  /\ pending # {} /\ batch = {} /\ work["flush"] = Idle
  /\ batch' = pending
  /\ pending' = {}
  /\ UNCHANGED <<dbVars, diskVars, running, watched, events, toScan, work, extras, history>>

\* ScanAll walks over the files there are, whether or not the watcher is started.
ScanAll ==
  /\ changes + extras < MaxSteps /\ toScan = {} /\ work["scan"] = Idle
  /\ extras' = extras + 1
  /\ toScan' = {p \in File : disk[p] # NoFile}
  /\ UNCHANGED <<dbVars, diskVars, running, watched, events, pending, batch, work, history>>

Queue(w) == IF w = "flush" THEN batch ELSE toScan

\* A file that is gone ends the whole scan with an error.
Take(w, p) ==
  IF w = "flush" THEN batch' = batch \ {p} /\ UNCHANGED toScan
  ELSE /\ toScan' = IF disk[p] = NoFile THEN {} ELSE toScan \ {p}
       /\ UNCHANGED batch

\* processFile, and the visit of ScanAll: stat the file and compare with its row.
\* A file that is gone is deleted from the database, except by a scan.
ProcessFile(w) ==
  \E p \in Queue(w) :
    /\ work[w] = Idle /\ tx = NoTx
    /\ Take(w, p)
    /\ work' = [work EXCEPT ![w] =
         CASE disk[p] = NoFile -> IF w = "flush" THEN [pc |-> "delete", path |-> p] ELSE Idle
           [] disk[p] # NoFile /\ NeedsUpdate(p, Len(disk[p].data), disk[p].mtime) ->
                [pc |-> "read", path |-> p, mtime |-> disk[p].mtime, size |-> Len(disk[p].data),
                 inode |-> NoFile, at |-> 0, chunks |-> <<>>]
           [] OTHER -> Idle]
    /\ lost' = IF disk[p] # NoFile \/ w = "flush" THEN lost \ {p} ELSE lost
    /\ raced' = IF \E v \in Worker \ {w} : Busy(v, p) THEN raced \cup {p} ELSE raced
    /\ ReadTogether(\A v \in Worker : Queue(v) # {})
    /\ UNCHANGED <<diskVars, running, watched, events, pending, extras, written>>

\* Chunker.Next: the next ChunkSize bytes, or what is left of them.
NextChunk(data, at) == SubSeq(data, at + 1, Min({at + ChunkSize, Len(data)}))

\* handleUpdate fails to open a file that is gone since it was looked at.
OpenFails(w) ==
  /\ work[w].pc = "read" /\ work[w].at = 0 /\ work[w].inode # NoFile
  /\ work' = [work EXCEPT ![w] = Idle]
  /\ UNCHANGED <<dbVars, diskVars, running, watched, events, pending, batch, toScan,
                 extras, history>>

\* The file a worker reads: what is at the path, or what was there when it was removed.
Opened(w) == IF work[w].inode # NoFile THEN work[w].inode ELSE disk[work[w].path]

\* One round of ChunkAll: a chunk of what the file holds by now, until its end.
ReadChunk(w) ==
  /\ work[w].pc = "read"
  /\ LET chunk == NextChunk(Opened(w).data, work[w].at) IN
       work' = [work EXCEPT ![w] =
         IF work[w].at >= Len(Opened(w).data)
           THEN [pc |-> "update", path |-> work[w].path, mtime |-> work[w].mtime,
                 size |-> work[w].size, chunks |-> work[w].chunks]
           ELSE [work[w] EXCEPT !.at = work[w].at + Len(chunk),
                                !.chunks = Append(work[w].chunks, chunk)]]
  /\ UNCHANGED <<dbVars, diskVars, running, watched, events, pending, batch, toScan,
                 extras, history>>

\* The row has the size and the second of the stat, and the chunks read since.
Update(w) ==
  /\ work[w].pc = "update"
  /\ UpsertFile(w, work[w].path,
       [root |-> computeMerkleRoot(work[w].chunks), count |-> Len(work[w].chunks),
        size |-> work[w].size, mtime |-> work[w].mtime])
  /\ work' = [work EXCEPT ![w].pc = "commit"]
  /\ UNCHANGED <<diskVars, running, watched, events, pending, batch, toScan, extras, history>>

Commit(w) ==
  /\ work[w].pc = "commit"
  /\ SetFileChunks(w, work[w].chunks)
  /\ work' = [work EXCEPT ![w] = Idle]
  /\ UNCHANGED <<diskVars, running, watched, events, pending, batch, toScan, extras, history>>

HandleDelete(w) ==
  /\ work[w].pc = "delete"
  /\ DeleteFile(work[w].path)
  /\ work' = [work EXCEPT ![w] = Idle]
  /\ UNCHANGED <<diskVars, running, watched, events, pending, batch, toScan, extras, history>>

\* An I/O or database error.  It is reported and the file is not tried again.
ProcessFails(w) ==
  /\ work[w].pc # "idle" /\ changes + extras < MaxSteps
  /\ IF work[w].pc = "commit" THEN Rollback(w) ELSE UNCHANGED dbVars
  /\ extras' = extras + 1
  /\ lost' = lost \cup {work[w].path}
  /\ work' = [work EXCEPT ![w] = Idle]
  /\ UNCHANGED <<diskVars, running, watched, events, pending, batch, toScan,
                 written, raced>>

CreateSnapshot ==
  /\ \/ CountFiles /\ changes + extras < MaxSteps /\ extras' = extras + 1
     \/ CopyFiles /\ UNCHANGED extras
  /\ UNCHANGED <<diskVars, running, watched, events, pending, batch, toScan, work, history>>
-----------------------------------------------------------------------------
WorkerStep(w) ==
  \/ ProcessFile(w) \/ OpenFails(w) \/ ReadChunk(w) \/ Update(w) \/ Commit(w) \/ HandleDelete(w)

Progress == HandleEvent \/ FlushPending \/ (CopyFiles /\ CreateSnapshot) \/ \E w \in Worker : WorkerStep(w)

Environment ==
  \/ \E p \in File : RemoveFile(p) \/ \E e \in Writes : WriteFile(p, e[1], e[2])
  \/ \E d \in Dir : MakeDir(d)
  \/ Start \/ Stop \/ ScanAll \/ CreateSnapshot
  \/ \E w \in Worker : ProcessFails(w)

Next == Progress \/ Environment

Spec == Init /\ [][Next]_vars /\ WF_vars(Progress)

-----------------------------------------------------------------------------

AtRest ==
  /\ events = <<>> /\ pending = {} /\ batch = {} /\ toScan = {}
  /\ \A w \in Worker : work[w] = Idle

\* The chunks, one after the other, are the data; end[i] is where chunk i ends.
Chunked(data, chunks) ==
  \E end \in [0..Len(chunks) -> 0..Len(data)] :
    /\ end[0] = 0 /\ end[Len(chunks)] = Len(data)
    /\ \A i \in DOMAIN chunks :
         end[i - 1] <= end[i] /\ chunks[i] = SubSeq(data, end[i - 1] + 1, end[i])

\* Another version of the file was of the same second and the same size.
Blurred(p) ==
  \E v \in written :
    /\ v.path = p /\ v.change # disk[p].change
    /\ v.mtime = disk[p].mtime /\ v.size = Len(disk[p].data)

\* Once there is nothing left to do, the database is in step with the directory: no
\* row for a file that is gone, and the right second and size for one that is there,
\* with its bytes in the chunks.  The exceptions are all there are:
\* a change nobody was told of or an error, two versions of a second and of the
\* same size, or a scan and the watcher at the same file at the same time.
InStepAtRest ==
  AtRest => \A p \in File \ (lost \cup raced) :
    IF disk[p] = NoFile THEN files[p] = NoRow
    ELSE /\ ~NeedsUpdate(p, Len(disk[p].data), disk[p].mtime)
         /\ Chunked(disk[p].data, rows[files[p].id]) \/ Blurred(p)

\* The watcher comes to rest after the last change: no event, queued path or
\* visit of a scan is stuck, and no failed transaction keeps the others waiting.
ComesToRest == []<>(running => AtRest /\ tx = NoTx)
=============================================================================
