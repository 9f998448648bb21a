------------------------------ MODULE BlobStore ------------------------------
(***************************************************************************)
(* The on-disk content-addressed chunk store (internal/cas/store.go).      *)
(*                                                                         *)
(* Threads are goroutines; the threads of one operating-system process     *)
(* share one BlobStore value and therefore one sync.RWMutex.  Two          *)
(* processes opened on the same directory (a running "serve" and a "sync") *)
(* share the files but not the mutex.                                      *)
(*                                                                         *)
(* SHA-256 is taken to be injective, so a chunk is named by its hash, and  *)
(* the content of a file under that name is the set of blocks of the chunk *)
(* it holds: 1..Blocks is the whole chunk, {} an empty file.  Put never    *)
(* opens the final path for writing, so an open descriptor is described by *)
(* the name its file is currently linked under.                            *)
(***************************************************************************)
EXTENDS Naturals

CONSTANTS
  Process,    \* operating-system processes that opened the directory
  Thread,     \* goroutines that call the store
  ProcessOf,  \* the process each thread belongs to
  Hash,       \* chunk hashes
  Blocks,     \* number of write units of a chunk
  Client,     \* threads that call Put, Get, Has and Verify
  Deleter,    \* threads that call Delete
  Walker,     \* threads that call VerifyAll
  MaxRot,     \* how many times the disk may lose a block of a stored chunk
  NoFile,     \* the path does not exist
  NoThread    \* the mutex is free

Whole == 1..Blocks

ASSUME StoreAssumption ==
  /\ ProcessOf \in [Thread -> Process]
  /\ Hash # {}
  /\ Blocks \in Nat
  /\ MaxRot \in Nat
  /\ \A content \in SUBSET Whole : content # NoFile
  /\ NoThread \notin Thread
  /\ Client \subseteq Thread
  /\ Deleter \subseteq Thread
  /\ Walker \subseteq Thread

VARIABLES
  tmp,     \* tmp[h]: content of the file chunkPath(h) + ".tmp"
  final,   \* final[h]: content of the file chunkPath(h)
  writer,  \* writer[p]: the thread holding the write lock of p's BlobStore
  pc,      \* control state of a thread
  arg,     \* the hash the thread's current or last call is about
  off,     \* number of blocks the thread has written through its descriptor
  fd,      \* the link of the file the thread has open for writing
  ret,     \* result of the thread's last call, "none" while it runs
  walk,    \* VerifyAll: hashes whose directory is still to be read
  seen,    \* VerifyAll: entries read from the current directory
  bad,     \* VerifyAll: the hashes reported as corrupted
  rots     \* blocks the disk has lost so far

files == <<tmp, final>>
walkVars == <<walk, seen, bad>>
vars == <<tmp, final, writer, pc, arg, off, fd, ret, walk, seen, bad, rots>>

Content == (SUBSET Whole) \cup {NoFile}
Results == {"none", "new", "exists", "error", "data", "wrong", "present",
            "absent", "valid", "corrupt", "deleted", "walked"}
PutStates == {"lock", "stat", "open", "write", "rename"}
WalkStates == {"walk", "lstat", "verify"}

Exists(f, h) == f[h] # NoFile

\* The mutex of the thread's own process.
Unlocked(t) == writer[ProcessOf[t]] = NoThread

Init ==
  /\ tmp = [h \in Hash |-> NoFile]
  /\ final = [h \in Hash |-> NoFile]
  /\ writer = [p \in Process |-> NoThread]
  /\ pc = [t \in Thread |-> "idle"]
  /\ arg = [t \in Thread |-> CHOOSE h \in Hash : TRUE]
  /\ off = [t \in Thread |-> 0]
  /\ fd = [t \in Thread |-> "none"]
  /\ ret = [t \in Thread |-> "none"]
  /\ walk = [t \in Thread |-> {}]
  /\ seen = [t \in Thread |-> {}]
  /\ bad = [t \in Thread |-> {}]
  /\ rots = 0

-----------------------------------------------------------------------------
(* Put *)

\* Every return of Put: the deferred Unlock runs and the result is handed
\* back.
Return(t, result) ==
  /\ pc' = [pc EXCEPT ![t] = "idle"]
  /\ ret' = [ret EXCEPT ![t] = result]
  /\ writer' = [writer EXCEPT ![ProcessOf[t]] = NoThread]

\* The descriptors after the file linked as "from" under hash h is linked as
\* "to" instead: descriptors follow the file, not the name.
Relink(h, from, to) ==
  [u \in Thread |-> IF arg[u] = h /\ fd[u] = from THEN to ELSE fd[u]]

\* os.Remove(tmpPath): whichever file has that name now goes away.
RemoveTmp(h) ==
  /\ tmp' = [tmp EXCEPT ![h] = NoFile]
  /\ fd' = Relink(h, "tmp", "gone")

PutCall(t, h) ==
  /\ t \in Client
  /\ pc[t] = "idle"
  /\ pc' = [pc EXCEPT ![t] = "lock"]
  /\ arg' = [arg EXCEPT ![t] = h]
  /\ ret' = [ret EXCEPT ![t] = "none"]
  /\ UNCHANGED <<files, writer, off, fd, walkVars, rots>>

PutLock(t) ==
  /\ pc[t] = "lock"
  /\ Unlocked(t)
  /\ writer' = [writer EXCEPT ![ProcessOf[t]] = t]
  /\ pc' = [pc EXCEPT ![t] = "stat"]
  /\ UNCHANGED <<files, arg, off, fd, ret, walkVars, rots>>

PutExists(t) ==
  /\ pc[t] = "stat"
  /\ Exists(final, arg[t])
  /\ Return(t, "exists")
  /\ UNCHANGED <<files, arg, off, fd, walkVars, rots>>

\* Mutant: the existence check is left out.
PutAbsentUnchecked(t) ==
  /\ pc[t] = "stat"
  /\ pc' = [pc EXCEPT ![t] = "open"]
  /\ UNCHANGED <<files, writer, arg, off, fd, ret, walkVars, rots>>

PutAbsent(t) ==
  /\ pc[t] = "stat"
  /\ ~Exists(final, arg[t])
  /\ pc' = [pc EXCEPT ![t] = "open"]
  /\ UNCHANGED <<files, writer, arg, off, fd, ret, walkVars, rots>>

\* Mutant: the chunk is written in place, without a temporary file.
PutOpenInPlace(t) ==
  /\ pc[t] = "open"
  /\ final' = [final EXCEPT ![arg[t]] = {}]
  /\ fd' = [fd EXCEPT ![t] = "final"]
  /\ off' = [off EXCEPT ![t] = 0]
  /\ pc' = [pc EXCEPT ![t] = "write"]
  /\ UNCHANGED <<tmp, writer, arg, ret, walkVars, rots>>

\* O_CREATE and O_TRUNC: a leftover or a concurrent temporary file is reused.
PutOpen(t) ==
  /\ pc[t] = "open"
  /\ tmp' = [tmp EXCEPT ![arg[t]] = {}]
  /\ fd' = [fd EXCEPT ![t] = "tmp"]
  /\ off' = [off EXCEPT ![t] = 0]
  /\ pc' = [pc EXCEPT ![t] = "write"]
  /\ UNCHANGED <<final, writer, arg, ret, walkVars, rots>>

\* Mutant: an early return that forgets the mutex.
PutOpenFailLocked(t) ==
  /\ pc[t] = "open"
  /\ pc' = [pc EXCEPT ![t] = "idle"]
  /\ ret' = [ret EXCEPT ![t] = "error"]
  /\ UNCHANGED <<files, writer, arg, off, fd, walkVars, rots>>

\* MkdirAll or OpenFile fails: nothing was created.
PutOpenFail(t) ==
  /\ pc[t] = "open"
  /\ Return(t, "error")
  /\ UNCHANGED <<files, arg, off, fd, walkVars, rots>>

\* A write goes to the file the descriptor refers to, wherever it is linked.
PutWrite(t) ==
  LET h == arg[t]
      n == off[t] + 1
  IN /\ pc[t] = "write"
     /\ off[t] < Blocks
     /\ off' = [off EXCEPT ![t] = n]
     /\ tmp' = IF fd[t] = "tmp" THEN [tmp EXCEPT ![h] = @ \cup {n}] ELSE tmp
     /\ final' = IF fd[t] = "final" THEN [final EXCEPT ![h] = @ \cup {n}]
                                    ELSE final
     /\ UNCHANGED <<writer, pc, arg, fd, ret, walkVars, rots>>

\* Write, Flush or Close fails: the descriptor is closed, tmpPath removed.
PutWriteFail(t) ==
  /\ pc[t] = "write"
  /\ tmp' = [tmp EXCEPT ![arg[t]] = NoFile]
  /\ fd' = [Relink(arg[t], "tmp", "gone") EXCEPT ![t] = "none"]
  /\ Return(t, "error")
  /\ UNCHANGED <<final, arg, off, walkVars, rots>>

PutClose(t) ==
  /\ pc[t] = "write"
  /\ off[t] = Blocks
  /\ fd' = [fd EXCEPT ![t] = "none"]
  /\ pc' = [pc EXCEPT ![t] = "rename"]
  /\ UNCHANGED <<files, writer, arg, off, ret, walkVars, rots>>

\* The file now called tmpPath replaces the one called path.
PutRename(t) ==
  LET h == arg[t] IN
  /\ pc[t] = "rename"
  /\ Exists(tmp, h)
  /\ final' = [final EXCEPT ![h] = tmp[h]]
  /\ tmp' = [tmp EXCEPT ![h] = NoFile]
  /\ fd' = [u \in Thread |->
              CASE arg[u] = h /\ fd[u] = "final" -> "gone"
                [] arg[u] = h /\ fd[u] = "tmp" -> "final"
                [] OTHER -> fd[u]]
  /\ Return(t, "new")
  /\ UNCHANGED <<arg, off, walkVars, rots>>

\* Rename fails: an I/O error, or another process moved the file away.
PutRenameFail(t) ==
  /\ pc[t] = "rename"
  /\ RemoveTmp(arg[t])
  /\ Return(t, "error")
  /\ UNCHANGED <<final, arg, off, walkVars, rots>>

Put(t) ==
  \/ PutExists(t) \/ PutAbsent(t) \/ PutOpen(t) \/ PutOpenFail(t)
  \/ PutWrite(t) \/ PutWriteFail(t) \/ PutClose(t)
  \/ PutRename(t) \/ PutRenameFail(t)

-----------------------------------------------------------------------------
(* Get, Has, Verify: one critical section under the read lock each, which   *)
(* excludes the writer of the same process and no other.                    *)

Answer(t, h, result) ==
  /\ t \in Client
  /\ pc[t] = "idle"
  /\ Unlocked(t)
  /\ arg' = [arg EXCEPT ![t] = h]
  /\ ret' = [ret EXCEPT ![t] = result]
  /\ UNCHANGED <<files, writer, pc, off, fd, walkVars, rots>>

\* Get returns whatever bytes the file has: it does not hash them.
Get(t, h) ==
  Answer(t, h, CASE ~Exists(final, h) -> "absent"
                 [] final[h] = Whole -> "data"
                 [] OTHER -> "wrong")

Has(t, h) == Answer(t, h, IF Exists(final, h) THEN "present" ELSE "absent")

\* Mutant: the computed hash is not compared.
VerifyResultUncompared(h) == IF Exists(final, h) THEN "valid" ELSE "absent"

VerifyResult(h) ==
  CASE ~Exists(final, h) -> "absent"
    [] final[h] = Whole -> "valid"
    [] OTHER -> "corrupt"

Verify(t, h) == Answer(t, h, VerifyResult(h))

\* Removing a path that does not exist is not an error.
Delete(t, h) ==
  /\ t \in Deleter
  /\ pc[t] = "idle"
  /\ Unlocked(t)
  /\ final' = [final EXCEPT ![h] = NoFile]
  /\ fd' = Relink(h, "final", "gone")
  /\ arg' = [arg EXCEPT ![t] = h]
  /\ ret' = [ret EXCEPT ![t] = "deleted"]
  /\ UNCHANGED <<tmp, writer, pc, off, walkVars, rots>>

-----------------------------------------------------------------------------
(* VerifyAll: filepath.Walk reads a directory, stats its entries one by one *)
(* and verifies each chunk; no lock is held across these steps.  Each hash  *)
(* is taken to live in a prefix directory of its own.                       *)

VerifyAll(t) ==
  /\ t \in Walker
  /\ pc[t] = "idle"
  /\ pc' = [pc EXCEPT ![t] = "walk"]
  /\ walk' = [walk EXCEPT ![t] = Hash]
  /\ seen' = [seen EXCEPT ![t] = {}]
  /\ bad' = [bad EXCEPT ![t] = {}]
  /\ ret' = [ret EXCEPT ![t] = "none"]
  /\ UNCHANGED <<files, writer, arg, off, fd, rots>>

WalkReadDir(t, h) ==
  /\ pc[t] = "walk"
  /\ h \in walk[t]
  /\ walk' = [walk EXCEPT ![t] = @ \ {h}]
  /\ seen' = [seen EXCEPT ![t] =
                {e \in {"chunk", "tmp"} :
                   IF e = "tmp" THEN Exists(tmp, h) ELSE Exists(final, h)}]
  /\ arg' = [arg EXCEPT ![t] = h]
  /\ pc' = [pc EXCEPT ![t] = "lstat"]
  /\ UNCHANGED <<files, writer, off, fd, ret, bad, rots>>

\* Mutant: temporary files are not skipped.
WalkLstatTmp(t) ==
  /\ pc[t] = "lstat"
  /\ seen[t] # {}
  /\ pc' = [pc EXCEPT ![t] = "verify"]
  /\ \E e \in seen[t] : seen' = [seen EXCEPT ![t] = @ \ {e}]
  /\ UNCHANGED <<files, writer, arg, off, fd, ret, walk, bad, rots>>

\* Names are visited in order: the chunk before the ".tmp" file.  An entry
\* that vanished since the directory was read aborts the walk with an error.
WalkLstat(t) ==
  LET h == arg[t]
      e == IF "chunk" \in seen[t] THEN "chunk" ELSE "tmp"
      there == IF e = "tmp" THEN Exists(tmp, h) ELSE Exists(final, h)
  IN /\ pc[t] = "lstat"
     /\ seen[t] # {}
     /\ pc' = [pc EXCEPT ![t] = CASE ~there -> "idle"
                                  [] there /\ e = "chunk" -> "verify"
                                  [] OTHER -> "lstat"]
     /\ ret' = IF there THEN ret ELSE [ret EXCEPT ![t] = "error"]
     /\ seen' = [seen EXCEPT ![t] = @ \ {e}]
     /\ UNCHANGED <<files, writer, arg, off, fd, walk, bad, rots>>

\* Any error of Verify, "chunk not found" included, is reported.
WalkVerify(t) ==
  /\ pc[t] = "verify"
  /\ Unlocked(t)
  /\ bad' = IF VerifyResult(arg[t]) = "valid" THEN bad
                                    ELSE [bad EXCEPT ![t] = @ \cup {arg[t]}]
  /\ pc' = [pc EXCEPT ![t] = "lstat"]
  /\ UNCHANGED <<files, writer, arg, off, fd, ret, walk, seen, rots>>

WalkNext(t) ==
  /\ pc[t] = "lstat"
  /\ seen[t] = {}
  /\ pc' = [pc EXCEPT ![t] = IF walk[t] = {} THEN "idle" ELSE "walk"]
  /\ ret' = IF walk[t] = {} THEN [ret EXCEPT ![t] = "walked"] ELSE ret
  /\ UNCHANGED <<files, writer, arg, off, fd, walkVars, rots>>

Walk(t) ==
  \/ \E h \in Hash : WalkReadDir(t, h)
  \/ WalkLstat(t) \/ WalkVerify(t) \/ WalkNext(t)

-----------------------------------------------------------------------------
(* The environment *)

\* A process dies and is started again on the same directory.  The kernel
\* keeps what was written; descriptors, the mutex and the calls are gone.
Crash(p) ==
  LET dead == {t \in Thread : ProcessOf[t] = p} IN
  /\ pc' = [t \in Thread |-> IF t \in dead THEN "idle" ELSE pc[t]]
  /\ ret' = [t \in Thread |-> IF t \in dead THEN "none" ELSE ret[t]]
  /\ fd' = [t \in Thread |-> IF t \in dead THEN "none" ELSE fd[t]]
  /\ writer' = [writer EXCEPT ![p] = NoThread]
  /\ UNCHANGED <<files, arg, off, walkVars, rots>>

\* The disk loses a block of a stored chunk.
Rot(h) ==
  /\ rots < MaxRot
  /\ Exists(final, h)
  /\ \E n \in final[h] : final' = [final EXCEPT ![h] = @ \ {n}]
  /\ rots' = rots + 1
  /\ UNCHANGED <<tmp, writer, pc, arg, off, fd, ret, walkVars>>

\* The machine loses power.  The store never calls fsync, so what a file
\* created by Put still holds afterwards is any part of what was written.
PowerLoss ==
  /\ \E kept \in [Hash -> SUBSET Whole] :
       final' = [h \in Hash |-> IF Exists(final, h) THEN kept[h] \cap final[h]
                                                   ELSE NoFile]
  /\ pc' = [t \in Thread |-> "idle"]
  /\ ret' = [t \in Thread |-> "none"]
  /\ fd' = [t \in Thread |-> "none"]
  /\ writer' = [p \in Process |-> NoThread]
  /\ UNCHANGED <<tmp, arg, off, walkVars, rots>>

-----------------------------------------------------------------------------
Next ==
  \/ \E t \in Thread :
       \/ \E h \in Hash : \/ PutCall(t, h) \/ Get(t, h) \/ Has(t, h)
                          \/ Verify(t, h) \/ Delete(t, h)
       \/ PutLock(t)
       \/ Put(t)
       \/ VerifyAll(t)
       \/ Walk(t)
  \/ \E p \in Process : Crash(p)
  \/ \E h \in Hash : Rot(h)

Spec == Init /\ [][Next]_vars

\* Goroutines are scheduled, and sync.RWMutex starves neither a waiting
\* writer nor a waiting reader: a thread that asks for the lock gets it if
\* the lock is released again and again.
Fairness ==
  \A t \in Thread : /\ WF_vars(Put(t)) /\ SF_vars(PutLock(t))
                    /\ WF_vars(Walk(t)) /\ SF_vars(WalkVerify(t))

FairSpec == Spec /\ Fairness

PowerLossSpec == Init /\ [][Next \/ PowerLoss]_vars

-----------------------------------------------------------------------------
(* Properties *)

\* The values the variables take.
TypeOK ==
  /\ tmp \in [Hash -> Content]
  /\ final \in [Hash -> Content]
  /\ writer \in [Process -> Thread \cup {NoThread}]
  /\ pc \in [Thread -> {"idle"} \cup PutStates \cup WalkStates]
  /\ arg \in [Thread -> Hash]
  /\ off \in [Thread -> 0..Blocks]
  /\ fd \in [Thread -> {"none", "tmp", "final", "gone"}]
  /\ ret \in [Thread -> Results]
  /\ walk \in [Thread -> SUBSET Hash]
  /\ seen \in [Thread -> SUBSET {"chunk", "tmp"}]
  /\ bad \in [Thread -> SUBSET Hash]
  /\ rots \in 0..MaxRot

\* A chunk that can be found under its hash is complete, whatever Puts are
\* under way, have failed or were cut off by a crash of the process.  This is
\* what the write-to-temporary-then-rename of Put is for, and what Put, Has
\* and the sync client rely on when they take "the path exists" to mean "the
\* chunk is stored".
StoredWhole ==
  \A h \in Hash : Exists(final, h) => final[h] = Whole

\* Get never hands out bytes that do not match the hash they were asked for.
GetReturnsTheChunk == \A t \in Thread : ret[t] # "wrong"

\* What VerifyAll reports as corrupted is a stored chunk that is damaged.
ReportsAreDamage ==
  \A t \in Thread : \A h \in bad[t] : Exists(final, h) /\ final[h] # Whole

\* A chunk that is damaged when VerifyAll has yet to reach it is reported,
\* unless the walk is cut short by an error or a crash.
DamageIsReported ==
  \A t \in Walker, h \in Hash :
    (pc[t] = "walk" /\ h \in walk[t] /\ Exists(final, h) /\ final[h] # Whole)
      ~> (h \in bad[t] \/ (pc[t] = "idle" /\ ret[t] # "walked"))

\* Every call of Put returns: no path through it, the error paths included,
\* leaves the mutex locked for the callers behind it.
PutReturns == \A t \in Thread : pc[t] = "lock" ~> pc[t] = "idle"

\* The store is a set of chunks with atomic operations.
ChunkSet == INSTANCE ChunkSet WITH stored <- {h \in Hash : Exists(final, h)}

\* Seen from its callers, the store is the abstract set of chunks of module
\* ChunkSet: a Put adds its chunk in one step and says truly whether it was
\* new, a failed or interrupted Put changes nothing, Get, Has and Verify
\* answer from the set.
ImplementsChunkSet == ChunkSet!Spec
=============================================================================
