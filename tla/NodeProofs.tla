------------------------------ MODULE NodeProofs ------------------------------
(***************************************************************************)
(* Proofs about modules BlobStore and Transport, the chunk store and the   *)
(* peer connections that every node has: what the files of the store hold, *)
(* whatever its threads and processes do, and how the tables of the two    *)
(* ends of a connection fit together.                                      *)
(***************************************************************************)
EXTENDS BlobStore, Transport, TLAPS

-----------------------------------------------------------------------------
(* Types.  TypeOK is not inductive: a write through a descriptor adds a    *)
(* block to the file the descriptor is linked to, so that file must exist. *)

\* A descriptor is open only while its thread is writing, and the file it is
\* linked to exists under that name.
LinkInv ==
  \A t \in Thread :
    /\ fd[t] # "none" => pc[t] = "write"
    /\ fd[t] = "tmp" => Exists(tmp, arg[t])
    /\ fd[t] = "final" => Exists(final, arg[t])

TypeInv == TypeOK /\ LinkInv

LEMMA TypeInvInit == Init => TypeInv
BY StoreAssumption
   DEF Init, TypeInv, TypeOK, LinkInv, Content, Results, PutStates, WalkStates

LEMMA TypeInvNext == TypeInv /\ [Next]_vars => TypeInv'
<1> SUFFICES ASSUME TypeInv, [Next]_vars PROVE TypeInv'
  BY Zenon
<1> USE StoreAssumption DEF TypeInv, TypeOK, LinkInv, Content, Results, PutStates,
        WalkStates, Exists, Whole, files, walkVars
<1>1. ASSUME NEW t \in Thread, NEW h \in Hash, PutCall(t, h) PROVE TypeInv'
  BY <1>1 DEF PutCall
<1>2. ASSUME NEW t \in Thread, PutLock(t) PROVE TypeInv'
  BY <1>2, Zenon DEF PutLock
<1>3. ASSUME NEW t \in Thread, PutExists(t) PROVE TypeInv'
  BY <1>3, Zenon DEF PutExists, Return
<1>4. ASSUME NEW t \in Thread, PutAbsent(t) PROVE TypeInv'
  BY <1>4 DEF PutAbsent
<1>5. ASSUME NEW t \in Thread, PutOpen(t) PROVE TypeInv'
  BY <1>5 DEF PutOpen
<1>6. ASSUME NEW t \in Thread, PutOpenFail(t) PROVE TypeInv'
  BY <1>6, Zenon DEF PutOpenFail, Return
<1>7. ASSUME NEW t \in Thread, PutWrite(t) PROVE TypeInv'
  BY <1>7 DEF PutWrite
<1>8. ASSUME NEW t \in Thread, PutWriteFail(t) PROVE TypeInv'
  BY <1>8, Zenon DEF PutWriteFail, Return, Relink
<1>9. ASSUME NEW t \in Thread, PutClose(t) PROVE TypeInv'
  BY <1>9 DEF PutClose
<1>10. ASSUME NEW t \in Thread, PutRename(t) PROVE TypeInv'
  BY <1>10, Zenon DEF PutRename, Return
<1>11. ASSUME NEW t \in Thread, PutRenameFail(t) PROVE TypeInv'
  BY <1>11, Zenon DEF PutRenameFail, Return, RemoveTmp, Relink
<1>12. ASSUME NEW t \in Thread, NEW h \in Hash,
              Get(t, h) \/ Has(t, h) \/ Verify(t, h)
       PROVE TypeInv'
  <2>1. PICK result \in Results : Answer(t, h, result)
    BY <1>12, Zenon DEF Get, Has, Verify, VerifyResult
  <2> QED
    BY <2>1 DEF Answer
<1>13. ASSUME NEW t \in Thread, NEW h \in Hash, Delete(t, h) PROVE TypeInv'
  BY <1>13 DEF Delete, Relink
<1>14. ASSUME NEW t \in Thread, VerifyAll(t) PROVE TypeInv'
  BY <1>14, Zenon DEF VerifyAll
<1>15. ASSUME NEW t \in Thread, Walk(t) PROVE TypeInv'
  <2>1. ASSUME NEW h \in Hash, WalkReadDir(t, h) PROVE TypeInv'
    BY <2>1 DEF WalkReadDir
  <2>2. CASE WalkLstat(t)
    BY <2>2 DEF WalkLstat
  <2>3. CASE WalkVerify(t)
    BY <2>3 DEF WalkVerify, VerifyResult
  <2>4. CASE WalkNext(t)
    BY <2>4, Zenon DEF WalkNext
  <2> QED
    BY <1>15, <2>1, <2>2, <2>3, <2>4, Zenon DEF Walk
<1>16. ASSUME NEW p \in Process, Crash(p) PROVE TypeInv'
  BY <1>16, Zenon DEF Crash
<1>17. ASSUME NEW h \in Hash, Rot(h) PROVE TypeInv'
  BY <1>17 DEF Rot
<1>18. CASE UNCHANGED vars
  BY <1>18, Zenon DEF vars
<1> QED
  BY <1>1, <1>2, <1>3, <1>4, <1>5, <1>6, <1>7, <1>8, <1>9, <1>10, <1>11,
     <1>12, <1>13, <1>14, <1>15, <1>16, <1>17, <1>18, Zenon DEF Next, Put

\* The variables keep their types, for any number of processes and threads.
THEOREM TypeCorrect == Spec => []TypeOK
<1>1. TypeInv => TypeOK
  BY Zenon DEF TypeInv
<1> QED
  BY <1>1, TypeInvInit, TypeInvNext, PTL DEF Spec

-----------------------------------------------------------------------------
(* Integrity.  Within one process the mutex admits one writer at a time.   *)
(* That writer's temporary file holds exactly the blocks it has written    *)
(* since it truncated the file, so what it renames is the whole chunk.     *)

OneProcess == \A t, u \in Thread : ProcessOf[t] = ProcessOf[u]

Critical == {"stat", "open", "write", "rename"}

\* A thread between Lock and Unlock is the writer of its process.
MutexInv ==
  \A t \in Thread : pc[t] \in Critical => writer[ProcessOf[t]] = t

\* What the temporary file of the thread in the critical section holds.
TmpInv ==
  \A t \in Thread :
    /\ pc[t] = "write" => fd[t] = "tmp" /\ tmp[arg[t]] = 1..off[t]
    /\ pc[t] = "rename" => tmp[arg[t]] = Whole

\* Only the disk damages a chunk.
SoundInv == MaxRot = 0 => StoredWhole

IntegrityInv == TypeInv /\ MutexInv /\ TmpInv /\ SoundInv

LEMMA IntegrityInit == Init => IntegrityInv
BY TypeInvInit, Zenon
   DEF Init, IntegrityInv, MutexInv, TmpInv, SoundInv, StoredWhole, Critical, Exists

LEMMA IntegrityNext ==
  ASSUME OneProcess
  PROVE  IntegrityInv /\ [Next]_vars => IntegrityInv'
<1> SUFFICES ASSUME IntegrityInv, [Next]_vars
             PROVE  MutexInv' /\ TmpInv' /\ SoundInv'
  BY TypeInvNext, Zenon DEF IntegrityInv
<1>a. /\ tmp \in [Hash -> Content] /\ final \in [Hash -> Content]
      /\ writer \in [Process -> Thread \cup {NoThread}]
      /\ pc \in [Thread -> {"idle"} \cup PutStates \cup WalkStates]
      /\ arg \in [Thread -> Hash]
      /\ off \in [Thread -> 0..Blocks]
      /\ fd \in [Thread -> {"none", "tmp", "final", "gone"}]
      /\ rots \in 0..MaxRot
  BY Zenon DEF IntegrityInv, TypeInv, TypeOK
<1>b. MutexInv /\ TmpInv /\ SoundInv /\ LinkInv
  BY Zenon DEF IntegrityInv, TypeInv
<1>c. \A t, u \in Thread :
        pc[t] \in Critical /\ pc[u] \in Critical => t = u
  BY <1>b, OneProcess, Zenon DEF OneProcess, MutexInv
<1>d. \A t \in Thread : ProcessOf[t] \in Process
  BY StoreAssumption, Zenon
<1> DEFINE Goal == MutexInv' /\ TmpInv' /\ SoundInv'
<1> USE <1>a, <1>b, <1>d DEF MutexInv, TmpInv, SoundInv, StoredWhole, Critical, Exists, files
<1>1. ASSUME NEW t \in Thread, NEW h \in Hash, PutCall(t, h) PROVE Goal
  BY <1>1, Zenon DEF PutCall
<1>2. ASSUME NEW t \in Thread, PutLock(t) PROVE Goal
  BY <1>2, OneProcess, StoreAssumption DEF PutLock, Unlocked, OneProcess
<1>3. ASSUME NEW t \in Thread, PutExists(t) PROVE Goal
  BY <1>3, <1>c, Zenon DEF PutExists, Return
<1>4. ASSUME NEW t \in Thread, PutAbsent(t) PROVE Goal
  BY <1>4, Zenon DEF PutAbsent
<1>5. ASSUME NEW t \in Thread, PutOpen(t) PROVE Goal
  BY <1>5, <1>c DEF PutOpen
<1>6. ASSUME NEW t \in Thread, PutOpenFail(t) PROVE Goal
  BY <1>6, <1>c, Zenon DEF PutOpenFail, Return
<1>7. ASSUME NEW t \in Thread, PutWrite(t) PROVE Goal
  <2>1. (1..off[t]) \cup {off[t] + 1} = 1..(off[t] + 1)
    BY StoreAssumption
  <2>2. /\ off[t] < Blocks
        /\ tmp' = [tmp EXCEPT ![arg[t]] = 1..(off[t] + 1)]
    BY <1>7, <2>1, Zenon DEF PutWrite
  <2> QED
    BY <1>7, <1>c, <2>2, Zenon DEF PutWrite
<1>8. ASSUME NEW t \in Thread, PutWriteFail(t) PROVE Goal
  BY <1>8, <1>c, Zenon DEF PutWriteFail, Return, Relink
<1>9. ASSUME NEW t \in Thread, PutClose(t) PROVE Goal
  BY <1>9, <1>c, Zenon DEF PutClose, Whole
<1>10. ASSUME NEW t \in Thread, PutRename(t) PROVE Goal
  BY <1>10, <1>c, Zenon DEF PutRename, Return
<1>11. ASSUME NEW t \in Thread, PutRenameFail(t) PROVE Goal
  BY <1>11, <1>c, Zenon DEF PutRenameFail, Return, RemoveTmp, Relink
<1>12. ASSUME NEW t \in Thread, NEW h \in Hash,
              Get(t, h) \/ Has(t, h) \/ Verify(t, h)
       PROVE Goal
  <2>1. PICK result : Answer(t, h, result)
    BY <1>12, Zenon DEF Get, Has, Verify
  <2> QED
    BY <2>1, Zenon DEF Answer
<1>13. ASSUME NEW t \in Thread, NEW h \in Hash, Delete(t, h) PROVE Goal
  BY <1>13, Zenon DEF Delete, Relink
<1>14. ASSUME NEW t \in Thread, VerifyAll(t) PROVE Goal
  BY <1>14, Zenon DEF VerifyAll
<1>15. ASSUME NEW t \in Thread, Walk(t) PROVE Goal
  <2>1. ASSUME NEW h \in Hash, WalkReadDir(t, h) PROVE Goal
    BY <2>1, Zenon DEF WalkReadDir
  <2>2. CASE WalkLstat(t)
    BY <2>2, Zenon DEF WalkLstat
  <2>3. CASE WalkVerify(t)
    BY <2>3, Zenon DEF WalkVerify
  <2>4. CASE WalkNext(t)
    BY <2>4, Zenon DEF WalkNext
  <2> QED
    BY <1>15, <2>1, <2>2, <2>3, <2>4, Zenon DEF Walk
<1>16. ASSUME NEW p \in Process, Crash(p) PROVE Goal
  BY <1>16, Zenon DEF Crash
<1>17. ASSUME NEW h \in Hash, Rot(h) PROVE Goal
  BY <1>17 DEF Rot
<1>18. CASE UNCHANGED vars
  BY <1>18, Zenon DEF vars
<1> QED
  BY <1>1, <1>2, <1>3, <1>4, <1>5, <1>6, <1>7, <1>8, <1>9, <1>10, <1>11,
     <1>12, <1>13, <1>14, <1>15, <1>16, <1>17, <1>18, Zenon DEF Next, Put

\* A chunk that Put, Has or Get find under its hash is complete, for any
\* number of goroutines of one process, any interleaving of their calls, any
\* write errors and any crashes of the process.
THEOREM StoreIntegrity ==
  ASSUME OneProcess, MaxRot = 0
  PROVE  Spec => []StoredWhole
<1>1. IntegrityInv => StoredWhole
  BY MaxRot = 0, Zenon DEF IntegrityInv, SoundInv
<1> QED
  BY <1>1, IntegrityInit, IntegrityNext, PTL DEF Spec

-----------------------------------------------------------------------------
(* Refinement.  Within one process a Put takes effect where it renames.    *)

\* A thread whose call has not returned has no result yet.
RunningInv ==
  \A t \in Thread : pc[t] # "idle" => ret[t] = "none"

\* A thread past the existence check still finds no chunk: nobody else can
\* have stored it, since that takes the mutex.
AbsentInv ==
  \A t \in Thread :
    pc[t] \in {"open", "write", "rename"} => ~Exists(final, arg[t])

RefineInv == IntegrityInv /\ RunningInv /\ AbsentInv

LEMMA RefineInvInit == Init => RefineInv
BY IntegrityInit, Zenon DEF RefineInv, RunningInv, AbsentInv, Init

LEMMA RefineInvNext ==
  ASSUME OneProcess
  PROVE  RefineInv /\ [Next]_vars => RefineInv'
<1> SUFFICES ASSUME RefineInv, [Next]_vars PROVE RunningInv' /\ AbsentInv'
  BY IntegrityNext, Zenon DEF RefineInv
<1>a. /\ final \in [Hash -> Content]
      /\ pc \in [Thread -> {"idle"} \cup PutStates \cup WalkStates]
      /\ arg \in [Thread -> Hash]
      /\ fd \in [Thread -> {"none", "tmp", "final", "gone"}]
      /\ ret \in [Thread -> Results]
      /\ rots \in 0..MaxRot
  BY Zenon DEF RefineInv, IntegrityInv, TypeInv, TypeOK
<1>b. MutexInv /\ TmpInv /\ RunningInv /\ AbsentInv
  BY Zenon DEF RefineInv, IntegrityInv
<1>c. \A t, u \in Thread :
        pc[t] \in Critical /\ pc[u] \in Critical => t = u
  BY <1>b, OneProcess, Zenon DEF OneProcess, MutexInv
<1> DEFINE Goal == RunningInv' /\ AbsentInv'
<1> USE <1>a, <1>b DEF RunningInv, AbsentInv, Exists, files
<1>1. ASSUME NEW t \in Thread, NEW h \in Hash, PutCall(t, h) PROVE Goal
  BY <1>1, Zenon DEF PutCall
<1>2. ASSUME NEW t \in Thread, PutLock(t) PROVE Goal
  BY <1>2, Zenon DEF PutLock
<1>3. ASSUME NEW t \in Thread, PutExists(t) PROVE Goal
  BY <1>3, Zenon DEF PutExists, Return
<1>4. ASSUME NEW t \in Thread, PutAbsent(t) PROVE Goal
  BY <1>4, Zenon DEF PutAbsent
<1>5. ASSUME NEW t \in Thread, PutOpen(t) PROVE Goal
  BY <1>5, Zenon DEF PutOpen
<1>6. ASSUME NEW t \in Thread, PutOpenFail(t) PROVE Goal
  BY <1>6, Zenon DEF PutOpenFail, Return
<1>7. ASSUME NEW t \in Thread, PutWrite(t) PROVE Goal
  BY <1>7, Zenon DEF PutWrite, TmpInv
<1>8. ASSUME NEW t \in Thread, PutWriteFail(t) PROVE Goal
  BY <1>8, Zenon DEF PutWriteFail, Return
<1>9. ASSUME NEW t \in Thread, PutClose(t) PROVE Goal
  BY <1>9, Zenon DEF PutClose
<1>10. ASSUME NEW t \in Thread, PutRename(t) PROVE Goal
  BY <1>10, <1>c, Zenon DEF PutRename, Return, Critical
<1>11. ASSUME NEW t \in Thread, PutRenameFail(t) PROVE Goal
  BY <1>11, Zenon DEF PutRenameFail, Return
<1>12. ASSUME NEW t \in Thread, NEW h \in Hash,
              Get(t, h) \/ Has(t, h) \/ Verify(t, h)
       PROVE Goal
  <2>1. PICK result : Answer(t, h, result)
    BY <1>12, Zenon DEF Get, Has, Verify
  <2> QED
    BY <2>1, Zenon DEF Answer
<1>13. ASSUME NEW t \in Thread, NEW h \in Hash, Delete(t, h) PROVE Goal
  BY <1>13, Zenon DEF Delete
<1>14. ASSUME NEW t \in Thread, VerifyAll(t) PROVE Goal
  BY <1>14, Zenon DEF VerifyAll
<1>15. ASSUME NEW t \in Thread, Walk(t) PROVE Goal
  <2>1. ASSUME NEW h \in Hash, WalkReadDir(t, h) PROVE Goal
    BY <2>1, Zenon DEF WalkReadDir
  <2>2. CASE WalkLstat(t)
    BY <2>2, Zenon DEF WalkLstat
  <2>3. CASE WalkVerify(t)
    BY <2>3, Zenon DEF WalkVerify
  <2>4. CASE WalkNext(t)
    BY <2>4, Zenon DEF WalkNext
  <2> QED
    BY <1>15, <2>1, <2>2, <2>3, <2>4, Zenon DEF Walk
<1>16. ASSUME NEW p \in Process, Crash(p) PROVE Goal
  BY <1>16, Zenon DEF Crash
<1>17. ASSUME NEW h \in Hash, Rot(h) PROVE Goal
  BY <1>17, Zenon DEF Rot
<1>18. CASE UNCHANGED vars
  BY <1>18, Zenon DEF vars
<1> QED
  BY <1>1, <1>2, <1>3, <1>4, <1>5, <1>6, <1>7, <1>8, <1>9, <1>10, <1>11,
     <1>12, <1>13, <1>14, <1>15, <1>16, <1>17, <1>18, Zenon DEF Next, Put

\* Every step of the store is a step of the abstract set of chunks or leaves
\* it unchanged.
LEMMA StepRefines ==
  ASSUME OneProcess, MaxRot = 0
  PROVE  RefineInv /\ [Next]_vars => [ChunkSet!Next]_(ChunkSet!vars)
<1> SUFFICES ASSUME RefineInv, [Next]_vars
             PROVE  ChunkSet!Next \/ UNCHANGED ChunkSet!vars
  BY Zenon
<1>a. /\ final \in [Hash -> Content]
      /\ arg \in [Thread -> Hash]
      /\ ret \in [Thread -> Results]
      /\ rots \in 0..MaxRot
  BY Zenon DEF RefineInv, IntegrityInv, TypeInv, TypeOK
<1>b. TmpInv /\ RunningInv /\ AbsentInv /\ StoredWhole
  BY MaxRot = 0, Zenon DEF RefineInv, IntegrityInv, SoundInv
<1> DEFINE stored == {h \in Hash : Exists(final, h)}
           Goal == ChunkSet!Next \/ UNCHANGED ChunkSet!vars
<1> USE <1>a, <1>b DEF RunningInv, AbsentInv, Exists, files, ChunkSet!vars
<1>1. ASSUME NEW t \in Thread, NEW h \in Hash, PutCall(t, h) PROVE Goal
  BY <1>1, Zenon DEF PutCall, ChunkSet!Next, ChunkSet!Begin
<1>3. ASSUME NEW t \in Thread, PutExists(t) PROVE Goal
  <2>1. ChunkSet!Put(t)
    BY <1>3, Zenon DEF PutExists, Return, ChunkSet!Put
  <2> QED
    BY <2>1, Zenon DEF ChunkSet!Next
<1>6. ASSUME NEW t \in Thread, PutOpenFail(t) \/ PutWriteFail(t) \/ PutRenameFail(t)
      PROVE Goal
  <2>1. ChunkSet!Fail(t)
    BY <1>6, Zenon DEF PutOpenFail, PutWriteFail, PutRenameFail, Return, ChunkSet!Fail
  <2> QED
    BY <2>1, Zenon DEF ChunkSet!Next
<1>7. ASSUME NEW t \in Thread,
             PutLock(t) \/ PutAbsent(t) \/ PutOpen(t) \/ PutWrite(t) \/ PutClose(t)
      PROVE Goal
  BY <1>7 DEF PutLock, PutAbsent, PutOpen, PutWrite, PutClose, TmpInv
<1>10. ASSUME NEW t \in Thread, PutRename(t) PROVE Goal
  <2>1. arg[t] \in Hash /\ arg[t] \notin stored /\ tmp[arg[t]] # NoFile
    BY <1>10, Zenon DEF PutRename
  <2>2. {h \in Hash : Exists(final, h)}' = stored \cup {arg[t]}
    BY <1>10, <2>1, Zenon DEF PutRename
  <2>3. ret[t] = "none" /\ ret' = [ret EXCEPT ![t] = "new"] /\ arg' = arg
    BY <1>10, Zenon DEF PutRename, Return
  <2>4. ChunkSet!Put(t)
    BY <2>1, <2>2, <2>3, Zenon DEF ChunkSet!Put
  <2> QED
    BY <2>4, Zenon DEF ChunkSet!Next
<1>12. ASSUME NEW t \in Thread, NEW h \in Hash,
              Get(t, h) \/ Has(t, h) \/ Verify(t, h)
       PROVE Goal
  <2>1. ChunkSet!Lookup(t, h)
    <3>1. CASE h \in stored
      <4>1. final[h] = Whole /\ Exists(final, h)
        BY <3>1, Zenon DEF StoredWhole
      <4>2. PICK result \in {"data", "present", "valid"} : Answer(t, h, result)
        BY <1>12, <4>1, Zenon DEF Get, Has, Verify, VerifyResult
      <4> QED
        BY <3>1, <4>2, Zenon DEF Answer, ChunkSet!Lookup
    <3>2. CASE h \notin stored
      <4>1. ~Exists(final, h) /\ final[h] # Whole
        BY <3>2, StoreAssumption, Zenon
      <4>2. PICK result \in {"absent"} : Answer(t, h, result)
        BY <1>12, <4>1, Zenon DEF Get, Has, Verify, VerifyResult
      <4> QED
        BY <3>2, <4>2, Zenon DEF Answer, ChunkSet!Lookup
    <3> QED
      BY <3>1, <3>2, Zenon
  <2> QED
    BY <2>1, Zenon DEF ChunkSet!Next
<1>13. ASSUME NEW t \in Thread, NEW h \in Hash, Delete(t, h) PROVE Goal
  <2>1. ChunkSet!Delete(t, h)
    BY <1>13, Zenon DEF Delete, ChunkSet!Delete
  <2> QED
    BY <2>1, Zenon DEF ChunkSet!Next
<1>14. ASSUME NEW t \in Thread, VerifyAll(t) PROVE Goal
  <2>1. ChunkSet!Begin(t, arg[t])
    BY <1>14, Zenon DEF VerifyAll, ChunkSet!Begin
  <2> QED
    BY <2>1, Zenon DEF ChunkSet!Next
<1>15. ASSUME NEW t \in Thread, Walk(t) PROVE Goal
  <2>1. ASSUME NEW h \in Hash, WalkReadDir(t, h) PROVE ChunkSet!Begin(t, h)
    BY <2>1, Zenon DEF WalkReadDir, ChunkSet!Begin
  <2>2. ASSUME WalkLstat(t) PROVE ChunkSet!Fail(t) \/ UNCHANGED ChunkSet!vars
    BY <2>2, Zenon DEF WalkLstat, ChunkSet!Fail
  <2>3. ASSUME WalkVerify(t) PROVE UNCHANGED ChunkSet!vars
    BY <2>3, Zenon DEF WalkVerify
  <2>4. ASSUME WalkNext(t) PROVE ChunkSet!Finish(t) \/ UNCHANGED ChunkSet!vars
    BY <2>4, Zenon DEF WalkNext, ChunkSet!Finish
  <2> QED
    BY <1>15, <2>1, <2>2, <2>3, <2>4, Zenon DEF Walk, ChunkSet!Next
<1>16. ASSUME NEW p \in Process, Crash(p) PROVE Goal
  <2>1. ChunkSet!Crash({t \in Thread : ProcessOf[t] = p})
    BY <1>16, Zenon DEF Crash, ChunkSet!Crash
  <2> QED
    BY <2>1, Zenon DEF ChunkSet!Next
<1>17. ASSUME NEW h \in Hash, Rot(h) PROVE Goal
  BY <1>17 DEF Rot
<1>18. CASE UNCHANGED vars
  BY <1>18, Zenon DEF vars
<1> QED
  BY <1>1, <1>3, <1>6, <1>7, <1>10, <1>12, <1>13, <1>14, <1>15, <1>16, <1>17,
     <1>18, Zenon DEF Next, Put

\* The store of one process implements the abstract set of chunks: its calls
\* are linearizable, and a Put that fails or dies has no effect.
THEOREM StoreImplementsChunkSet ==
  ASSUME OneProcess, MaxRot = 0
  PROVE  Spec => ImplementsChunkSet
<1>1. Init => ChunkSet!Init
  <2> SUFFICES ASSUME Init PROVE ChunkSet!Init
    BY Zenon
  <2>1. {h \in Hash : Exists(final, h)} = {}
    BY Zenon DEF Init, Exists
  <2>2. (CHOOSE h \in Hash : TRUE) \in Hash
    BY StoreAssumption, Zenon
  <2> QED
    BY <2>1, <2>2, Zenon DEF Init, ChunkSet!Init
<1> QED
  BY <1>1, RefineInvInit, RefineInvNext, StepRefines, PTL
     DEF Spec, ImplementsChunkSet, ChunkSet!Spec

-----------------------------------------------------------------------------
(* VerifyAll.  While nobody deletes, a file under a hash stays there, and   *)
(* what is damaged stays damaged: Put does not replace a file it finds.     *)

LEMMA DamageStays ==
  ASSUME OneProcess, Deleter = {}, RefineInv, [Next]_vars,
         NEW h \in Hash, Exists(final, h)
  PROVE  /\ Exists(final', h)
         /\ final[h] # Whole => final'[h] # Whole
<1>a. /\ final \in [Hash -> Content] /\ arg \in [Thread -> Hash]
      /\ TmpInv /\ AbsentInv
  BY Zenon DEF RefineInv, IntegrityInv, TypeInv, TypeOK
<1> DEFINE Goal == Exists(final', h) /\ (final[h] # Whole => final'[h] # Whole)
<1>1. ASSUME UNCHANGED final PROVE Goal
  BY <1>1, Zenon DEF Exists
<1>2. ASSUME NEW t \in Thread, PutRename(t) PROVE Goal
  <2>1. arg[t] # h
    BY <1>a, <1>2, Zenon DEF PutRename, AbsentInv
  <2> QED  BY <1>a, <1>2, <2>1, Zenon DEF PutRename, Exists
<1>3. ASSUME NEW t \in Thread, PutWrite(t) PROVE Goal
  <2>1. UNCHANGED final
    BY <1>a, <1>3, Zenon DEF PutWrite, TmpInv
  <2> QED  BY <1>1, <2>1, Zenon
<1>4. ASSUME NEW g \in Hash, Rot(g) PROVE Goal
  <2>1. PICK n \in final[g] : final' = [final EXCEPT ![g] = @ \ {n}]
    BY <1>4, Zenon DEF Rot
  <2>2. CASE g = h
    <3>1. final[h] \in SUBSET Whole /\ final'[h] = final[h] \ {n} /\ n \in final[h]
      BY <1>a, <2>1, <2>2, Zenon DEF Content, Exists
    <3>2. final'[h] \in SUBSET Whole /\ n \in Whole /\ n \notin final'[h]
      BY <3>1, Zenon
    <3> QED  BY <3>2, StoreAssumption, Zenon DEF Exists
  <2>3. CASE g # h
    BY <1>a, <2>1, <2>3, Zenon DEF Exists
  <2> QED  BY <2>2, <2>3, Zenon
<1> HIDE DEF Goal
<1>5. ASSUME NEW t \in Thread, Put(t) PROVE Goal
  BY <1>1, <1>2, <1>3, <1>5, Zenon
  DEF Put, PutExists, PutAbsent, PutOpen, PutOpenFail, PutWriteFail, PutClose, PutRenameFail,
      files
<1>6. ASSUME NEW t \in Thread, NEW g \in Hash,
             PutCall(t, g) \/ Get(t, g) \/ Has(t, g) \/ Verify(t, g) \/ Delete(t, g)
      PROVE  Goal
  BY <1>1, <1>6, Deleter = {}, Zenon DEF PutCall, Get, Has, Verify, Answer, Delete, files
<1>7. ASSUME NEW t \in Thread, PutLock(t) \/ VerifyAll(t) \/ Walk(t) PROVE Goal
  BY <1>1, <1>7, Zenon
  DEF PutLock, VerifyAll, Walk, WalkReadDir, WalkLstat, WalkVerify, WalkNext, files
<1>8. ASSUME NEW p \in Process, Crash(p) PROVE Goal
  BY <1>1, <1>8, Zenon DEF Crash, files
<1>9. ASSUME UNCHANGED vars PROVE Goal
  BY <1>1, <1>9, Zenon DEF vars
<1>10. Goal
  BY <1>4, <1>5, <1>6, <1>7, <1>8, <1>9, Zenon DEF Next
<1> QED  BY <1>10, Zenon DEF Goal

\* The walk verifies a file that is there.
FoundInv == \A t \in Thread : pc[t] = "verify" => Exists(final, arg[t])

LEMMA DamageNext ==
  ASSUME OneProcess, Deleter = {}, RefineInv, FoundInv, ReportsAreDamage, [Next]_vars
  PROVE  FoundInv' /\ ReportsAreDamage'
<1>a. /\ pc \in [Thread -> {"idle"} \cup PutStates \cup WalkStates]
      /\ arg \in [Thread -> Hash] /\ bad \in [Thread -> SUBSET Hash]
  BY Zenon DEF RefineInv, IntegrityInv, TypeInv, TypeOK
<1>b. ASSUME NEW t \in Thread PROVE arg[t] \in Hash /\ bad[t] \subseteq Hash
  BY <1>a, Zenon
<1>c. ASSUME NEW h \in Hash, Exists(final, h)
      PROVE  Exists(final', h) /\ (final[h] # Whole => final'[h] # Whole)
  BY <1>c, DamageStays, Zenon
<1> DEFINE Moves == \A t \in Thread :
             /\ pc'[t] = "verify" => arg'[t] = arg[t] /\ (pc[t] = "verify" \/ Exists(final, arg[t]))
             /\ \A h \in bad'[t] :
                  h \in bad[t] \/ (h \in Hash /\ Exists(final, h) /\ final[h] # Whole)
<1>1. ASSUME NEW t \in Thread, NEW h \in Hash, PutCall(t, h) PROVE Moves
  BY <1>a, <1>1, Zenon DEF PutCall, walkVars
<1>2. ASSUME NEW t \in Thread, PutLock(t) PROVE Moves
  BY <1>a, <1>2, Zenon DEF PutLock, walkVars
<1>3. ASSUME NEW t \in Thread, Put(t) PROVE Moves
  <2>1. arg' = arg /\ bad' = bad /\ \A u \in Thread : pc'[u] = "verify" => pc[u] = "verify"
    BY <1>a, <1>3, Zenon
    DEF Put, PutExists, PutAbsent, PutOpen, PutOpenFail, PutWrite, PutWriteFail, PutClose,
        PutRename, PutRenameFail, Return, walkVars
  <2> QED  BY <2>1, Zenon
<1>4. ASSUME NEW t \in Thread, NEW h \in Hash, Get(t, h) \/ Has(t, h) \/ Verify(t, h)
      PROVE  Moves
  <2>1. PICK result : Answer(t, h, result)
    BY <1>4, Zenon DEF Get, Has, Verify
  <2> QED  BY <1>a, <2>1, Zenon DEF Answer, walkVars
<1>5. ASSUME NEW t \in Thread, VerifyAll(t) PROVE Moves
  BY <1>a, <1>5, Zenon DEF VerifyAll
<1>6. ASSUME NEW t \in Thread, NEW h \in Hash, WalkReadDir(t, h) PROVE Moves
  BY <1>a, <1>6, Zenon DEF WalkReadDir
<1>7. ASSUME NEW t \in Thread, WalkLstat(t) PROVE Moves
  <2>1. arg' = arg /\ bad' = bad
    BY <1>7, Zenon DEF WalkLstat
  <2>2. /\ \A u \in Thread \ {t} : pc'[u] = pc[u]
        /\ pc'[t] = "verify" => Exists(final, arg[t])
    BY <1>a, <1>7, Zenon DEF WalkLstat
  <2> QED  BY <2>1, <2>2, Zenon
<1>8. ASSUME NEW t \in Thread, WalkVerify(t) PROVE Moves
  <2>1. arg' = arg /\ pc' = [pc EXCEPT ![t] = "lstat"] /\ pc[t] = "verify"
    BY <1>8, Zenon DEF WalkVerify
  <2>2. Exists(final, arg[t])
    BY <2>1, Zenon DEF FoundInv
  <2>3. \/ bad' = bad
        \/ bad' = [bad EXCEPT ![t] = @ \cup {arg[t]}] /\ final[arg[t]] # Whole
    BY <1>8, <2>2, Zenon DEF WalkVerify, VerifyResult
  <2>4. ASSUME NEW u \in Thread, NEW h \in bad'[u]
        PROVE  h \in bad[u] \/ (h \in Hash /\ Exists(final, h) /\ final[h] # Whole)
    BY <1>a, <1>b, <2>2, <2>3, <2>4
  <2>5. ASSUME NEW u \in Thread, pc'[u] = "verify"  PROVE pc[u] = "verify"
    BY <1>a, <2>1, <2>5, Zenon
  <2> QED  BY <2>1, <2>4, <2>5, Zenon
<1>9. ASSUME NEW t \in Thread, WalkNext(t) PROVE Moves
  <2>1. UNCHANGED <<arg, bad>> /\ \A u \in Thread : pc'[u] \in {"idle", "walk", pc[u]}
    BY <1>a, <1>9, Zenon DEF WalkNext, walkVars
  <2> QED  BY <2>1, Zenon
<1>10. ASSUME NEW p \in Process, Crash(p) PROVE Moves
  <2>1. UNCHANGED <<arg, bad>> /\ \A u \in Thread : pc'[u] \in {"idle", pc[u]}
    BY <1>10, Zenon DEF Crash, walkVars
  <2> QED  BY <2>1, Zenon
<1>11. ASSUME NEW h \in Hash, Rot(h) PROVE Moves
  <2>1. UNCHANGED <<pc, arg, bad>>
    BY <1>11, Zenon DEF Rot, walkVars
  <2> QED  BY <2>1, Zenon
<1>12. ASSUME UNCHANGED vars PROVE Moves
  BY <1>12, Zenon DEF vars
<1>13. ASSUME NEW t \in Thread, NEW h \in Hash PROVE ~Delete(t, h)
  BY Deleter = {}, Zenon DEF Delete
<1> HIDE DEF Moves
<1>14. Moves
  BY <1>1, <1>2, <1>3, <1>4, <1>5, <1>6, <1>7, <1>8, <1>9, <1>10, <1>11, <1>12, <1>13, Zenon
  DEF Next, Walk
<1>15. FoundInv'
  <2> SUFFICES ASSUME NEW t \in Thread, pc'[t] = "verify"
               PROVE  Exists(final', arg'[t])
    BY Zenon DEF FoundInv, Exists
  <2>1. arg'[t] = arg[t] /\ Exists(final, arg[t])
    BY <1>14, Zenon DEF Moves, FoundInv
  <2> QED  BY <1>b, <1>c, <2>1, Zenon
<1>16. ReportsAreDamage'
  <2> SUFFICES ASSUME NEW t \in Thread, NEW h \in bad'[t]
               PROVE  Exists(final', h) /\ final'[h] # Whole
    BY Zenon DEF ReportsAreDamage, Exists, Whole
  <2>1. h \in Hash /\ Exists(final, h) /\ final[h] # Whole
    BY <1>b, <1>14, Zenon DEF Moves, ReportsAreDamage
  <2> QED  BY <1>c, <2>1, Zenon
<1> QED  BY <1>15, <1>16, Zenon

\* While nobody deletes chunks, what VerifyAll reports as corrupted is a stored
\* chunk that is damaged (ReportsAreDamage): it never takes a chunk that Put is
\* about to store for a damaged one, and no Put repairs one that was reported.
THEOREM ReportsAreTrue ==
  ASSUME OneProcess, Deleter = {}
  PROVE  Spec => []ReportsAreDamage
<1>1. Init => FoundInv /\ ReportsAreDamage
  BY Zenon DEF Init, FoundInv, ReportsAreDamage
<1>2. RefineInv /\ FoundInv /\ ReportsAreDamage /\ [Next]_vars
        => FoundInv' /\ ReportsAreDamage'
  BY DamageNext, Zenon
<1> QED  BY <1>1, <1>2, RefineInvInit, RefineInvNext, PTL DEF Spec

-----------------------------------------------------------------------------
(* Transport: the table of connected peers, its readers and its handlers *)

\* The variables the argument is about.
TransportTypes ==
  /\ link \in [Conn -> {"none", "open", "closed"}]
  /\ control \in [Conn -> {"none", "handshake", "ack"}]
  /\ handler \in [Node -> [Conn -> HandlerStates]]
  /\ reader \in [Node -> [Conn -> {"none", "reading", "done"}]]
  /\ peers \in [Node -> [Node -> Conn \cup {NoConn}]]
  /\ ctx \in [Node -> {"open", "cancelled", "waiting", "closed"}]
  /\ faults \in Nat

\* Nobody handles a connection that was not dialled.
DialledFirst == \A c \in Conn : link[c] = "none" => \A n \in Node : handler[n][c] = "none"

\* Only a registered connection has a reader.
ReadersAreRegistered ==
  \A n \in Node : \A c \in Conn :
    reader[n][c] = "reading" => handler[n][c] \in {"notify", "done"}

\* An acknowledgement was sent by a responder that is going to register.
AcksAreAnswers ==
  \A c \in Conn : control[c] = "ack" => handler[Acceptor[c]][c] \in Answered

\* Without a fault only connections that nobody registered are closed.
ClosedUnregistered ==
  Undisturbed => \A c \in Conn : link[c] = "closed" =>
    \A n \in Ends(c) : handler[n][c] \notin Answered

TransportInv ==
  /\ TransportTypes /\ DialledFirst /\ ReadersAreRegistered /\ EntriesHaveReaders
  /\ AcksAreAnswers /\ DialerIsKnown /\ ClosedUnregistered

-----------------------------------------------------------------------------
(* Types, and the steps of a handler *)

LEMMA EndsAre ==
  ASSUME NEW c \in Conn
  PROVE  /\ Dialer[c] \in Node /\ Acceptor[c] \in Node /\ Dialer[c] # Acceptor[c]
         /\ \A n \in Ends(c) : n \in Node /\ PeerID(n, c) \in Node
BY TransportAssumption, Zenon DEF Ends, PeerID

LEMMA HandleIs ==
  ASSUME TransportTypes, NEW n \in Node, NEW c \in Conn, NEW s \in HandlerStates, Handle(n, c, s)
  PROVE  /\ handler' \in [Node -> [Conn -> HandlerStates]] /\ handler'[n][c] = s
         /\ \A m \in Node, d \in Conn : m # n \/ d # c => handler'[m][d] = handler[m][d]
BY Zenon DEF TransportTypes, Handle

\* The disjuncts of TransportNext, one by one.
LEMMA Steps ==
  ASSUME TransportNext
  PROVE  \/ \E c \in Conn : Connect(c) \/ LinkLost(c) \/ CheckKnown(c) \/ Accept(c)
         \/ \E c \in Conn : \E n \in Ends(c) :
              \/ ControlStream(n, c) \/ Handshake(n, c) \/ HandshakeFails(n, c)
              \/ Register(n, c) \/ StartReader(n, c) \/ NotifyConnected(n, c)
              \/ RemovePeer(n, c) \/ RequestChunks(n, c) \/ AcceptStream(n, c) \/ EndRequest(n, c)
         \/ \E n \in Node :
              CloseCancels(n) \/ AcceptLoopEnds(n) \/ CloseSweeps(n) \/ CloseReturns(n)
BY Zenon DEF TransportNext, Progress, Environment, HandlerStep, StreamStep, CloseStep

\* Which steps write a variable.
LEMMA Writers ==
  ASSUME [TransportNext]_transportVars
  PROVE  /\ \/ UNCHANGED reader
            \/ \E c \in Conn : \E n \in Ends(c) : StartReader(n, c) \/ RemovePeer(n, c)
         /\ \/ UNCHANGED peers
            \/ \E c \in Conn : \E n \in Ends(c) : Register(n, c) \/ RemovePeer(n, c)
         /\ \/ UNCHANGED ctx
            \/ \E n \in Node : CloseCancels(n) \/ CloseSweeps(n) \/ CloseReturns(n)
         /\ \/ UNCHANGED link
            \/ \E c \in Conn : Connect(c) \/ LinkLost(c)
            \/ \E c \in Conn : \E n \in Ends(c) : HandshakeFails(n, c)
            \/ \E n \in Node : CloseSweeps(n)
         /\ UNCHANGED faults \/ faults' = faults + 1
<1> DEFINE ReaderWriters ==
             \E c \in Conn : \E n \in Ends(c) : StartReader(n, c) \/ RemovePeer(n, c)
           PeersWriters ==
             \E c \in Conn : \E n \in Ends(c) : Register(n, c) \/ RemovePeer(n, c)
           CtxWriters ==
             \E n \in Node : CloseCancels(n) \/ CloseSweeps(n) \/ CloseReturns(n)
           LinkWriters ==
             \/ \E c \in Conn : Connect(c) \/ LinkLost(c)
             \/ \E c \in Conn : \E n \in Ends(c) : HandshakeFails(n, c)
             \/ \E n \in Node : CloseSweeps(n)
           Goal == /\ UNCHANGED reader \/ ReaderWriters
                   /\ UNCHANGED peers \/ PeersWriters
                   /\ UNCHANGED ctx \/ CtxWriters
                   /\ UNCHANGED link \/ LinkWriters
                   /\ UNCHANGED faults \/ faults' = faults + 1
<1>1. ASSUME NEW c \in Conn, Connect(c) \/ LinkLost(c)  PROVE Goal
  <2>1. LinkWriters
    BY <1>1, Zenon
  <2>2. UNCHANGED <<reader, peers, ctx>> /\ (UNCHANGED faults \/ faults' = faults + 1)
    BY <1>1, Zenon DEF Connect, LinkLost, Fault, endVars, bounds
  <2> QED  BY <2>1, <2>2, Zenon
<1>2. ASSUME NEW c \in Conn, CheckKnown(c) \/ Accept(c)  PROVE Goal
  <2>1. UNCHANGED <<reader, peers, ctx, link, faults>>
    BY <1>2, Zenon DEF CheckKnown, Accept, bounds
  <2> QED  BY <2>1, Zenon
<1>3. ASSUME NEW c \in Conn, NEW n \in Ends(c),
             ControlStream(n, c) \/ Handshake(n, c) \/ NotifyConnected(n, c)
      PROVE  Goal
  <2>1. UNCHANGED <<reader, peers, ctx, link, faults>>
    BY <1>3, Zenon DEF ControlStream, Handshake, NotifyConnected, bounds
  <2> QED  BY <2>1, Zenon
<1>4. ASSUME NEW c \in Conn, NEW n \in Ends(c), HandshakeFails(n, c)  PROVE Goal
  <2>1. LinkWriters
    BY <1>4, Zenon
  <2>2. UNCHANGED <<reader, peers, ctx>> /\ (UNCHANGED faults \/ faults' = faults + 1)
    BY <1>4, Zenon DEF HandshakeFails, Fault, bounds
  <2> QED  BY <2>1, <2>2, Zenon
<1>5. ASSUME NEW c \in Conn, NEW n \in Ends(c), Register(n, c)  PROVE Goal
  <2>1. PeersWriters
    BY <1>5, Zenon
  <2>2. UNCHANGED <<reader, ctx, link, faults>>
    BY <1>5, Zenon DEF Register, bounds
  <2> QED  BY <2>1, <2>2, Zenon
<1>6. ASSUME NEW c \in Conn, NEW n \in Ends(c), StartReader(n, c)  PROVE Goal
  <2>1. ReaderWriters
    BY <1>6, Zenon
  <2>2. UNCHANGED <<peers, ctx, link, faults>>
    BY <1>6, Zenon DEF StartReader, bounds
  <2> QED  BY <2>1, <2>2, Zenon
<1>7. ASSUME NEW c \in Conn, NEW n \in Ends(c), RemovePeer(n, c)  PROVE Goal
  <2>1. ReaderWriters /\ PeersWriters
    BY <1>7, Zenon
  <2>2. UNCHANGED <<ctx, link, faults>>
    BY <1>7, Zenon DEF RemovePeer, bounds
  <2> QED  BY <2>1, <2>2, Zenon
<1>8. ASSUME NEW c \in Conn, NEW n \in Ends(c),
             RequestChunks(n, c) \/ AcceptStream(n, c) \/ EndRequest(n, c)
      PROVE  Goal
  <2>1. UNCHANGED <<reader, peers, ctx, link, faults>>
    BY <1>8, Zenon DEF RequestChunks, AcceptStream, EndRequest, Requested, endVars, bounds
  <2> QED  BY <2>1, Zenon
<1>9. ASSUME NEW n \in Node, CloseCancels(n) \/ AcceptLoopEnds(n) \/ CloseReturns(n)  PROVE Goal
  <2>1. UNCHANGED <<reader, peers, link, faults>>
    BY <1>9, Zenon DEF CloseCancels, AcceptLoopEnds, CloseReturns, endVars, bounds
  <2>2. UNCHANGED ctx \/ CtxWriters
    BY <1>9, Zenon DEF AcceptLoopEnds
  <2> QED  BY <2>1, <2>2, Zenon
<1>10. ASSUME NEW n \in Node, CloseSweeps(n)  PROVE Goal
  <2>1. CtxWriters /\ LinkWriters
    BY <1>10, Zenon
  <2>2. UNCHANGED <<reader, peers, faults>>
    BY <1>10, Zenon DEF CloseSweeps, endVars, bounds
  <2> QED  BY <2>1, <2>2, Zenon
<1>11. ASSUME UNCHANGED transportVars  PROVE Goal
  BY <1>11, Zenon DEF transportVars, endVars, bounds
<1> HIDE DEF Goal
<1>12. ASSUME TransportNext  PROVE Goal
  BY <1>1, <1>2, <1>3, <1>4, <1>5, <1>6, <1>7, <1>8, <1>9, <1>10, <1>12, Steps, Zenon
<1> QED  BY <1>11, <1>12, Zenon DEF Goal

\* The steps that move a handler, with what the guards say.
MovesTo(m, d, old, new) ==
  \/ new = old
  \/ old = "none" /\ new = "check" /\ link'[d] # "none"
  \/ old \in {"none", "check"} /\ new \in {"stream", "duplicate"} /\ link[d] # "none"
  \/ old = "stream" /\ new = "hello" /\ link[d] = "open"
  \/ old = "hello" /\ new = "register" /\ link[d] = "open" /\ (m = Dialer[d] => control[d] = "ack")
  \/ old \in {"stream", "hello"} /\ new = "failed" /\ link'[d] = "closed"
  \/ old = "register" /\ new = "start"
  \/ old = "start" /\ new = "notify" /\ reader'[m][d] = "reading"
  \/ old = "notify" /\ new = "done"

HandlerMove(m, d) == MovesTo(m, d, handler[m][d], handler'[m][d])

LEMMA OneHandlerMoves ==
  ASSUME TransportTypes, NEW n \in Node, NEW c \in Conn, NEW s \in HandlerStates, Handle(n, c, s),
         MovesTo(n, c, handler[n][c], s)
  PROVE  /\ handler' \in [Node -> [Conn -> HandlerStates]]
         /\ \A m \in Node, d \in Conn : HandlerMove(m, d)
<1>1. /\ handler' \in [Node -> [Conn -> HandlerStates]] /\ handler'[n][c] = s
      /\ \A m \in Node, d \in Conn : m # n \/ d # c => handler'[m][d] = handler[m][d]
  BY HandleIs, Zenon
<1>2. ASSUME NEW m \in Node, NEW d \in Conn
      PROVE  HandlerMove(m, d)
  <2>1. CASE m = n /\ d = c
    BY <1>1, <2>1, Zenon DEF HandlerMove
  <2>2. CASE m # n \/ d # c
    <3>1. handler'[m][d] = handler[m][d]
      BY <1>1, <2>2, Zenon
    <3> QED  BY <3>1, Zenon DEF HandlerMove, MovesTo
  <2> QED  BY <2>1, <2>2, Zenon
<1> QED  BY <1>1, <1>2, Zenon

LEMMA HandlersMove ==
  ASSUME TransportTypes, DialledFirst, [TransportNext]_transportVars
  PROVE  /\ handler' \in [Node -> [Conn -> HandlerStates]]
         /\ \A m \in Node, d \in Conn : HandlerMove(m, d)
<1> DEFINE Goal == /\ handler' \in [Node -> [Conn -> HandlerStates]]
                   /\ \A m \in Node, d \in Conn : HandlerMove(m, d)
<1>0. {"check", "stream", "duplicate", "hello", "register", "failed", "start", "notify", "done"}
        \subseteq HandlerStates
  BY Zenon DEF HandlerStates
<1>1. ASSUME NEW c \in Conn, Connect(c)  PROVE Goal
  <2>1. link'[c] = "open" /\ handler[Dialer[c]][c] = "none" /\ Handle(Dialer[c], c, "check")
    BY <1>1, EndsAre, Zenon DEF Connect, DialledFirst, TransportTypes
  <2>3. Dialer[c] \in Node /\ "check" \in HandlerStates
    BY <1>0, <2>1, EndsAre, Zenon
  <2>4. MovesTo(Dialer[c], c, handler[Dialer[c]][c], "check")
    BY <2>1, Zenon DEF MovesTo
  <2> QED  BY <2>1, <2>3, <2>4, OneHandlerMoves, Zenon
<1>2. ASSUME NEW c \in Conn, CheckKnown(c)  PROVE Goal
  <2>1. /\ Known(Dialer[c], c) \in {"stream", "duplicate"}
        /\ handler[Dialer[c]][c] = "check" /\ link[c] # "none"
        /\ Handle(Dialer[c], c, Known(Dialer[c], c))
    BY <1>2, EndsAre, Zenon DEF CheckKnown, Known, DialledFirst
  <2>3. Dialer[c] \in Node /\ Known(Dialer[c], c) \in HandlerStates
    BY <1>0, <2>1, EndsAre, Zenon
  <2>4. MovesTo(Dialer[c], c, handler[Dialer[c]][c], Known(Dialer[c], c))
    BY <2>1, Zenon DEF MovesTo
  <2> QED  BY <2>1, <2>3, <2>4, OneHandlerMoves, Zenon
<1>3. ASSUME NEW c \in Conn, Accept(c)  PROVE Goal
  <2>1. /\ Known(Acceptor[c], c) \in {"stream", "duplicate"}
        /\ handler[Acceptor[c]][c] = "none" /\ link[c] # "none"
        /\ Handle(Acceptor[c], c, Known(Acceptor[c], c))
    BY <1>3, Zenon DEF Accept, Known
  <2>3. Acceptor[c] \in Node /\ Known(Acceptor[c], c) \in HandlerStates
    BY <1>0, <2>1, EndsAre, Zenon
  <2>4. MovesTo(Acceptor[c], c, handler[Acceptor[c]][c], Known(Acceptor[c], c))
    BY <2>1, Zenon DEF MovesTo
  <2> QED  BY <2>1, <2>3, <2>4, OneHandlerMoves, Zenon
<1>4. ASSUME NEW c \in Conn, NEW n \in Ends(c), ControlStream(n, c)  PROVE Goal
  <2>1. handler[n][c] = "stream" /\ link[c] = "open" /\ Handle(n, c, "hello")
    BY <1>4, Zenon DEF ControlStream
  <2>3. n \in Node /\ "hello" \in HandlerStates
    BY <1>0, <2>1, EndsAre, Zenon
  <2>4. MovesTo(n, c, handler[n][c], "hello")
    BY <2>1, Zenon DEF MovesTo
  <2> QED  BY <2>1, <2>3, <2>4, OneHandlerMoves, Zenon
<1>5. ASSUME NEW c \in Conn, NEW n \in Ends(c), Handshake(n, c)  PROVE Goal
  <2>1. /\ handler[n][c] = "hello" /\ link[c] = "open" /\ Handle(n, c, "register")
        /\ n = Dialer[c] => control[c] = "ack"
    BY <1>5, Zenon DEF Handshake
  <2>3. n \in Node /\ "register" \in HandlerStates
    BY <1>0, <2>1, EndsAre, Zenon
  <2>4. MovesTo(n, c, handler[n][c], "register")
    BY <2>1, Zenon DEF MovesTo
  <2> QED  BY <2>1, <2>3, <2>4, OneHandlerMoves, Zenon
<1>6. ASSUME NEW c \in Conn, NEW n \in Ends(c), HandshakeFails(n, c)  PROVE Goal
  <2>1. handler[n][c] \in {"stream", "hello"} /\ Handle(n, c, "failed") /\ link'[c] = "closed"
    BY <1>6, Zenon DEF HandshakeFails, TransportTypes
  <2>3. n \in Node /\ "failed" \in HandlerStates
    BY <1>0, <2>1, EndsAre, Zenon
  <2>4. MovesTo(n, c, handler[n][c], "failed")
    BY <2>1, Zenon DEF MovesTo
  <2> QED  BY <2>1, <2>3, <2>4, OneHandlerMoves, Zenon
<1>7. ASSUME NEW c \in Conn, NEW n \in Ends(c), Register(n, c)  PROVE Goal
  <2>1. handler[n][c] = "register" /\ Handle(n, c, "start")
    BY <1>7, Zenon DEF Register
  <2>3. n \in Node /\ "start" \in HandlerStates
    BY <1>0, <2>1, EndsAre, Zenon
  <2>4. MovesTo(n, c, handler[n][c], "start")
    BY <2>1, Zenon DEF MovesTo
  <2> QED  BY <2>1, <2>3, <2>4, OneHandlerMoves, Zenon
<1>8. ASSUME NEW c \in Conn, NEW n \in Ends(c), StartReader(n, c)  PROVE Goal
  <2>1. n \in Node
    BY EndsAre, Zenon
  <2>2. handler[n][c] = "start" /\ Handle(n, c, "notify") /\ reader'[n][c] = "reading"
    BY <1>8, <2>1, Zenon DEF StartReader, TransportTypes
  <2>3. n \in Node /\ "notify" \in HandlerStates
    BY <1>0, <2>2, EndsAre, Zenon
  <2>4. MovesTo(n, c, handler[n][c], "notify")
    BY <2>2, Zenon DEF MovesTo
  <2> QED  BY <2>2, <2>3, <2>4, OneHandlerMoves, Zenon
<1>9. ASSUME NEW c \in Conn, NEW n \in Ends(c), NotifyConnected(n, c)  PROVE Goal
  <2>1. handler[n][c] = "notify" /\ Handle(n, c, "done")
    BY <1>9, Zenon DEF NotifyConnected
  <2>3. n \in Node /\ "done" \in HandlerStates
    BY <1>0, <2>1, EndsAre, Zenon
  <2>4. MovesTo(n, c, handler[n][c], "done")
    BY <2>1, Zenon DEF MovesTo
  <2> QED  BY <2>1, <2>3, <2>4, OneHandlerMoves, Zenon
<1>10. ASSUME UNCHANGED handler  PROVE Goal
  BY <1>10, Zenon DEF HandlerMove, MovesTo, TransportTypes
<1> HIDE DEF Goal
<1>11. ASSUME NEW c \in Conn, NEW n \in Ends(c),
              RemovePeer(n, c) \/ RequestChunks(n, c) \/ AcceptStream(n, c) \/ EndRequest(n, c)
       PROVE  Goal
  BY <1>10, <1>11, Zenon DEF RemovePeer, RequestChunks, AcceptStream, EndRequest, Requested, endVars
<1>12. ASSUME NEW n \in Node,
              CloseCancels(n) \/ AcceptLoopEnds(n) \/ CloseSweeps(n) \/ CloseReturns(n)
       PROVE  Goal
  BY <1>10, <1>12, Zenon DEF CloseCancels, AcceptLoopEnds, CloseSweeps, CloseReturns, endVars
<1>13. ASSUME NEW c \in Conn, LinkLost(c)  PROVE Goal
  BY <1>10, <1>13, Zenon DEF LinkLost, endVars
<1>14. ASSUME UNCHANGED transportVars  PROVE Goal
  BY <1>10, <1>14, Zenon DEF transportVars, endVars
<1>15. ASSUME TransportNext  PROVE Goal
  BY <1>1, <1>2, <1>3, <1>4, <1>5, <1>6, <1>7, <1>8, <1>9, <1>11, <1>12, <1>13, <1>15, Steps, Zenon
<1> QED  BY <1>14, <1>15, Zenon DEF Goal

\* What the other variables do.
LEMMA TransportTypesKept ==
  ASSUME TransportTypes, DialledFirst, [TransportNext]_transportVars
  PROVE  TransportTypes'
<1>0. handler' \in [Node -> [Conn -> HandlerStates]]
  BY HandlersMove, Zenon
<1> DEFINE Goal == TransportTypes'
<1> USE DEF TransportTypes
<1>1. ASSUME NEW c \in Conn, Connect(c) \/ LinkLost(c) \/ CheckKnown(c) \/ Accept(c)  PROVE Goal
  <2>1. faults' \in Nat
    BY Writers
  <2>2. UNCHANGED <<reader, peers, ctx>>
    BY <1>1, Zenon DEF Connect, LinkLost, CheckKnown, Accept, endVars
  <2> QED  BY <1>0, <1>1, <2>1, <2>2, Zenon DEF Connect, LinkLost, CheckKnown, Accept
<1>2. ASSUME NEW c \in Conn, NEW n \in Ends(c), ControlStream(n, c) \/ Handshake(n, c)  PROVE Goal
  BY <1>0, <1>2, Zenon DEF ControlStream, Handshake, bounds
<1>3. ASSUME NEW c \in Conn, NEW n \in Ends(c), HandshakeFails(n, c)  PROVE Goal
  <2>1. faults' \in Nat
    BY <1>3 DEF HandshakeFails, Fault, bounds
  <2> QED  BY <1>0, <1>3, <2>1, Zenon DEF HandshakeFails
<1>4. ASSUME NEW c \in Conn, NEW n \in Ends(c), Register(n, c)  PROVE Goal
  BY <1>0, <1>4, EndsAre, Zenon DEF Register, bounds
<1>5. ASSUME NEW c \in Conn, NEW n \in Ends(c), StartReader(n, c) \/ NotifyConnected(n, c)
      PROVE  Goal
  <2>1. UNCHANGED <<link, control, peers, ctx, faults>>
    BY <1>5, Zenon DEF StartReader, NotifyConnected, bounds
  <2>2. reader' \in [Node -> [Conn -> {"none", "reading", "done"}]]
    <3>1. n \in Node
      BY EndsAre, Zenon
    <3>2. CASE StartReader(n, c)
      BY <3>1, <3>2, Zenon DEF StartReader
    <3>3. CASE NotifyConnected(n, c)
      BY <3>3, Zenon DEF NotifyConnected
    <3> QED  BY <1>5, <3>2, <3>3, Zenon
  <2> QED  BY <1>0, <2>1, <2>2, Zenon
<1>6. ASSUME NEW c \in Conn, NEW n \in Ends(c), RemovePeer(n, c)  PROVE Goal
  BY <1>0, <1>6, EndsAre, Zenon DEF RemovePeer, bounds
<1>7. ASSUME NEW c \in Conn, NEW n \in Ends(c),
             RequestChunks(n, c) \/ AcceptStream(n, c) \/ EndRequest(n, c)
      PROVE  Goal
  BY <1>0, <1>7, Zenon DEF RequestChunks, AcceptStream, EndRequest, Requested, endVars, bounds
<1>8. ASSUME NEW n \in Node,
             CloseCancels(n) \/ AcceptLoopEnds(n) \/ CloseSweeps(n) \/ CloseReturns(n)
      PROVE  Goal
  BY <1>0, <1>8, Zenon DEF CloseCancels, AcceptLoopEnds, CloseSweeps, CloseReturns, endVars, bounds
<1>9. ASSUME UNCHANGED transportVars  PROVE Goal
  BY <1>9, Zenon DEF transportVars, endVars, bounds
<1> HIDE DEF Goal
<1>10. ASSUME TransportNext  PROVE Goal
  BY <1>1, <1>2, <1>3, <1>4, <1>5, <1>6, <1>7, <1>8, <1>10, Steps, Zenon
<1> QED  BY <1>9, <1>10, Zenon DEF Goal

\* Who else writes the variables of the invariant.
LEMMA OtherMoves ==
  ASSUME TransportTypes, [TransportNext]_transportVars
  PROVE  /\ \A c \in Conn : link'[c] = "none" => link[c] = "none"
         /\ \A c \in Conn : control'[c] = "ack" => control[c] = "ack" \/ Handshake(Acceptor[c], c)
         /\ \A n \in Node, c \in Conn :
              reader'[n][c] = "reading" => reader[n][c] = "reading" \/ handler'[n][c] = "notify"
<1> DEFINE Goal ==
         /\ \A c \in Conn : link'[c] = "none" => link[c] = "none"
         /\ \A c \in Conn : control'[c] = "ack" => control[c] = "ack" \/ Handshake(Acceptor[c], c)
         /\ \A n \in Node, c \in Conn :
              reader'[n][c] = "reading" => reader[n][c] = "reading" \/ handler'[n][c] = "notify"
<1> USE DEF TransportTypes
<1>1. ASSUME NEW c \in Conn, Connect(c) \/ LinkLost(c) \/ CheckKnown(c) \/ Accept(c)  PROVE Goal
  BY <1>1, Zenon DEF Connect, LinkLost, CheckKnown, Accept, endVars
<1>2. ASSUME NEW c \in Conn, NEW n \in Ends(c), ControlStream(n, c)  PROVE Goal
  BY <1>2, Zenon DEF ControlStream
<1>3. ASSUME NEW c \in Conn, NEW n \in Ends(c), Handshake(n, c)  PROVE Goal
  <2>1. link' = link /\ reader' = reader
    BY <1>3, Zenon DEF Handshake
  <2>2. n = Dialer[c] \/ n = Acceptor[c]
    BY Zenon DEF Ends
  <2>3. n = Dialer[c] => control' = control
    BY <1>3, Zenon DEF Handshake
  <2>4. \A d \in Conn : d # c => control'[d] = control[d]
    BY <1>3, Zenon DEF Handshake
  <2> QED  BY <1>3, <2>1, <2>2, <2>3, <2>4, Zenon
<1>4. ASSUME NEW c \in Conn, NEW n \in Ends(c), HandshakeFails(n, c)  PROVE Goal
  BY <1>4, Zenon DEF HandshakeFails
<1>5. ASSUME NEW c \in Conn, NEW n \in Ends(c), Register(n, c) \/ NotifyConnected(n, c)  PROVE Goal
  BY <1>5, Zenon DEF Register, NotifyConnected
<1>6. ASSUME NEW c \in Conn, NEW n \in Ends(c), StartReader(n, c)  PROVE Goal
  BY <1>6, EndsAre, Zenon DEF StartReader, Handle
<1>7. ASSUME NEW c \in Conn, NEW n \in Ends(c), RemovePeer(n, c)  PROVE Goal
  BY <1>7, EndsAre, Zenon DEF RemovePeer
<1>8. ASSUME NEW c \in Conn, NEW n \in Ends(c),
             RequestChunks(n, c) \/ AcceptStream(n, c) \/ EndRequest(n, c)
      PROVE  Goal
  BY <1>8, Zenon DEF RequestChunks, AcceptStream, EndRequest, Requested, endVars
<1>9. ASSUME NEW n \in Node,
             CloseCancels(n) \/ AcceptLoopEnds(n) \/ CloseSweeps(n) \/ CloseReturns(n)
      PROVE  Goal
  <2>1. control' = control /\ reader' = reader
    BY <1>9, Zenon DEF CloseCancels, AcceptLoopEnds, CloseSweeps, CloseReturns, endVars
  <2>2. \A c \in Conn : link'[c] = link[c] \/ link'[c] = "closed"
    BY <1>9 DEF CloseCancels, AcceptLoopEnds, CloseSweeps, CloseReturns
  <2> QED  BY <2>1, <2>2, Zenon
<1>10. ASSUME UNCHANGED transportVars  PROVE Goal
  BY <1>10, Zenon DEF transportVars, endVars
<1> HIDE DEF Goal
<1>11. ASSUME TransportNext  PROVE Goal
  BY <1>1, <1>2, <1>3, <1>4, <1>5, <1>6, <1>7, <1>8, <1>9, <1>11, Steps, Zenon
<1> QED  BY <1>10, <1>11, Zenon DEF Goal
-----------------------------------------------------------------------------
(* The invariant *)

LEMMA TransportStarts == TransportInit => TransportInv
BY TransportAssumption, EndsAre
DEF TransportInit, TransportInv, TransportTypes, DialledFirst, ReadersAreRegistered,
    EntriesHaveReaders, AcksAreAnswers, DialerIsKnown, ClosedUnregistered, HandlerStates, Answered

\* What was answered is registered in the end.
LEMMA AnsweredStays ==
  ASSUME NEW m \in Node, NEW d \in Conn, HandlerMove(m, d), handler[m][d] \in Answered
  PROVE  handler'[m][d] \in Answered
BY Zenon DEF HandlerMove, MovesTo, Answered

LEMMA HandlersKept ==
  ASSUME TransportInv, [TransportNext]_transportVars
  PROVE  DialledFirst' /\ ReadersAreRegistered' /\ AcksAreAnswers' /\ DialerIsKnown'
<1>0. \A m \in Node, d \in Conn : HandlerMove(m, d)
  BY HandlersMove, Zenon DEF TransportInv
<1>1. DialledFirst'
  BY <1>0, OtherMoves DEF TransportInv, DialledFirst, HandlerMove, MovesTo
<1>2. ReadersAreRegistered'
  BY <1>0, OtherMoves, Zenon DEF TransportInv, ReadersAreRegistered, HandlerMove, MovesTo
<1>3. AcksAreAnswers'
  <2> SUFFICES ASSUME NEW c \in Conn, control'[c] = "ack"
               PROVE  handler'[Acceptor[c]][c] \in Answered
    BY Zenon DEF AcksAreAnswers
  <2>1. CASE control[c] = "ack"
    BY <1>0, <2>1, EndsAre, AnsweredStays, Zenon DEF TransportInv, AcksAreAnswers
  <2>2. CASE Handshake(Acceptor[c], c)
    <3>1. "register" \in HandlerStates /\ Handle(Acceptor[c], c, "register")
      BY <2>2, Zenon DEF Handshake, HandlerStates
    <3> QED  BY <3>1, EndsAre, HandleIs DEF TransportInv, Answered
  <2> QED  BY <2>1, <2>2, OtherMoves, Zenon DEF TransportInv
<1>4. DialerIsKnown'
  <2> SUFFICES ASSUME NEW c \in Conn, handler'[Dialer[c]][c] \in Answered
               PROVE  handler'[Acceptor[c]][c] \in Answered
    BY Zenon DEF DialerIsKnown
  <2>1. handler[Dialer[c]][c] \in Answered \/ control[c] = "ack"
    BY <1>0, EndsAre, Zenon DEF HandlerMove, MovesTo, Answered
  <2>2. handler[Acceptor[c]][c] \in Answered
    BY <2>1, Zenon DEF TransportInv, DialerIsKnown, AcksAreAnswers
  <2> QED  BY <1>0, <2>2, EndsAre, AnsweredStays, Zenon
<1> QED  BY <1>1, <1>2, <1>3, <1>4, Zenon

\* An entry of the table is new, or it stays and its reader with it.
LEMMA EntriesKept ==
  ASSUME TransportInv, [TransportNext]_transportVars
  PROVE  EntriesHaveReaders'
<1> SUFFICES ASSUME NEW n \in Node, NEW p \in Node, peers'[n][p] # NoConn
             PROVE  LET c == peers'[n][p] IN
                      /\ n \in Ends(c) /\ p = PeerID(n, c)
                      /\ reader'[n][c] = "reading" \/ handler'[n][c] = "start"
  BY Zenon DEF EntriesHaveReaders, Ends, PeerID
<1> USE DEF TransportInv, TransportTypes
<1>1. ASSUME NEW c \in Conn, NEW m \in Ends(c), Register(m, c), n = m, p = PeerID(m, c)
      PROVE  peers'[n][p] = c /\ handler'[n][c] = "start"
  BY <1>1, EndsAre, Zenon DEF Register, Handle
<1>2. CASE peers'[n][p] = peers[n][p]
  <2> DEFINE c == peers[n][p]
  <2>1. /\ c \in Conn /\ n \in Ends(c) /\ p = PeerID(n, c)
        /\ reader[n][c] = "reading" \/ handler[n][c] = "start"
    BY <1>2 DEF EntriesHaveReaders
  <2>2. CASE handler[n][c] = "start"
    <3>1. HandlerMove(n, c)
      BY <2>1, HandlersMove, Zenon
    <3> QED  BY <1>2, <2>1, <2>2, <3>1, Zenon DEF HandlerMove, MovesTo
  <2>3. CASE reader[n][c] = "reading"
    <3>1. ~RemovePeer(n, c)
      BY <1>2, <2>1, TransportAssumption DEF RemovePeer
    <3>2. ASSUME NEW d \in Conn, NEW m \in Ends(d), RemovePeer(m, d)
          PROVE  reader'[n][c] = "reading"
      <4>1. m # n \/ d # c
        BY <3>1, <3>2, Zenon
      <4>2. reader' = [reader EXCEPT ![m][d] = "done"] /\ m \in Node
        BY <3>2, EndsAre, Zenon DEF RemovePeer
      <4> QED  BY <2>1, <2>3, <4>1, <4>2, Zenon
    <3>3. ASSUME NEW d \in Conn, NEW m \in Ends(d), StartReader(m, d)
          PROVE  reader'[n][c] = "reading"
      BY <2>1, <2>3, <3>3, EndsAre, Zenon DEF StartReader
    <3>4. ASSUME UNCHANGED reader  PROVE reader'[n][c] = "reading"
      BY <2>3, <3>4, Zenon
    <3>5. reader'[n][c] = "reading"
      BY <3>2, <3>3, <3>4, Writers, Zenon
    <3> QED  BY <1>2, <2>1, <3>5, Zenon
  <2> QED  BY <2>1, <2>2, <2>3, Zenon
<1>3. CASE peers'[n][p] # peers[n][p]
  <2>1. PICK c \in Conn : \E m \in Ends(c) : Register(m, c) /\ n = m /\ p = PeerID(m, c)
    <3>1. ASSUME NEW d \in Conn, NEW m \in Ends(d), RemovePeer(m, d)  PROVE FALSE
      BY <1>3, <3>1, EndsAre, Zenon DEF RemovePeer
    <3>2. ASSUME NEW d \in Conn, NEW m \in Ends(d), Register(m, d)
          PROVE  n = m /\ p = PeerID(m, d)
      BY <1>3, <3>2, EndsAre, Zenon DEF Register
    <3>3. peers' # peers
      BY <1>3, Zenon
    <3> QED  BY <3>1, <3>2, <3>3, Writers, Zenon
  <2> QED  BY <1>1, <2>1, Zenon
<1> QED  BY <1>2, <1>3, Zenon
\* A fault is not forgotten, nor that Close was called.
LEMMA DisturbedStays ==
  ASSUME TransportTypes, [TransportNext]_transportVars, Undisturbed'
  PROVE  Undisturbed
<1> USE DEF TransportTypes
<1>1. faults = 0
  <2>1. faults' = faults \/ faults' = faults + 1
    BY Writers, Zenon
  <2> QED  BY <2>1 DEF Undisturbed
<1>2. ASSUME NEW n \in Node  PROVE ctx[n] = "open"
  <2>1. ASSUME NEW m \in Node, CloseCancels(m) \/ CloseSweeps(m) \/ CloseReturns(m)
        PROVE  FALSE
    BY <2>1, Zenon DEF Undisturbed, CloseCancels, CloseSweeps, CloseReturns
  <2>2. ctx' = ctx
    BY <2>1, Writers, Zenon
  <2> QED  BY <2>2, Zenon DEF Undisturbed
<1> QED  BY <1>1, <1>2, Zenon DEF Undisturbed

\* Without a fault only a dialer that gets no answer closes a connection.
LEMMA ClosedUnanswered ==
  ASSUME TransportTypes, [TransportNext]_transportVars, Undisturbed', NEW c \in Conn,
         link'[c] = "closed", link[c] # "closed"
  PROVE  HandshakeFails(Dialer[c], c) /\ handler[Dialer[c]][c] = "hello" /\ Unanswered(c)
<1> USE DEF TransportTypes
<1>0. Undisturbed /\ faults' = 0 /\ faults = 0
  BY DisturbedStays, Zenon DEF Undisturbed
<1>1. ASSUME NEW d \in Conn, LinkLost(d)  PROVE FALSE
  BY <1>0, <1>1 DEF LinkLost, Fault
<1>2. ASSUME NEW m \in Node, CloseSweeps(m)  PROVE FALSE
  BY <1>0, <1>2, Zenon DEF CloseSweeps, Undisturbed
<1>3. ASSUME NEW d \in Conn, Connect(d)  PROVE FALSE
  BY <1>3, Zenon DEF Connect
<1>4. ASSUME NEW d \in Conn, NEW m \in Ends(d), HandshakeFails(m, d)
      PROVE  HandshakeFails(Dialer[c], c) /\ handler[Dialer[c]][c] = "hello" /\ Unanswered(c)
  <2>1. d = c
    BY <1>4, Zenon DEF HandshakeFails
  <2>2. m \in Node /\ ctx[m] = "open" /\ ~Fault
    BY <1>0, EndsAre DEF Undisturbed, Fault
  <2>3. handler[m][d] = "hello" /\ m = Dialer[d] /\ Unanswered(d)
    BY <1>4, <2>1, <2>2, Zenon DEF HandshakeFails
  <2> QED  BY <1>4, <2>1, <2>3, Zenon
<1>5. link' # link
  BY Zenon
<1> QED  BY <1>1, <1>2, <1>3, <1>4, <1>5, Writers, Zenon

LEMMA ClosedKept ==
  ASSUME TransportInv, [TransportNext]_transportVars
  PROVE  ClosedUnregistered'
<1> SUFFICES ASSUME Undisturbed', NEW c \in Conn, link'[c] = "closed", NEW n \in Ends(c)
             PROVE  handler'[n][c] \notin Answered
  BY Zenon DEF ClosedUnregistered, Ends
<1>0. Undisturbed /\ n \in Node
  BY DisturbedStays, EndsAre, Zenon DEF TransportInv
<1>1. HandlerMove(n, c)
  BY <1>0, HandlersMove, Zenon DEF TransportInv
<1>2. CASE link[c] = "closed"
  <2>1. handler[n][c] \notin Answered
    BY <1>0, <1>2, Zenon DEF TransportInv, ClosedUnregistered
  <2> QED  BY <1>1, <1>2, <2>1, Zenon DEF HandlerMove, MovesTo, Answered
<1>3. CASE link[c] # "closed"
  <2>1. HandshakeFails(Dialer[c], c) /\ handler[Dialer[c]][c] = "hello" /\ Unanswered(c)
    BY <1>3, ClosedUnanswered, Zenon DEF TransportInv
  <2>2. "failed" \in HandlerStates /\ Handle(Dialer[c], c, "failed")
    BY <2>1, Zenon DEF HandshakeFails, HandlerStates
  <2>3. CASE n = Dialer[c]
    BY <2>2, <2>3, EndsAre, HandleIs DEF TransportInv, Answered
  <2>4. CASE n = Acceptor[c]
    <3>1. handler'[n][c] = handler[n][c]
      BY <2>2, <2>4, EndsAre, HandleIs DEF TransportInv
    <3> QED  BY <2>1, <2>4, <3>1, Zenon DEF Unanswered, Answered
  <2> QED  BY <2>3, <2>4, Zenon DEF Ends
<1> QED  BY <1>2, <1>3, Zenon

LEMMA TransportInvariant == TransportSpec => []TransportInv
<1>1. ASSUME TransportInv, [TransportNext]_transportVars  PROVE TransportInv'
  <2>1. TransportTypes'
    BY <1>1, TransportTypesKept, Zenon DEF TransportInv
  <2> QED  BY <1>1, <2>1, HandlersKept, EntriesKept, ClosedKept, Zenon DEF TransportInv
<1> QED  BY TransportStarts, <1>1, PTL DEF TransportSpec

-----------------------------------------------------------------------------

\* No entry of Transport.peers is left behind: each has a reader that will
\* remove it, or a handler that is about to start one.
THEOREM EntriesAreServed == TransportSpec => []EntriesHaveReaders
<1>1. TransportInv => EntriesHaveReaders
  BY Zenon DEF TransportInv
<1> QED  BY TransportInvariant, <1>1, PTL

\* performHandshake: a transport registers the peer it dialled only if that
\* peer registers the connection too.
THEOREM DialersAreKnown == TransportSpec => []DialerIsKnown
<1>1. TransportInv => DialerIsKnown
  BY Zenon DEF TransportInv
<1> QED  BY TransportInvariant, <1>1, PTL

\* Any number of transports may dial each other at once: while no connection
\* fails and nobody calls Close, removePeer takes no entry out of a table.
THEOREM PeersAreNotDropped == TransportSpec => PeersStayListed
<1> DEFINE Stay == \A n, p \in Node :
       Undisturbed' /\ peers[n][p] # NoConn => peers'[n][p] # NoConn
<1>1. ASSUME TransportInv, [TransportNext]_transportVars  PROVE [Stay]_transportVars
  <2> SUFFICES ASSUME TransportNext, NEW n \in Node, NEW p \in Node, Undisturbed',
                      peers[n][p] # NoConn
               PROVE  peers'[n][p] # NoConn
    BY <1>1, Zenon
  <2> USE <1>1 DEF TransportInv, TransportTypes
  <2>0. Undisturbed
    BY DisturbedStays, Zenon
  <2>1. ASSUME NEW c \in Conn, NEW m \in Ends(c), RemovePeer(m, c)  PROVE FALSE
    <3>1. m \in Node /\ ctx[m] = "open" /\ link[c] = "closed" /\ reader[m][c] = "reading"
      BY <2>0, <2>1, EndsAre, Zenon DEF RemovePeer, Undisturbed
    <3>2. handler[m][c] \in Answered
      BY <3>1, Zenon DEF ReadersAreRegistered, Answered
    <3> QED  BY <2>0, <3>1, <3>2, Zenon DEF ClosedUnregistered
  <2>2. ASSUME NEW c \in Conn, NEW m \in Ends(c), Register(m, c)  PROVE peers'[n][p] # NoConn
    BY <2>2, EndsAre, TransportAssumption, Zenon DEF Register
  <2> QED  BY <2>1, <2>2, Writers, Zenon
<1> QED  BY TransportInvariant, <1>1, PTL DEF TransportSpec, PeersStayListed
===============================================================================
