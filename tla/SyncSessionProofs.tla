-------------------------- MODULE SyncSessionProofs --------------------------
(***************************************************************************)
(* What holds of sync sessions for every set of paths and chunks, any      *)
(* number of edits and faults, and any order of reconstruction: stores     *)
(* cover what they must, a session spares what is new, it fails only for a *)
(* cause, and one that succeeds has mirrored the manifest.                 *)
(***************************************************************************)
EXTENDS SyncSession, FileTreeProofs

\* The file that is open exists on disk.
FileInv ==
  file # NoPath => /\ pc = "write" /\ file \in Path
                   /\ localFS[file].kind = "file" /\ IsFile(manifest, file)

TypeInv == TypeOK /\ FileInv

USE DEF Running, Asking, Resting

-----------------------------------------------------------------------------
(* The file operations keep a tree a tree *)

LEMMA MkdirAllTree ==
  ASSUME NEW m, Tree(m), NEW p \in Path \cup {Root}, CanMkdirAll(m, p)
  PROVE  /\ Tree(MkdirAll(m, p))
         /\ \A q \in Path : MkdirAll(m, p)[q] =
               IF q \in Ancestors(p) \cup {p} THEN DirNode ELSE m[q]
         /\ \A q \in Ancestors(p) \cup {p} : IsDir(MkdirAll(m, p), q)
<1> DEFINE mm == MkdirAll(m, p)
<1>1. mm \in [Path -> Node]
  BY NodeFacts DEF MkdirAll, Tree
<1>2. \A q \in Path : mm[q] = IF q \in Ancestors(p) \cup {p} THEN DirNode ELSE m[q]
  BY DEF MkdirAll
<1>3. \A q \in Ancestors(p) \cup {p} : q = Root \/ q \in Path
  <2>1. CASE p \in Path
    BY <2>1, AncestorFacts
  <2>2. CASE p = Root
    BY <2>2 DEF Ancestors, Root
  <2> QED  BY <2>1, <2>2
<1>4. \A q \in Ancestors(p) \cup {p} : IsDir(mm, q)
  BY <1>2, <1>3, AtPath, NodeFacts DEF IsDir, At
<1>5. ASSUME NEW r \in Path, Present(mm, r), NEW q \in Ancestors(r)
      PROVE  IsDir(mm, q)
  <2>1. q = Root \/ q \in Path
    BY <1>5, AncestorFacts
  <2>2. CASE r \in Ancestors(p) \cup {p}
    <3>1. p \in Path
      BY <2>2, <1>5, AncestorFacts DEF Ancestors, Root
    <3>2. q \in Ancestors(p)
      BY <1>5, <2>2, <3>1, AncestorTransitive
    <3> QED  BY <1>4, <3>2
  <2>3. CASE r \notin Ancestors(p) \cup {p}
    <3>1. Present(m, r)
      BY <1>2, <1>5, <2>3, AtPath DEF Present
    <3>2. IsDir(m, q)
      BY <1>5, <3>1 DEF Tree, WellFormed
    <3>3. CASE q \in Ancestors(p) \cup {p}
      BY <1>4, <3>3
    <3>4. CASE q \notin Ancestors(p) \cup {p}
      BY <1>2, <2>1, <3>2, <3>4, AtPath, NodeFacts DEF IsDir, At
    <3> QED  BY <3>3, <3>4
  <2> QED  BY <2>2, <2>3
<1> QED  BY <1>1, <1>2, <1>4, <1>5 DEF Tree, WellFormed

\* The file that is created.
LEMMA CreateTree ==
  ASSUME NEW m, Tree(m), NEW p \in Path,
         CanMkdirAll(m, Parent(p)), ~IsDir(m, p)
  PROVE  /\ Parent(p) \in Ancestors(p)
         /\ Tree([MkdirAll(m, Parent(p)) EXCEPT ![p] = EmptyFile])
<1>1. Parent(p) \in Ancestors(p) /\ Parent(p) \in Path \cup {Root}
  <2>1. Len(p) - 1 \in 0..(Len(p) - 1)
    BY AncestorFacts
  <2>2. Parent(p) \in Ancestors(p)
    BY <2>1 DEF Parent, Ancestors
  <2> QED  BY <2>2, AncestorFacts
<1> DEFINE mm == MkdirAll(m, Parent(p))
<1>2. /\ Tree(mm)
      /\ \A q \in Ancestors(Parent(p)) \cup {Parent(p)} : IsDir(mm, q)
      /\ \A q \in Path : mm[q] = IF q \in Ancestors(Parent(p)) \cup {Parent(p)}
                                 THEN DirNode ELSE m[q]
  BY <1>1, MkdirAllTree
<1>3. Ancestors(p) = Ancestors(Parent(p)) \cup {Parent(p)}
  BY ParentAncestors
<1>4. \A q \in Path : p \in Ancestors(q) => ~Present(mm, q)
  <2>1. SUFFICES ASSUME NEW q \in Path, p \in Ancestors(q), Present(mm, q)
                 PROVE  FALSE
    OBVIOUS
  <2>2. q \notin Ancestors(p)
    BY <2>1, AncestorTransitive, AncestorFacts
  <2>3. Present(m, q)
    BY <1>2, <1>3, <2>1, <2>2, AtPath DEF Present
  <2> QED  BY <2>1, <2>3, NothingBelow DEF Tree
<1> HIDE DEF mm
<1>5. Tree([mm EXCEPT ![p] = EmptyFile])
  BY <1>2, <1>3, <1>4, SetNode, NodeFacts
<1> QED  BY <1>1, <1>5 DEF mm

-----------------------------------------------------------------------------
(* Type correctness *)

\* The five trees, one by one.
Trees ==
  Tree(localFS) /\ Tree(remoteFS) /\ Tree(startTree) /\ Tree(localTree) /\ Tree(manifest)

Rest ==
  /\ localStore \subseteq Chunk /\ remoteStore \subseteq Chunk
  /\ server \in {"down", "indexed", "up"} /\ conn \in BOOLEAN
  /\ pc \in Running \cup Resting
  /\ needed \subseteq Chunk /\ todo \subseteq Path /\ deleted \subseteq Path
  /\ file \in Path \cup {NoPath}
  /\ events \subseteq Events /\ edits \in 0..MaxEdits /\ faults \in 0..MaxFaults

LEMMA TypeParts == TypeOK <=> Trees /\ Rest
BY DEF TypeOK, Trees, Rest, Tree

\* The chunk is added to the open file, and to nothing else.
LEMMA WriteChunkEffect ==
  ASSUME Tree(localFS), localStore \subseteq Chunk, FileInv, WriteChunk
  PROVE  /\ file \in Path /\ localFS[file] \in Node /\ localFS[file].kind = "file"
         /\ NextChunk \in Chunk
         /\ localFS' = [localFS EXCEPT ![file] = FileNode(Append(localFS[file].chunks, NextChunk))]
         /\ localFS'[file] = FileNode(Append(localFS[file].chunks, NextChunk))
         /\ \A q \in Path \ {file} : localFS'[q] = localFS[q]
<1> DEFINE n == [localFS[file] EXCEPT !.chunks = Append(localFS[file].chunks, NextChunk)]
<1>1. file \in Path /\ localFS[file] \in Node /\ localFS[file].kind = "file"
      /\ NextChunk \in Chunk
  BY DEF WriteChunk, FileInv, Tree
<1>2. localFS' = [localFS EXCEPT ![file] = n]
  BY DEF WriteChunk
<1>3. n = FileNode(Append(localFS[file].chunks, NextChunk))
  BY <1>1, AppendNode, Zenon
<1> HIDE DEF n
<1> QED  BY <1>1, <1>2, <1>3 DEF Tree

LEMMA IndexedTyped ==
  ASSUME NEW m, Tree(m), NEW hidden, NEW store \in SUBSET Chunk
  PROVE  /\ Indexed(m, hidden, store) \subseteq Chunk
         /\ \A p \in Path : IsFile(m, p) =>
               Indexed([m EXCEPT ![p] = NoNode], hidden, store) \subseteq Chunk
<1>1. ASSUME NEW n, Tree(n)
      PROVE  Indexed(n, hidden, store) \subseteq Chunk
  BY <1>1, ChunksTyped DEF Indexed, AllChunks
<1>2. ASSUME NEW p \in Path, IsFile(m, p)
      PROVE  Tree([m EXCEPT ![p] = NoNode])
  <2>1. ~IsDir(m, p)
    BY <1>2 DEF IsFile, IsDir
  <2>2. \A q \in Path : p \in Ancestors(q) => ~Present(m, q)
    BY <2>1, NothingBelow DEF Tree
  <2> QED  BY <2>2, NodeFacts, SetNode
<1> QED  BY <1>1, <1>2

LEMMA IndexLocalTyped ==
  ASSUME Trees, Rest, IndexLocalFS
  PROVE  localStore' \subseteq Chunk
<1>1. Tree(localFS) /\ localStore \in SUBSET Chunk
  BY DEF Trees, Rest
<1>2. /\ Indexed(localFS, LocalHidden, localStore) \subseteq Chunk
      /\ \A p \in Path : IsFile(localFS, p) =>
           Indexed([localFS EXCEPT ![p] = NoNode], LocalHidden, localStore) \subseteq Chunk
  BY <1>1, IndexedTyped, Zenon
<1> QED  BY <1>2, Zenon DEF IndexLocalFS

LEMMA IndexRemoteTyped ==
  ASSUME Trees, Rest, IndexRemoteFS
  PROVE  remoteStore' \subseteq Chunk
<1>1. Tree(remoteFS) /\ remoteStore \in SUBSET Chunk
  BY DEF Trees, Rest
<1>2. /\ Indexed(remoteFS, RemoteHidden, remoteStore) \subseteq Chunk
      /\ \A p \in Path : IsFile(remoteFS, p) =>
           Indexed([remoteFS EXCEPT ![p] = NoNode], RemoteHidden, remoteStore) \subseteq Chunk
  BY <1>1, IndexedTyped, Zenon
<1> QED  BY <1>2, Zenon DEF IndexRemoteFS

LEMMA EditTree ==
  ASSUME NEW m, Tree(m), NEW p \in Path, NEW n \in Edits(m, p)
  PROVE  Tree([m EXCEPT ![p] = n])
BY NodeFacts, SessionAssumption DEF Edits, Tree

LEMMA TypeInvInit == Init => TypeInv
<1> SUFFICES ASSUME Init PROVE TypeInv
  OBVIOUS
<1>1. Trees
  BY SessionAssumption, EmptyTreeIsTree DEF Init, Trees, Tree
<1>2. remoteStore \subseteq Chunk
  BY <1>1, IndexedTyped DEF Init, Trees
<1>3. Rest
  <2>1. conn \in BOOLEAN /\ pc \in Running \cup Resting
    BY Zenon DEF Init
  <2>2. edits \in 0..MaxEdits /\ faults \in 0..MaxFaults
    BY SessionAssumption DEF Init
  <2> QED  BY <1>2, <2>1, <2>2 DEF Init, Rest
<1>4. FileInv
  BY DEF Init, FileInv
<1> QED  BY <1>1, <1>3, <1>4, TypeParts DEF TypeInv

\* What a fault leaves typed.
LEMMA FaultTyped ==
  ASSUME Rest, NEW e \in Events, Fault(e) \/ Edited(e) \/ NoFault
  PROVE  events' \subseteq Events /\ edits' \in 0..MaxEdits /\ faults' \in 0..MaxFaults
BY SessionAssumption DEF Rest, Fault, Edited, NoFault, bounds

LEMMA TypeInvNext == TypeInv /\ [Next]_vars => TypeInv'
<1> SUFFICES ASSUME TypeInv, [Next]_vars
             PROVE  Trees' /\ Rest' /\ FileInv'
  BY DEF TypeInv, TypeOK, Trees, Rest, Tree
<1>1. Trees /\ Rest /\ FileInv
  BY TypeParts DEF TypeInv
<1> USE <1>1
<1> USE DEF serverVars, planVars, bounds
<1>2. CASE SyncStart
  BY <1>2, EmptyTreeIsTree, Zenon DEF SyncStart, Trees, Rest, FileInv
<1>3. CASE IndexLocal
  <2>1. localStore' \subseteq Chunk
    BY <1>3, IndexLocalTyped DEF IndexLocal
  <2>2. events' \subseteq Events /\ edits' \in 0..MaxEdits /\ faults' \in 0..MaxFaults
    BY <1>3, FaultTyped, Zenon DEF IndexLocal, IndexLocalFS, Events
  <2> QED  BY <1>3, <2>1, <2>2 DEF IndexLocal, Trees, Rest, FileInv
<1>4. CASE BuildLocal
  <2>1. events' \subseteq Events /\ edits' \in 0..MaxEdits /\ faults' \in 0..MaxFaults
    BY <1>4, FaultTyped, Zenon DEF BuildLocal, Events
  <2> QED  BY <1>4, <2>1, Zenon DEF BuildLocal, Fail, Trees, Rest, FileInv
<1>5. CASE Connect
  BY <1>5 DEF Connect, NoFault, Trees, Rest, FileInv
<1>6. CASE CallFails
  <2>1. events' \subseteq Events /\ edits' \in 0..MaxEdits /\ faults' \in 0..MaxFaults
    BY <1>6, FaultTyped, Zenon DEF CallFails, Events, Rest
  <2> QED  BY <1>6, <2>1 DEF CallFails, Fail, Trees, Rest, FileInv
<1>7. CASE ServeReindex
  <2>1. remoteStore' \subseteq Chunk
    BY <1>7, IndexRemoteTyped DEF ServeReindex
  <2>2. events' \subseteq Events /\ edits' \in 0..MaxEdits /\ faults' \in 0..MaxFaults
    BY <1>7, FaultTyped, Zenon DEF ServeReindex, IndexRemoteFS, Events
  <2> QED  BY <1>7, <2>1, <2>2 DEF ServeReindex, Trees, Rest, FileInv
<1>8. CASE ServeRebuild
  <2>1. events' \subseteq Events /\ edits' \in 0..MaxEdits /\ faults' \in 0..MaxFaults
    BY <1>8, FaultTyped, Zenon DEF ServeRebuild, Events
  <2> QED  BY <1>8, <2>1, Zenon DEF ServeRebuild, Trees, Rest, FileInv
<1>9. CASE Diff
  <2>1. needed' \subseteq Chunk
    BY <1>9, ChunksTyped DEF Diff, NeededChunks, Added, Modified, Trees
  <2> QED  BY <1>9, <2>1 DEF Diff, Deleted, Trees, Rest, FileInv
<1>10. CASE FetchBatch
  <2>1. events' \subseteq Events /\ edits' \in 0..MaxEdits /\ faults' \in 0..MaxFaults
    BY <1>10, FaultTyped, Zenon DEF FetchBatch, Events
  <2>2. localStore' \subseteq Chunk /\ needed' \subseteq Chunk
    BY <1>10 DEF FetchBatch, Rest
  <2> QED  BY <1>10, <2>1, <2>2 DEF FetchBatch, Trees, Rest, FileInv
<1>11. CASE Reconstruct
  <2>1. ASSUME NEW p \in Path, MakeDir(p)
        PROVE  Trees' /\ Rest' /\ FileInv'
    <3>1. Tree(MkdirAll(localFS, p))
      BY <2>1, MkdirAllTree DEF MakeDir, Trees
    <3> QED  BY <2>1, <3>1
             DEF MakeDir, Writing, NextNode, NoFault, SessionUnchanged, Trees, Rest, FileInv
  <2>2. ASSUME NEW p \in Path, SkipEmpty(p)
        PROVE  Trees' /\ Rest' /\ FileInv'
    BY <2>2 DEF SkipEmpty, NextNode, NoFault, SessionUnchanged, Trees, Rest, FileInv
  <2>3. ASSUME NEW p \in Path, CreateFile(p)
        PROVE  Trees' /\ Rest' /\ FileInv'
    <3>1. Tree(localFS')
      BY <2>3, CreateTree, Zenon DEF CreateFile, CanCreate, Trees
    <3>2. localFS'[p] = EmptyFile
      BY <2>3 DEF CreateFile, MkdirAll
    <3> QED  BY <2>3, <3>1, <3>2, NodeFacts
             DEF CreateFile, Writing, NoFault, SessionUnchanged, Trees, Rest, FileInv
  <2>4. CASE WriteChunk
    <3> DEFINE n == FileNode(Append(localFS[file].chunks, NextChunk))
    <3>1. /\ file \in Path /\ localFS[file] \in Node /\ localFS[file].kind = "file"
          /\ NextChunk \in Chunk
          /\ localFS' = [localFS EXCEPT ![file] = n] /\ localFS'[file] = n
      BY <2>4, WriteChunkEffect DEF Trees, Rest
    <3>2. n \in Node /\ n.kind = "file"
      BY <3>1, AppendNode, Zenon
    <3>3. Tree(localFS')
      <4>1. IsFile(localFS, file)
        BY <3>1, AtPath DEF IsFile
      <4>2. \A q \in Ancestors(file) : IsDir(localFS, q)
        BY <3>1, <4>1 DEF IsFile, Present, Trees, Tree, WellFormed
      <4>3. \A q \in Path : file \in Ancestors(q) => ~Present(localFS, q)
        BY <3>1, <4>1, NothingBelow DEF IsFile, IsDir, Trees, Tree
      <4> HIDE DEF n
      <4> QED  BY <3>1, <3>2, <4>2, <4>3, SetNode, Zenon DEF Trees
    <3> HIDE DEF n
    <3> QED  BY <2>4, <3>1, <3>2, <3>3
             DEF WriteChunk, NextNode, NoFault, SessionUnchanged, Trees, Rest, FileInv
  <2>5. CASE WriteFails
    <3>1. events' \subseteq Events /\ edits' \in 0..MaxEdits /\ faults' \in 0..MaxFaults
      BY <2>5, FaultTyped, Zenon DEF WriteFails, Events
    <3> QED  BY <2>5, <3>1
             DEF WriteFails, Fail, SessionUnchanged, Trees, Rest, FileInv
  <2> QED  BY <1>11, <2>1, <2>2, <2>3, <2>4, <2>5 DEF Reconstruct
<1>12. CASE RemoveDeleted
  <2>1. events' \subseteq Events /\ edits' \in 0..MaxEdits /\ faults' \in 0..MaxFaults
    BY <1>12, FaultTyped, Zenon DEF RemoveDeleted, Events
  <2>2. ASSUME NEW p \in deleted, Below(localFS, p) = {}
        PROVE  Tree([localFS EXCEPT ![p] = NoNode])
    <3>1. p \in Path /\ \A q \in Path : p \in Ancestors(q) => ~Present(localFS, q)
      BY <2>2 DEF Below, Rest
    <3> QED  BY <3>1, NodeFacts, SetNode DEF Trees
  <2>3. Tree(localFS')
    BY <1>12, <2>2 DEF RemoveDeleted, Trees
  <2>4. deleted' \subseteq Path
    BY <1>12 DEF RemoveDeleted, Rest
  <2> QED  BY <1>12, <2>1, <2>3, <2>4 DEF RemoveDeleted, Trees, Rest, FileInv
<1>13. CASE Finish
  BY <1>13 DEF Finish, Trees, Rest, FileInv
<1>14. CASE Kill
  <2>1. faults' \in 0..MaxFaults
    BY <1>14, SessionAssumption DEF Kill, Rest
  <2> QED  BY <1>14, <2>1 DEF Kill, Trees, Rest, FileInv
<1>15. CASE ServerStop
  <2>1. faults' \in 0..MaxFaults
    BY <1>15, SessionAssumption DEF ServerStop, Rest
  <2> QED  BY <1>15, <2>1, Zenon DEF ServerStop, Trees, Rest, FileInv
<1>16. CASE ServerIndex
  <2>1. remoteStore' \subseteq Chunk
    BY <1>16, IndexRemoteTyped DEF ServerIndex
  <2>2. events' \subseteq Events /\ edits' \in 0..MaxEdits /\ faults' \in 0..MaxFaults
    BY <1>16, FaultTyped, Zenon DEF ServerIndex, IndexRemoteFS, Events
  <2> QED  BY <1>16, <2>1, <2>2 DEF ServerIndex, Trees, Rest, FileInv
<1>17. CASE ServerBuild
  <2>1. events' \subseteq Events /\ edits' \in 0..MaxEdits /\ faults' \in 0..MaxFaults
    BY <1>17, FaultTyped, Zenon DEF ServerBuild, Events
  <2> QED  BY <1>17, <2>1, Zenon DEF ServerBuild, Trees, Rest, FileInv
<1>18. CASE EditLocal
  <2>1. events' \subseteq Events /\ edits' \in 0..MaxEdits /\ faults' \in 0..MaxFaults
    BY <1>18, FaultTyped, Zenon DEF EditLocal, Events
  <2>2. Tree(localFS') /\ (file # NoPath => localFS'[file] = localFS[file])
    <3>1. PICK p \in Path \ {file} :
             \E n \in Edits(localFS, p) : localFS' = [localFS EXCEPT ![p] = n]
      BY <1>18, Zenon DEF EditLocal
    <3>2. PICK n \in Edits(localFS, p) : localFS' = [localFS EXCEPT ![p] = n]
      BY <3>1, Zenon
    <3>3. Tree([localFS EXCEPT ![p] = n])
      BY EditTree DEF Trees
    <3>4. file # NoPath => localFS'[file] = localFS[file]
      BY <3>2 DEF FileInv, Trees, Tree
    <3> QED  BY <3>2, <3>3, <3>4
  <2> QED  BY <1>18, <2>1, <2>2, Zenon DEF EditLocal, Trees, Rest, FileInv
<1>19. CASE EditRemote
  <2>1. events' \subseteq Events /\ edits' \in 0..MaxEdits /\ faults' \in 0..MaxFaults
    BY <1>19, FaultTyped, Zenon DEF EditRemote, Events
  <2>2. Tree(remoteFS')
    <3>1. PICK p \in Path :
             \E n \in Edits(remoteFS, p) : remoteFS' = [remoteFS EXCEPT ![p] = n]
      BY <1>19, Zenon DEF EditRemote
    <3>2. PICK n \in Edits(remoteFS, p) : remoteFS' = [remoteFS EXCEPT ![p] = n]
      BY <3>1, Zenon
    <3>3. Tree([remoteFS EXCEPT ![p] = n])
      BY EditTree DEF Trees
    <3> QED  BY <3>2, <3>3
  <2> QED  BY <1>19, <2>1, <2>2, Zenon DEF EditRemote, Trees, Rest, FileInv
<1>20. CASE UNCHANGED vars
  BY <1>20 DEF vars, Trees, Rest, FileInv
<1> QED
  BY <1>2, <1>3, <1>4, <1>5, <1>6, <1>7, <1>8, <1>9, <1>10, <1>11, <1>12, <1>13,
     <1>14, <1>15, <1>16, <1>17, <1>18, <1>19, <1>20 DEF Next, SessionStep

LEMMA SessionTypeInv == Spec => []TypeInv
BY TypeInvInit, TypeInvNext, PTL DEF Spec

\* Types, and that both directories stay trees, whatever users, faults and
\* kills do to a sequence of sessions.
THEOREM SessionTypes == Spec => []TypeOK
<1>1. TypeInv => TypeOK
  BY DEF TypeInv
<1> QED  BY <1>1, SessionTypeInv, PTL

USE DEF Running, Asking, Resting, serverVars, planVars, bounds

-----------------------------------------------------------------------------
(* Stores *)

LEMMA StoresGrow ==
  ASSUME [Next]_vars
  PROVE  localStore \subseteq localStore' /\ remoteStore \subseteq remoteStore'
<1>1. ASSUME NEW m, NEW hidden, NEW store
      PROVE  store \subseteq Indexed(m, hidden, store)
  BY DEF Indexed
<1>2. CASE IndexLocal
  BY <1>1, <1>2, Zenon DEF IndexLocal, IndexLocalFS
<1>3. CASE ServeReindex
  BY <1>1, <1>3, Zenon DEF ServeReindex, IndexRemoteFS
<1>4. CASE ServerIndex
  BY <1>1, <1>4, Zenon DEF ServerIndex, IndexRemoteFS
<1>5. CASE FetchBatch
  BY <1>5 DEF FetchBatch
<1>6. CASE Reconstruct
  BY <1>6, SMTT(20) DEF Reconstruct, MakeDir, SkipEmpty, CreateFile, WriteChunk, WriteFails,
              SessionUnchanged
<1> QED
  BY <1>2, <1>3, <1>4, <1>5, <1>6, Zenon
  DEF Next, SessionStep, vars, SyncStart, BuildLocal, Connect, CallFails, ServeRebuild,
      Diff, RemoveDeleted, Finish, Kill, ServerStop, ServerBuild, EditLocal, EditRemote

\* Within a session, what disturbed it is not forgotten.
LEMMA EventsGrow ==
  ASSUME [Next]_vars
  PROVE  SyncStart \/ events \subseteq events'
<1>1. CASE Reconstruct
  BY <1>1 DEF Reconstruct, MakeDir, SkipEmpty, CreateFile, WriteChunk, WriteFails,
              NoFault, Fault
<1> QED
  BY <1>1, Zenon
  DEF Next, SessionStep, vars, IndexLocal, IndexLocalFS, BuildLocal, Connect, CallFails,
      ServeReindex, ServeRebuild, IndexRemoteFS, Diff, FetchBatch, RemoveDeleted, Finish,
      Kill, ServerStop, ServerIndex, ServerBuild, EditLocal, EditRemote,
      NoFault, Fault, Edited

\* A tree that holds fewer chunks, or more from the store, needs no more of it.
LEMMA ChunksWithin ==
  ASSUME NEW m, NEW n, NEW S, Tree(m), Tree(n), AllChunks(m) \subseteq S,
         \A p \in Path : Range(n[p].chunks) \subseteq Range(m[p].chunks) \cup S
  PROVE  AllChunks(n) \subseteq S
<1>1. \A p \in Path : Range(m[p].chunks) \subseteq S
  BY AllChunksOf
<1>2. \A c \in AllChunks(n) : \E p \in Path : c \in Range(n[p].chunks)
  BY AllChunksOf
<1> QED  BY <1>1, <1>2

LEMMA NoChunks == Range(NoNode.chunks) = {} /\ Range(DirNode.chunks) = {}
                  /\ Range(EmptyFile.chunks) = {}
BY DEF NoNode, DirNode, EmptyFile, FileNode, Range

\* A step that is neither an edit nor a write of a chunk adds none to the
\* directory, and a write takes its chunk from the store.
LEMMA DiskFromStore ==
  ASSUME TypeInv, [Next]_vars, ~EditLocal
  PROVE  \A p \in Path : Range(localFS'[p].chunks) \subseteq Range(localFS[p].chunks) \cup localStore
<1>1. Tree(localFS) /\ deleted \subseteq Path /\ localStore \subseteq Chunk
  BY TypeParts DEF TypeInv, Trees, Rest
<1>2. CASE Reconstruct
  <2>1. ASSUME NEW p \in Path, MakeDir(p)
        PROVE  \A q \in Path : Range(localFS'[q].chunks) \subseteq Range(localFS[q].chunks) \cup localStore
    BY <2>1, NoChunks DEF MakeDir, MkdirAll
  <2>2. ASSUME NEW p \in Path, CreateFile(p)
        PROVE  \A q \in Path : Range(localFS'[q].chunks) \subseteq Range(localFS[q].chunks) \cup localStore
    BY <2>2, NoChunks DEF CreateFile, MkdirAll
  <2>3. CASE WriteChunk
    <3>1. /\ file \in Path /\ localFS[file] \in Node /\ localFS[file].kind = "file"
          /\ NextChunk \in Chunk
          /\ localFS'[file] = FileNode(Append(localFS[file].chunks, NextChunk))
          /\ \A q \in Path \ {file} : localFS'[q] = localFS[q]
      BY <1>1, <2>3, WriteChunkEffect DEF TypeInv
    <3>2. localFS'[file].chunks = Append(localFS[file].chunks, NextChunk)
      BY <3>1, AppendNode, Zenon
    <3>3. Range(localFS'[file].chunks) \subseteq Range(localFS[file].chunks) \cup {NextChunk}
      <4>1. localFS[file].chunks \in Seq(Chunk)
        BY <3>1 DEF Node
      <4> QED  BY <3>2, <4>1 DEF Range
    <3> QED  BY <2>3, <3>1, <3>3 DEF WriteChunk
  <2> QED  BY <1>2, <2>1, <2>2, <2>3, Zenon DEF Reconstruct, SkipEmpty, WriteFails
<1>3. CASE RemoveDeleted
  BY <1>1, <1>3, NoChunks DEF RemoveDeleted, Tree
<1>4. CASE ~Reconstruct /\ ~RemoveDeleted
  <2>1. localFS' = localFS
    BY <1>4, Zenon DEF Next, SessionStep, vars, SyncStart, IndexLocal, BuildLocal, Connect,
         CallFails, ServeReindex, ServeRebuild, Diff, FetchBatch, Finish, Kill,
         ServerStop, ServerIndex, ServerBuild, EditRemote
  <2> QED  BY <2>1, Zenon
<1> QED  BY <1>2, <1>3, <1>4

-----------------------------------------------------------------------------
(* LocalBacked *)

LEMMA BackedNext ==
  ASSUME ~LocalHidden, TypeInv, TypeInv', LocalBacked, [Next]_vars
  PROVE  LocalBacked'
<1> SUFFICES ASSUME pc' \notin {"idle", "index"},
                    events' \cap {"edit local", "index local"} = {}
             PROVE  AllChunks(localFS)' \subseteq localStore'
  BY Zenon DEF LocalBacked
<1>1. CASE IndexLocal
  <2>1. localStore' = Indexed(localFS, LocalHidden, localStore) /\ localFS' = localFS
    BY <1>1, Zenon DEF IndexLocal, IndexLocalFS, Fault
  <2> QED  BY <2>1, Zenon DEF Indexed
<1>2. CASE ~IndexLocal
  <2>1. ~SyncStart /\ ~EditLocal
    BY Zenon DEF SyncStart, EditLocal, Edited
  <2>2. pc \notin {"idle", "index"}
    <3>1. CASE Reconstruct
      BY <3>1, Zenon DEF Reconstruct, MakeDir, SkipEmpty, CreateFile, WriteChunk, WriteFails, Writing
    <3>2. CASE BuildLocal \/ Connect \/ ServeReindex \/ ServeRebuild \/ Diff
      BY <3>2, Zenon DEF BuildLocal, Connect, ServeReindex, ServeRebuild, Diff
    <3>3. CASE CallFails \/ FetchBatch \/ RemoveDeleted \/ Finish
      BY <3>3, Zenon DEF CallFails, FetchBatch, RemoveDeleted, Finish
    <3>4. CASE Kill
      BY <3>4, Zenon DEF Kill
    <3>5. CASE ServerStop \/ ServerIndex \/ ServerBuild \/ EditRemote \/ UNCHANGED vars
      BY <3>5, Zenon DEF ServerStop, ServerIndex, ServerBuild, EditRemote, vars
    <3> QED  BY <1>2, <2>1, <3>1, <3>2, <3>3, <3>4, <3>5, Zenon DEF Next, SessionStep
  <2>3. AllChunks(localFS) \subseteq localStore
    BY <2>1, <2>2, EventsGrow, Zenon DEF LocalBacked
  <2>4. Tree(localFS) /\ Tree(localFS')
    BY TypeParts, Zenon DEF TypeInv, TypeOK, Tree
  <2>5. AllChunks(localFS') \subseteq localStore
    BY <2>1, <2>3, <2>4, DiskFromStore, ChunksWithin, Zenon
  <2> QED  BY <2>5, StoresGrow, Zenon
<1> QED  BY <1>1, <1>2, Zenon

\* What a session may truncate stays in the store (LocalBacked): the index
\* that syncCmd runs first covers the whole directory, however the session
\* and earlier ones were cut short.  The directory's own name must not start
\* with a dot, for indexDirectory then skips everything.
THEOREM LocalStaysBacked ==
  ASSUME ~LocalHidden
  PROVE  Spec => []LocalBacked
<1>1. Init => LocalBacked
  BY DEF Init, LocalBacked
<1>2. TypeInv /\ TypeInv' /\ LocalBacked /\ [Next]_vars => LocalBacked'
  BY BackedNext
<1>3. Spec => []TypeInv
  BY SessionTypeInv
<1> QED  BY <1>1, <1>2, <1>3, PTL DEF Spec

-----------------------------------------------------------------------------
(* ManifestServed *)

\* Between the two steps of OnManifestRequest the store covers the directory.
ServedInv ==
  /\ ManifestServed
  /\ (pc = "rebuild" /\ events \cap {"edit remote", "index remote", "build remote"} = {})
       => AllChunks(remoteFS) \subseteq remoteStore

LEMMA ServedNext ==
  ASSUME ~RemoteHidden, ServedInv, [Next]_vars
  PROVE  ServedInv'
<1> DEFINE calm == events \cap {"edit remote", "index remote", "build remote"} = {}
           serving == pc \in {"diff", "fetch", "write", "done"}
<1>1. ASSUME calm', pc' = "rebuild"
      PROVE  AllChunks(remoteFS)' \subseteq remoteStore'
  <2>1. CASE ServeReindex
    BY <1>1, <2>1, Zenon DEF ServeReindex, IndexRemoteFS, Fault, Indexed
  <2>2. CASE ~ServeReindex
    <3>1. CASE Reconstruct
      BY <1>1, <3>1, Zenon DEF Reconstruct, MakeDir, SkipEmpty, CreateFile, WriteChunk,
                        WriteFails, Writing, NextNode, Fail
    <3>2. ~Reconstruct => pc = "rebuild" /\ remoteFS' = remoteFS /\ ~SyncStart
      BY <1>1, <2>2, Zenon
      DEF Next, SessionStep, vars, SyncStart, IndexLocal, BuildLocal, Connect, CallFails,
          ServeRebuild, Diff, FetchBatch, RemoveDeleted, Finish, Kill,
          ServerStop, ServerIndex, ServerBuild, EditLocal, EditRemote, Edited, Fail
    <3> QED  BY <1>1, <3>1, <3>2, EventsGrow, StoresGrow, Zenon DEF ServedInv
  <2> QED  BY <2>1, <2>2
<1>2. ASSUME calm', serving'
      PROVE  AllChunks(manifest)' \subseteq remoteStore'
  <2>1. CASE ServeRebuild
    BY <1>2, <2>1, Zenon DEF ServeRebuild, Fault, NoFault, ServedInv
  <2>2. CASE ~ServeRebuild
    <3>1. serving /\ manifest' = manifest /\ ~SyncStart
      <4>1. CASE Reconstruct
        BY <1>2, <4>1, Zenon DEF Reconstruct, MakeDir, SkipEmpty, CreateFile, WriteChunk,
                          WriteFails, Writing, SessionUnchanged, SyncStart
      <4> QED
        BY <1>2, <2>2, <4>1, Zenon
        DEF Next, SessionStep, vars, SyncStart, IndexLocal, BuildLocal, Connect, CallFails,
            ServeReindex, Diff, FetchBatch, RemoveDeleted, Finish, Kill,
            ServerStop, ServerIndex, ServerBuild, EditLocal, EditRemote, Fail
    <3> QED  BY <1>2, <3>1, EventsGrow, StoresGrow, Zenon DEF ServedInv, ManifestServed
  <2> QED  BY <2>1, <2>2
<1> QED  BY <1>1, <1>2, Zenon DEF ServedInv, ManifestServed

\* Every chunk that a manifest names is in the server's store
\* (ManifestServed), across edits, restarts and failures of either side that
\* do not hit the index itself; again for a directory whose name does not
\* start with a dot.
THEOREM ManifestsAreServed ==
  ASSUME ~RemoteHidden
  PROVE  Spec => []ManifestServed
<1>1. Init => ServedInv
  BY DEF Init, ServedInv, ManifestServed
<1>2. ServedInv /\ [Next]_vars => ServedInv'
  BY ServedNext
<1>3. ServedInv => ManifestServed
  BY Zenon DEF ServedInv
<1> QED  BY <1>1, <1>2, <1>3, PTL DEF Spec

-----------------------------------------------------------------------------
(* NewFilesSurvive *)

\* What is still to be removed was in the tree that the session built.
DeletedInv ==
  /\ \A p \in deleted : Present(localTree, p)
  /\ pc \in {"index", "build"} => deleted = {}

LEMMA DeletedNext ==
  ASSUME DeletedInv, [Next]_vars
  PROVE  DeletedInv'
<1>1. CASE Diff
  BY <1>1, Zenon DEF Diff, Deleted, DeletedInv, Present, At
<1>2. CASE SyncStart
  BY <1>2 DEF SyncStart, DeletedInv
<1>3. CASE RemoveDeleted
  BY <1>3 DEF RemoveDeleted, DeletedInv, Present, At
<1>4. CASE BuildLocal
  BY <1>4, Zenon DEF BuildLocal, DeletedInv, Fail
<1>5. CASE Reconstruct
  BY <1>5 DEF Reconstruct, MakeDir, SkipEmpty, CreateFile, WriteChunk, WriteFails, NextNode,
              Writing, Fail, SessionUnchanged, DeletedInv, Present, At
<1>6. CASE \/ IndexLocal \/ Connect \/ CallFails \/ ServeReindex \/ ServeRebuild
           \/ FetchBatch \/ Finish \/ Kill
  <2>1. UNCHANGED <<localTree, deleted>> /\ (pc' \in {"index", "build"} => pc = "index")
    BY <1>6, Zenon DEF IndexLocal, Connect, CallFails, ServeReindex, ServeRebuild, FetchBatch,
                Finish, Kill, Fail
  <2> QED  BY <2>1 DEF DeletedInv, Present, At
<1>7. CASE \/ ServerStop \/ ServerIndex \/ ServerBuild \/ EditLocal \/ EditRemote
           \/ UNCHANGED vars
  <2>1. UNCHANGED <<localTree, deleted, pc>>
    BY <1>7, Zenon DEF ServerStop, ServerIndex, ServerBuild, EditLocal, EditRemote, vars
  <2> QED  BY <2>1 DEF DeletedInv, Present, At
<1> QED  BY <1>1, <1>2, <1>3, <1>4, <1>5, <1>6, <1>7 DEF Next, SessionStep

LEMMA SparesNew ==
  ASSUME TypeInv, DeletedInv, [Next]_vars, edits' = edits,
         NEW p \in Path, ~Present(localTree, p), ~Present(manifest, p)
  PROVE  localFS'[p] = localFS[p]
<1>1. Tree(localFS) /\ Tree(manifest) /\ edits \in Nat
  BY TypeParts DEF TypeInv, Trees, Rest
<1>2. ASSUME NEW q \in Path, Present(manifest, q)
      PROVE  p \notin Ancestors(q) \cup {q}
  BY <1>1, <1>2 DEF Tree, WellFormed, IsDir, Present
<1>3. ~EditLocal
  <2>1. EditLocal => edits' = edits + 1
    BY Zenon DEF EditLocal, Edited
  <2> QED  BY <1>1, <2>1
<1>4. CASE Reconstruct
  <2>1. ASSUME NEW q \in Path, MakeDir(q)  PROVE  localFS'[p] = localFS[p]
    BY <1>2, <2>1 DEF MakeDir, MkdirAll, IsDir, Present
  <2>2. ASSUME NEW q \in Path, CreateFile(q)  PROVE  localFS'[p] = localFS[p]
    <3>1. p \notin Ancestors(q) /\ p # q
      BY <1>2, <2>2 DEF CreateFile, IsFile, Present
    <3>2. Ancestors(q) = Ancestors(Parent(q)) \cup {Parent(q)}
      BY ParentAncestors
    <3> QED  BY <2>2, <3>1, <3>2 DEF CreateFile, MkdirAll
  <2>3. CASE WriteChunk
    <3>1. file \in Path /\ Present(manifest, file)
      BY <2>3 DEF WriteChunk, TypeInv, FileInv, IsFile, Present
    <3> QED  BY <1>1, <1>2, <2>3, <3>1 DEF WriteChunk, Tree
  <2> QED  BY <1>4, <2>1, <2>2, <2>3 DEF Reconstruct, SkipEmpty, WriteFails
<1>5. CASE RemoveDeleted
  BY <1>1, <1>5 DEF RemoveDeleted, DeletedInv, Tree
<1>6. CASE ~Reconstruct /\ ~RemoveDeleted
  <2>1. localFS' = localFS
    BY <1>3, <1>6, Zenon DEF Next, SessionStep, vars, SyncStart, IndexLocal, BuildLocal, Connect,
         CallFails, ServeReindex, ServeRebuild, Diff, FetchBatch, Finish, Kill,
         ServerStop, ServerIndex, ServerBuild, EditRemote
  <2> QED  BY <2>1, Zenon
<1> QED  BY <1>4, <1>5, <1>6

\* No step of the program touches a path that neither its own tree nor the
\* manifest has (NewFilesSurvive): os.MkdirAll only makes directories of the
\* manifest, and os.Remove only takes what the diff found, and only when it
\* is empty.
THEOREM NewFilesAreSpared == Spec => NewFilesSurvive
<1> DEFINE Spares == edits' = edits =>
             \A p \in Path : ~Present(localTree, p) /\ ~Present(manifest, p)
                              => localFS'[p] = localFS[p]
<1>1. Init => DeletedInv
  BY DEF Init, DeletedInv
<1>2. DeletedInv /\ [Next]_vars => DeletedInv'
  BY DeletedNext
<1>3. TypeInv /\ DeletedInv /\ [Next]_vars => [Spares]_vars
  BY SparesNew
<1>4. Spec => [][Spares]_vars
  BY <1>1, <1>2, <1>3, SessionTypeInv, PTL DEF Spec
<1> QED  BY <1>4 DEF NewFilesSurvive

-----------------------------------------------------------------------------
(* The causes of a failure, and what a session that succeeds has done *)

BeforeWrite == {"connect", "reindex", "rebuild", "diff", "fetch"}

\* The chunks still to come are the manifest's, and with them the store has
\* every file that may be written.
Covered ==
  /\ needed \subseteq AllChunks(manifest)
  /\ \A p \in Path : IsFile(manifest, p) /\ ~IsDir(localTree, p)
                      => Range(manifest[p].chunks) \subseteq localStore \cup needed

\* While files are written, the kind of a node is the one it had in either tree.
Kinds ==
  \A p \in Path :
    /\ IsFile(localFS, p) => IsFile(localTree, p) \/ IsFile(manifest, p)
    /\ IsDir(localFS, p) => IsDir(localTree, p) \/ IsDir(manifest, p)

\* The open file is a proper prefix of what it is to be.
Progress ==
  file # NoPath =>
    /\ Len(localFS[file].chunks) < Len(manifest[file].chunks)
    /\ \A j \in 1..Len(localFS[file].chunks) :
         localFS[file].chunks[j] = manifest[file].chunks[j]

\* What holds of a session that nothing has disturbed.
CalmInv ==
  /\ pc \in BeforeWrite => localFS = localTree
  /\ pc \in BeforeWrite \cup {"write"} => AllChunks(localTree) \subseteq localStore
  /\ pc \in {"fetch", "write"} => Covered
  /\ pc = "write" => needed = {} /\ Kinds /\ Progress

CauseInv == FailureHasCause /\ (events = {} => CalmInv)

LEMMA SubtreeWithin ==
  ASSUME NEW m, Tree(m), NEW p \in Path
  PROVE  SubtreeChunks(m, p) \subseteq AllChunks(m)
<1>1. \A q \in Below(m, p) \cup {p} : q \in Path
  BY DEF Below
<1>2. \A q \in Path : Range(At(m, q).chunks) \subseteq AllChunks(m)
  BY AllChunksOf, AtPath
<1> QED  BY <1>1, <1>2 DEF SubtreeChunks

LEMMA CalmDiff ==
  ASSUME TypeInv, CalmInv, Diff
  PROVE  CalmInv'
<1> DEFINE need == NeededChunks(localTree, manifest, localStore)
<1>1. Tree(localTree) /\ Tree(manifest)
  BY TypeParts DEF TypeInv, Trees
<1>2. localFS = localTree /\ AllChunks(localTree) \subseteq localStore /\ pc = "diff"
  BY DEF Diff, CalmInv, BeforeWrite
<1>3. file = NoPath
  BY <1>2 DEF TypeInv, FileInv
<1>4. need \subseteq AllChunks(manifest)
  <2>1. \A p \in Path : SubtreeChunks(manifest, p) \subseteq AllChunks(manifest)
    BY <1>1, SubtreeWithin
  <2> QED  BY <2>1 DEF NeededChunks, Added, Modified
<1>5. ASSUME NEW p \in Path, IsFile(manifest, p), ~IsDir(localTree, p)
      PROVE  Range(manifest[p].chunks) \subseteq localStore \cup need
  <2>1. Range(manifest[p].chunks) \subseteq AllChunks(localTree) \cup localStore \cup need
    BY <1>1, <1>5, DiffComplete
  <2> QED  BY <1>2, <2>1
<1> HIDE DEF need
<1>6. /\ needed' = need /\ pc' = IF need = {} THEN "write" ELSE "fetch"
      /\ UNCHANGED <<localFS, localStore, localTree, manifest, file>>
  BY DEF Diff, need
<1>7. Covered'
  BY <1>4, <1>5, <1>6 DEF Covered, IsFile, IsDir, At
<1>8. Kinds' /\ Progress'
  BY <1>2, <1>3, <1>6 DEF Kinds, Progress
<1> QED  BY <1>2, <1>6, <1>7, <1>8 DEF CalmInv, BeforeWrite

LEMMA CalmFetch ==
  ASSUME TypeInv, ServedInv, CalmInv, events = {}, events' = {}, FetchBatch
  PROVE  CalmInv'
<1>1. /\ localFS = localTree /\ AllChunks(localTree) \subseteq localStore
      /\ pc = "fetch" /\ Covered
  BY DEF FetchBatch, CalmInv, BeforeWrite
<1>2. file = NoPath
  BY <1>1 DEF TypeInv, FileInv
<1>3. needed \subseteq remoteStore
  BY <1>1 DEF Covered, ServedInv, ManifestServed
<1>4. PICK batch \in SUBSET needed :
         localStore' = localStore \cup batch /\ needed' = needed \ batch
  <2>1. PICK batch \in (SUBSET needed) \ {{}} :
          localStore' = localStore \cup (batch \cap remoteStore) /\ needed' = needed \ batch
    BY DEF FetchBatch, Fault
  <2> QED  BY <1>3, <2>1
<1>5. /\ pc' = IF needed' = {} THEN "write" ELSE "fetch"
      /\ UNCHANGED <<localFS, localTree, manifest, file>>
  BY DEF FetchBatch
<1>6. Covered'
  BY <1>1, <1>4, <1>5 DEF Covered, IsFile, IsDir, At
<1>7. Kinds' /\ Progress'
  BY <1>1, <1>2, <1>5 DEF Kinds, Progress
<1> QED  BY <1>1, <1>4, <1>5, <1>6, <1>7 DEF CalmInv, BeforeWrite

\* What the steps of reconstructFiles keep.
LEMMA CalmWrite ==
  ASSUME pc = "write", CalmInv, Kinds', Progress', pc' = "write",
         UNCHANGED <<localStore, localTree, manifest, needed>>
  PROVE  CalmInv'
<1>1. Covered /\ needed = {} /\ AllChunks(localTree) \subseteq localStore
  BY DEF CalmInv
<1>2. Covered'
  BY <1>1 DEF Covered, IsFile, IsDir, At
<1> QED  BY <1>1, <1>2 DEF CalmInv, BeforeWrite

\* A proper prefix that grows by the next element is a prefix, or all.
LEMMA GrowPrefix ==
  ASSUME NEW S, NEW all \in Seq(S), NEW done \in Seq(S), Len(done) < Len(all),
         \A j \in 1..Len(done) : done[j] = all[j],
         NEW next, next = Append(done, all[Len(done) + 1])
  PROVE  /\ \A j \in 1..Len(next) : next[j] = all[j]
         /\ next = all \/ Len(next) < Len(all)
<1>1. all[Len(done) + 1] \in S
  OBVIOUS
<1>2. next \in Seq(S) /\ Len(next) = Len(done) + 1
  BY <1>1
<1>3. \A j \in 1..Len(next) : next[j] = all[j]
  BY <1>1, <1>2
<1>4. CASE Len(next) = Len(all)
  BY <1>2, <1>3, <1>4
<1>5. CASE Len(next) # Len(all)
  BY <1>2, <1>3, <1>5
<1> QED  BY <1>3, <1>4, <1>5

\* The open file, and what it is to be.
LEMMA OpenFile ==
  ASSUME Tree(localFS), Tree(manifest), FileInv, Progress, file # NoPath
  PROVE  /\ file \in Path /\ IsFile(manifest, file)
         /\ localFS[file] \in Node /\ localFS[file].kind = "file"
         /\ localFS[file].chunks \in Seq(Chunk) /\ manifest[file].chunks \in Seq(Chunk)
         /\ manifest[file] = FileNode(manifest[file].chunks)
         /\ Len(localFS[file].chunks) + 1 \in 1..Len(manifest[file].chunks)
<1>1. file \in Path /\ IsFile(manifest, file) /\ localFS[file].kind = "file"
  BY DEF FileInv
<1>2. localFS[file] \in Node /\ manifest[file] \in Node /\ manifest[file].kind = "file"
  BY <1>1, AtPath DEF Tree, IsFile
<1>3. localFS[file].chunks \in Seq(Chunk) /\ manifest[file].chunks \in Seq(Chunk)
  BY <1>2 DEF Node
<1>4. manifest[file] = FileNode(manifest[file].chunks)
  BY <1>2 DEF Node, FileNode
<1>5. Len(localFS[file].chunks) < Len(manifest[file].chunks)
  BY DEF Progress
<1>6. Len(localFS[file].chunks) + 1 \in 1..Len(manifest[file].chunks)
  BY <1>3, <1>5
<1> QED  BY <1>1, <1>2, <1>3, <1>4, <1>6

LEMMA WriteChunkKeeps ==
  ASSUME Tree(localFS), Tree(manifest), localStore \subseteq Chunk, FileInv, Progress,
         WriteChunk
  PROVE  /\ \A q \in Path : localFS'[q].kind = localFS[q].kind
         /\ Progress'
<1> DEFINE done == localFS[file].chunks
           all == manifest[file].chunks
           next == Append(done, all[Len(done) + 1])
<1>1. file # NoPath /\ manifest' = manifest
      /\ (file' = NoPath \/ (file' = file /\ localFS'[file] # manifest[file]))
  BY DEF WriteChunk, SessionUnchanged
<1>2. /\ file \in Path /\ localFS[file] \in Node /\ localFS[file].kind = "file"
      /\ done \in Seq(Chunk) /\ all \in Seq(Chunk)
      /\ manifest[file] = FileNode(all) /\ Len(done) + 1 \in 1..Len(all)
  BY <1>1, OpenFile
<1>3. /\ NextChunk \in Chunk /\ localFS'[file] = FileNode(next)
      /\ \A q \in Path \ {file} : localFS'[q] = localFS[q]
  BY WriteChunkEffect DEF NextChunk
<1>4. \A j \in 1..Len(done) : done[j] = all[j]
  BY <1>1 DEF Progress
<1>5. NextChunk = all[Len(done) + 1]
  BY DEF NextChunk
<1> HIDE DEF done, all
<1>6. Len(done) < Len(all)
  BY <1>2
<1>7. /\ \A j \in 1..Len(next) : next[j] = all[j]
      /\ next = all \/ Len(next) < Len(all)
  BY <1>2, <1>4, <1>6, GrowPrefix
<1> HIDE DEF next
<1>8. FileNode(next).kind = "file" /\ FileNode(next).chunks = next
  BY DEF FileNode
<1>9. \A q \in Path : localFS'[q].kind = localFS[q].kind
  BY <1>2, <1>3, <1>8
<1>10. Progress'
  <2>1. SUFFICES ASSUME file' = file, localFS'[file] # manifest[file]
                 PROVE  Progress'
    BY <1>1 DEF Progress
  <2>2. localFS'[file].chunks = next /\ next # all
    BY <1>2, <1>3, <1>8, <2>1
  <2> QED  BY <1>1, <1>7, <2>1, <2>2 DEF Progress, all
<1> QED  BY <1>9, <1>10

LEMMA CalmReconstruct ==
  ASSUME TypeInv, CalmInv, Reconstruct, events' = {}
  PROVE  IF pc' = "failed" THEN Conflict(localTree, manifest) ELSE CalmInv'
<1>1. Tree(localFS) /\ Tree(manifest) /\ Tree(localTree) /\ localStore \subseteq Chunk
  BY TypeParts DEF TypeInv, Trees, Rest
<1>2. pc = "write"
  BY DEF Reconstruct, MakeDir, SkipEmpty, CreateFile, WriteChunk, WriteFails, Writing
<1>3. Kinds /\ Progress /\ Covered /\ needed = {}
  BY <1>2 DEF CalmInv
<1>4. ASSUME NEW p \in Path, Present(manifest, p)
      PROVE  \A q \in Ancestors(p) : q = Root \/ (q \in Path /\ IsDir(manifest, q))
  BY <1>1, <1>4, AncestorFacts DEF Tree, WellFormed
<1>5. ASSUME NEW p \in Path, MakeDir(p)
      PROVE  CalmInv'
  <2>1. \A q \in Path : localFS'[q] = IF q \in Ancestors(p) \cup {p} THEN DirNode ELSE localFS[q]
    BY <1>5 DEF MakeDir, MkdirAll
  <2>2. IsDir(manifest, p) /\ \A q \in Ancestors(p) : q = Root \/ IsDir(manifest, q)
    BY <1>4, <1>5 DEF MakeDir, IsDir, Present
  <2>3. /\ UNCHANGED <<pc, localStore, localTree, manifest, needed, file>> /\ file = NoPath
    BY <1>5 DEF MakeDir, NextNode, SessionUnchanged, Writing
  <2>4. Kinds'
    <3>1. ASSUME NEW q \in Path
          PROVE  /\ IsFile(localFS', q) => IsFile(localTree, q) \/ IsFile(manifest, q)
                 /\ IsDir(localFS', q) => IsDir(localTree, q) \/ IsDir(manifest, q)
      <4>1. CASE q \in Ancestors(p) \cup {p}
        <5>1. q # Root
          BY AncestorFacts
        <5> QED  BY <2>1, <2>2, <4>1, <5>1, AtPath, NodeFacts DEF IsFile
      <4>2. CASE q \notin Ancestors(p) \cup {p}
        BY <1>3, <2>1, <4>2, AtPath DEF Kinds, IsFile, IsDir
      <4> QED  BY <4>1, <4>2
    <3> QED  BY <2>3, <3>1 DEF Kinds, IsFile, IsDir, At
  <2> QED  BY <1>2, <2>3, <2>4, CalmWrite DEF Progress
<1>6. ASSUME NEW p \in Path, SkipEmpty(p)
      PROVE  CalmInv'
  <2>1. /\ UNCHANGED <<localFS, pc, localStore, localTree, manifest, needed, file>>
    BY <1>6 DEF SkipEmpty, NextNode, SessionUnchanged
  <2>2. Kinds' /\ Progress'
    BY <1>3, <2>1 DEF Kinds, Progress, IsFile, IsDir, At
  <2> QED  BY <1>2, <2>1, <2>2, CalmWrite
<1>7. ASSUME NEW p \in Path, CreateFile(p)
      PROVE  CalmInv'
  <2>1. /\ localFS'[p] = EmptyFile
        /\ \A q \in Path \ {p} : localFS'[q] = IF q \in Ancestors(p) THEN DirNode ELSE localFS[q]
    BY <1>7, ParentAncestors DEF CreateFile, MkdirAll
  <2>2. IsFile(manifest, p) /\ \A q \in Ancestors(p) : q = Root \/ IsDir(manifest, q)
    BY <1>4, <1>7 DEF CreateFile, IsFile, Present
  <2>3. UNCHANGED <<pc, localStore, localTree, manifest, needed>> /\ file' = p
    BY <1>7 DEF CreateFile, SessionUnchanged
  <2>4. Kinds'
    <3>1. ASSUME NEW q \in Path
          PROVE  /\ IsFile(localFS', q) => IsFile(localTree, q) \/ IsFile(manifest, q)
                 /\ IsDir(localFS', q) => IsDir(localTree, q) \/ IsDir(manifest, q)
      <4>1. CASE q = p
        BY <2>1, <2>2, <4>1, AtPath, NodeFacts DEF IsDir
      <4>2. CASE q # p /\ q \in Ancestors(p)
        <5>1. q # Root
          BY AncestorFacts
        <5> QED  BY <2>1, <2>2, <4>2, <5>1, AtPath, NodeFacts DEF IsFile
      <4>3. CASE q # p /\ q \notin Ancestors(p)
        BY <1>3, <2>1, <4>3, AtPath DEF Kinds, IsFile, IsDir
      <4> QED  BY <4>1, <4>2, <4>3
    <3> QED  BY <2>3, <3>1 DEF Kinds, IsFile, IsDir, At
  <2>5. Progress'
    <3>1. manifest[p] \in Node /\ manifest[p].kind = "file" /\ manifest[p] # EmptyFile
      BY <1>1, <1>7, AtPath DEF CreateFile, IsFile, Tree
    <3>2. manifest[p].chunks \in Seq(Chunk) /\ manifest[p].chunks # <<>>
      BY <3>1 DEF Node, EmptyFile, FileNode
    <3>3. Len(manifest[p].chunks) > 0
      BY <3>2
    <3>4. localFS'[p].chunks = <<>>
      BY <2>1 DEF EmptyFile, FileNode
    <3> QED  BY <2>3, <3>3, <3>4 DEF Progress
  <2> QED  BY <1>2, <2>3, <2>4, <2>5, CalmWrite
<1>8. CASE WriteChunk
  <2>1. (\A q \in Path : localFS'[q].kind = localFS[q].kind) /\ Progress'
    BY <1>1, <1>3, <1>8, WriteChunkKeeps DEF TypeInv
  <2>2. UNCHANGED <<pc, localStore, localTree, manifest, needed>>
    BY <1>8 DEF WriteChunk, NextNode, SessionUnchanged
  <2>3. Kinds'
    BY <1>3, <2>1, <2>2, AtPath DEF Kinds, IsFile, IsDir
  <2> QED  BY <1>2, <2>1, <2>2, <2>3, CalmWrite
<1>9. CASE WriteFails
  <2>1. pc' = "failed"
    BY <1>9 DEF WriteFails, Fail
  <2>2. SUFFICES Conflict(localTree, manifest)
    BY <2>1
  <2>3. ASSUME NEW p \in Path, Writing(p), IsDir(manifest, p), ~CanMkdirAll(localFS, p)
        PROVE  Conflict(localTree, manifest)
    <3>1. PICK q \in Ancestors(p) \cup {p} : IsFile(localFS, q)
      BY <2>3 DEF CanMkdirAll
    <3>2. q \in Path /\ IsDir(manifest, q)
      BY <1>4, <2>3, <3>1, NodeFacts DEF IsFile, IsDir, Present, At
    <3>3. IsFile(localTree, q)
      BY <1>3, <3>1, <3>2 DEF Kinds, IsFile, IsDir
    <3> QED  BY <3>2, <3>3 DEF Conflict
  <2>4. ASSUME NEW p \in Path, Writing(p), IsFile(manifest, p), manifest[p] # EmptyFile,
               ~CanCreate(p)
        PROVE  Conflict(localTree, manifest)
    <3>1. CASE IsDir(localFS, p)
      <4>1. IsDir(localTree, p)
        BY <1>3, <2>4, <3>1 DEF Kinds, IsFile, IsDir
      <4> QED  BY <2>4, <4>1 DEF Conflict
    <3>2. CASE ~IsDir(localFS, p)
      <4>1. PICK q \in Ancestors(p) : IsFile(localFS, q)
        BY <2>4, <3>2, ParentAncestors DEF CanCreate, CanMkdirAll
      <4>2. q \in Path /\ IsDir(manifest, q)
        BY <1>4, <2>4, <4>1, NodeFacts DEF IsFile, Present, At
      <4>3. IsFile(localTree, q)
        BY <1>3, <4>1, <4>2 DEF Kinds, IsFile, IsDir
      <4> QED  BY <4>2, <4>3 DEF Conflict
    <3> QED  BY <3>1, <3>2
  <2>5. ASSUME file # NoPath, NextChunk \notin localStore
        PROVE  Conflict(localTree, manifest)
    <3>1. /\ file \in Path /\ IsFile(manifest, file) /\ manifest[file].chunks \in Seq(Chunk)
          /\ Len(localFS[file].chunks) + 1 \in 1..Len(manifest[file].chunks)
      BY <1>1, <1>3, <2>5, OpenFile DEF TypeInv
    <3>2. NextChunk \in Range(manifest[file].chunks)
      BY <3>1 DEF NextChunk, Range
    <3>3. IsDir(localTree, file)
      BY <1>3, <2>5, <3>1, <3>2 DEF Covered
    <3>4. manifest[file] # EmptyFile
      BY <3>1 DEF EmptyFile, FileNode
    <3> QED  BY <3>1, <3>3, <3>4 DEF Conflict
  <2> QED  BY <1>9, <2>3, <2>4, <2>5 DEF WriteFails, Fault
<1> QED
  <2>1. ~WriteFails => pc' # "failed"
    BY <1>2 DEF Reconstruct, MakeDir, SkipEmpty, CreateFile, WriteChunk, NextNode
  <2> QED  BY <1>5, <1>6, <1>7, <1>8, <1>9, <2>1 DEF Reconstruct

LEMMA CalmRemove ==
  ASSUME TypeInv, CalmInv, RemoveDeleted
  PROVE  CalmInv'
<1>1. Tree(localFS) /\ deleted \subseteq Path
  BY TypeParts DEF TypeInv, Trees, Rest
<1>2. Kinds /\ pc = "write" /\ file = NoPath
  BY DEF RemoveDeleted, CalmInv
<1>3. UNCHANGED <<pc, localStore, localTree, manifest, needed, file>>
  BY DEF RemoveDeleted
<1>4. \A q \in Path : localFS'[q] = localFS[q] \/ localFS'[q] = NoNode
  BY <1>1 DEF RemoveDeleted, Tree
<1>5. Kinds'
  BY <1>2, <1>3, <1>4, AtPath, NodeFacts DEF Kinds, IsFile, IsDir
<1> QED  BY <1>2, <1>3, <1>5, CalmWrite DEF Progress

\* Steps that change nothing of what a calm session relies on.
LEMMA CalmUnchanged ==
  ASSUME CalmInv, UNCHANGED <<localFS, localStore, localTree, manifest, needed, file>>,
         \/ pc' = pc
         \/ pc \in BeforeWrite /\ pc' \in {"reindex", "rebuild"}
  PROVE  CalmInv'
<1>1. pc' \in BeforeWrite => pc \in BeforeWrite
  BY DEF BeforeWrite
<1>2. pc' \in {"fetch", "write"} => pc' = pc
  BY DEF BeforeWrite
<1>3. Covered => Covered'
  BY DEF Covered, IsFile, IsDir, At
<1>4. Kinds /\ Progress => Kinds' /\ Progress'
  BY DEF Kinds, Progress, IsFile, IsDir, At
<1> QED  BY <1>1, <1>2, <1>3, <1>4 DEF CalmInv

LEMMA CauseNext ==
  ASSUME TypeInv, LocalBacked, ServedInv, CauseInv, [Next]_vars
  PROVE  CauseInv'
<1>1. CASE events' # {}
  BY <1>1 DEF CauseInv, FailureHasCause
<1>2. CASE SyncStart
  BY <1>2 DEF SyncStart, CauseInv, CalmInv, FailureHasCause, BeforeWrite
<1>3. ASSUME events' = {}, ~SyncStart
      PROVE  CauseInv'
  <2>1. events = {} /\ CalmInv
    BY <1>3, EventsGrow DEF CauseInv
  <2>2. CASE IndexLocal \/ Finish \/ Kill
    BY <2>2 DEF IndexLocal, Finish, Kill, CauseInv, CalmInv, FailureHasCause, BeforeWrite
  <2>3. CASE BuildLocal
    <3>1. /\ pc = "build" /\ localTree' = localFS /\ pc' = "connect"
          /\ UNCHANGED <<localFS, localStore>>
      BY <1>3, <2>3, Zenon DEF BuildLocal, Fault
    <3>2. AllChunks(localFS) \subseteq localStore
      BY <2>1, <3>1 DEF LocalBacked
    <3> QED  BY <3>1, <3>2 DEF CauseInv, CalmInv, FailureHasCause, BeforeWrite
  <2>4. CASE Diff
    <3>1. pc' # "failed"
      BY <2>4 DEF Diff
    <3> QED  BY <2>1, <2>4, <3>1, CalmDiff DEF CauseInv, FailureHasCause
  <2>5. CASE FetchBatch
    <3>1. pc' # "failed"
      BY <2>5 DEF FetchBatch
    <3> QED  BY <1>3, <2>1, <2>5, <3>1, CalmFetch DEF CauseInv, FailureHasCause
  <2>6. CASE Reconstruct
    <3>1. UNCHANGED <<localTree, manifest>>
      BY <2>6 DEF Reconstruct, MakeDir, SkipEmpty, CreateFile, WriteChunk, WriteFails,
                  SessionUnchanged
    <3>2. CASE pc' = "failed"
      BY <1>3, <2>1, <2>6, <3>1, <3>2, CalmReconstruct
      DEF CauseInv, CalmInv, FailureHasCause, BeforeWrite, Conflict, IsFile, IsDir, At
    <3>3. CASE pc' # "failed"
      BY <1>3, <2>1, <2>6, <3>3, CalmReconstruct DEF CauseInv, FailureHasCause
    <3> QED  BY <3>2, <3>3
  <2>7. CASE RemoveDeleted
    <3>1. pc' # "failed"
      BY <2>7 DEF RemoveDeleted
    <3> QED  BY <2>1, <2>7, <3>1, CalmRemove DEF CauseInv, FailureHasCause
  <2>8. CASE Connect
    <3>1. /\ UNCHANGED <<localFS, localStore, localTree, manifest, needed, file>>
          /\ pc = "connect" /\ pc' = "reindex"
      BY <2>8 DEF Connect
    <3> QED  BY <2>1, <3>1, CalmUnchanged DEF CauseInv, FailureHasCause, BeforeWrite
  <2>9. CASE ServeReindex
    <3>1. /\ UNCHANGED <<localFS, localStore, localTree, manifest, needed, file>>
          /\ pc = "reindex" /\ pc' = "rebuild"
      BY <2>9 DEF ServeReindex
    <3> QED  BY <2>1, <3>1, CalmUnchanged DEF CauseInv, FailureHasCause, BeforeWrite
  <2>10. CASE ServeRebuild
    BY <2>1, <2>10, Zenon DEF ServeRebuild, CauseInv, CalmInv, FailureHasCause, BeforeWrite
  <2>11. CASE ServerStop \/ ServerIndex \/ ServerBuild \/ UNCHANGED vars
    <3>1. UNCHANGED <<localFS, localStore, localTree, manifest, needed, file, pc>>
      BY <2>11, Zenon DEF ServerStop, ServerIndex, ServerBuild, vars
    <3>2. FailureHasCause'
      BY <2>1, <3>1, Zenon DEF CauseInv, FailureHasCause, Conflict, IsFile, IsDir, At
    <3> QED  BY <2>1, <3>1, <3>2, CalmUnchanged DEF CauseInv
  <2>12. ~(CallFails \/ EditLocal \/ EditRemote)
    BY <1>3, Zenon DEF CallFails, EditLocal, EditRemote, Edited, Fault
  <2> QED
    BY <1>3, <2>2, <2>3, <2>4, <2>5, <2>6, <2>7, <2>8, <2>9, <2>10, <2>11, <2>12
    DEF Next, SessionStep
<1> QED  BY <1>1, <1>2, <1>3

\* A session that nothing disturbs fails only for a conflict of kinds
\* (FailureHasCause): DiffTrees asks for every chunk that reconstructFiles
\* reads, the server has what its manifest names, and the only other errors
\* of reconstructFiles are a file in the place of a directory or a directory
\* in the place of a file.  Earlier sessions may have been cut short anywhere.
THEOREM FailuresHaveCauses ==
  ASSUME ~LocalHidden, ~RemoteHidden
  PROVE  Spec => []FailureHasCause
<1>1. Init => CauseInv
  BY DEF Init, CauseInv, CalmInv, FailureHasCause, BeforeWrite
<1>2. TypeInv /\ LocalBacked /\ ServedInv /\ CauseInv /\ [Next]_vars => CauseInv'
  BY CauseNext
<1>3. CauseInv => FailureHasCause
  BY DEF CauseInv
<1>4. Init => ServedInv
  BY DEF Init, ServedInv, ManifestServed
<1>5. ServedInv /\ [Next]_vars => ServedInv'
  BY ServedNext
<1> QED  BY <1>1, <1>2, <1>3, <1>4, <1>5, SessionTypeInv, LocalStaysBacked, PTL DEF Spec

-----------------------------------------------------------------------------
(* A session that succeeds has mirrored the manifest *)

\* Nothing happened that may keep a session from mirroring the manifest.
Unhindered == events \cap {"edit local", "remove"} = {}

\* Every path but the open file's is as the manifest has it; or it is as it was,
\* and its turn is yet to come, or it is an empty file, or not in the manifest.
Written ==
  \A p \in Path : p # file =>
    \/ localFS[p] = manifest[p]
    \/ /\ localFS[p] = localTree[p]
       /\ p \in todo \/ manifest[p] = EmptyFile \/ ~Present(manifest, p)

\* What was removed, and was no directory with something in it, is gone.
Removed ==
  /\ deleted \subseteq Deleted(localTree, manifest)
  /\ \A p \in Deleted(localTree, manifest) \ deleted :
       Below(localTree, p) = {} => localFS[p] = NoNode

MirrorInv ==
  Unhindered =>
    /\ pc \in BeforeWrite => localFS = localTree
    /\ pc \in {"fetch", "write"} => Written /\ Removed
    /\ pc = "done" => Mirrored

LEMMA AbsentNode ==
  ASSUME NEW m, Tree(m), NEW p \in Path
  PROVE  /\ ~Present(m, p) <=> m[p] = NoNode
         /\ IsDir(m, p) <=> m[p] = DirNode
<1>1. At(m, p) = m[p] /\ m[p] \in Node
  BY AtPath DEF Tree
<1> QED  BY <1>1 DEF Present, IsDir, Node, NoNode, DirNode

LEMMA MirrorDiff ==
  ASSUME TypeInv, Diff, localFS = localTree
  PROVE  Written' /\ Removed'
<1>1. /\ UNCHANGED <<localFS, localTree, manifest>>
      /\ deleted' = Deleted(localTree, manifest)
      /\ todo' = {p \in Path : Present(manifest, p)}
  BY DEF Diff
<1>2. Written'
  BY <1>1 DEF Written, Present, At
<1>3. Deleted(localTree, manifest)' = Deleted(localTree, manifest)
  BY <1>1, Zenon
<1>4. Removed'
  BY <1>1, <1>3 DEF Removed
<1> QED  BY <1>2, <1>4

\* What is removed depends on the two trees of the session only.
LEMMA RemovedKept ==
  ASSUME Removed, UNCHANGED <<localTree, manifest, deleted>>,
         \A p \in Deleted(localTree, manifest) : localFS'[p] = localFS[p]
  PROVE  Removed'
<1>1. Deleted(localTree, manifest)' = Deleted(localTree, manifest)
  BY Zenon
<1>2. ASSUME NEW p
      PROVE  Below(localTree, p)' = Below(localTree, p)
  BY DEF Below, Present, At
<1> QED  BY <1>1, <1>2 DEF Removed

\* reconstructFiles touches what the manifest has, and leaves it as it is there.
LEMMA MirrorReconstruct ==
  ASSUME TypeInv, Reconstruct, Written, Removed, pc' # "failed"
  PROVE  Written' /\ Removed'
<1>1. Tree(localFS) /\ Tree(manifest) /\ Tree(localTree) /\ localStore \subseteq Chunk
      /\ file \in Path \cup {NoPath} /\ FileInv
  BY TypeParts DEF TypeInv, Trees, Rest
<1>2. UNCHANGED <<localTree, manifest, deleted>>
  BY DEF Reconstruct, MakeDir, SkipEmpty, CreateFile, WriteChunk, WriteFails, SessionUnchanged
<1>3. ASSUME NEW p \in Path, Present(manifest, p), NEW q \in Ancestors(p) \cap Path
      PROVE  manifest[q] = DirNode
  BY <1>1, <1>3, AbsentNode DEF Tree, WellFormed
<1>4. ASSUME NEW p \in Path, Present(manifest, p)
      PROVE  p \notin Deleted(localTree, manifest)
  BY <1>4 DEF Deleted
<1>5. ASSUME NEW p \in Path, Present(manifest, p), NEW q \in Ancestors(p) \cap Path
      PROVE  Present(manifest, q)
  BY <1>1, <1>5 DEF Tree, WellFormed, IsDir, Present
<1>6. ASSUME NEW p \in Path, MakeDir(p)
      PROVE  Written' /\ Removed'
  <2>1. \A q \in Path : localFS'[q] = IF q \in Ancestors(p) \cup {p} THEN DirNode ELSE localFS[q]
    BY <1>6 DEF MakeDir, MkdirAll
  <2>2. Present(manifest, p) /\ manifest[p] = DirNode
    BY <1>1, <1>6, AbsentNode DEF MakeDir, IsDir, Present
  <2>3. file' = file /\ todo' = todo \ {p}
    BY <1>6 DEF MakeDir, NextNode
  <2>4. \A q \in Path : q \in Ancestors(p) \cup {p} => localFS'[q] = manifest[q]
    BY <1>3, <2>1, <2>2
  <2>5. Written'
    BY <1>2, <2>1, <2>3, <2>4 DEF Written, Present, At
  <2>6. \A q \in Deleted(localTree, manifest) : localFS'[q] = localFS[q]
    BY <1>4, <1>5, <2>1, <2>2 DEF Deleted
  <2> QED  BY <1>2, <2>5, <2>6, RemovedKept
<1>7. ASSUME NEW p \in Path, SkipEmpty(p)
      PROVE  Written' /\ Removed'
  <2>1. manifest[p] = EmptyFile /\ UNCHANGED <<localFS, file>> /\ todo' = todo \ {p}
    BY <1>7 DEF SkipEmpty, NextNode
  <2>2. Written'
    BY <1>2, <2>1 DEF Written, Present, At
  <2> QED  BY <1>2, <2>1, <2>2, RemovedKept
<1>8. ASSUME NEW p \in Path, CreateFile(p)
      PROVE  Written' /\ Removed'
  <2>1. \A q \in Path \ {p} : localFS'[q] = IF q \in Ancestors(p) THEN DirNode ELSE localFS[q]
    BY <1>8, ParentAncestors DEF CreateFile, MkdirAll
  <2>2. Present(manifest, p) /\ file = NoPath
    BY <1>8 DEF CreateFile, Writing, IsFile, Present
  <2>3. file' = p /\ todo' = todo
    BY <1>8 DEF CreateFile
  <2>4. \A q \in Path \ {p} : q \in Ancestors(p) => localFS'[q] = manifest[q]
    BY <1>3, <2>1, <2>2
  <2>5. NoPath \notin Path
    BY SessionAssumption
  <2>6. Written'
    BY <1>2, <2>1, <2>2, <2>3, <2>4, <2>5 DEF Written, Present, At
  <2>7. \A q \in Deleted(localTree, manifest) : localFS'[q] = localFS[q]
    BY <1>4, <1>5, <2>1, <2>2, Zenon DEF Deleted
  <2> QED  BY <1>2, <2>6, <2>7, RemovedKept
<1>9. CASE WriteChunk
  <2>1. file \in Path /\ \A q \in Path \ {file} : localFS'[q] = localFS[q]
    BY <1>1, <1>9, WriteChunkEffect
  <2>2. \/ file' = NoPath /\ todo' = todo \ {file} /\ localFS'[file] = manifest[file]
        \/ file' = file /\ todo' = todo
    BY <1>9 DEF WriteChunk, NextNode
  <2>3. Written'
    BY <1>2, <2>1, <2>2 DEF Written, Present, At
  <2>4. Present(manifest, file)
    BY <1>1, <1>9 DEF WriteChunk, FileInv, IsFile, Present
  <2>5. \A q \in Deleted(localTree, manifest) : localFS'[q] = localFS[q]
    BY <1>4, <2>1, <2>4 DEF Deleted
  <2> QED  BY <1>2, <2>3, <2>5, RemovedKept
<1>10. ~WriteFails
  BY DEF WriteFails, Fail
<1> QED  BY <1>6, <1>7, <1>8, <1>9, <1>10 DEF Reconstruct

LEMMA MirrorRemove ==
  ASSUME TypeInv, RemoveDeleted, Written, Removed, Unhindered'
  PROVE  Written' /\ Removed'
<1>1. Tree(localFS) /\ Tree(manifest) /\ Tree(localTree)
  BY TypeParts DEF TypeInv, Trees
<1>2. UNCHANGED <<localTree, manifest, todo, file>> /\ file = NoPath /\ todo = {}
  BY DEF RemoveDeleted
<1>3. PICK p \in deleted :
         /\ localFS' = IF Below(localFS, p) = {} THEN [localFS EXCEPT ![p] = NoNode] ELSE localFS
         /\ deleted' = deleted \ {p}
  BY Zenon DEF RemoveDeleted, Fault, Unhindered
<1>4. p \in Deleted(localTree, manifest) /\ p \in Path /\ ~Present(manifest, p)
  BY DEF Removed, Deleted
<1>5. manifest[p] = NoNode
  BY <1>1, <1>4, AbsentNode
<1>6. \A q \in Path \ {p} : localFS'[q] = localFS[q]
  BY <1>1, <1>3 DEF Tree
<1>7. localFS'[p] = IF Below(localFS, p) = {} THEN NoNode ELSE localFS[p]
  BY <1>1, <1>3, <1>4 DEF Tree
<1>8. Written'
  BY <1>2, <1>5, <1>6, <1>7 DEF Written, Present, At
<1>9. Below(localTree, p) = {} => localFS'[p] = NoNode
  <2>1. ASSUME Below(localTree, p) = {}, NEW q \in Below(localFS, p)
        PROVE  FALSE
    <3>1. q \in Path /\ p \in Ancestors(q) /\ Present(localFS, q) /\ ~Present(localTree, q)
      BY <2>1 DEF Below
    <3>2. ~Present(manifest, q)
      BY <1>1, <1>4, <3>1 DEF Tree, WellFormed, IsDir, Present
    <3>3. localFS[q] = manifest[q] \/ localFS[q] = localTree[q]
      BY <1>2, <3>1, SessionAssumption DEF Written
    <3> QED  BY <3>1, <3>2, <3>3, AtPath DEF Present
  <2> QED  BY <1>7, <2>1
<1>10. Deleted(localTree, manifest)' = Deleted(localTree, manifest)
  BY <1>2 DEF Deleted, Reached, Descends, NodeHash, Below, Present, IsFile, At
<1>11. ASSUME NEW q
       PROVE  Below(localTree, q)' = Below(localTree, q)
  BY <1>2 DEF Below, Present, At
<1>12. Removed'
  <2>1. deleted' \subseteq Deleted(localTree, manifest)
    BY <1>3 DEF Removed
  <2>2. ASSUME NEW q \in Deleted(localTree, manifest), q \notin deleted', Below(localTree, q) = {}
        PROVE  localFS'[q] = NoNode
    <3>1. CASE q = p
      BY <1>9, <2>2, <3>1
    <3>2. CASE q # p
      <4>1. q \notin deleted /\ q \in Path
        BY <1>3, <2>2, <3>2 DEF Deleted
      <4>2. localFS[q] = NoNode
        BY <2>2, <4>1 DEF Removed
      <4> QED  BY <1>6, <3>2, <4>1, <4>2
    <3> QED  BY <3>1, <3>2
  <2> QED  BY <1>10, <1>11, <2>1, <2>2 DEF Removed
<1> QED  BY <1>8, <1>12

LEMMA LeftoverKept ==
  ASSUME UNCHANGED <<localTree, manifest>>, NEW p, Leftover(p)
  PROVE  Leftover(p)'
<1>1. Deleted(localTree, manifest)' = Deleted(localTree, manifest)
  BY Zenon
<1>2. ASSUME NEW q
      PROVE  Below(localTree, q)' = Below(localTree, q)
  BY Zenon
<1> QED  BY <1>1, <1>2 DEF Leftover

\* What is left that the manifest does not have is in a directory that was not
\* empty when it was to be removed.
LEMMA MirrorFinish ==
  ASSUME TypeInv, Finish, Written, Removed
  PROVE  Mirrored'
<1>1. Tree(localFS) /\ Tree(manifest) /\ Tree(localTree)
  BY TypeParts DEF TypeInv, Trees
<1>2. UNCHANGED <<localFS, localTree, manifest>> /\ file = NoPath /\ todo = {} /\ deleted = {}
  BY DEF Finish, planVars
<1>3. ASSUME NEW p \in Path, localFS[p] # manifest[p]
      PROVE  localFS[p] = localTree[p] /\ (manifest[p] = EmptyFile \/ Leftover(p))
  <2>1. localFS[p] = localTree[p] /\ (manifest[p] = EmptyFile \/ ~Present(manifest, p))
    BY <1>2, <1>3, SessionAssumption DEF Written
  <2>2. ASSUME ~Present(manifest, p)
        PROVE  Leftover(p)
    <3>1. localFS[p] # NoNode /\ Present(localTree, p)
      BY <1>1, <1>3, <2>1, <2>2, AbsentNode
    <3>2. PICK q \in Ancestors(p) \cup {p} : q \in Deleted(localTree, manifest)
      BY <1>1, <2>2, <3>1, DiffFindsDeleted
    <3>3. CASE q = p
      <4>1. Below(localTree, p) # {}
        BY <1>2, <3>1, <3>2, <3>3 DEF Removed
      <4> QED  BY <3>2, <3>3, <4>1 DEF Leftover
    <3>4. CASE q # p
      <4>1. p \in Below(localTree, q)
        BY <3>1, <3>2, <3>4 DEF Below
      <4> QED  BY <3>2, <4>1 DEF Leftover
    <3> QED  BY <3>3, <3>4
  <2> QED  BY <2>1, <2>2
<1>4. Mirrored
  BY <1>3 DEF Mirrored
<1>5. ASSUME NEW p, Leftover(p)
      PROVE  Leftover(p)'
  BY <1>2, <1>5, LeftoverKept
<1> QED  BY <1>2, <1>4, <1>5, Zenon DEF Mirrored

\* Steps that change neither the directory nor the plan of the session.
LEMMA MirrorUnchanged ==
  ASSUME UNCHANGED <<localFS, localTree, manifest, todo, file, deleted>>
  PROVE  /\ Written => Written'
         /\ Removed => Removed'
         /\ Mirrored => Mirrored'
<1>1. Written => Written'
  BY DEF Written, Present, At
<1>2. ASSUME Removed
      PROVE  Removed'
  <2>1. UNCHANGED <<localTree, manifest, deleted>> /\ localFS' = localFS
    OBVIOUS
  <2> QED  BY <1>2, <2>1, RemovedKept
<1>3. ASSUME NEW p, Leftover(p)
      PROVE  Leftover(p)'
  BY <1>3, LeftoverKept
<1>4. Mirrored => Mirrored'
  BY <1>3 DEF Mirrored
<1> QED  BY <1>1, <1>2, <1>4

LEMMA MirrorNext ==
  ASSUME TypeInv, MirrorInv, [Next]_vars
  PROVE  MirrorInv'
<1>1. CASE ~Unhindered'
  BY <1>1 DEF MirrorInv
<1>2. CASE SyncStart
  BY <1>2 DEF SyncStart, MirrorInv, BeforeWrite
<1>3. ASSUME Unhindered', ~SyncStart
      PROVE  MirrorInv'
  <2>1. /\ pc \in BeforeWrite => localFS = localTree
        /\ pc \in {"fetch", "write"} => Written /\ Removed
        /\ pc = "done" => Mirrored
    <3>1. Unhindered
      BY <1>3, EventsGrow, Zenon DEF Unhindered
    <3> QED  BY <3>1 DEF MirrorInv
  <2>2. CASE IndexLocal \/ CallFails \/ Kill
    BY <2>2 DEF IndexLocal, CallFails, Fail, Kill, MirrorInv, BeforeWrite
  <2>3. CASE BuildLocal
    BY <2>3, Zenon DEF BuildLocal, Fail, MirrorInv, BeforeWrite
  <2>4. CASE Connect \/ ServeReindex \/ ServeRebuild
    BY <2>1, <2>4, Zenon DEF Connect, ServeReindex, ServeRebuild, planVars, MirrorInv, BeforeWrite
  <2>5. CASE Diff
    <3>1. pc = "diff" /\ pc' \in {"fetch", "write"} /\ UNCHANGED <<localFS, localTree>>
      BY <2>5 DEF Diff
    <3>2. Written' /\ Removed'
      BY <2>1, <2>5, <3>1, MirrorDiff DEF BeforeWrite
    <3> QED  BY <2>1, <3>1, <3>2 DEF MirrorInv, BeforeWrite
  <2>6. CASE FetchBatch
    <3>1. /\ pc = "fetch" /\ pc' \in {"fetch", "write"}
          /\ UNCHANGED <<localFS, localTree, manifest, todo, file, deleted>>
      BY <2>6 DEF FetchBatch
    <3> QED  BY <2>1, <3>1, MirrorUnchanged DEF MirrorInv, BeforeWrite
  <2>7. CASE Reconstruct
    <3>1. pc = "write" /\ pc' \in {"write", "failed"}
      BY <2>7 DEF Reconstruct, MakeDir, SkipEmpty, CreateFile, WriteChunk, WriteFails,
                  Writing, NextNode, Fail
    <3> QED  BY <2>1, <2>7, <3>1, MirrorReconstruct DEF MirrorInv, BeforeWrite
  <2>8. CASE RemoveDeleted
    <3>1. pc = "write" /\ pc' = "write"
      BY <2>8 DEF RemoveDeleted
    <3> QED  BY <1>3, <2>1, <2>8, <3>1, MirrorRemove DEF MirrorInv, BeforeWrite
  <2>9. CASE Finish
    <3>1. pc = "write" /\ pc' = "done"
      BY <2>9 DEF Finish
    <3> QED  BY <2>1, <2>9, <3>1, MirrorFinish DEF MirrorInv, BeforeWrite
  <2>10. CASE ServerStop \/ ServerIndex \/ ServerBuild \/ EditRemote \/ UNCHANGED vars
    <3>1. UNCHANGED <<localFS, localTree, manifest, todo, file, deleted, pc>>
      BY <2>10, Zenon DEF ServerStop, ServerIndex, ServerBuild, EditRemote, vars, planVars
    <3> QED  BY <2>1, <3>1, MirrorUnchanged DEF MirrorInv
  <2>11. ~EditLocal
    BY <1>3, Zenon DEF EditLocal, Edited, Unhindered
  <2> QED
    BY <1>3, <2>2, <2>3, <2>4, <2>5, <2>6, <2>7, <2>8, <2>9, <2>10, <2>11
    DEF Next, SessionStep
<1> QED  BY <1>1, <1>2, <1>3

\* A session that reports success has mirrored the manifest (SyncMirrors): every
\* path is as the manifest has it, but for empty files and for what is in a
\* directory that os.Remove found not empty.  It holds whatever failed or killed
\* sessions left behind, and whatever happens to the server meanwhile.
THEOREM SyncsMirror == Spec => []SyncMirrors
<1>1. Init => MirrorInv
  BY DEF Init, MirrorInv, BeforeWrite
<1>2. TypeInv /\ MirrorInv /\ [Next]_vars => MirrorInv'
  BY MirrorNext
<1>3. MirrorInv => SyncMirrors
  BY Zenon DEF MirrorInv, SyncMirrors, Unhindered
<1> QED  BY <1>1, <1>2, <1>3, SessionTypeInv, PTL DEF Spec
=============================================================================
