----------------------------- MODULE SyncSession -----------------------------
(***************************************************************************)
(* One-way synchronisation: `p2p-file-sync sync`, run again and again in   *)
(* one directory, against a `p2p-file-sync serve` of another.              *)
(*                                                                         *)
(* The client indexes its directory into its chunk store, builds its tree, *)
(* asks the server for a manifest, diffs the two, fetches the chunks it    *)
(* lacks in batches, rewrites every file of the manifest and removes what  *)
(* the manifest does not have.  Meanwhile users edit both directories,     *)
(* calls fail, and either program may be killed at any step.               *)
(*                                                                         *)
(* The chunk stores are sets of hashes: module BlobStore shows what that   *)
(* abstraction takes for granted.                                          *)
(***************************************************************************)
EXTENDS FileTree, FiniteSets

CONSTANTS
  Order,       \* Path as a sequence, in the manifest's depth-first order
  FileNodes,   \* the file contents that users write
  InitTrees,   \* the trees the two directories may start with
  LocalHidden, \* the name of the client's directory starts with a dot
  RemoteHidden,\* the name of the server's directory starts with a dot
  BatchSize,   \* chunks per request (10 in the code)
  MaxEdits,    \* bound on user edits in a behaviour
  MaxFaults,   \* bound on failures and kills in a behaviour
  NoPath

ASSUME SessionAssumption ==
  /\ Range(Order) = Path
  /\ \A n \in FileNodes : n \in Node /\ n.kind = "file"
  /\ \A m \in InitTrees : WellFormed(m) /\ m \in [Path -> Node]
  /\ LocalHidden \in BOOLEAN /\ RemoteHidden \in BOOLEAN
  /\ BatchSize \in Nat \ {0} /\ MaxEdits \in Nat /\ MaxFaults \in Nat
  /\ NoPath \notin Path

VARIABLES
  localFS,      \* the client's directory
  localStore,   \* hashes in the client's chunk store
  remoteFS,     \* the server's directory
  remoteStore,  \* hashes in the server's chunk store
  server,       \* serveCmd: "down", "indexed" or "up"
  startTree,    \* the tree serveCmd built when it started
  pc,           \* where syncCmd is, the handler serving it included
  conn,         \* the client's connection still stands
  localTree,    \* the tree syncCmd built
  manifest,     \* the manifest it received
  needed,       \* chunks still to request
  todo,         \* manifest paths still to reconstruct
  file,         \* the file being written, or NoPath
  deleted,      \* diffResult.Deleted paths still to remove
  events,       \* what disturbed the current session so far
  edits, faults \* how many user edits and faults there have been

serverVars == <<remoteFS, remoteStore, server, startTree>>
planVars == <<localTree, manifest, needed, todo, file, deleted>>
bounds == <<edits, faults>>
vars == <<localFS, localStore, serverVars, pc, conn, planVars, events, bounds>>

\* States in which syncCmd waits for the server.
Asking == {"connect", "reindex", "rebuild", "fetch"}
Running == Asking \cup {"index", "build", "diff", "write"}
Resting == {"idle", "done", "failed"}
Events == {"edit local", "edit remote", "index local", "index remote",
           "build local", "build remote", "call", "chunk", "write", "remove"}

\* indexDirectory puts the chunks of all files into the store.  Its walk skips
\* every name that starts with a dot, that of the directory itself included.
Indexed(m, hidden, store) ==
  IF hidden THEN store ELSE store \cup AllChunks(m)

Init ==
  /\ localFS \in InitTrees /\ remoteFS \in InitTrees
  /\ localStore = {}
  /\ remoteStore = Indexed(remoteFS, RemoteHidden, {})
  /\ server = "up" /\ startTree = remoteFS
  /\ pc = "idle" /\ conn = FALSE
  /\ localTree = EmptyTree /\ manifest = EmptyTree
  /\ needed = {} /\ todo = {} /\ file = NoPath /\ deleted = {}
  /\ events = {} /\ edits = 0 /\ faults = 0

-----------------------------------------------------------------------------
(* Faults *)

\* Something named e goes wrong in the current session.
Fault(e) ==
  /\ faults < MaxFaults
  /\ faults' = faults + 1
  /\ events' = events \cup {e}
  /\ UNCHANGED edits

NoFault == UNCHANGED <<events, bounds>>

\* syncCmd returns an error.
Fail == pc' = "failed" /\ file' = NoPath

-----------------------------------------------------------------------------
(* indexDirectory: a file that cannot be opened, read or stored is         *)
(* skipped, silently.                                                      *)

IndexLocalFS ==
  \/ localStore' = Indexed(localFS, LocalHidden, localStore) /\ NoFault
  \/ \E p \in Path :
       /\ IsFile(localFS, p)
       /\ localStore' = Indexed([localFS EXCEPT ![p] = NoNode], LocalHidden, localStore)
       /\ Fault("index local")

IndexRemoteFS ==
  \/ remoteStore' = Indexed(remoteFS, RemoteHidden, remoteStore) /\ NoFault
  \/ \E p \in Path :
       /\ IsFile(remoteFS, p)
       /\ remoteStore' = Indexed([remoteFS EXCEPT ![p] = NoNode], RemoteHidden, remoteStore)
       /\ Fault("index remote")

-----------------------------------------------------------------------------
(* syncCmd, up to the manifest *)

\* A store that is not empty is taken to be up to date.
SyncStartOnStore ==
  /\ pc \in Resting
  /\ pc' = IF localStore = {} THEN "index" ELSE "build"
  /\ conn' = FALSE
  /\ localTree' = EmptyTree /\ manifest' = EmptyTree
  /\ needed' = {} /\ todo' = {} /\ file' = NoPath /\ deleted' = {}
  /\ events' = {}
  /\ UNCHANGED <<localFS, localStore, serverVars, bounds>>

SyncStart ==
  /\ pc \in Resting
  /\ pc' = "index"
  /\ conn' = FALSE
  /\ localTree' = EmptyTree /\ manifest' = EmptyTree
  /\ needed' = {} /\ todo' = {} /\ file' = NoPath /\ deleted' = {}
  /\ events' = {}
  /\ UNCHANGED <<localFS, localStore, serverVars, bounds>>

IndexLocal ==
  /\ pc = "index"
  /\ pc' = "build"
  /\ IndexLocalFS
  /\ UNCHANGED <<localFS, serverVars, conn, planVars>>

BuildLocal ==
  /\ pc = "build"
  /\ \/ /\ localTree' = localFS
        /\ pc' = "connect"
        /\ NoFault
        /\ UNCHANGED file
     \/ Fail /\ Fault("build local") /\ UNCHANGED localTree
  /\ UNCHANGED <<localFS, localStore, serverVars, conn,
                 manifest, needed, todo, deleted>>

\* transport.Connect, then the manifest request reaches the server.
Connect ==
  /\ pc = "connect"
  /\ server = "up"
  /\ conn' = TRUE
  /\ pc' = "reindex"
  /\ NoFault
  /\ UNCHANGED <<localFS, localStore, serverVars, planVars>>

\* The server cannot be reached, has gone, or a call to it fails.
CallFails ==
  /\ pc \in Asking
  /\ \/ Fault("call")
     \/ /\ IF pc = "connect" THEN server # "up" ELSE ~conn
        /\ events' = events \cup {"call"}
        /\ UNCHANGED bounds
  /\ Fail
  /\ UNCHANGED <<localFS, localStore, serverVars, conn,
                 localTree, manifest, needed, todo, deleted>>

-----------------------------------------------------------------------------
(* serveCmd and its handlers *)

\* Only the start of the server fills its store.
ServeReindexNot ==
  /\ pc = "reindex" /\ conn
  /\ pc' = "rebuild"
  /\ NoFault
  /\ UNCHANGED <<localFS, localStore, serverVars, conn, planVars>>

\* OnManifestRequest refreshes the store ...
ServeReindex ==
  /\ pc = "reindex" /\ conn
  /\ pc' = "rebuild"
  /\ IndexRemoteFS
  /\ UNCHANGED <<localFS, localStore, remoteFS, server, startTree, conn, planVars>>

\* ... and then builds the tree it sends; if it cannot, it sends the tree it
\* had when it started.
ServeRebuild ==
  /\ pc = "rebuild" /\ conn
  /\ pc' = "diff"
  /\ \/ manifest' = remoteFS /\ NoFault
     \/ manifest' = startTree /\ Fault("build remote")
  /\ UNCHANGED <<localFS, localStore, serverVars, conn,
                 localTree, needed, todo, file, deleted>>

\* The server is stopped: every connection is lost.
ServerStop ==
  /\ server = "up"
  /\ server' = "down"
  /\ conn' = FALSE
  /\ faults < MaxFaults /\ faults' = faults + 1
  /\ UNCHANGED <<localFS, localStore, remoteFS, remoteStore, startTree,
                 pc, planVars, events, edits>>

\* It is started again: it indexes its directory, then builds its tree.
ServerIndex ==
  /\ server = "down"
  /\ server' = "indexed"
  /\ IndexRemoteFS
  /\ UNCHANGED <<localFS, localStore, remoteFS, startTree, pc, conn, planVars>>

ServerBuild ==
  /\ server = "indexed"
  /\ \/ server' = "up" /\ startTree' = remoteFS /\ NoFault
     \/ server' = "down" /\ UNCHANGED startTree /\ Fault("build remote")
  /\ UNCHANGED <<localFS, localStore, remoteFS, remoteStore, pc, conn, planVars>>

-----------------------------------------------------------------------------
(* syncCmd, from the manifest on *)

Diff ==
  /\ pc = "diff"
  /\ needed' = NeededChunks(localTree, manifest, localStore)
  /\ deleted' = Deleted(localTree, manifest)
  /\ todo' = {p \in Path : Present(manifest, p)}
  /\ pc' = IF needed' = {} THEN "write" ELSE "fetch"
  /\ UNCHANGED <<localFS, localStore, serverVars, conn,
                 localTree, manifest, file, events, bounds>>

\* What the server did not send is requested again.
FetchUntilFound ==
  /\ pc = "fetch" /\ conn
  /\ \E batch \in (SUBSET needed) \ {{}} :
       /\ Cardinality(batch) <= BatchSize
       /\ localStore' = localStore \cup (batch \cap remoteStore)
  /\ needed' = needed \ localStore'
  /\ pc' = IF needed' = {} THEN "write" ELSE "fetch"
  /\ NoFault
  /\ UNCHANGED <<localFS, serverVars, conn, localTree, manifest, todo, file, deleted>>

\* RequestChunks for one batch.  The server answers with the chunks it has,
\* the client stores them; what is not found, and what cannot be stored, is
\* passed over.
FetchBatch ==
  /\ pc = "fetch" /\ conn
  /\ \E batch \in (SUBSET needed) \ {{}} :
       /\ Cardinality(batch) <= BatchSize
       /\ \/ localStore' = localStore \cup (batch \cap remoteStore) /\ NoFault
          \/ /\ \E lost \in batch \cap remoteStore :
                  localStore' = localStore \cup ((batch \cap remoteStore) \ {lost})
             /\ Fault("chunk")
       /\ needed' = needed \ batch
  /\ pc' = IF needed' = {} THEN "write" ELSE "fetch"
  /\ UNCHANGED <<localFS, serverVars, conn, localTree, manifest, todo, file, deleted>>

-----------------------------------------------------------------------------
(* reconstructFiles, over the whole manifest, whatever the diff found *)

\* os.MkdirAll
CanMkdirAll(m, p) == \A q \in Ancestors(p) \cup {p} : ~IsFile(m, q)

MkdirAll(m, p) ==
  [q \in Path |-> IF q \in Ancestors(p) \cup {p} THEN DirNode ELSE m[q]]

\* p is the next node in the order of the recursion.
Writing(p) ==
  /\ pc = "write" /\ file = NoPath
  /\ \E i \in DOMAIN Order :
       p = Order[i] /\ p \in todo /\ \A j \in 1..(i - 1) : Order[j] \notin todo

\* The node is done with, and the next one follows.
NextNode(p) == todo' = todo \ {p} /\ UNCHANGED pc

SessionUnchanged ==
  UNCHANGED <<localStore, serverVars, conn, localTree, manifest, needed, deleted>>

MakeDir(p) ==
  /\ Writing(p) /\ IsDir(manifest, p) /\ CanMkdirAll(localFS, p)
  /\ localFS' = MkdirAll(localFS, p)
  /\ NextNode(p) /\ NoFault
  /\ UNCHANGED file
  /\ SessionUnchanged

\* Nor is one that is already there.
SkipExisting(p) ==
  /\ Writing(p) /\ IsFile(manifest, p)
  /\ manifest[p] = EmptyFile \/ IsFile(localFS, p)
  /\ NextNode(p) /\ NoFault
  /\ UNCHANGED <<localFS, file>>
  /\ SessionUnchanged

\* A file without chunks is neither created nor emptied.
SkipEmpty(p) ==
  /\ Writing(p) /\ manifest[p] = EmptyFile
  /\ NextNode(p) /\ NoFault
  /\ UNCHANGED <<localFS, file>>
  /\ SessionUnchanged

\* os.Create truncates the file; its parents are made first.
CanCreate(p) == CanMkdirAll(localFS, Parent(p)) /\ ~IsDir(localFS, p)

CreateFile(p) ==
  /\ Writing(p) /\ IsFile(manifest, p) /\ manifest[p] # EmptyFile
  /\ CanCreate(p)
  /\ localFS' = [MkdirAll(localFS, Parent(p)) EXCEPT ![p] = EmptyFile]
  /\ file' = p
  /\ NoFault
  /\ UNCHANGED <<pc, todo>>
  /\ SessionUnchanged

\* The next chunk of the open file, from the local store.
NextChunk == manifest[file].chunks[Len(localFS[file].chunks) + 1]

\* A missing chunk ends the file and not the session.
WriteChunkOrStop ==
  /\ pc = "write" /\ file # NoPath
  /\ localFS' = IF NextChunk \in localStore
                 THEN [localFS EXCEPT ![file].chunks = Append(@, NextChunk)]
                 ELSE localFS
  /\ IF NextChunk \notin localStore \/ localFS'[file] = manifest[file]
     THEN file' = NoPath /\ NextNode(file)
     ELSE UNCHANGED <<file, todo, pc>>
  /\ NoFault
  /\ SessionUnchanged

WriteChunk ==
  /\ pc = "write" /\ file # NoPath
  /\ NextChunk \in localStore
  /\ localFS' = [localFS EXCEPT ![file].chunks = Append(@, NextChunk)]
  /\ IF localFS'[file] = manifest[file]
     THEN file' = NoPath /\ NextNode(file)
     ELSE UNCHANGED <<file, todo, pc>>
  /\ NoFault
  /\ SessionUnchanged

\* The errors that end reconstructFiles, and syncCmd with it: a node of the
\* wrong kind in the way, a chunk the store does not have, or the disk.
WriteFails ==
  /\ pc = "write" /\ (file # NoPath \/ todo # {})
  /\ \/ Fault("write")
     \/ /\ \/ \E p \in Path : /\ Writing(p)
                             /\ \/ IsDir(manifest, p) /\ ~CanMkdirAll(localFS, p)
                                \/ /\ IsFile(manifest, p) /\ manifest[p] # EmptyFile
                                   /\ ~CanCreate(p)
           \/ file # NoPath /\ NextChunk \notin localStore
        /\ NoFault
  /\ Fail
  /\ UNCHANGED <<localFS, todo>>
  /\ SessionUnchanged

Reconstruct ==
  \/ \E p \in Path : MakeDir(p) \/ SkipEmpty(p) \/ CreateFile(p)
  \/ WriteChunk
  \/ WriteFails

-----------------------------------------------------------------------------
(* The end of syncCmd *)

\* os.RemoveAll
RemoveAllDeleted ==
  /\ pc = "write" /\ file = NoPath /\ todo = {}
  /\ \E p \in deleted :
       /\ localFS' = [q \in Path |-> IF p \in Ancestors(q) \cup {q} THEN NoNode
                                                               ELSE localFS[q]]
       /\ deleted' = deleted \ {p}
  /\ NoFault
  /\ UNCHANGED <<localStore, serverVars, pc, conn,
                 localTree, manifest, needed, todo, file>>

\* os.Remove takes a file or an empty directory.  Any error is logged only.
RemoveDeleted ==
  /\ pc = "write" /\ file = NoPath /\ todo = {}
  /\ \E p \in deleted :
       /\ \/ /\ localFS' = IF Below(localFS, p) = {}
                         THEN [localFS EXCEPT ![p] = NoNode] ELSE localFS
             /\ NoFault
          \/ UNCHANGED localFS /\ Fault("remove")
       /\ deleted' = deleted \ {p}
  /\ UNCHANGED <<localStore, serverVars, pc, conn,
                 localTree, manifest, needed, todo, file>>

\* The removals are left out.
FinishEarly ==
  /\ pc = "write" /\ file = NoPath /\ todo = {}
  /\ pc' = "done"
  /\ UNCHANGED <<localFS, localStore, serverVars, conn, planVars, events, bounds>>

Finish ==
  /\ pc = "write" /\ file = NoPath /\ todo = {} /\ deleted = {}
  /\ pc' = "done"
  /\ UNCHANGED <<localFS, localStore, serverVars, conn, planVars, events, bounds>>

\* The client is killed.
Kill ==
  /\ pc \in Running
  /\ pc' = "idle" /\ file' = NoPath
  /\ faults < MaxFaults /\ faults' = faults + 1
  /\ UNCHANGED <<localFS, localStore, serverVars, conn,
                 localTree, manifest, needed, todo, deleted, events, edits>>

-----------------------------------------------------------------------------
(* Users, who leave alone the one file that syncCmd has open *)

Edits(m, p) ==
  {n \in FileNodes \cup {NoNode, DirNode} :
     n # m[p] /\ WellFormed([m EXCEPT ![p] = n])}

Edited(e) ==
  /\ edits < MaxEdits
  /\ edits' = edits + 1
  /\ events' = events \cup {e}
  /\ UNCHANGED faults

EditLocal ==
  /\ \E p \in Path \ {file} : \E n \in Edits(localFS, p) :
       localFS' = [localFS EXCEPT ![p] = n]
  /\ Edited("edit local")
  /\ UNCHANGED <<localStore, serverVars, pc, conn, planVars>>

EditRemote ==
  /\ \E p \in Path : \E n \in Edits(remoteFS, p) :
       remoteFS' = [remoteFS EXCEPT ![p] = n]
  /\ Edited("edit remote")
  /\ UNCHANGED <<localFS, localStore, remoteStore, server, startTree, pc, conn, planVars>>

-----------------------------------------------------------------------------
\* What a running syncCmd, and the handler that serves it, does by itself.
SessionStep ==
  \/ IndexLocal \/ BuildLocal \/ Connect \/ CallFails
  \/ ServeReindex \/ ServeRebuild
  \/ Diff \/ FetchBatch
  \/ Reconstruct \/ RemoveDeleted \/ Finish

Next ==
  \/ SyncStart \/ SessionStep \/ Kill
  \/ ServerStop \/ ServerIndex \/ ServerBuild
  \/ EditLocal \/ EditRemote

Spec == Init /\ [][Next]_vars

\* A started session is not suspended for ever: each of its steps is a local
\* computation, or a call that returns or fails.
FairSpec == Spec /\ WF_vars(SessionStep)

\* Moreover the user runs sync again, and a stopped server is started again.
RetrySpec ==
  /\ FairSpec
  /\ WF_vars(SyncStart) /\ WF_vars(ServerIndex) /\ WF_vars(ServerBuild)

-----------------------------------------------------------------------------
(* Properties *)

\* Every variable has its type, and both directories stay trees: no step
\* leaves a node outside a directory.
TypeOK ==
  /\ \A m \in {localFS, remoteFS, startTree, localTree, manifest} :
       m \in [Path -> Node] /\ WellFormed(m)
  /\ localStore \subseteq Chunk /\ remoteStore \subseteq Chunk
  /\ server \in {"down", "indexed", "up"} /\ conn \in BOOLEAN
  /\ pc \in Running \cup Resting
  /\ needed \subseteq Chunk /\ todo \subseteq Path /\ deleted \subseteq Path
  /\ file \in Path \cup {NoPath}
  /\ events \subseteq Events /\ edits \in 0..MaxEdits /\ faults \in 0..MaxFaults

\* What is on disk after indexDirectory can be rebuilt from the store, to the
\* end of the session: reconstructFiles truncates and rewrites even the files
\* that did not change, from chunks that only the local index put there.
LocalBacked ==
  (pc \notin {"idle", "index"} /\ events \cap {"edit local", "index local"} = {})
    => AllChunks(localFS) \subseteq localStore

\* The server can serve every chunk its manifest names: OnManifestRequest
\* fills the store before it builds the tree it sends.
ManifestServed ==
  /\ pc \in {"diff", "fetch", "write", "done"}
  /\ events \cap {"edit remote", "index remote", "build remote"} = {}
  => AllChunks(manifest) \subseteq remoteStore

\* p is in a directory that the manifest does not have and that was not
\* empty: os.Remove leaves it.
Leftover(p) ==
  \E q \in Ancestors(p) \cup {p} :
    q \in Deleted(localTree, manifest) /\ Below(localTree, q) # {}

\* A path holds what the manifest says; or it is an empty file there, or a
\* leftover, and then it holds what it held before.
Mirrored ==
  \A p \in Path :
    \/ localFS[p] = manifest[p]
    \/ /\ manifest[p] = EmptyFile \/ Leftover(p)
       /\ localFS[p] = localTree[p]

\* A session that reports success has mirrored the manifest, whatever earlier
\* sessions that failed or were killed had left behind, and whatever happened
\* to the server meanwhile; unless users edited the directory during the
\* session, or a removal failed, which syncCmd only logs.
SyncMirrors ==
  (pc = "done" /\ events \cap {"edit local", "remove"} = {}) => Mirrored

\* A file stands where the manifest has a directory, or the other way round:
\* reconstructFiles cannot replace one by the other.
Conflict(l, r) ==
  \E p \in Path :
    \/ IsFile(l, p) /\ IsDir(r, p)
    \/ IsDir(l, p) /\ IsFile(r, p) /\ r[p] # EmptyFile

\* A session fails only if something disturbed it, or for a conflict: the
\* diff, the index and the server's answers always suffice to rebuild the
\* manifest, whatever earlier sessions left behind.
FailureHasCause ==
  pc = "failed" => events # {} \/ Conflict(localTree, manifest)

\* A step of the program leaves every path alone that is neither in the tree
\* it built nor in the manifest: a file that a user adds during a session
\* survives it, also in a directory that the session removes.
NewFilesSurvive ==
  [][edits' = edits =>
       \A p \in Path : ~Present(localTree, p) /\ ~Present(manifest, p)
                        => localFS'[p] = localFS[p]]_vars

\* A session comes to an end: every batch is requested once, whether the
\* server has its chunks or not.
SessionEnds == pc \in Running ~> pc \in Resting

\* Retrying is safe: once users and faults leave the system alone, sessions
\* mirror the server's directory, unless a conflict remains.
RetryConverges ==
  \/ []<>(pc = "done" /\ Mirrored /\ manifest = remoteFS)
  \/ <>[]Conflict(localFS, remoteFS)

\* ARCHITECTURE.md, "Verify root hashes match": after an undisturbed session
\* the root hashes of the two trees are the same.
RootsMatch ==
  (pc = "done" /\ events = {}) => NodeHash(localFS, Root) = NodeHash(manifest, Root)

\* copilot-instructions.md, "zero disk I/O": a session that finds equal root
\* hashes writes no file.
NoWriteWhenEqual ==
  file # NoPath => NodeHash(localTree, Root) # NodeHash(manifest, Root)
=============================================================================
