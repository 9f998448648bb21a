----------------------------- MODULE SyncManager -----------------------------
(***************************************************************************)
(* The sync manager (internal/net/sync.go): SyncWithPeer compares its tree *)
(* with the manifest of a peer, requests the chunks that merkle.Diff lists *)
(* in batches over the transport, and puts them into the chunk store.      *)
(*                                                                         *)
(* The peer goes on changing: its root was announced by the handshake, its *)
(* manifest is of the moment of the request, and chunks are served later.  *)
(* Requests may fail and syncs may be repeated.                            *)
(*                                                                         *)
(* merkle.Diff is defined by quantification over paths here; module        *)
(* MerkleDiff has the recursive algorithm and checks that it agrees.       *)
(***************************************************************************)
EXTENDS FileTree, FiniteSets

CONSTANTS
  Trees,       \* the trees the two sides may have
  Later,       \* trees the peer may change to
  BatchSize,   \* chunks per request, 16 in the code
  MaxUpdates,  \* bound on the times the peer changes
  MaxSyncs     \* bound on the calls of SyncWithPeer

\* A directory has finitely many entries.
ASSUME SyncManagerAssumption ==
  /\ BatchSize \in Nat \ {0} /\ MaxUpdates \in Nat /\ MaxSyncs \in Nat
  /\ \A m \in Trees \cup Later :
       m \in [Path -> Node] /\ WellFormed(m) /\ IsFiniteSet({p \in Path : Present(m, p)})

VARIABLES
  local,      \* the local tree
  remote,     \* the tree in the manifest received last
  received,   \* chunks that were put into the local store
  peerTree,   \* the peer's tree
  peerStore,  \* chunks in the peer's store
  announced,  \* the root hash in the peer's handshake
  phase,      \* where SyncWithPeer is
  toFetch,    \* chunks to request, each with the path and the place it is listed for
  result,     \* SyncResult
  updates, syncs

vars == <<local, remote, received, peerTree, peerStore, announced, phase, toFetch, result,
          updates, syncs>>

NoResult == [inSync |-> FALSE, needed |-> 0, fetched |-> 0, notFound |-> 0]

RootHash(m) == NodeHash(m, Root)

Init ==
  /\ local \in Trees /\ remote = EmptyTree
  /\ received = {}
  /\ peerTree \in Trees /\ peerStore = AllChunks(peerTree)
  /\ announced = RootHash(peerTree)
  /\ phase = "idle" /\ toFetch = {} /\ result = NoResult /\ updates = 0 /\ syncs = 0

-----------------------------------------------------------------------------
(* merkle.Diff, in which "deleted" means that only the remote side has it. *)

\* The chunks of a file, with their places in its list.
Places(chunks) == {<<i, chunks[i]>> : i \in DOMAIN chunks}

\* The chunks of the local file that the remote file does not have.
FindDifferingChunks(l, r) == {x \in Places(l) : x[2] \notin Range(r)}

\* diffNodes goes on to the children of p.
Enters(l, r, p) == IsDir(l, p) /\ IsDir(r, p) /\ NodeHash(l, p) # NodeHash(r, p)

\* diffNodes is called for p, if there is a node at p on either side.
Visited(l, r, p) == \A q \in Ancestors(p) : Enters(l, r, q)

\* collectAll: a node that the other tree does not have, and all that is below it.
OnlyIn(m, other) ==
  {p \in Path : /\ Present(m, p)
                /\ \E q \in Ancestors(p) \cup {p} : Visited(m, other, q) /\ ~Present(other, q)}

\* Nodes of different hashes, unless both are directories.
Differing(l, r) ==
  {p \in Path : /\ Visited(l, r, p) /\ Present(l, p) /\ Present(r, p)
                /\ NodeHash(l, p) # NodeHash(r, p) /\ ~Enters(l, r, p)}

\* A change of kind is listed without chunks.
ChangedChunks(l, r, p) ==
  IF IsFile(l, p) /\ IsFile(r, p) THEN FindDifferingChunks(l[p].chunks, r[p].chunks) ELSE {}

\* A bug to avoid: a child that only the remote side has is not visited.
DiffLocalOnly(l, r) ==
  {[class |-> "added", path |-> p, chunks |-> Places(l[p].chunks)] : p \in OnlyIn(l, r)}
    \cup {[class |-> "modified", path |-> p, chunks |-> ChangedChunks(l, r, p)] :
            p \in Differing(l, r)}

Diff(l, r) ==
  {[class |-> "added", path |-> p, chunks |-> Places(l[p].chunks)] : p \in OnlyIn(l, r)}
    \cup {[class |-> "deleted", path |-> p, chunks |-> Places(r[p].chunks)] : p \in OnlyIn(r, l)}
    \cup {[class |-> "modified", path |-> p, chunks |-> ChangedChunks(l, r, p)] :
            p \in Differing(l, r)}

-----------------------------------------------------------------------------

\* The peer's UpdateMerkleRoot, after the new chunks are in its store.  Peers are
\* not told: the handshake is not repeated.
UpdateMerkleRoot ==
  /\ updates < MaxUpdates
  /\ updates' = updates + 1
  /\ peerTree' \in Later \ {peerTree}
  /\ peerStore' = peerStore \cup AllChunks(peerTree')
  /\ UNCHANGED <<local, remote, received, announced, phase, toFetch, result, syncs>>

\* SyncWithPeer: nothing is to do if the roots are the same.
SyncWithPeer ==
  /\ phase \in {"idle", "done", "failed"} /\ syncs < MaxSyncs
  /\ syncs' = syncs + 1
  /\ LET same == RootHash(local) = announced IN
       /\ result' = [NoResult EXCEPT !.inSync = same]
       /\ phase' = IF same THEN "done" ELSE "manifest"
  /\ toFetch' = {}
  /\ UNCHANGED <<local, remote, received, peerTree, peerStore, announced, updates>>

\* requestManifest, and the peer's HandleManifestRequest.
RequestManifest ==
  /\ phase = "manifest"
  /\ phase' = "diff"
  /\ remote' = peerTree
  /\ UNCHANGED <<local, received, peerTree, peerStore, announced, toFetch, result, updates, syncs>>

\* A bug to avoid: what only the peer has is not requested.
ListedForModified(diffs) ==
  UNION {{<<x.path, c[1], c[2]>> : c \in x.chunks} : x \in {y \in diffs : y.class = "modified"}}

\* The chunks that are requested: of what only the peer has, and of what differs.
Listed(diffs) ==
  UNION {{<<x.path, c[1], c[2]>> : c \in x.chunks} :
           x \in {y \in diffs : y.class \in {"deleted", "modified"}}}

CollectChunks ==
  /\ phase = "diff"
  /\ toFetch' = Listed(Diff(local, remote))
  /\ result' = [result EXCEPT !.needed = Cardinality(toFetch')]
  /\ phase' = IF toFetch' = {} THEN "done" ELSE "fetch"
  /\ UNCHANGED <<local, remote, received, peerTree, peerStore, announced, updates, syncs>>

\* The chunks of a request, as the code takes them from its list.
Batch(batch) ==
  batch \subseteq toFetch /\ Cardinality(batch) = IF Cardinality(toFetch) < BatchSize
                                                    THEN Cardinality(toFetch) ELSE BatchSize

\* HandleChunkRequest: the peer's answer has what is in its store, and says what
\* is not.
Answer(batch) == {x \in batch : x[3] \in peerStore}

\* A bug to avoid: chunks that the peer does not have are not counted.
FetchBatchUncounted(batch) ==
  /\ phase = "fetch" /\ Batch(batch)
  /\ toFetch' = toFetch \ batch
  /\ received' = received \cup {x[3] : x \in Answer(batch)}
  /\ result' = [result EXCEPT !.fetched = @ + Cardinality(Answer(batch))]
  /\ phase' = IF toFetch' = {} THEN "done" ELSE "fetch"
  /\ UNCHANGED <<local, remote, peerTree, peerStore, announced, updates, syncs>>

\* RequestChunks for a batch, and a Put for every chunk of the answer.
FetchBatch(batch) ==
  /\ phase = "fetch" /\ Batch(batch)
  /\ toFetch' = toFetch \ batch
  /\ received' = received \cup {x[3] : x \in Answer(batch)}
  /\ result' = [result EXCEPT !.fetched = @ + Cardinality(Answer(batch)),
                              !.notFound = @ + Cardinality(batch \ Answer(batch))]
  /\ phase' = IF toFetch' = {} THEN "done" ELSE "fetch"
  /\ UNCHANGED <<local, remote, peerTree, peerStore, announced, updates, syncs>>

\* A request fails, or a Put after some chunks of the answer were stored: the
\* call returns the error, with what it has counted so far.
SyncFails ==
  /\ phase \in {"manifest", "fetch"}
  /\ IF phase = "manifest" THEN UNCHANGED <<received, result>>
     ELSE \E put \in SUBSET {x \in toFetch : x[3] \in peerStore} :
            /\ Cardinality(put) < BatchSize
            /\ received' = received \cup {x[3] : x \in put}
            /\ result' = [result EXCEPT !.fetched = @ + Cardinality(put)]
  /\ phase' = "failed"
  /\ UNCHANGED <<local, remote, peerTree, peerStore, announced, toFetch, updates, syncs>>

Next ==
  \/ UpdateMerkleRoot \/ SyncWithPeer \/ RequestManifest \/ CollectChunks
  \/ (\E batch \in SUBSET toFetch : FetchBatch(batch)) \/ SyncFails

Spec == Init /\ [][Next]_vars

-----------------------------------------------------------------------------

\* When SyncWithPeer returns, its counts account for every chunk it needed; when it
\* fails it has counted no more than that.
CountsAddUp ==
  /\ phase = "done" => result.fetched + result.notFound = result.needed
  /\ phase = "failed" => result.fetched + result.notFound <= result.needed

\* A sync that succeeds has brought every file that only the peer had when it sent
\* its manifest, as long as no path changed its kind: all of its chunks are in the
\* store, whatever the peer changed since and whatever failed before.
NewFilesArrive ==
  phase = "done" /\ ~result.inSync =>
    \A p \in Path :
      IsFile(remote, p) /\ (\A q \in Ancestors(p) : Present(local, q) => IsDir(local, q))
        /\ ~Present(local, p)
      => Range(remote[p].chunks) \subseteq received

\* merkle.Diff finds every path on which the trees differ: as a path only one
\* side has, as a modified file, or below a node that changed its kind.  The
\* exception is an empty file against an empty directory.
DiffFindsAll ==
  phase = "diff" => \A p \in Path :
    \/ local[p] = remote[p]
    \/ {local[p], remote[p]} = {EmptyFile, DirNode} /\ NodeHash(local, p) = NodeHash(remote, p)
    \/ \E x \in Diff(local, remote) :
         \/ x.path = p /\ x.class = "added" /\ ~Present(remote, p)
         \/ x.path = p /\ x.class = "deleted" /\ ~Present(local, p)
         \/ x.path \in Ancestors(p) \cup {p} /\ x.class = "modified"

\* sync.go, "We need to fetch these chunks": the chunks that a diff lists for
\* a modified file include those that only the remote file has.
ModifiedListsFetched ==
  phase = "diff" => \A x \in Diff(local, remote) :
    x.class = "modified" /\ IsFile(local, x.path) /\ IsFile(remote, x.path)
      => Range(remote[x.path].chunks) \ Range(local[x.path].chunks) \subseteq {c[2] : c \in x.chunks}
=============================================================================
