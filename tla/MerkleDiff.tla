----------------------------- MODULE MerkleDiff -----------------------------
(***************************************************************************)
(* The recursive algorithms on Merkle trees: BuildFromFS and the hashes,   *)
(* the conversion to a manifest and back, the diff of the sync command     *)
(* (diff.DiffTrees), its collection of missing chunks, and the diff of the *)
(* sync manager (merkle.Diff).                                             *)
(*                                                                         *)
(* A Merkle tree gives each of its paths, the root included, a node; a     *)
(* call for a child of the node at p is a call for the path of the child.  *)
(*                                                                         *)
(* They are compared, on every pair of trees that a sync of module         *)
(* SyncManager compares, with what modules FileTree and SyncManager define *)
(* by quantification over paths.                                           *)
(***************************************************************************)
EXTENDS SyncManager

CONSTANT Stores   \* contents of the local chunk store

-----------------------------------------------------------------------------
(* merkle.Node.  A hash is what is written to the hasher: the names of the *)
(* children with their hashes, or the chunks.  Children are in no order: a *)
(* directory has each name once, and the code's sorting makes their order  *)
(* a function of the names.                                                *)

NoChildren == [n \in {} |-> {}]

NewFileNode(chunks) ==
  [kind |-> "file", hash |-> [children |-> NoChildren, chunks |-> chunks],
   chunks |-> chunks, children |-> {}]

NewDirNode(hashes) ==
  [kind |-> "dir", hash |-> [children |-> hashes, chunks |-> <<>>],
   chunks |-> <<>>, children |-> DOMAIN hashes]

\* What is in a directory on disk.
Entries(m, p) == {n \in Name : Append(p, n) \in Path /\ Present(m, Append(p, n))}

BuildFromFS(m) ==
  LET buildNode[p \in {q \in Path \cup {Root} : Present(m, q)}] ==
        IF IsFile(m, p) THEN NewFileNode(m[p].chunks)
        ELSE NewDirNode([n \in Entries(m, p) |-> buildNode[Append(p, n)].hash])
  IN buildNode

\* The tree as the peer sends it, and as it is rebuilt from that: the hashes are
\* those of the sender.
NodeToManifest(t) ==
  [p \in DOMAIN t |-> [isDir |-> t[p].kind = "dir", hash |-> t[p].hash,
                       chunks |-> t[p].chunks, children |-> t[p].children]]

ManifestToNode(mn) ==
  [p \in DOMAIN mn |-> [kind |-> IF mn[p].isDir THEN "dir" ELSE "file", hash |-> mn[p].hash,
                        chunks |-> mn[p].chunks, children |-> mn[p].children]]

-----------------------------------------------------------------------------
(* diff.DiffTrees: a set of results, each a path with its class *)

\* A bug to avoid: a file on either side makes a modification.
DiffTreesAnyFile(l, r) ==
  LET diffNode[p \in DOMAIN l \cup DOMAIN r] ==
        IF p \notin DOMAIN l THEN {[class |-> "added", path |-> p]}
        ELSE IF p \notin DOMAIN r THEN {[class |-> "deleted", path |-> p]}
        ELSE IF l[p].hash = r[p].hash THEN {}
        ELSE IF l[p].kind = "file" \/ r[p].kind = "file"
             THEN {[class |-> "modified", path |-> p]}
        ELSE UNION {diffNode[Append(p, n)] : n \in l[p].children \cup r[p].children}
  IN diffNode[Root]

DiffTrees(l, r) ==
  LET diffNode[p \in DOMAIN l \cup DOMAIN r] ==
        IF p \notin DOMAIN l THEN {[class |-> "added", path |-> p]}
        ELSE IF p \notin DOMAIN r THEN {[class |-> "deleted", path |-> p]}
        ELSE IF l[p].hash = r[p].hash THEN {}
        ELSE IF l[p].kind = "file" /\ r[p].kind = "file"
             THEN {[class |-> "modified", path |-> p]}
        ELSE UNION {diffNode[Append(p, n)] : n \in l[p].children \cup r[p].children}
  IN diffNode[Root]

CollectMissingChunks(t, have) ==
  LET collect[p \in DOMAIN t] ==
        (Range(t[p].chunks) \ have) \cup UNION {collect[Append(p, n)] : n \in t[p].children}
  IN collect

\* What syncCmd makes of the diff.
SyncPlan(l, r, have) ==
  LET results == DiffTrees(l, r)
      Paths(c) == {x.path : x \in {y \in results : y.class = c}}
  IN [added |-> Paths("added"), modified |-> Paths("modified"),
      deleted |-> Paths("deleted"),
      needed |-> UNION {CollectMissingChunks(r, have)[p] :
                          p \in Paths("added") \cup Paths("modified")}]

-----------------------------------------------------------------------------
(* merkle.Diff.  The root has no path here: the code puts its name before  *)
(* all of them.                                                            *)

CollectAll(t, class) ==
  LET collect[p \in DOMAIN t] ==
        {[class |-> class, path |-> p, chunks |-> Places(t[p].chunks)]}
          \cup UNION {collect[Append(p, n)] : n \in t[p].children}
  IN collect

DiffNodes(l, r) ==
  LET diffNodes[p \in DOMAIN l \cup DOMAIN r] ==
        IF p \notin DOMAIN r THEN CollectAll(l, "added")[p]
        ELSE IF p \notin DOMAIN l THEN CollectAll(r, "deleted")[p]
        ELSE IF l[p].hash = r[p].hash THEN {}
        ELSE IF l[p].kind # r[p].kind
             THEN {[class |-> "modified", path |-> p, chunks |-> {}]}
        ELSE IF l[p].kind = "file"
             THEN {[class |-> "modified", path |-> p,
                    chunks |-> FindDifferingChunks(l[p].chunks, r[p].chunks)]}
        ELSE UNION {diffNodes[Append(p, n)] : n \in l[p].children \cup r[p].children}
  IN diffNodes[Root]

-----------------------------------------------------------------------------

\* The recursive algorithms, which work on hashes, compute what is defined by
\* quantification over paths: DiffTrees and collectMissingChunks what module
\* SyncSession uses, merkle.Diff what module SyncManager uses.
DiffsAgree ==
  phase = "diff" =>
    LET l == BuildFromFS(local)
        r == ManifestToNode(NodeToManifest(BuildFromFS(remote))) IN
    /\ \A have \in Stores :
         SyncPlan(l, r, have) =
           [added |-> Added(local, remote), modified |-> Modified(local, remote),
            deleted |-> Deleted(local, remote), needed |-> NeededChunks(local, remote, have)]
    /\ DiffNodes(l, r) = Diff(local, remote)
=============================================================================
