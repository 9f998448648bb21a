------------------------------ MODULE FileTree ------------------------------
(***************************************************************************)
(* Directory trees as the sync code sees them: what merkle.BuildFromFS     *)
(* reads from disk, what the manifest carries and what diff.DiffTrees      *)
(* computes from two of them.                                              *)
(*                                                                         *)
(* A tree gives every path a node.  Paths are sequences of names; the root *)
(* is the empty sequence and always a directory.  Hidden names, which      *)
(* every walk skips, and file modes, which no hash covers, are left out.   *)
(* A chunk is its SHA-256 hash, taken to be injective.                     *)
(*                                                                         *)
(* Definitions here are direct (by quantification over paths); module      *)
(* MerkleDiff has the recursive algorithms of the code and checks that     *)
(* they agree.                                                             *)
(***************************************************************************)
EXTENDS Naturals, Sequences, Functions

CONSTANTS
  Name,   \* file names
  Path,   \* the paths that may occur, closed under non-empty prefixes
  Chunk   \* chunk hashes

ASSUME PathAssumption ==
  \A p \in Path : /\ p \in Seq(Name) /\ p # <<>>
                  /\ \A i \in 1..(Len(p) - 1) : SubSeq(p, 1, i) \in Path

Root == <<>>

NoNode == [kind |-> "none", chunks |-> <<>>]
DirNode == [kind |-> "dir", chunks |-> <<>>]
FileNode(chunks) == [kind |-> "file", chunks |-> chunks]
EmptyFile == FileNode(<<>>)
Node == {n \in [kind : {"none", "dir", "file"}, chunks : Seq(Chunk)] :
           n.kind # "file" => n.chunks = <<>>}

Parent(p) == SubSeq(p, 1, Len(p) - 1)

\* The proper ancestors of a path, the root included.
Ancestors(p) == {SubSeq(p, 1, i) : i \in 0..(Len(p) - 1)}

At(m, p) == IF p = Root THEN DirNode ELSE m[p]
Present(m, p) == At(m, p).kind # "none"
IsDir(m, p) == At(m, p).kind = "dir"
IsFile(m, p) == At(m, p).kind = "file"

Below(m, p) == {q \in Path : p \in Ancestors(q) /\ Present(m, q)}

\* Every node lies in directories.
WellFormed(m) ==
  \A p \in Path : Present(m, p) => \A q \in Ancestors(p) : IsDir(m, q)

EmptyTree == [p \in Path |-> NoNode]

\* The chunks of the files in the subtree at p, and in the whole tree.
SubtreeChunks(m, p) ==
  UNION {Range(At(m, q).chunks) : q \in Below(m, p) \cup {p}}

AllChunks(m) == SubtreeChunks(m, Root)

\* What the hash of a node commits to: the names below it and the chunks of
\* the files there.  computeFileHash hashes the chunk hashes alone, so an
\* empty file has the hash of an empty directory.
NodeHash(m, p) ==
  {<<SubSeq(q, Len(p) + 1, Len(q)), At(m, q).chunks>> : q \in Below(m, p) \cup {p}}

-----------------------------------------------------------------------------
(* diff.DiffTrees *)

\* diffNode goes on to the children of p.
Descends(l, r, p) ==
  /\ Present(l, p) /\ Present(r, p)
  /\ NodeHash(l, p) # NodeHash(r, p)
  /\ ~(IsFile(l, p) /\ IsFile(r, p))

\* diffNode is called for p, if there is a node at p on either side.
Reached(l, r, p) == \A q \in Ancestors(p) : Descends(l, r, q)

Added(l, r) ==
  {p \in Path : Reached(l, r, p) /\ ~Present(l, p) /\ Present(r, p)}

Deleted(l, r) ==
  {p \in Path : Reached(l, r, p) /\ Present(l, p) /\ ~Present(r, p)}

Modified(l, r) ==
  {p \in Path : /\ Reached(l, r, p)
                /\ IsFile(l, p) /\ IsFile(r, p)
                /\ NodeHash(l, p) # NodeHash(r, p)}

\* collectMissingChunks over the added and the modified nodes.
NeededChunks(l, r, store) ==
  (UNION {SubtreeChunks(r, p) : p \in Added(l, r) \cup Modified(l, r)}) \ store
=============================================================================
