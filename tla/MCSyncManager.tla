--------------------------- MODULE MCSyncManager ---------------------------
(* All pairs of small trees; a peer that may change to one of two others. *)
EXTENDS MerkleDiff

CONSTANTS a, d, f, c1, c2

MCPath == {<<d>>, <<d, a>>, <<f>>}
MCFiles == {EmptyFile, FileNode(<<c1>>), FileNode(<<c1, c2>>), FileNode(<<c2, c2>>)}
MCTrees == {m \in [MCPath -> MCFiles \cup {NoNode, DirNode}] : WellFormed(m)}

\* Everything is removed, or two files are of other chunks.
MCLater ==
  {EmptyTree, [p \in MCPath |-> IF p = <<d>> THEN DirNode ELSE FileNode(<<c2>>)]}
=============================================================================
