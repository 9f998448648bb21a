--------------------------- MODULE MCSyncSession ---------------------------
(* Small instances of SyncSession: two names at the top, one below. *)
EXTENDS SyncSession, TLC

CONSTANTS c1, c2

MCOrder == <<<<"d">>, <<"d", "a">>, <<"f">>>>
MCPath == {<<"d">>, <<"d", "a">>, <<"f">>}

\* A file with no chunk, with one, and with two of which it shares one.
MCFiles == {EmptyFile, FileNode(<<c1>>), FileNode(<<c1, c2>>)}

\* All trees with such files.
AllTrees ==
  {m \in [MCPath -> MCFiles \cup {NoNode, DirNode}] : WellFormed(m)}

Tree(d, a, f) == <<"d">> :> d @@ <<"d", "a">> :> a @@ <<"f">> :> f

\* A file of two chunks, a directory with a file, an empty directory: enough
\* for additions, changes and removals of each kind between any two.
FewTrees ==
  {Tree(NoNode, NoNode, FileNode(<<c1, c2>>)),
   Tree(DirNode, FileNode(<<c2>>), NoNode),
   Tree(DirNode, NoNode, FileNode(<<c1>>))}
=============================================================================
