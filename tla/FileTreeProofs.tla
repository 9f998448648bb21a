--------------------------- MODULE FileTreeProofs ---------------------------
(***************************************************************************)
(* Facts about trees and their diff, for every set of paths and chunks.    *)
(***************************************************************************)
EXTENDS FileTree, WellFoundedInduction, TLAPS

Tree(m) == m \in [Path -> Node] /\ WellFormed(m)

\* A set of numbers that is not empty has a least element.
LEMMA LeastNumber ==
  ASSUME NEW T, T \subseteq Nat, T # {}
  PROVE  \E i \in T : \A j \in T : i <= j
<1> DEFINE R == {ss \in Nat \X Nat : ss[1] < ss[2]}
<1>1. IsWellFoundedOn(R, Nat)
  BY NatLessThanWellFounded DEF OpToRel
<1>2. PICK i \in T : \A j \in T : ~(<<j, i>> \in R)
  <2> HIDE DEF R
  <2> QED  BY <1>1, WFMin, Zenon
<1>3. ASSUME NEW j \in T
      PROVE  i <= j
  <2>1. <<j, i>> \in Nat \X Nat /\ ~(j < i)
    BY <1>2
  <2> QED  BY <2>1
<1> QED  BY <1>3

-----------------------------------------------------------------------------
(* Paths *)

\* The ancestors of a path are the root and shorter paths.
LEMMA AncestorFacts ==
  ASSUME NEW p \in Path
  PROVE  /\ p \in Seq(Name) /\ p # Root /\ Len(p) \in Nat \ {0}
         /\ Root \in Ancestors(p)
         /\ p \notin Ancestors(p)
         /\ \A q \in Ancestors(p) : q = Root \/ q \in Path
<1>1. p \in Seq(Name) /\ p # Root /\ Len(p) \in Nat \ {0}
  BY PathAssumption DEF Root
<1>2. Root \in Ancestors(p)
  <2>1. SubSeq(p, 1, 0) = Root
    BY <1>1 DEF Root
  <2> QED  BY <1>1, <2>1 DEF Ancestors
<1>3. \A i \in 0..(Len(p) - 1) : Len(SubSeq(p, 1, i)) = i
  BY <1>1
<1>4. p \notin Ancestors(p)
  BY <1>1, <1>3 DEF Ancestors
<1>5. ASSUME NEW i \in 0..(Len(p) - 1)
      PROVE  SubSeq(p, 1, i) = Root \/ SubSeq(p, 1, i) \in Path
  <2>1. CASE i = 0
    BY <1>1, <2>1 DEF Root
  <2>2. CASE i # 0
    BY <1>1, <2>2, PathAssumption
  <2> QED  BY <2>1, <2>2
<1> QED  BY <1>1, <1>2, <1>4, <1>5, Zenon DEF Ancestors

\* An ancestor's ancestor is an ancestor.
LEMMA AncestorTransitive ==
  ASSUME NEW p \in Path, NEW q \in Ancestors(p), NEW r \in Ancestors(q)
  PROVE  r \in Ancestors(p)
<1>1. p \in Seq(Name) /\ Len(p) \in Nat
  BY AncestorFacts
<1>2. PICK i \in 0..(Len(p) - 1) : q = SubSeq(p, 1, i)
  BY DEF Ancestors
<1>3. Len(q) = i
  BY <1>1, <1>2
<1>4. PICK j \in 0..(i - 1) : r = SubSeq(q, 1, j)
  BY <1>3 DEF Ancestors
<1>5. r = SubSeq(p, 1, j)
  BY <1>1, <1>2, <1>4
<1> QED  BY <1>1, <1>5 DEF Ancestors

LEMMA ParentAncestors ==
  ASSUME NEW p \in Path
  PROVE  Ancestors(p) = Ancestors(Parent(p)) \cup {Parent(p)}
<1>1. p \in Seq(Name) /\ Len(p) \in Nat \ {0}
  BY AncestorFacts
<1>2. Len(Parent(p)) = Len(p) - 1
  <2>1. \A i \in 0..(Len(p) - 1) : Len(SubSeq(p, 1, i)) = i
    BY <1>1
  <2>2. Len(p) - 1 \in 0..(Len(p) - 1)
    BY <1>1
  <2> QED  BY <2>1, <2>2, Zenon DEF Parent
<1>3. \A i \in 0..(Len(p) - 2) : SubSeq(Parent(p), 1, i) = SubSeq(p, 1, i)
  BY <1>1, <1>2 DEF Parent
<1>4. 0..(Len(p) - 1) = 0..(Len(p) - 2) \cup {Len(p) - 1}
  BY <1>1
<1>5. Ancestors(Parent(p)) = {SubSeq(p, 1, i) : i \in 0..(Len(p) - 2)}
  <2>1. Len(Parent(p)) - 1 = Len(p) - 2
    BY <1>1, <1>2
  <2> QED  BY <1>3, <2>1, Zenon DEF Ancestors
<1> QED  BY <1>4, <1>5, Zenon DEF Ancestors, Parent

-----------------------------------------------------------------------------
(* Trees *)

LEMMA NodeFacts ==
  /\ NoNode \in Node /\ DirNode \in Node /\ EmptyFile \in Node
  /\ NoNode.kind = "none" /\ DirNode.kind = "dir" /\ EmptyFile.kind = "file"
BY DEF Node, NoNode, DirNode, EmptyFile, FileNode

\* A file that grows by a chunk.
LEMMA AppendNode ==
  ASSUME NEW n \in Node, n.kind = "file", NEW c \in Chunk
  PROVE  /\ [n EXCEPT !.chunks = Append(n.chunks, c)] = FileNode(Append(n.chunks, c))
         /\ FileNode(Append(n.chunks, c)) \in Node
         /\ FileNode(Append(n.chunks, c)).kind = "file"
         /\ FileNode(Append(n.chunks, c)).chunks = Append(n.chunks, c)
<1>1. n \in [kind : {"none", "dir", "file"}, chunks : Seq(Chunk)]
  BY DEF Node
<1> DEFINE s == Append(n.chunks, c)
<1>2. s \in Seq(Chunk)
  BY <1>1
<1> HIDE DEF s
<1>3. [n EXCEPT !.chunks = s] = [kind |-> "file", chunks |-> s]
  BY <1>1
<1>4. [kind |-> "file", chunks |-> s] \in Node
  BY <1>2 DEF Node
<1> QED  BY <1>3, <1>4 DEF FileNode, s

LEMMA AtPath ==
  ASSUME NEW m, NEW p \in Path
  PROVE  At(m, p) = m[p]
BY AncestorFacts DEF At

LEMMA EmptyTreeIsTree == Tree(EmptyTree)
<1>1. EmptyTree \in [Path -> Node]
  BY NodeFacts DEF EmptyTree
<1>2. \A p \in Path : ~Present(EmptyTree, p)
  BY AtPath, NodeFacts DEF EmptyTree, Present
<1> QED  BY <1>1, <1>2 DEF Tree, WellFormed

\* Only a directory has something below it.
LEMMA NothingBelow ==
  ASSUME NEW m, WellFormed(m), NEW p \in Path, ~IsDir(m, p)
  PROVE  \A q \in Path : p \in Ancestors(q) => ~Present(m, q)
BY DEF WellFormed

\* A node may be put where there is a directory for it, and nothing below
\* that it would leave without one.
LEMMA SetNode ==
  ASSUME NEW m, Tree(m), NEW p \in Path, NEW n \in Node,
         n.kind # "none" => \A q \in Ancestors(p) : IsDir(m, q),
         n.kind # "dir" => \A q \in Path : p \in Ancestors(q) => ~Present(m, q)
  PROVE  Tree([m EXCEPT ![p] = n])
<1> DEFINE mm == [m EXCEPT ![p] = n]
<1>1. mm \in [Path -> Node] /\ mm[p] = n /\ \A q \in Path \ {p} : mm[q] = m[q]
  BY DEF Tree
<1>2. At(mm, Root) = DirNode /\ At(m, Root) = DirNode
  BY DEF At
<1>3. \A q \in (Path \cup {Root}) \ {p} : At(mm, q) = At(m, q)
  BY <1>1, <1>2, AtPath, Zenon
<1>4. At(mm, p) = n
  BY <1>1, AtPath, Zenon
<1>5. ASSUME NEW r \in Path, Present(mm, r), NEW q \in Ancestors(r)
      PROVE  IsDir(mm, q)
  <2>1. q = Root \/ q \in Path
    BY <1>5, AncestorFacts
  <2>2. CASE r = p
    <3>1. IsDir(m, q)
      BY <1>4, <1>5, <2>2 DEF Present
    <3>2. q # p
      BY <1>5, <2>2, AncestorFacts
    <3> QED  BY <1>3, <2>1, <3>1, <3>2, Zenon DEF IsDir
  <2>3. CASE r # p
    <3>1. Present(m, r)
      BY <1>3, <1>5, <2>3 DEF Present
    <3>2. IsDir(m, q)
      BY <1>5, <3>1 DEF Tree, WellFormed
    <3>3. CASE q = p
      BY <1>4, <1>5, <3>1, <3>3 DEF IsDir
    <3>4. CASE q # p
      BY <1>3, <2>1, <3>2, <3>4, Zenon DEF IsDir
    <3> QED  BY <3>3, <3>4
  <2> QED  BY <2>2, <2>3
<1> QED  BY <1>1, <1>5, Zenon DEF Tree, WellFormed

-----------------------------------------------------------------------------
(* Chunks *)

LEMMA ChunksTyped ==
  ASSUME NEW m, Tree(m)
  PROVE  /\ \A q \in Path \cup {Root} : At(m, q) \in Node
         /\ \A q \in Path \cup {Root} : Range(At(m, q).chunks) \subseteq Chunk
         /\ \A p \in Path \cup {Root} : SubtreeChunks(m, p) \subseteq Chunk
<1>1. \A q \in Path \cup {Root} : At(m, q) \in Node
  BY AtPath, NodeFacts DEF Tree, At
<1>2. \A q \in Path \cup {Root} : Range(At(m, q).chunks) \subseteq Chunk
  BY <1>1 DEF Node, Range
<1> QED  BY <1>1, <1>2 DEF SubtreeChunks, Below

\* The chunks of a tree are those of its files.
LEMMA AllChunksOf ==
  ASSUME NEW m, Tree(m)
  PROVE  /\ \A p \in Path : Range(m[p].chunks) \subseteq AllChunks(m)
         /\ \A c \in AllChunks(m) : \E p \in Path : c \in Range(m[p].chunks)
<1>1. Range(At(m, Root).chunks) = {}
  BY DEF At, DirNode, Range
<1>2. \A p \in Path : At(m, p) = m[p] /\ Root \in Ancestors(p)
  BY AtPath, AncestorFacts
<1>3. ASSUME NEW p \in Path
      PROVE  Range(m[p].chunks) \subseteq AllChunks(m)
  <2>1. CASE Present(m, p)
    BY <1>2, <2>1 DEF AllChunks, SubtreeChunks, Below
  <2>2. CASE ~Present(m, p)
    <3>1. m[p].kind = "none" /\ m[p] \in Node
      BY <1>2, <2>2 DEF Present, Tree
    <3> QED  BY <3>1 DEF Node, Range
  <2> QED  BY <2>1, <2>2
<1>4. \A c \in AllChunks(m) : \E p \in Path : c \in Range(m[p].chunks)
  BY <1>1, <1>2 DEF AllChunks, SubtreeChunks, Below
<1> QED  BY <1>3, <1>4

-----------------------------------------------------------------------------
(* The diff *)

\* On the way to a path that is not in a set there is a first one that is not.
LEMMA FirstOutside ==
  ASSUME NEW D, NEW p \in Path, p \notin D
  PROVE  \E q \in Ancestors(p) \cup {p} : Ancestors(q) \subseteq D /\ q \notin D
<1>1. p \in Seq(Name) /\ Len(p) \in Nat \ {0} /\ SubSeq(p, 1, Len(p)) = p
  BY AncestorFacts
<1> DEFINE S == {i \in 0..Len(p) : SubSeq(p, 1, i) \notin D}
<1>2. S \subseteq Nat /\ Len(p) \in S
  <2>1. SubSeq(p, 1, Len(p)) \notin D
    BY <1>1, Zenon
  <2>2. Len(p) \in 0..Len(p)
    BY <1>1
  <2> QED  BY <2>1, <2>2
<1>3. PICK i \in S : \A j \in S : i <= j
  <2> HIDE DEF S
  <2> QED  BY <1>2, LeastNumber, Zenon
<1>5. i \in 0..Len(p) /\ SubSeq(p, 1, i) \notin D
  OBVIOUS
<1>6. SubSeq(p, 1, i) \in Ancestors(p) \cup {p}
  <2> HIDE DEF S
  <2>1. CASE i = Len(p)
    BY <1>1, <2>1
  <2>2. CASE i # Len(p)
    <3>1. Len(p) \in Nat /\ i \in 0..Len(p)
      BY <1>1, <1>5
    <3>2. i \in 0..(Len(p) - 1)
      BY <2>2, <3>1
    <3> QED  BY <3>2 DEF Ancestors
  <2> QED  BY <2>1, <2>2
<1>7. ASSUME NEW a \in Ancestors(SubSeq(p, 1, i))
      PROVE  a \in D
  <2>1. Len(SubSeq(p, 1, i)) = i
    BY <1>1, <1>5
  <2>2. PICK j \in 0..(i - 1) : a = SubSeq(SubSeq(p, 1, i), 1, j)
    BY <2>1 DEF Ancestors
  <2>3. a = SubSeq(p, 1, j) /\ j \in 0..Len(p) /\ j < i
    BY <1>1, <1>5, <2>2
  <2> QED  BY <1>3, <1>5, <2>3
<1> QED  BY <1>5, <1>6, <1>7, Zenon

\* The diff descends until it meets, on the way to a path, a node that it
\* classifies or whose hash is the same on both sides.
LEMMA DiffMeets ==
  ASSUME NEW l, NEW r, NEW p \in Path, ~Descends(l, r, p)
  PROVE  \E q \in Ancestors(p) \cup {p} :
            /\ \A a \in Ancestors(q) : Descends(l, r, a)
            /\ ~Descends(l, r, q)
<1> DEFINE D == {a \in Ancestors(p) \cup {p} : Descends(l, r, a)}
<1>1. p \notin D
  BY Zenon
<1>2. PICK q \in Ancestors(p) \cup {p} : Ancestors(q) \subseteq D /\ q \notin D
  <2> HIDE DEF D
  <2> QED  BY <1>1, FirstOutside, Zenon
<1> QED  BY <1>2, Zenon

LEMMA DiffMeetsFile ==
  ASSUME NEW l, NEW r, Tree(l), Tree(r),
         NEW p \in Path, IsFile(r, p), ~IsDir(l, p)
  PROVE  \E q \in Ancestors(p) \cup {p} :
            /\ \A a \in Ancestors(q) : Descends(l, r, a)
            /\ ~Descends(l, r, q)
<1>1. At(l, p) \in Node
  BY ChunksTyped
<1>2. ~Descends(l, r, p)
  BY <1>1 DEF Descends, Present, IsFile, IsDir, Node
<1> QED  BY <1>2, DiffMeets

\* The chunks of every file of the remote tree are in the local tree, or in
\* the store, or among those that syncCmd requests; unless the local tree has
\* a directory in the file's place.
THEOREM DiffComplete ==
  ASSUME NEW l, NEW r, NEW store, Tree(l), Tree(r),
         NEW p \in Path, IsFile(r, p), ~IsDir(l, p)
  PROVE  Range(r[p].chunks) \subseteq AllChunks(l) \cup store \cup NeededChunks(l, r, store)
<1>1. PICK q \in Ancestors(p) \cup {p} :
          /\ \A a \in Ancestors(q) : Descends(l, r, a)
          /\ ~Descends(l, r, q)
  BY DiffMeetsFile
<1>2. q \in Path \cup {Root} /\ At(r, p) = r[p] /\ At(l, p) = l[p]
  BY AncestorFacts, AtPath
<1>3. Present(r, q) /\ (IsFile(r, q) => q = p)
  <2>1. CASE q = p
    BY <2>1 DEF IsFile, Present
  <2>2. CASE q \in Ancestors(p)
    <3>1. IsDir(r, q)
      BY <2>2 DEF Tree, WellFormed, IsFile, Present
    <3> QED  BY <3>1 DEF IsDir, IsFile, Present
  <2> QED  BY <2>1, <2>2
<1>4. p \in Below(r, q) \cup {q}
  BY <1>1 DEF Below, IsFile, Present
<1>5. Range(r[p].chunks) \subseteq SubtreeChunks(r, q)
  BY <1>2, <1>4 DEF SubtreeChunks
<1>9. ASSUME q \in Added(l, r) \cup Modified(l, r)
      PROVE  SubtreeChunks(r, q) \subseteq NeededChunks(l, r, store) \cup store
  <2> DEFINE W == {SubtreeChunks(r, x) : x \in Added(l, r) \cup Modified(l, r)}
  <2>1. NeededChunks(l, r, store) = (UNION W) \ store
    BY DEF NeededChunks
  <2>2. SubtreeChunks(r, q) \in W
    BY <1>9
  <2> HIDE DEF W
  <2> QED  BY <2>1, <2>2
<1>6. CASE NodeHash(l, q) = NodeHash(r, q)
  <2>1. <<SubSeq(p, Len(q) + 1, Len(p)), At(r, p).chunks>> \in NodeHash(r, q)
    BY <1>4 DEF NodeHash
  <2>2. PICK x \in Below(l, q) \cup {q} : At(l, x).chunks = r[p].chunks
    <3>1. PICK x \in Below(l, q) \cup {q} :
             <<SubSeq(p, Len(q) + 1, Len(p)), At(r, p).chunks>>
               = <<SubSeq(x, Len(q) + 1, Len(x)), At(l, x).chunks>>
      BY <1>6, <2>1, Zenon DEF NodeHash
    <3>2. At(r, p).chunks = At(l, x).chunks
      BY <3>1
    <3> QED  BY <1>2, <3>2
  <2>3. x \in Path \cup {Root}
    BY <1>2, <2>2 DEF Below
  <2>4. CASE x = Root
    <3>1. Range(r[p].chunks) = {}
      BY <2>2, <2>4 DEF At, DirNode, Range
    <3> QED  BY <3>1
  <2>5. CASE x \in Path
    BY <2>2, <2>5, AtPath, AllChunksOf
  <2> QED  BY <2>3, <2>4, <2>5
<1>7. CASE ~Present(l, q)
  <2>1. q \in Path
    BY <1>2, <1>7 DEF Present, At, DirNode
  <2>2. q \in Added(l, r)
    BY <1>1, <1>3, <1>7, <2>1 DEF Added, Reached
  <2> QED  BY <1>5, <1>9, <2>2
<1>8. CASE IsFile(l, q) /\ IsFile(r, q) /\ NodeHash(l, q) # NodeHash(r, q)
  <2>1. q \in Modified(l, r)
    BY <1>1, <1>3, <1>8 DEF Modified, Reached
  <2> QED  BY <1>5, <1>9, <2>1
<1> QED  BY <1>1, <1>3, <1>6, <1>7, <1>8 DEF Descends

\* A path is its ancestor's name followed by the rest.
LEMMA SameSuffix ==
  ASSUME NEW p \in Path, NEW x \in Path, NEW q \in Ancestors(p), q \in Ancestors(x),
         SubSeq(p, Len(q) + 1, Len(p)) = SubSeq(x, Len(q) + 1, Len(x))
  PROVE  p = x
<1>1. p \in Seq(Name) /\ x \in Seq(Name) /\ Len(p) \in Nat /\ Len(x) \in Nat
  BY AncestorFacts
<1>2. PICK i \in 0..(Len(p) - 1) : q = SubSeq(p, 1, i)
  BY DEF Ancestors
<1>3. PICK j \in 0..(Len(x) - 1) : q = SubSeq(x, 1, j)
  BY DEF Ancestors
<1>4. Len(q) = i /\ Len(q) = j
  BY <1>1, <1>2, <1>3
<1> DEFINE sp == SubSeq(p, i + 1, Len(p))
           sx == SubSeq(x, i + 1, Len(x))
<1>5. Len(sp) = Len(p) - i /\ Len(sx) = Len(x) - i /\ sp = sx
  BY <1>1, <1>2, <1>3, <1>4
<1>6. Len(p) = Len(x)
  BY <1>1, <1>2, <1>5
<1>7. ASSUME NEW k \in 1..Len(p)
      PROVE  p[k] = x[k]
  <2>1. CASE k <= i
    <3>1. SubSeq(p, 1, i)[k] = p[k] /\ SubSeq(x, 1, i)[k] = x[k]
      BY <1>1, <1>2, <1>6, <2>1
    <3> QED  BY <1>2, <1>3, <1>4, <3>1
  <2>2. CASE k > i
    <3>1. k - i \in 1..Len(sp)
      BY <1>1, <1>2, <1>5, <2>2
    <3>2. sp[k - i] = p[k] /\ sx[k - i] = x[k]
      BY <1>1, <1>2, <1>5, <1>6, <2>2, <3>1
    <3> QED  BY <1>5, <3>2, Zenon
  <2> QED  BY <1>1, <1>2, <2>1, <2>2
<1> QED  BY <1>1, <1>6, <1>7

\* The other tree has the path too, with the same chunks.
Shared(l, r, p) == Present(r, p) /\ At(l, p).chunks = At(r, p).chunks

\* Nodes of the same hash have the same names below them, with the same chunks.
LEMMA SameHashBelow ==
  ASSUME NEW l, NEW r, NEW p \in Path, NEW q \in Ancestors(p),
         NodeHash(l, q) = NodeHash(r, q), Present(l, p)
  PROVE  Shared(l, r, p)
<1>3. p \in Below(l, q)
  BY Zenon DEF Below
<1>4. <<SubSeq(p, Len(q) + 1, Len(p)), At(l, p).chunks>> \in NodeHash(r, q)
  BY <1>3, Zenon DEF NodeHash
<1>5. PICK x \in Below(r, q) \cup {q} :
         <<SubSeq(p, Len(q) + 1, Len(p)), At(l, p).chunks>>
           = <<SubSeq(x, Len(q) + 1, Len(x)), At(r, x).chunks>>
  BY <1>4, Zenon DEF NodeHash
<1>6. /\ SubSeq(p, Len(q) + 1, Len(p)) = SubSeq(x, Len(q) + 1, Len(x))
      /\ At(l, p).chunks = At(r, x).chunks
  BY <1>5
<1>7. x # q
  <2>1. PICK i \in 0..(Len(p) - 1) : q = SubSeq(p, 1, i)
    BY DEF Ancestors
  <2>2. p \in Seq(Name) /\ Len(p) \in Nat /\ q \in Seq(Name) /\ Len(q) = i
    BY <2>1, AncestorFacts
  <2>3. Len(SubSeq(p, Len(q) + 1, Len(p))) = Len(p) - i
    BY <2>1, <2>2
  <2>4. Len(SubSeq(q, Len(q) + 1, Len(q))) = 0
    BY <2>2
  <2>5. Len(p) - i # 0
    BY <2>1, <2>2
  <2> QED  BY <1>6, <2>3, <2>4, <2>5
<1>8. x \in Path /\ q \in Ancestors(x) /\ Present(r, x)
  BY <1>5, <1>7, Zenon DEF Below
<1>9. x = p
  BY <1>6, <1>8, SameSuffix
<1> QED  BY <1>6, <1>8, <1>9, Zenon DEF Shared

\* They have the same chunks themselves.
LEMMA SameHashAt ==
  ASSUME NEW l, NEW r, NEW p \in Path \cup {Root}, NodeHash(l, p) = NodeHash(r, p)
  PROVE  At(l, p).chunks = At(r, p).chunks
<1>1. p \in Seq(Name) /\ Len(p) \in Nat
  <2>1. CASE p \in Path
    BY <2>1, AncestorFacts
  <2>2. CASE p = Root
    BY <2>2 DEF Root
  <2> QED  BY <2>1, <2>2
<1>2. Len(SubSeq(p, Len(p) + 1, Len(p))) = 0
  BY <1>1
<1>3. <<SubSeq(p, Len(p) + 1, Len(p)), At(l, p).chunks>> \in NodeHash(r, p)
  BY Zenon DEF NodeHash
<1>4. PICK x \in Below(r, p) \cup {p} :
         <<SubSeq(p, Len(p) + 1, Len(p)), At(l, p).chunks>>
           = <<SubSeq(x, Len(p) + 1, Len(x)), At(r, x).chunks>>
  BY <1>3, Zenon DEF NodeHash
<1>5. /\ Len(SubSeq(x, Len(p) + 1, Len(x))) = 0
      /\ At(l, p).chunks = At(r, x).chunks
  BY <1>2, <1>4
<1>6. ASSUME x # p
      PROVE  FALSE
  <2>1. x \in Path /\ p \in Ancestors(x)
    BY <1>4, <1>6, Zenon DEF Below
  <2>2. PICK i \in 0..(Len(x) - 1) : p = SubSeq(x, 1, i)
    BY <2>1 DEF Ancestors
  <2>3. x \in Seq(Name) /\ Len(x) \in Nat /\ Len(p) = i
    BY <2>1, <2>2, AncestorFacts
  <2>4. Len(SubSeq(x, Len(p) + 1, Len(x))) = Len(x) - i /\ Len(x) - i # 0
    BY <2>2, <2>3
  <2> QED  BY <1>5, <2>4
<1> QED  BY <1>5, <1>6

\* What is below nodes of the same hash has the same hash on both sides.
LEMMA SameHashInherited ==
  ASSUME NEW l, NEW r, NEW p \in Path, NEW q \in Ancestors(p),
         NodeHash(l, q) = NodeHash(r, q), Present(l, p), Present(r, p)
  PROVE  NodeHash(l, p) = NodeHash(r, p)
<1>1. Shared(l, r, p)
  BY SameHashBelow, Zenon
<1>2. ASSUME NEW x \in Path, p \in Ancestors(x)
      PROVE  (Present(l, x) => Shared(l, r, x)) /\ (Present(r, x) => Shared(r, l, x))
  <2>1. q \in Ancestors(x)
    BY <1>2, AncestorTransitive, Zenon
  <2>2. NodeHash(r, q) = NodeHash(l, q)
    OBVIOUS
  <2>3. Present(l, x) => Shared(l, r, x)
    BY <1>2, <2>1, SameHashBelow, Zenon
  <2>4. Present(r, x) => Shared(r, l, x)
    BY <1>2, <2>1, <2>2, SameHashBelow, Zenon
  <2> QED  BY <2>3, <2>4, Zenon
<1>3. Below(l, p) = Below(r, p)
  BY <1>2, Zenon DEF Below, Shared
<1>4. \A x \in Below(l, p) \cup {p} : At(l, x).chunks = At(r, x).chunks
  BY <1>1, <1>2, Zenon DEF Below, Shared
<1> QED  BY <1>3, <1>4 DEF NodeHash

\* What only the local tree has is listed as deleted, by itself or by a
\* directory that it is in.
LEMMA DiffFindsDeleted ==
  ASSUME NEW l, NEW r, Tree(l), Tree(r),
         NEW p \in Path, Present(l, p), ~Present(r, p)
  PROVE  \E q \in Ancestors(p) \cup {p} : q \in Deleted(l, r)
<1>1. ~Descends(l, r, p)
  BY DEF Descends
<1>2. PICK q \in Ancestors(p) \cup {p} :
          /\ \A a \in Ancestors(q) : Descends(l, r, a)
          /\ ~Descends(l, r, q)
  BY <1>1, DiffMeets
<1>3. q \in Path \cup {Root}
  BY AncestorFacts
<1>4. Present(l, q) /\ (q # p => q \in Ancestors(p) /\ IsDir(l, q))
  BY <1>2 DEF Tree, WellFormed, IsDir, Present
<1>5. CASE ~Present(r, q)
  <2>1. q \in Path
    BY <1>3, <1>5 DEF Present, At, DirNode
  <2>2. q \in Deleted(l, r)
    BY <1>2, <1>4, <1>5, <2>1 DEF Deleted, Reached
  <2> QED  BY <2>2
<1>6. CASE Present(r, q)
  <2>1. q \in Ancestors(p) /\ IsDir(l, q)
    BY <1>4, <1>6
  <2>2. NodeHash(l, q) = NodeHash(r, q)
    BY <1>2, <1>4, <1>6, <2>1 DEF Descends, IsDir, IsFile
  <2>3. Shared(l, r, p)
    BY <2>1, <2>2, SameHashBelow, Zenon
  <2> QED  BY <2>3 DEF Shared
<1> QED  BY <1>5, <1>6
=============================================================================
