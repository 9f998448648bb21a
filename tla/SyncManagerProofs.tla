-------------------------- MODULE SyncManagerProofs --------------------------
(***************************************************************************)
(* Proofs about modules SyncManager and MerkleDiff: what merkle.Diff       *)
(* finds, for any two trees; what a sync has counted and stored when it    *)
(* returns; and that the recursive algorithms on Merkle trees compute what *)
(* the models use.                                                         *)
(***************************************************************************)
EXTENDS MerkleDiff, FileTreeProofs, FiniteSetTheorems

-----------------------------------------------------------------------------
(* merkle.Diff *)

\* The diff goes on until it meets, on the way to a path, a node whose children
\* it does not visit.
LEMMA DiffStops ==
  ASSUME NEW l, NEW r, NEW p \in Path, ~Enters(l, r, p)
  PROVE  \E q \in Ancestors(p) \cup {p} : Visited(l, r, q) /\ ~Enters(l, r, q)
<1> DEFINE D == {a \in Ancestors(p) \cup {p} : Enters(l, r, a)}
<1>1. p \notin D
  BY Zenon
<1>2. PICK q \in Ancestors(p) \cup {p} : Ancestors(q) \subseteq D /\ q \notin D
  <2> HIDE DEF D
  <2> QED  BY <1>1, FirstOutside, Zenon
<1> QED  BY <1>2, Zenon DEF Visited

LEMMA VisitedBoth ==
  ASSUME NEW l, NEW r, NEW p
  PROVE  Visited(l, r, p) <=> Visited(r, l, p)
BY Zenon DEF Visited, Enters

\* What only one tree has is listed, unless the other one has a file on the way.
LEMMA OnlyOneHas ==
  ASSUME NEW m, NEW other, Tree(m), NEW p \in Path, Present(m, p), ~Present(other, p),
         \A q \in Ancestors(p) : Present(other, q) => IsDir(other, q)
  PROVE  p \in OnlyIn(m, other)
<1>1. ~Enters(m, other, p)
  BY Zenon DEF Enters, IsDir, Present
<1>2. PICK q \in Ancestors(p) \cup {p} : Visited(m, other, q) /\ ~Enters(m, other, q)
  BY <1>1, DiffStops, Zenon
<1>3. ASSUME Present(other, q)
      PROVE  FALSE
  <2>1. q \in Ancestors(p)
    BY <1>2, <1>3, Zenon
  <2>2. IsDir(m, q) /\ IsDir(other, q)
    BY <1>3, <2>1, Zenon DEF Tree, WellFormed
  <2>3. NodeHash(m, q) = NodeHash(other, q)
    BY <1>2, <2>2, Zenon DEF Enters
  <2>4. Shared(m, other, p)
    BY <2>1, <2>3, SameHashBelow, Zenon
  <2> QED  BY <2>4, Zenon DEF Shared
<1> QED  BY <1>2, <1>3, Zenon DEF OnlyIn

\* A node in the diff, and how it is classified.
ListedAs(l, r, p, class) == \E x \in Diff(l, r) : x.path = p /\ x.class = class

LEMMA DiffLists ==
  ASSUME NEW l, NEW r, NEW p
  PROVE  /\ p \in OnlyIn(l, r) => ListedAs(l, r, p, "added")
         /\ p \in OnlyIn(r, l) => ListedAs(l, r, p, "deleted")
         /\ p \in Differing(l, r) => ListedAs(l, r, p, "modified")
<1>1. ASSUME p \in OnlyIn(l, r)
      PROVE  ListedAs(l, r, p, "added")
  <2> DEFINE x == [class |-> "added", path |-> p, chunks |-> Places(l[p].chunks)]
  <2>1. x \in Diff(l, r) /\ x.path = p /\ x.class = "added"
    BY <1>1 DEF Diff
  <2> QED  BY <2>1, Zenon DEF ListedAs
<1>2. ASSUME p \in OnlyIn(r, l)
      PROVE  ListedAs(l, r, p, "deleted")
  <2> DEFINE x == [class |-> "deleted", path |-> p, chunks |-> Places(r[p].chunks)]
  <2>1. x \in Diff(l, r) /\ x.path = p /\ x.class = "deleted"
    BY <1>2 DEF Diff
  <2> QED  BY <2>1, Zenon DEF ListedAs
<1>3. ASSUME p \in Differing(l, r)
      PROVE  ListedAs(l, r, p, "modified")
  <2> DEFINE x == [class |-> "modified", path |-> p, chunks |-> ChangedChunks(l, r, p)]
  <2>1. x \in Diff(l, r) /\ x.path = p /\ x.class = "modified"
    BY <1>3 DEF Diff
  <2> QED  BY <2>1, Zenon DEF ListedAs
<1> QED  BY <1>1, <1>2, <1>3, Zenon

\* Nodes with the same chunks are the same, but for an empty file and a directory.
LEMMA SameChunks ==
  ASSUME NEW a \in Node, NEW b \in Node, a.kind # "none", b.kind # "none",
         a.chunks = b.chunks, a # b
  PROVE  {a, b} = {EmptyFile, DirNode}
<1>1. /\ a = [kind |-> a.kind, chunks |-> a.chunks] /\ a.kind \in {"dir", "file"}
      /\ b = [kind |-> b.kind, chunks |-> b.chunks] /\ b.kind \in {"dir", "file"}
  BY DEF Node
<1>2. a.kind # b.kind
  BY <1>1, Zenon
<1>3. a.chunks = <<>> /\ b.chunks = <<>>
  BY <1>1, <1>2 DEF Node
<1>4. (a = EmptyFile /\ b = DirNode) \/ (a = DirNode /\ b = EmptyFile)
  BY <1>1, <1>2, <1>3 DEF EmptyFile, FileNode, DirNode
<1> QED  BY <1>4, Zenon

\* The diff finds every path on which two trees differ.
Found(l, r, p) ==
  \/ l[p] = r[p]
  \/ {l[p], r[p]} = {EmptyFile, DirNode} /\ NodeHash(l, p) = NodeHash(r, p)
  \/ ListedAs(l, r, p, "added") /\ ~Present(r, p)
  \/ ListedAs(l, r, p, "deleted") /\ ~Present(l, p)
  \/ \E q \in Ancestors(p) \cup {p} : ListedAs(l, r, q, "modified")

LEMMA DiffFinds ==
  ASSUME NEW l, NEW r, Tree(l), Tree(r), NEW p \in Path
  PROVE  Found(l, r, p)
<1>0. /\ At(l, p) = l[p] /\ At(r, p) = r[p] /\ l[p] \in Node /\ r[p] \in Node
      /\ p \in Path \cup {Root}
  BY AtPath DEF Tree
<1>1. CASE ~Present(l, p) /\ ~Present(r, p)
  <2>1. l[p].kind = "none" /\ r[p].kind = "none"
    BY <1>0, <1>1, Zenon DEF Present
  <2>2. l[p] = NoNode /\ r[p] = NoNode
    BY <1>0, <2>1 DEF Node, NoNode
  <2> QED  BY <2>2, Zenon DEF Found
<1>2. CASE Enters(l, r, p)
  <2>1. l[p] = DirNode /\ r[p] = DirNode
    BY <1>0, <1>2 DEF Enters, IsDir, Node, DirNode
  <2> QED  BY <2>1, Zenon DEF Found
<1>3. ASSUME ~Enters(l, r, p), Present(l, p) \/ Present(r, p)
      PROVE  Found(l, r, p)
  <2>1. PICK q \in Ancestors(p) \cup {p} : Visited(l, r, q) /\ ~Enters(l, r, q)
    BY <1>3, DiffStops, Zenon
  <2>2. q \in Path \cup {Root}
    BY AncestorFacts, Zenon
  <2>3. q \in Path \/ (q = Root /\ Present(l, q) /\ Present(r, q))
    BY <2>2 DEF Present, At, DirNode
  <2>4. CASE ~Present(r, q)
    <3>1. Visited(l, r, q) /\ ~Present(r, p)
      <4>1. CASE q = p
        BY <2>1, <2>4, <4>1, Zenon
      <4>2. CASE q \in Ancestors(p)
        BY <2>1, <2>4, <4>2, Zenon DEF Tree, WellFormed, IsDir, Present
      <4> QED  BY <4>1, <4>2, Zenon
    <3>2. p \in OnlyIn(l, r)
      BY <1>3, <2>4, <3>1, Zenon DEF OnlyIn
    <3> QED  BY <3>1, <3>2, DiffLists, Zenon DEF Found
  <2>5. CASE ~Present(l, q)
    <3>1. Visited(r, l, q) /\ ~Present(l, p)
      <4>0. Visited(r, l, q)
        BY <2>1, VisitedBoth, Zenon
      <4>1. CASE q = p
        BY <2>5, <4>0, <4>1, Zenon
      <4>2. CASE q \in Ancestors(p)
        BY <2>5, <4>0, <4>2, Zenon DEF Tree, WellFormed, IsDir, Present
      <4> QED  BY <4>1, <4>2, Zenon
    <3>2. p \in OnlyIn(r, l)
      BY <1>3, <2>5, <3>1, Zenon DEF OnlyIn
    <3> QED  BY <3>1, <3>2, DiffLists, Zenon DEF Found
  <2>6. CASE Present(l, q) /\ Present(r, q) /\ NodeHash(l, q) # NodeHash(r, q)
    <3>1. q \in Path
      <4>1. CASE q = Root
        <5>1. IsDir(l, q) /\ IsDir(r, q)
          BY <4>1 DEF IsDir, At, DirNode
        <5> QED  BY <2>1, <2>6, <5>1, Zenon DEF Enters
      <4> QED  BY <2>2, <4>1, Zenon
    <3>2. q \in Differing(l, r)
      BY <2>1, <2>6, <3>1, Zenon DEF Differing
    <3> QED  BY <3>2, DiffLists, Zenon DEF Found
  <2>7. CASE Present(l, q) /\ Present(r, q) /\ NodeHash(l, q) = NodeHash(r, q)
    <3>1. Present(l, p) /\ Present(r, p) /\ NodeHash(l, p) = NodeHash(r, p)
      <4>1. CASE q = p
        BY <2>7, <4>1, Zenon
      <4>2. CASE q \in Ancestors(p)
        <5>1. Present(l, p) => Shared(l, r, p)
          BY <2>7, <4>2, SameHashBelow, Zenon
        <5>2. NodeHash(r, q) = NodeHash(l, q)
          BY <2>7, Zenon
        <5>3. Present(r, p) => Shared(r, l, p)
          BY <4>2, <5>2, SameHashBelow, Zenon
        <5>4. Present(l, p) /\ Present(r, p)
          BY <1>3, <5>1, <5>3, Zenon DEF Shared
        <5> QED  BY <2>7, <4>2, <5>4, SameHashInherited, Zenon
      <4> QED  BY <4>1, <4>2, Zenon
    <3>2. l[p].chunks = r[p].chunks
      <4>1. At(l, p).chunks = At(r, p).chunks
        BY <1>0, <3>1, SameHashAt
      <4> QED  BY <1>0, <4>1, Zenon
    <3>3. l[p].kind # "none" /\ r[p].kind # "none"
      BY <1>0, <3>1, Zenon DEF Present
    <3>4. l[p] = r[p] \/ {l[p], r[p]} = {EmptyFile, DirNode}
      BY <1>0, <3>2, <3>3, SameChunks
    <3> QED  BY <3>1, <3>4, Zenon DEF Found
  <2> QED  BY <2>4, <2>5, <2>6, <2>7, Zenon
<1> QED  BY <1>1, <1>2, <1>3, Zenon
-----------------------------------------------------------------------------
(* The chunks to request *)

LEMMA FiniteImage ==
  ASSUME NEW S, IsFiniteSet(S), NEW f, DOMAIN f = S, f = [x \in S |-> f[x]]
  PROVE  IsFiniteSet({f[x] : x \in S})
<1> DEFINE T == {f[x] : x \in S}
<1>1. f \in Surjection(S, T)
  BY DEF Surjection
<1> HIDE DEF T
<1>2. IsFiniteSet(T)
  BY <1>1, FS_Surjection, Zenon
<1> QED  BY <1>2 DEF T

\* The paths of a tree are finitely many.
Finite(m) == Tree(m) /\ IsFiniteSet({p \in Path : Present(m, p)})

\* All the chunks of a tree, as a diff may list them.
Everything(m) ==
  UNION {{<<p, i, m[p].chunks[i]>> : i \in DOMAIN m[p].chunks} : p \in {q \in Path : Present(m, q)}}

LEMMA EverythingFinite ==
  ASSUME NEW m, Finite(m)
  PROVE  IsFiniteSet(Everything(m))
<1> DEFINE P == {q \in Path : Present(m, q)}
           f == [p \in P |-> {<<p, i, m[p].chunks[i]>> : i \in DOMAIN m[p].chunks}]
<1>1. ASSUME NEW p \in P
      PROVE  IsFiniteSet(f[p])
  <2> DEFINE g == [i \in DOMAIN m[p].chunks |-> <<p, i, m[p].chunks[i]>>]
  <2>1. m[p] \in Node
    BY DEF Finite, Tree
  <2>2. DOMAIN m[p].chunks = 1..Len(m[p].chunks) /\ Len(m[p].chunks) \in Nat
    BY <2>1 DEF Node
  <2>3. IsFiniteSet(DOMAIN m[p].chunks)
    BY <2>2, FS_Interval
  <2>4. DOMAIN g = DOMAIN m[p].chunks /\ g = [i \in DOMAIN m[p].chunks |-> g[i]]
    OBVIOUS
  <2>5. f[p] = {g[i] : i \in DOMAIN m[p].chunks}
    BY Zenon
  <2> HIDE DEF g, f
  <2>6. IsFiniteSet({g[i] : i \in DOMAIN m[p].chunks})
    BY <2>3, <2>4, FiniteImage, Zenon
  <2> QED  BY <2>5, <2>6, Zenon
<1>2. IsFiniteSet(P)
  BY DEF Finite
<1>3. DOMAIN f = P /\ f = [p \in P |-> f[p]]
  OBVIOUS
<1>4. Everything(m) = UNION {f[p] : p \in P}
  BY DEF Everything
<1> HIDE DEF f, P
<1>5. IsFiniteSet({f[p] : p \in P})
  BY <1>2, <1>3, FiniteImage
<1>6. \A T \in {f[p] : p \in P} : IsFiniteSet(T)
  BY <1>1
<1> QED  BY <1>4, <1>5, <1>6, FS_UNION, Zenon

\* What is listed are chunks of the two trees; no list of chunks goes on for ever.
LEMMA ListedFinite ==
  ASSUME NEW l, NEW r, Finite(l), Finite(r)
  PROVE  IsFiniteSet(Listed(Diff(l, r)))
<1>1. ASSUME NEW x \in Diff(l, r), x.class \in {"deleted", "modified"}, NEW c \in x.chunks
      PROVE  <<x.path, c[1], c[2]>> \in Everything(l) \cup Everything(r)
  <2>1. CASE x.class = "deleted"
    <3>1. PICK p \in OnlyIn(r, l) :
            x = [class |-> "deleted", path |-> p, chunks |-> Places(r[p].chunks)]
      BY <1>1, <2>1 DEF Diff
    <3>2. x.path = p /\ c \in Places(r[p].chunks) /\ p \in Path /\ Present(r, p)
      BY <3>1 DEF OnlyIn
    <3>3. PICK i \in DOMAIN r[p].chunks : c = <<i, r[p].chunks[i]>>
      BY <3>2 DEF Places
    <3> QED  BY <3>2, <3>3 DEF Everything
  <2>2. CASE x.class = "modified"
    <3>1. PICK p \in Differing(l, r) :
            x = [class |-> "modified", path |-> p, chunks |-> ChangedChunks(l, r, p)]
      BY <1>1, <2>2 DEF Diff
    <3>2. x.path = p /\ c \in Places(l[p].chunks) /\ p \in Path /\ Present(l, p)
      BY <3>1 DEF Differing, ChangedChunks, FindDifferingChunks
    <3>3. PICK i \in DOMAIN l[p].chunks : c = <<i, l[p].chunks[i]>>
      BY <3>2 DEF Places
    <3> QED  BY <3>2, <3>3 DEF Everything
  <2> QED  BY <1>1, <2>1, <2>2
<1>2. Listed(Diff(l, r)) \in SUBSET (Everything(l) \cup Everything(r))
  BY <1>1 DEF Listed
<1>3. IsFiniteSet(Everything(l) \cup Everything(r))
  BY EverythingFinite, FS_Union, Zenon
<1> QED  BY <1>2, <1>3, FS_Subset

AllListed(l, r, p) == \A c \in Range(r[p].chunks) : \E x \in Listed(Diff(l, r)) : x[3] = c

\* The chunks of a file that only the peer has are listed.
LEMMA NewFileListed ==
  ASSUME NEW l, NEW r, Tree(r), NEW p \in Path, IsFile(r, p), ~Present(l, p),
         \A q \in Ancestors(p) : Present(l, q) => IsDir(l, q)
  PROVE  AllListed(l, r, p)
<1>1. p \in OnlyIn(r, l)
  <2>1. Present(r, p)
    BY Zenon DEF IsFile, Present
  <2> QED  BY <2>1, OnlyOneHas, Zenon
<1> DEFINE x == [class |-> "deleted", path |-> p, chunks |-> Places(r[p].chunks)]
<1>2. x \in Diff(l, r) /\ x.class = "deleted" /\ x.chunks = Places(r[p].chunks) /\ x.path = p
  BY <1>1 DEF Diff
<1> HIDE DEF x
<1>3. \A c \in Places(r[p].chunks) : <<p, c[1], c[2]>> \in Listed(Diff(l, r))
  BY <1>2 DEF Listed
<1>4. ASSUME NEW i \in DOMAIN r[p].chunks
      PROVE  \E y \in Listed(Diff(l, r)) : y[3] = r[p].chunks[i]
  <2> DEFINE c == <<i, r[p].chunks[i]>>
             y == <<p, c[1], c[2]>>
  <2>1. c \in Places(r[p].chunks)
    BY Zenon DEF Places
  <2>2. y[3] = r[p].chunks[i]
    OBVIOUS
  <2> HIDE DEF c
  <2>3. y \in Listed(Diff(l, r))
    BY <1>3, <2>1, Zenon
  <2> HIDE DEF y
  <2> QED  BY <2>2, <2>3, Zenon
<1> QED  BY <1>4, Zenon DEF Range, AllListed

-----------------------------------------------------------------------------
(* Syncs *)

Phase == {"idle", "manifest", "diff", "fetch", "done", "failed"}

\* The peer has every chunk of the tree it sent: its store only grows.
Types ==
  /\ Finite(local) /\ Finite(remote) /\ Finite(peerTree)
  /\ AllChunks(peerTree) \subseteq peerStore /\ AllChunks(remote) \subseteq peerStore
  /\ phase \in Phase
  /\ result \in [inSync : BOOLEAN, needed : Nat, fetched : Nat, notFound : Nat]
  /\ IsFiniteSet(toFetch)

LEMMA GivenTrees ==
  ASSUME NEW m \in Trees \cup Later
  PROVE  Finite(m)
BY SyncManagerAssumption DEF Finite, Tree

LEMMA EmptyTreeFinite == Finite(EmptyTree) /\ AllChunks(EmptyTree) = {}
<1>1. Tree(EmptyTree)
  BY EmptyTreeIsTree
<1>2. {p \in Path : Present(EmptyTree, p)} = {}
  BY AtPath, NodeFacts DEF EmptyTree, Present
<1>3. \A p \in Path : Range(EmptyTree[p].chunks) = {}
  BY DEF EmptyTree, NoNode, Range
<1>4. AllChunks(EmptyTree) = {}
  BY <1>1, <1>3, AllChunksOf
<1> QED  BY <1>1, <1>2, <1>4, FS_EmptySet DEF Finite

LEMMA InitTypes == Init => Types
<1> SUFFICES ASSUME Init
             PROVE  Types
  OBVIOUS
<1>1. Finite(local) /\ Finite(peerTree)
  BY GivenTrees, Zenon DEF Init
<1>2. Finite(remote) /\ AllChunks(remote) = {}
  BY EmptyTreeFinite, Zenon DEF Init
<1>3. AllChunks(peerTree) \subseteq peerStore /\ AllChunks(remote) \subseteq peerStore
  BY <1>2 DEF Init
<1>4. /\ phase \in Phase
      /\ result \in [inSync : BOOLEAN, needed : Nat, fetched : Nat, notFound : Nat]
  BY DEF Init, NoResult, Phase
<1>5. IsFiniteSet(toFetch)
  BY FS_EmptySet DEF Init
<1> QED  BY <1>1, <1>2, <1>3, <1>4, <1>5, Zenon DEF Types

\* A request takes a part of what is to fetch, and finds a part of that.
LEMMA Parts ==
  ASSUME NEW T, IsFiniteSet(T), NEW B, B \subseteq T, NEW A, A \subseteq B
  PROVE  /\ IsFiniteSet(T \ B)
         /\ Cardinality(A) \in Nat /\ Cardinality(B \ A) \in Nat /\ Cardinality(T \ B) \in Nat
         /\ Cardinality(T) \in Nat
         /\ Cardinality(A) + Cardinality(B \ A) + Cardinality(T \ B) = Cardinality(T)
<1>1. IsFiniteSet(B) /\ IsFiniteSet(A)
  BY FS_Subset
<1>2. T \cap B = B /\ B \cap A = A
  OBVIOUS
<1>3. /\ IsFiniteSet(T \ B) /\ Cardinality(T \ B) = Cardinality(T) - Cardinality(B)
      /\ IsFiniteSet(B \ A) /\ Cardinality(B \ A) = Cardinality(B) - Cardinality(A)
  <2>1. /\ IsFiniteSet(T \ B) /\ Cardinality(T \ B) = Cardinality(T) - Cardinality(T \cap B)
        /\ IsFiniteSet(B \ A) /\ Cardinality(B \ A) = Cardinality(B) - Cardinality(B \cap A)
    BY <1>1, FS_Difference, Zenon
  <2> QED  BY <1>2, <2>1, Zenon
<1>4. /\ Cardinality(T) \in Nat /\ Cardinality(B) \in Nat /\ Cardinality(A) \in Nat
      /\ Cardinality(T \ B) \in Nat /\ Cardinality(B \ A) \in Nat
  BY <1>1, <1>3, FS_CardinalityType
<1> QED  BY <1>3, <1>4

LEMMA TypesKept == Types /\ [Next]_vars => Types'
<1> SUFFICES ASSUME Types, [Next]_vars
             PROVE  Types'
  OBVIOUS
<1>0. /\ result \in [inSync : BOOLEAN, needed : Nat, fetched : Nat, notFound : Nat]
      /\ IsFiniteSet(toFetch)
  BY Zenon DEF Types
<1>1. ASSUME UpdateMerkleRoot
      PROVE  Types'
  <2>1. Finite(peerTree')
    BY <1>1, GivenTrees, Zenon DEF UpdateMerkleRoot
  <2>2. AllChunks(peerTree)' \subseteq peerStore' /\ peerStore \subseteq peerStore'
    <3>1. AllChunks(peerTree)' = AllChunks(peerTree')
      BY Zenon
    <3> QED  BY <1>1, <3>1, Zenon DEF UpdateMerkleRoot
  <2>3. /\ Finite(peerTree)' /\ Finite(remote)' /\ Finite(local)'
        /\ AllChunks(remote)' = AllChunks(remote)
    BY <1>1, <2>1, Zenon DEF UpdateMerkleRoot, Types, Finite, Tree
  <2>4. AllChunks(remote)' \subseteq peerStore'
    BY <2>2, <2>3, Zenon DEF Types
  <2>5. phase' = phase /\ result' = result /\ toFetch' = toFetch
    BY <1>1, Zenon DEF UpdateMerkleRoot
  <2> QED  BY <2>2, <2>3, <2>4, <2>5, Zenon DEF Types
<1>2. ASSUME UNCHANGED <<local, remote, peerTree, peerStore>>,
             phase' \in Phase, IsFiniteSet(toFetch'),
             result' \in [inSync : BOOLEAN, needed : Nat, fetched : Nat, notFound : Nat]
      PROVE  Types'
  <2>1. /\ Finite(local)' = Finite(local) /\ Finite(remote)' = Finite(remote)
        /\ Finite(peerTree)' = Finite(peerTree)
        /\ AllChunks(peerTree)' = AllChunks(peerTree) /\ AllChunks(remote)' = AllChunks(remote)
    BY <1>2, Zenon
  <2> QED  BY <1>2, <2>1, Zenon DEF Types
<1>3. ASSUME SyncWithPeer
      PROVE  Types'
  <2>1. result' \in [inSync : BOOLEAN, needed : Nat, fetched : Nat, notFound : Nat]
    <3>1. PICK b \in BOOLEAN : result' = [NoResult EXCEPT !.inSync = b]
      BY <1>3, Zenon DEF SyncWithPeer
    <3> QED  BY <3>1 DEF NoResult
  <2>2. phase' \in Phase
    BY <1>3 DEF SyncWithPeer, Phase
  <2>3. IsFiniteSet(toFetch')
    BY <1>3, FS_EmptySet, Zenon DEF SyncWithPeer
  <2> QED  BY <1>2, <1>3, <2>1, <2>2, <2>3, Zenon DEF SyncWithPeer
<1>4. ASSUME RequestManifest
      PROVE  Types'
  <2>1. /\ Finite(local)' = Finite(local) /\ Finite(remote)' = Finite(peerTree)
        /\ Finite(peerTree)' = Finite(peerTree)
        /\ AllChunks(peerTree)' = AllChunks(peerTree) /\ AllChunks(remote)' = AllChunks(peerTree)
    BY <1>4, Zenon DEF RequestManifest
  <2>2. phase' \in Phase
    BY <1>4 DEF RequestManifest, Phase
  <2> QED  BY <1>4, <2>1, <2>2, Zenon DEF Types, RequestManifest
<1>5. ASSUME CollectChunks
      PROVE  Types'
  <2>1. IsFiniteSet(toFetch')
    BY <1>5, ListedFinite, Zenon DEF CollectChunks, Types
  <2>2. Cardinality(toFetch') \in Nat
    BY <2>1, FS_CardinalityType
  <2>3. result' \in [inSync : BOOLEAN, needed : Nat, fetched : Nat, notFound : Nat]
    BY <1>0, <1>5, <2>2 DEF CollectChunks
  <2>4. phase' \in Phase
    BY <1>5 DEF CollectChunks, Phase
  <2> QED  BY <1>2, <1>5, <2>1, <2>3, <2>4, Zenon DEF CollectChunks
<1>6. ASSUME NEW batch \in SUBSET toFetch, FetchBatch(batch)
      PROVE  Types'
  <2>1. Answer(batch) \subseteq batch
    BY Zenon DEF Answer
  <2>2. /\ IsFiniteSet(toFetch \ batch) /\ Cardinality(Answer(batch)) \in Nat
        /\ Cardinality(batch \ Answer(batch)) \in Nat
    BY <1>0, <2>1, Parts, Zenon
  <2>3. result' \in [inSync : BOOLEAN, needed : Nat, fetched : Nat, notFound : Nat]
    <3>1. PICK a \in Nat, n \in Nat :
            result' = [result EXCEPT !.fetched = @ + a, !.notFound = @ + n]
      BY <1>6, <2>2, Zenon DEF FetchBatch
    <3>2. result' = [inSync |-> result.inSync, needed |-> result.needed,
                     fetched |-> result.fetched + a, notFound |-> result.notFound + n]
      BY <1>0, <3>1, Zenon
    <3>3. result.fetched + a \in Nat /\ result.notFound + n \in Nat
      BY <1>0
    <3> QED  BY <1>0, <3>2, <3>3
  <2>4. phase' \in Phase /\ IsFiniteSet(toFetch')
    BY <1>6, <2>2 DEF FetchBatch, Phase
  <2> QED  BY <1>2, <1>6, <2>3, <2>4, Zenon DEF FetchBatch
<1>7. ASSUME SyncFails
      PROVE  Types'
  <2>1. result' \in [inSync : BOOLEAN, needed : Nat, fetched : Nat, notFound : Nat]
    <3>1. CASE phase = "manifest"
      BY <1>0, <1>7, <3>1, Zenon DEF SyncFails
    <3>2. CASE phase # "manifest"
      <4>1. PICK put \in SUBSET {x \in toFetch : x[3] \in peerStore} :
              result' = [result EXCEPT !.fetched = @ + Cardinality(put)]
        BY <1>7, <3>2, Zenon DEF SyncFails
      <4>2. put \in SUBSET toFetch
        BY Zenon
      <4>3. Cardinality(put) \in Nat
        BY <1>0, <4>2, FS_Subset, FS_CardinalityType
      <4> QED  BY <1>0, <4>1, <4>3
    <3> QED  BY <3>1, <3>2
  <2>2. phase' \in Phase /\ IsFiniteSet(toFetch')
    BY <1>0, <1>7 DEF SyncFails, Phase
  <2> QED  BY <1>2, <1>7, <2>1, <2>2, Zenon DEF SyncFails
<1>8. ASSUME UNCHANGED vars
      PROVE  Types'
  <2>1. phase' = phase /\ result' = result /\ toFetch' = toFetch /\ phase \in Phase
    BY <1>8 DEF vars, Types
  <2>2. UNCHANGED <<local, remote, peerTree, peerStore>>
    BY <1>8 DEF vars
  <2> QED  BY <1>0, <1>2, <2>1, <2>2, Zenon
<1> QED  BY <1>1, <1>3, <1>4, <1>5, <1>6, <1>7, <1>8, Zenon DEF Next

-----------------------------------------------------------------------------

\* While chunks are fetched, those counted and those to come are those needed.
Counts ==
  /\ phase \in {"manifest", "diff"} => result.fetched = 0 /\ result.notFound = 0
  /\ phase = "fetch" => result.fetched + result.notFound + Cardinality(toFetch) = result.needed
  /\ CountsAddUp

LEMMA InitCounts == Init => Counts
BY DEF Init, Counts, CountsAddUp

LEMMA CountsKept == Types /\ Counts /\ [Next]_vars => Counts'
<1> SUFFICES ASSUME Types, Counts, [Next]_vars
             PROVE  Counts'
  OBVIOUS
<1>0. /\ result \in [inSync : BOOLEAN, needed : Nat, fetched : Nat, notFound : Nat]
      /\ IsFiniteSet(toFetch)
  BY Zenon DEF Types
<1>1. ASSUME UNCHANGED <<phase, result, toFetch>>
      PROVE  Counts'
  <2>1. Cardinality(toFetch') = Cardinality(toFetch)
    BY <1>1, Zenon
  <2> QED  BY <1>1, <2>1, Zenon DEF Counts, CountsAddUp
<1>2. ASSUME UpdateMerkleRoot \/ UNCHANGED vars
      PROVE  Counts'
  BY <1>1, <1>2, Zenon DEF UpdateMerkleRoot, vars
<1>3. ASSUME SyncWithPeer
      PROVE  Counts'
  <2>1. PICK b \in BOOLEAN : result' = [NoResult EXCEPT !.inSync = b]
    BY <1>3, Zenon DEF SyncWithPeer
  <2>2. result'.fetched = 0 /\ result'.notFound = 0 /\ result'.needed = 0
    BY <2>1 DEF NoResult
  <2>3. phase' \in {"done", "manifest"}
    BY <1>3, Zenon DEF SyncWithPeer
  <2> QED  BY <2>2, <2>3 DEF Counts, CountsAddUp
<1>4. ASSUME RequestManifest
      PROVE  Counts'
  BY <1>4 DEF RequestManifest, Counts, CountsAddUp
<1>5. ASSUME CollectChunks
      PROVE  Counts'
  <2>1. result.fetched = 0 /\ result.notFound = 0
    BY <1>5 DEF CollectChunks, Counts
  <2>2. IsFiniteSet(toFetch')
    BY <1>5, ListedFinite, Zenon DEF CollectChunks, Types
  <2>3. PICK n \in Nat : n = Cardinality(toFetch')
    BY <2>2, FS_CardinalityType
  <2>4. result'.fetched = 0 /\ result'.notFound = 0 /\ result'.needed = n
    BY <1>0, <1>5, <2>1, <2>3 DEF CollectChunks
  <2>5. (phase' = "done" /\ toFetch' = {}) \/ phase' = "fetch"
    BY <1>5, Zenon DEF CollectChunks
  <2>6. toFetch' = {} => n = 0
    BY <2>2, <2>3, FS_EmptySet, Zenon
  <2> QED  BY <2>3, <2>4, <2>5, <2>6 DEF Counts, CountsAddUp
<1>6. ASSUME NEW batch \in SUBSET toFetch, FetchBatch(batch)
      PROVE  Counts'
  <2>1. Answer(batch) \subseteq batch
    BY Zenon DEF Answer
  <2>2. PICK a \in Nat, n \in Nat, t \in Nat, k \in Nat :
          /\ a = Cardinality(Answer(batch)) /\ n = Cardinality(batch \ Answer(batch))
          /\ t = Cardinality(toFetch \ batch) /\ k = Cardinality(toFetch) /\ a + n + t = k
    <3>1. /\ Cardinality(Answer(batch)) \in Nat /\ Cardinality(batch \ Answer(batch)) \in Nat
          /\ Cardinality(toFetch \ batch) \in Nat /\ Cardinality(toFetch) \in Nat
          /\ Cardinality(Answer(batch)) + Cardinality(batch \ Answer(batch))
               + Cardinality(toFetch \ batch) = Cardinality(toFetch)
      BY <1>0, <2>1, Parts, Zenon
    <3> QED  BY <3>1, Zenon
  <2>3. result' = [result EXCEPT !.fetched = @ + a, !.notFound = @ + n]
    BY <1>6, <2>2, Zenon DEF FetchBatch
  <2>4. result.fetched + result.notFound + k = result.needed
    BY <1>6, <2>2, Zenon DEF FetchBatch, Counts
  <2>5. result'.fetched + result'.notFound + t = result'.needed
    BY <1>0, <2>2, <2>3, <2>4
  <2>6. /\ toFetch' = toFetch \ batch /\ t = Cardinality(toFetch')
        /\ ((phase' = "done" /\ toFetch' = {}) \/ phase' = "fetch")
    BY <1>6, <2>2, Zenon DEF FetchBatch
  <2>7. toFetch' = {} => t = 0
    BY <2>6, FS_EmptySet, Zenon
  <2>8. result'.fetched \in Nat /\ result'.notFound \in Nat
    BY <1>0, <2>3
  <2> QED  BY <2>5, <2>6, <2>7, <2>8 DEF Counts, CountsAddUp
<1>7. ASSUME SyncFails
      PROVE  Counts'
  <2>0. phase' = "failed" /\ phase \in {"manifest", "fetch"}
    BY <1>7, Zenon DEF SyncFails
  <2>1. CASE phase = "manifest"
    <3>1. result' = result
      BY <1>7, <2>1, Zenon DEF SyncFails
    <3>2. result.fetched = 0 /\ result.notFound = 0 /\ result.needed \in Nat
      BY <1>0, <2>1 DEF Counts
    <3> QED  BY <2>0, <3>1, <3>2 DEF Counts, CountsAddUp
  <2>2. CASE phase = "fetch"
    <3>1. PICK put \in SUBSET {x \in toFetch : x[3] \in peerStore} :
            result' = [result EXCEPT !.fetched = @ + Cardinality(put)]
      BY <1>7, <2>2, Zenon DEF SyncFails
    <3>2. put \subseteq toFetch
      BY Zenon
    <3>3. PICK n \in Nat, k \in Nat : n = Cardinality(put) /\ k = Cardinality(toFetch) /\ n <= k
      <4>1. put \in SUBSET toFetch
        BY <3>2, Zenon
      <4>2. /\ Cardinality(put) \in Nat /\ Cardinality(toFetch) \in Nat
            /\ Cardinality(put) <= Cardinality(toFetch)
        BY <1>0, <4>1, FS_Subset, FS_CardinalityType
      <4> QED  BY <4>2, Zenon
    <3>4. result' = [result EXCEPT !.fetched = @ + n]
      BY <3>1, <3>3, Zenon
    <3>5. result.fetched + result.notFound + k = result.needed
      BY <2>2, <3>3, Zenon DEF Counts
    <3>6. result'.fetched + result'.notFound <= result'.needed
      BY <1>0, <3>3, <3>4, <3>5
    <3> QED  BY <2>0, <3>6 DEF Counts, CountsAddUp
  <2> QED  BY <2>0, <2>1, <2>2
<1> QED  BY <1>2, <1>3, <1>4, <1>5, <1>6, <1>7, Zenon DEF Next

\* A chunk that is listed, and that the peer's manifest has, is still to be fetched
\* or is in the store.
Stored ==
  phase \in {"fetch", "done"} /\ ~result.inSync =>
    /\ \A x \in Listed(Diff(local, remote)) :
         x[3] \in AllChunks(remote) => x \in toFetch \/ x[3] \in received
    /\ phase = "done" => toFetch = {}

LEMMA InitStored == Init => Stored
BY DEF Init, Stored

LEMMA StoredKept == Types /\ Stored /\ [Next]_vars => Stored'
<1> SUFFICES ASSUME Types, Stored, [Next]_vars
             PROVE  Stored'
  OBVIOUS
<1>1. ASSUME UNCHANGED <<local, remote>>
      PROVE  Listed(Diff(local, remote))' = Listed(Diff(local, remote))
             /\ AllChunks(remote)' = AllChunks(remote)
  BY <1>1, Zenon
<1>2. ASSUME UpdateMerkleRoot \/ UNCHANGED vars
      PROVE  Stored'
  <2>1. UNCHANGED <<local, remote>> /\ UNCHANGED <<phase, result, toFetch, received>>
    BY <1>2, Zenon DEF UpdateMerkleRoot, vars
  <2> QED  BY <1>1, <2>1, Zenon DEF Stored
<1>3. ASSUME SyncWithPeer
      PROVE  Stored'
  <2>1. CASE phase' = "manifest"
    BY <2>1 DEF Stored
  <2>2. CASE phase' # "manifest"
    <3>1. RootHash(local) = announced /\ result' = [NoResult EXCEPT !.inSync = TRUE]
      BY <1>3, <2>2, Zenon DEF SyncWithPeer
    <3>2. result'.inSync = TRUE
      BY <3>1 DEF NoResult
    <3> QED  BY <3>2, Zenon DEF Stored
  <2> QED  BY <2>1, <2>2
<1>4. ASSUME phase' \notin {"fetch", "done"}
      PROVE  Stored'
  BY <1>4, Zenon DEF Stored
<1>5. ASSUME CollectChunks
      PROVE  Stored'
  <2>1. UNCHANGED <<local, remote>> /\ toFetch' = Listed(Diff(local, remote))
    BY <1>5, Zenon DEF CollectChunks
  <2>2. phase' = "done" => toFetch' = {}
    BY <1>5, Zenon DEF CollectChunks
  <2> QED  BY <1>1, <2>1, <2>2, Zenon DEF Stored
<1>6. ASSUME NEW batch \in SUBSET toFetch, FetchBatch(batch)
      PROVE  Stored'
  <2>1. UNCHANGED <<local, remote>> /\ phase = "fetch" /\ toFetch' = toFetch \ batch
    BY <1>6, Zenon DEF FetchBatch
  <2>2. phase' = "done" => toFetch' = {}
    BY <1>6, Zenon DEF FetchBatch
  <2>3. result'.inSync = result.inSync
    <3>1. result \in [inSync : BOOLEAN, needed : Nat, fetched : Nat, notFound : Nat]
      BY Zenon DEF Types
    <3> QED  BY <1>6, <3>1 DEF FetchBatch
  <2>4. ASSUME NEW x \in batch, x[3] \in AllChunks(remote)
        PROVE  x[3] \in received'
    <3>1. x[3] \in peerStore
      BY <2>4, Zenon DEF Types
    <3> QED  BY <1>6, <2>4, <3>1, Zenon DEF FetchBatch, Answer
  <2>5. received \subseteq received'
    BY <1>6, Zenon DEF FetchBatch
  <2>6. ASSUME ~result.inSync, NEW x \in Listed(Diff(local, remote)), x[3] \in AllChunks(remote)
        PROVE  x \in toFetch' \/ x[3] \in received'
    BY <2>1, <2>4, <2>5, <2>6, Zenon DEF Stored
  <2> QED  BY <1>1, <2>1, <2>2, <2>3, <2>6, Zenon DEF Stored
<1>7. ASSUME RequestManifest \/ SyncFails
      PROVE  Stored'
  <2>1. phase' \in {"diff", "failed"}
    BY <1>7, Zenon DEF RequestManifest, SyncFails
  <2>2. phase' \notin {"fetch", "done"}
    BY <2>1
  <2> QED  BY <1>4, <2>2
<1> QED  BY <1>2, <1>3, <1>5, <1>6, <1>7, Zenon DEF Next

-----------------------------------------------------------------------------
(* Recursion over a finite tree *)

\* A path and one name more.
LEMMA ChildPath ==
  ASSUME NEW p \in Path \cup {Root}, NEW n \in Name, Append(p, n) \in Path
  PROVE  /\ Len(Append(p, n)) = Len(p) + 1 /\ Len(p) \in Nat
         /\ Ancestors(Append(p, n)) = Ancestors(p) \cup {p}
<1>1. p \in Seq(Name)
  <2>1. CASE p \in Path
    BY <2>1, AncestorFacts
  <2>2. CASE p = Root
    BY <2>2 DEF Root
  <2> QED  BY <2>1, <2>2
<1>2. Len(Append(p, n)) = Len(p) + 1 /\ Len(p) \in Nat
  BY <1>1
<1>3. Parent(Append(p, n)) = p
  BY <1>1 DEF Parent
<1> QED  BY <1>2, <1>3, ParentAncestors

\* On the way from a path to one below it lies a child of the first.
LEMMA FirstStep ==
  ASSUME NEW x \in Path, NEW p \in Ancestors(x)
  PROVE  \E n \in Name : Append(p, n) \in Path /\ Append(p, n) \in Ancestors(x) \cup {x}
<1>1. x \in Seq(Name) /\ Len(x) \in Nat \ {0}
  BY AncestorFacts
<1>2. PICK i \in 0..(Len(x) - 1) : p = SubSeq(x, 1, i)
  BY DEF Ancestors
<1>3. x[i + 1] \in Name /\ i + 1 \in 1..Len(x)
  BY <1>1, <1>2
<1>4. Append(p, x[i + 1]) = SubSeq(x, 1, i + 1)
  BY <1>1, <1>2, <1>3
<1>5. CASE i + 1 = Len(x)
  <2>1. SubSeq(x, 1, Len(x)) = x
    BY <1>1
  <2> QED  BY <1>3, <1>4, <1>5, <2>1
<1>6. CASE i + 1 # Len(x)
  <2>1. i + 1 \in 1..(Len(x) - 1) /\ i + 1 \in 0..(Len(x) - 1)
    BY <1>1, <1>3, <1>6
  <2>2. SubSeq(x, 1, i + 1) \in Path
    BY <2>1, PathAssumption
  <2>3. SubSeq(x, 1, i + 1) \in Ancestors(x)
    BY <2>1 DEF Ancestors
  <2> QED  BY <1>3, <1>4, <2>2, <2>3
<1> QED  BY <1>5, <1>6

\* A finite set of numbers has a bound.
LEMMA FiniteBounded ==
  ASSUME NEW S, S \subseteq Nat, IsFiniteSet(S)
  PROVE  \E b \in Nat : \A i \in S : i <= b
<1> DEFINE Bounded(T) == \E b \in Nat : \A i \in T : i <= b
           K == {Cardinality(T) : T \in {U \in SUBSET S : ~Bounded(U)}}
<1>1. \A T \in SUBSET S : IsFiniteSet(T) /\ Cardinality(T) \in Nat
  BY FS_Subset, FS_CardinalityType
<1>2. SUFFICES ASSUME ~Bounded(S)
               PROVE  FALSE
  OBVIOUS
<1>3. K \subseteq Nat /\ K # {}
  BY <1>1, <1>2
<1>4. PICK k \in K : \A j \in K : k <= j
  <2> HIDE DEF K
  <2> QED  BY <1>3, LeastNumber, Zenon
<1>5. PICK T \in SUBSET S : ~Bounded(T) /\ k = Cardinality(T)
  OBVIOUS
<1>6. PICK x \in T : TRUE
  <2>1. Bounded({})
    OBVIOUS
  <2> QED  BY <1>5, <2>1
<1>7. Cardinality(T \ {x}) = Cardinality(T) - 1
  BY <1>1, <1>6, FS_RemoveElement
<1>8. Cardinality(T \ {x}) < k /\ Cardinality(T \ {x}) \in Nat /\ k \in Nat
  BY <1>1, <1>5, <1>7
<1>9. Bounded(T \ {x})
  <2>1. SUFFICES ASSUME ~Bounded(T \ {x})
                 PROVE  FALSE
    OBVIOUS
  <2>2. Cardinality(T \ {x}) \in K
    BY <2>1
  <2> HIDE DEF K
  <2> QED  BY <1>4, <1>8, <2>2
<1>10. PICK b \in Nat : \A i \in T \ {x} : i <= b
  BY <1>9
<1>11. b + x \in Nat /\ \A i \in T : i <= b + x
  <2>1. T \subseteq Nat
    OBVIOUS
  <2> QED  BY <1>10, <2>1
<1>12. Bounded(T)
  BY <1>11, Zenon
<1> QED  BY <1>5, <1>12

\* The length of the paths in finite trees is bounded.
LEMMA DepthBounded ==
  ASSUME NEW l, NEW r, Finite(l), Finite(r)
  PROVE  \E b \in Nat : \A p \in Path : Present(l, p) \/ Present(r, p) => Len(p) <= b
<1> DEFINE P == {p \in Path : Present(l, p)} \cup {p \in Path : Present(r, p)}
           S == {Len(p) : p \in P}
<1>1. IsFiniteSet(P)
  BY FS_Union DEF Finite
<1>2. IsFiniteSet(S)
  <2> DEFINE f == [p \in P |-> Len(p)]
  <2> HIDE DEF P
  <2>1. f \in Surjection(P, S)
    BY DEF Surjection
  <2> HIDE DEF f, S
  <2> QED  BY <1>1, <2>1, FS_Surjection, Zenon
<1>3. S \subseteq Nat
  BY AncestorFacts
<1>4. PICK b \in Nat : \A i \in S : i <= b
  <2> HIDE DEF S
  <2> QED  BY <1>2, <1>3, FiniteBounded, Zenon
<1>5. \A p \in P : Len(p) <= b
  BY <1>4
<1> QED  BY <1>5, Zenon

\* The paths of two trees.
Paths(l, r) == {p \in Path \cup {Root} : Present(l, p) \/ Present(r, p)}

\* Induction from the leaves of two finite trees to the root.
LEMMA FromLeaves ==
  ASSUME NEW l, NEW r, Finite(l), Finite(r), NEW T,
         \A p \in Paths(l, r) :
           (\A n \in Name : Append(p, n) \in Path /\ Append(p, n) \in Paths(l, r)
                           => Append(p, n) \in T) => p \in T
  PROVE  Paths(l, r) \subseteq T
<1>1. PICK b \in Nat : \A p \in Path : Present(l, p) \/ Present(r, p) => Len(p) <= b
  BY DepthBounded, Zenon
<1>2. \A p \in Paths(l, r) : Len(p) \in 0..b
  <2>1. Len(Root) = 0
    BY DEF Root
  <2> QED  BY <1>1, <2>1, AncestorFacts DEF Paths
<1> DEFINE Out == {b - Len(p) : p \in {q \in Paths(l, r) : q \notin T}}
<1>3. SUFFICES ASSUME Out # {}
               PROVE  FALSE
  OBVIOUS
<1>4. Out \subseteq Nat
  BY <1>2
<1>5. PICK k \in Out : \A j \in Out : k <= j
  <2> HIDE DEF Out
  <2> QED  BY <1>3, <1>4, LeastNumber, Zenon
<1>6. PICK p \in Paths(l, r) : p \notin T /\ k = b - Len(p)
  OBVIOUS
<1>7. PICK n \in Name :
        Append(p, n) \in Path /\ Append(p, n) \in Paths(l, r) /\ Append(p, n) \notin T
  BY <1>6, Zenon
<1>8. b - Len(Append(p, n)) \in Out
  <2>1. PICK q : q = Append(p, n)
    BY Zenon
  <2>2. q \in {x \in Paths(l, r) : x \notin T}
    BY <1>7, <2>1, Zenon
  <2>3. b - Len(q) \in Out
    BY <2>2
  <2> QED  BY <2>1, <2>3, Zenon
<1>9. p \in Path \cup {Root}
  BY DEF Paths
<1>10. Len(Append(p, n)) = Len(p) + 1 /\ Len(p) \in Nat
  BY <1>7, <1>9, ChildPath, Zenon
<1>11. k <= b - Len(Append(p, n))
  BY <1>5, <1>8, Zenon
<1> QED  BY <1>6, <1>10, <1>11

\* Induction up to a bound.
LEMMA UpTo ==
  ASSUME NEW n \in Nat, NEW T, 0 \in T, \A i \in 0..(n - 1) : i \in T => i + 1 \in T
  PROVE  n \in T
<1> DEFINE Out == {i \in 0..n : i \notin T}
<1>1. SUFFICES ASSUME Out # {}
               PROVE  FALSE
  OBVIOUS
<1>2. Out \subseteq Nat
  OBVIOUS
<1>3. PICK i \in Out : \A j \in Out : i <= j
  <2> HIDE DEF Out
  <2> QED  BY <1>1, <1>2, LeastNumber, Zenon
<1>4. i \in 0..n /\ i \notin T /\ i # 0
  BY Zenon
<1>5. i - 1 \in 0..(n - 1) /\ (i - 1) + 1 = i /\ i - 1 \in 0..n /\ ~(i <= i - 1)
  BY <1>4
<1>6. i - 1 \in T
  BY <1>3, <1>5, Zenon
<1> QED  BY <1>4, <1>5, <1>6, Zenon

\* The paths of two trees that are long enough.
Deep(l, r, b, k) == {p \in Paths(l, r) : Len(p) + k > b}

LEMMA DeepIs ==
  ASSUME NEW l, NEW r, NEW b \in Nat,
         \A p \in Path : Present(l, p) \/ Present(r, p) => Len(p) <= b
  PROVE  /\ Deep(l, r, b, 0) = {} /\ Deep(l, r, b, b + 1) = Paths(l, r)
         /\ \A k \in Nat : \A p \in Deep(l, r, b, k + 1) : \A n \in Name :
              Append(p, n) \in Path /\ (Present(l, Append(p, n)) \/ Present(r, Append(p, n)))
                => Append(p, n) \in Deep(l, r, b, k) /\ Append(p, n) \in Deep(l, r, b, k + 1)
<1>1. \A p \in Paths(l, r) : Len(p) \in 0..b
  <2>1. Len(Root) = 0
    BY DEF Root
  <2> QED  BY <2>1, AncestorFacts DEF Paths
<1>2. Deep(l, r, b, 0) = {} /\ Deep(l, r, b, b + 1) = Paths(l, r)
  BY <1>1 DEF Deep
<1>3. ASSUME NEW k \in Nat, NEW p \in Deep(l, r, b, k + 1), NEW n \in Name,
             Append(p, n) \in Path, Present(l, Append(p, n)) \/ Present(r, Append(p, n))
      PROVE  Append(p, n) \in Deep(l, r, b, k) /\ Append(p, n) \in Deep(l, r, b, k + 1)
  <2>1. p \in Path \cup {Root} /\ Len(p) + (k + 1) > b
    BY DEF Deep, Paths
  <2>2. Len(Append(p, n)) = Len(p) + 1 /\ Len(p) \in Nat
    BY <1>3, <2>1, ChildPath, Zenon
  <2>3. Append(p, n) \in Paths(l, r)
    BY <1>3, Zenon DEF Paths
  <2>4. PICK q : q = Append(p, n)
    BY Zenon
  <2>5. Len(q) + k > b /\ Len(q) + (k + 1) > b
    BY <2>1, <2>2, <2>4
  <2> QED  BY <2>3, <2>4, <2>5, Zenon DEF Deep
<1> QED  BY <1>2, <1>3, Zenon

-----------------------------------------------------------------------------
(* BuildFromFS and the manifest *)

\* The node at p, given the nodes below it.
NodeAt(m, f, p) ==
  IF IsFile(m, p) THEN NewFileNode(m[p].chunks)
  ELSE NewDirNode([n \in Entries(m, p) |-> f[Append(p, n)].hash])

LEMMA BuildExists ==
  ASSUME NEW m, Finite(m)
  PROVE  \E f : f = [p \in {q \in Path \cup {Root} : Present(m, q)} |-> NodeAt(m, f, p)]
<1>1. PICK b \in Nat : \A p \in Path : Present(m, p) \/ Present(m, p) => Len(p) <= b
  BY DepthBounded, Zenon
<1> DEFINE Of(f, p) == [n \in Entries(m, p) |-> f[Append(p, n)].hash]
           D(k) == Deep(m, m, b, k)
           Solves(f, k) == f = [p \in D(k) |-> NodeAt(m, f, p)]
           T == {k \in 0..(b + 1) : \E f : Solves(f, k)}
<1>2. D(0) = {} /\ D(b + 1) = {q \in Path \cup {Root} : Present(m, q)}
  BY <1>1, DeepIs DEF Paths
<1>3. \A k \in Nat : \A p \in D(k + 1) : \A n \in Entries(m, p) :
        Append(p, n) \in D(k) /\ Append(p, n) \in D(k + 1)
  BY <1>1, DeepIs, Zenon DEF Entries
<1> HIDE DEF D
<1>4. 0 \in T
  <2> DEFINE e == [p \in {} |-> {}]
  <2>1. e = [p \in {} |-> NodeAt(m, e, p)]
    BY Zenon
  <2>2. Solves(e, 0)
    BY <1>2, <2>1, Zenon
  <2> HIDE DEF Solves
  <2> QED  BY <2>2
<1>5. ASSUME NEW k \in 0..((b + 1) - 1), k \in T
      PROVE  k + 1 \in T
  <2>1. PICK f : Solves(f, k)
    BY <1>5
  <2> DEFINE g == [p \in D(k + 1) |-> NodeAt(m, f, p)]
  <2>0. k \in Nat /\ k + 1 \in 0..(b + 1) /\ k + 1 \in Nat
    OBVIOUS
  <2>2. ASSUME NEW p \in D(k + 1)
        PROVE  NodeAt(m, g, p) = NodeAt(m, f, p)
    <3>1. ASSUME NEW n \in Entries(m, p)
          PROVE  g[Append(p, n)].hash = f[Append(p, n)].hash
      <4>1. PICK q : q = Append(p, n)
        BY Zenon
      <4>2. q \in D(k) /\ q \in D(k + 1)
        BY <1>3, <2>0, <4>1, Zenon
      <4>3. g[q] = NodeAt(m, f, q)
        BY <4>2, Zenon
      <4>4. f[q] = NodeAt(m, f, q)
        BY <2>1, <4>2, Zenon
      <4> QED  BY <4>1, <4>3, <4>4, Zenon
    <3>2. Of(g, p) = Of(f, p)
      <4> HIDE DEF g
      <4> QED  BY <3>1, Zenon
    <3> HIDE DEF g
    <3> QED  BY <3>2, Zenon DEF NodeAt
  <2>3. Solves(g, k + 1)
    BY <2>2, Zenon
  <2> HIDE DEF Solves, g
  <2> QED  BY <2>0, <2>3
<1>6. b + 1 \in T
  <2> HIDE DEF T
  <2>1. b + 1 \in Nat
    OBVIOUS
  <2> QED  BY <1>4, <1>5, <2>1, UpTo, Zenon
<1>7. PICK f : Solves(f, b + 1)
  <2> HIDE DEF Solves
  <2> QED  BY <1>6, Zenon
<1> QED  BY <1>2, <1>7, Zenon

\* BuildFromFS satisfies its definition.
LEMMA BuildIs ==
  ASSUME NEW m, Finite(m)
  PROVE  BuildFromFS(m) =
           [p \in {q \in Path \cup {Root} : Present(m, q)} |-> NodeAt(m, BuildFromFS(m), p)]
<1> DEFINE S == {q \in Path \cup {Root} : Present(m, q)}
           t == CHOOSE f : f = [p \in S |-> NodeAt(m, f, p)]
<1>1. t = [p \in S |-> NodeAt(m, t, p)]
  BY BuildExists, Zenon
<1>2. BuildFromFS(m) = t
  BY Zenon DEF BuildFromFS, NodeAt
<1> HIDE DEF t
<1> QED  BY <1>1, <1>2, Zenon

\* What t says of the node at p.
BuiltAt(m, t, p) ==
  /\ t[p].kind = At(m, p).kind /\ t[p].chunks = At(m, p).chunks
  /\ t[p].children = Entries(m, p)
  /\ t[p].hash = [children |-> [n \in Entries(m, p) |-> t[Append(p, n)].hash],
                  chunks |-> At(m, p).chunks]

\* A Merkle tree of m.
Built(m, t) ==
  /\ DOMAIN t = {q \in Path \cup {Root} : Present(m, q)}
  /\ \A p \in DOMAIN t : BuiltAt(m, t, p)

LEMMA FilesHaveNoEntries ==
  ASSUME NEW m, Tree(m), NEW p \in Path, IsFile(m, p)
  PROVE  Entries(m, p) = {}
<1>1. ~IsDir(m, p)
  BY DEF IsFile, IsDir
<1>2. ASSUME NEW n \in Name, Append(p, n) \in Path
      PROVE  ~Present(m, Append(p, n))
  <2>0. p \in Path \cup {Root}
    BY Zenon
  <2>1. p \in Ancestors(Append(p, n))
    BY <1>2, <2>0, ChildPath, Zenon
  <2> QED  BY <1>1, <1>2, <2>1, NothingBelow, Zenon DEF Tree
<1> QED  BY <1>2, Zenon DEF Entries

LEMMA BuiltFromFS ==
  ASSUME NEW m, Finite(m)
  PROVE  Built(m, BuildFromFS(m))
<1> DEFINE S == {q \in Path \cup {Root} : Present(m, q)}
<1>1. PICK t : t = BuildFromFS(m)
  BY Zenon
<1>2. t = [p \in S |-> NodeAt(m, t, p)]
  BY <1>1, BuildIs, Zenon
<1>3. DOMAIN t = S /\ \A p \in S : t[p] = NodeAt(m, t, p)
  BY <1>2, Zenon
<1>4. ASSUME NEW p \in S
      PROVE  BuiltAt(m, t, p)
  <2> DEFINE hs == [n \in Entries(m, p) |-> t[Append(p, n)].hash]
  <2>1. CASE IsFile(m, p)
    <3>0. p # Root
      BY <2>1 DEF IsFile, At, DirNode
    <3>1. p \in Path /\ At(m, p) = m[p]
      BY <3>0, AtPath, Zenon
    <3>2. Entries(m, p) = {}
      BY <2>1, <3>1, FilesHaveNoEntries, Zenon DEF Finite
    <3>3. hs = NoChildren
      BY <3>2, Zenon DEF NoChildren
    <3>4. t[p] = NewFileNode(At(m, p).chunks)
      BY <1>3, <2>1, <3>1, Zenon DEF NodeAt
    <3>5. t[p].kind = "file" /\ t[p].chunks = At(m, p).chunks /\ t[p].children = {}
          /\ t[p].hash = [children |-> NoChildren, chunks |-> At(m, p).chunks]
      BY <3>4 DEF NewFileNode
    <3> HIDE DEF hs
    <3>6. t[p].hash = [children |-> hs, chunks |-> At(m, p).chunks]
      BY <3>3, <3>5, Zenon
    <3> USE DEF hs
    <3> QED  BY <2>1, <3>2, <3>5, <3>6, Zenon DEF BuiltAt, IsFile
  <2>2. CASE ~IsFile(m, p)
    <3>0. At(m, p) \in Node
      BY ChunksTyped, Zenon DEF Finite
    <3>1. At(m, p).kind = "dir" /\ At(m, p).chunks = <<>>
      BY <2>2, <3>0 DEF Node, Present, IsFile
    <3>4. t[p] = NewDirNode(hs)
      BY <1>3, <2>2, Zenon DEF NodeAt
    <3>2. DOMAIN hs = Entries(m, p)
      BY Zenon
    <3> HIDE DEF hs
    <3>5. t[p].kind = "dir" /\ t[p].chunks = <<>> /\ t[p].children = DOMAIN hs
          /\ t[p].hash = [children |-> hs, chunks |-> <<>>]
      BY <3>4 DEF NewDirNode
    <3>6. t[p].hash = [children |-> hs, chunks |-> At(m, p).chunks]
      BY <3>1, <3>5, Zenon
    <3> USE DEF hs
    <3> QED  BY <3>1, <3>2, <3>5, <3>6, Zenon DEF BuiltAt
  <2> QED  BY <2>1, <2>2
<1> QED  BY <1>1, <1>3, <1>4, Zenon DEF Built

\* The peer's tree arrives as it was built.
LEMMA BuiltFromManifest ==
  ASSUME NEW m, Finite(m), NEW t, Built(m, t)
  PROVE  Built(m, ManifestToNode(NodeToManifest(t)))
<1>1. PICK mn : mn = NodeToManifest(t)
  BY Zenon
<1>2. PICK u : u = ManifestToNode(mn)
  BY Zenon
<1>3. /\ DOMAIN mn = DOMAIN t
      /\ \A p \in DOMAIN t : mn[p] = [isDir |-> t[p].kind = "dir", hash |-> t[p].hash,
                                      chunks |-> t[p].chunks, children |-> t[p].children]
  BY <1>1, Zenon DEF NodeToManifest
<1>4. /\ DOMAIN u = DOMAIN t
      /\ \A p \in DOMAIN t :
           u[p] = [kind |-> IF mn[p].isDir THEN "dir" ELSE "file", hash |-> mn[p].hash,
                   chunks |-> mn[p].chunks, children |-> mn[p].children]
  BY <1>2, <1>3, Zenon DEF ManifestToNode
<1>5. ASSUME NEW p \in DOMAIN t
      PROVE  /\ u[p].kind = At(m, p).kind /\ u[p].hash = t[p].hash
             /\ u[p].chunks = t[p].chunks /\ u[p].children = t[p].children
  <2>0. mn[p] = [isDir |-> t[p].kind = "dir", hash |-> t[p].hash,
                 chunks |-> t[p].chunks, children |-> t[p].children]
    BY <1>3, Zenon
  <2>1. (mn[p].isDir <=> t[p].kind = "dir") /\ mn[p].hash = t[p].hash
        /\ mn[p].chunks = t[p].chunks /\ mn[p].children = t[p].children
    <3>1. CASE t[p].kind = "dir"
      <4>1. mn[p] = [isDir |-> TRUE, hash |-> t[p].hash,
                     chunks |-> t[p].chunks, children |-> t[p].children]
        BY <2>0, <3>1, Zenon
      <4> QED  BY <3>1, <4>1
    <3>2. CASE t[p].kind # "dir"
      <4>1. mn[p] = [isDir |-> FALSE, hash |-> t[p].hash,
                     chunks |-> t[p].chunks, children |-> t[p].children]
        BY <2>0, <3>2, Zenon
      <4> QED  BY <3>2, <4>1
    <3> QED  BY <3>1, <3>2, Zenon
  <2>2. u[p].hash = t[p].hash /\ u[p].chunks = t[p].chunks /\ u[p].children = t[p].children
        /\ u[p].kind = IF mn[p].isDir THEN "dir" ELSE "file"
    BY <1>4, <2>1
  <2>3. At(m, p) \in Node /\ Present(m, p)
    BY ChunksTyped, Zenon DEF Finite, Built
  <2>4. At(m, p).kind \in {"dir", "file"}
    BY <2>3 DEF Node, Present
  <2>5. t[p].kind = At(m, p).kind
    BY Zenon DEF Built, BuiltAt
  <2> QED  BY <2>1, <2>2, <2>4, <2>5, Zenon
<1>6. ASSUME NEW p \in DOMAIN t
      PROVE  BuiltAt(m, u, p)
  <2>1. BuiltAt(m, t, p)
    BY Zenon DEF Built
  <2>2. ASSUME NEW n \in Entries(m, p)
        PROVE  u[Append(p, n)].hash = t[Append(p, n)].hash
    <3>1. Append(p, n) \in DOMAIN t
      BY Zenon DEF Built, Entries
    <3> QED  BY <1>5, <3>1, Zenon
  <2>3. [n \in Entries(m, p) |-> u[Append(p, n)].hash]
          = [n \in Entries(m, p) |-> t[Append(p, n)].hash]
    BY <2>2, Zenon
  <2> QED  BY <1>5, <2>1, <2>3, Zenon DEF BuiltAt
<1> QED  BY <1>1, <1>2, <1>4, <1>6, Zenon DEF Built

-----------------------------------------------------------------------------
(* Hashes *)

\* What is below a node is one of its children, or below one of them.
LEMMA ChildOnTheWay ==
  ASSUME NEW m, Tree(m), NEW p, NEW x \in Path, p \in Ancestors(x), Present(m, x)
  PROVE  \E n \in Entries(m, p) : Append(p, n) \in Path /\ Append(p, n) \in Ancestors(x) \cup {x}
<1>1. PICK n \in Name : Append(p, n) \in Path /\ Append(p, n) \in Ancestors(x) \cup {x}
  BY FirstStep, Zenon
<1>2. Present(m, Append(p, n))
  <2>1. CASE Append(p, n) = x
    BY <2>1, Zenon
  <2>2. CASE Append(p, n) \in Ancestors(x)
    <3>1. IsDir(m, Append(p, n))
      BY <2>2, Zenon DEF Tree, WellFormed
    <3> QED  BY <3>1 DEF IsDir, Present
  <2> QED  BY <1>1, <2>1, <2>2, Zenon
<1> QED  BY <1>1, <1>2, Zenon DEF Entries

\* Nodes of the same hash, seen from their children.
SameChildren(l, r, p) ==
  /\ At(l, p).chunks = At(r, p).chunks /\ Entries(l, p) = Entries(r, p)
  /\ \A n \in Entries(l, p) : NodeHash(l, Append(p, n)) = NodeHash(r, Append(p, n))

LEMMA SharedFromChildren ==
  ASSUME NEW l, NEW r, Tree(l), NEW p, SameChildren(l, r, p),
         NEW x \in Path, p \in Ancestors(x), Present(l, x)
  PROVE  Shared(l, r, x)
<1>1. PICK n \in Entries(l, p) : Append(p, n) \in Path /\ Append(p, n) \in Ancestors(x) \cup {x}
  BY ChildOnTheWay, Zenon
<1>2. PICK c : c = Append(p, n)
  BY Zenon
<1>3. c \in Path /\ Present(r, c) /\ NodeHash(l, c) = NodeHash(r, c)
  BY <1>1, <1>2, Zenon DEF SameChildren, Entries
<1>4. CASE c = x
  <2>1. x \in Path \cup {Root} /\ NodeHash(l, x) = NodeHash(r, x)
    BY <1>3, <1>4, Zenon
  <2>2. At(l, x).chunks = At(r, x).chunks
    BY <2>1, SameHashAt, Zenon
  <2> QED  BY <1>3, <1>4, <2>2, Zenon DEF Shared
<1>5. CASE c \in Ancestors(x)
  BY <1>3, <1>5, SameHashBelow, Zenon
<1> QED  BY <1>1, <1>2, <1>4, <1>5, Zenon

LEMMA HashOfChildren ==
  ASSUME NEW l, NEW r, Tree(l), Tree(r), NEW p \in Path \cup {Root}
  PROVE  NodeHash(l, p) = NodeHash(r, p) <=> SameChildren(l, r, p)
<1>1. ASSUME NodeHash(l, p) = NodeHash(r, p)
      PROVE  SameChildren(l, r, p)
  <2>1. At(l, p).chunks = At(r, p).chunks
    BY <1>1, SameHashAt, Zenon
  <2>2. ASSUME NEW n \in Name, Append(p, n) \in Path
        PROVE  p \in Ancestors(Append(p, n))
    BY <2>2, ChildPath, Zenon
  <2>3. Entries(l, p) \subseteq Entries(r, p)
    <3>1. ASSUME NEW n \in Entries(l, p)
          PROVE  n \in Entries(r, p)
      <4>1. n \in Name /\ Append(p, n) \in Path /\ Present(l, Append(p, n))
        BY Zenon DEF Entries
      <4>2. Shared(l, r, Append(p, n))
        BY <1>1, <2>2, <4>1, SameHashBelow, Zenon
      <4> QED  BY <4>1, <4>2, Zenon DEF Shared, Entries
    <3> QED  BY <3>1, Zenon
  <2>4. Entries(r, p) \subseteq Entries(l, p)
    <3>1. ASSUME NEW n \in Entries(r, p)
          PROVE  n \in Entries(l, p)
      <4>0. NodeHash(r, p) = NodeHash(l, p)
        BY <1>1, Zenon
      <4>1. n \in Name /\ Append(p, n) \in Path /\ Present(r, Append(p, n))
        BY Zenon DEF Entries
      <4>2. Shared(r, l, Append(p, n))
        BY <2>2, <4>0, <4>1, SameHashBelow, Zenon
      <4> QED  BY <4>1, <4>2, Zenon DEF Shared, Entries
    <3> QED  BY <3>1, Zenon
  <2>5. Entries(l, p) = Entries(r, p)
    BY <2>3, <2>4, Zenon
  <2>6. ASSUME NEW n \in Entries(l, p)
        PROVE  NodeHash(l, Append(p, n)) = NodeHash(r, Append(p, n))
    <3>1. /\ n \in Name /\ Append(p, n) \in Path
          /\ Present(l, Append(p, n)) /\ Present(r, Append(p, n))
      BY <2>5, Zenon DEF Entries
    <3> QED  BY <1>1, <2>2, <3>1, SameHashInherited, Zenon
  <2> QED  BY <2>1, <2>5, <2>6, Zenon DEF SameChildren
<1>2. ASSUME SameChildren(l, r, p)
      PROVE  NodeHash(l, p) = NodeHash(r, p)
  <2>1. SameChildren(r, l, p)
    BY <1>2, Zenon DEF SameChildren
  <2>2. \A x \in Path : p \in Ancestors(x) /\ Present(l, x) => Shared(l, r, x)
    BY <1>2, SharedFromChildren, Zenon
  <2>3. \A x \in Path : p \in Ancestors(x) /\ Present(r, x) => Shared(r, l, x)
    BY <2>1, SharedFromChildren, Zenon
  <2>4. Below(l, p) = Below(r, p)
    BY <2>2, <2>3, Zenon DEF Below, Shared
  <2>5. \A x \in Below(l, p) \cup {p} : At(l, x).chunks = At(r, x).chunks
    BY <1>2, <2>2, Zenon DEF Below, Shared, SameChildren
  <2> QED  BY <2>4, <2>5 DEF NodeHash
<1> QED  BY <1>1, <1>2, Zenon

\* The hash that a node gets from its chunks and its children's hashes tells apart
\* what the hash of all that is below it tells apart.
LEMMA HashesAgree ==
  ASSUME NEW l, NEW r, Finite(l), Finite(r), NEW t, NEW u, Built(l, t), Built(r, u)
  PROVE  \A p \in DOMAIN t \cap DOMAIN u :
           t[p].hash = u[p].hash <=> NodeHash(l, p) = NodeHash(r, p)
<1> DEFINE Agree(p) == t[p].hash = u[p].hash <=> NodeHash(l, p) = NodeHash(r, p)
           T == {p \in Path \cup {Root} : p \in DOMAIN t \cap DOMAIN u => Agree(p)}
<1>1. ASSUME NEW p \in Paths(l, r),
             \A n \in Name : Append(p, n) \in Path /\ Append(p, n) \in Paths(l, r)
                             => Append(p, n) \in T,
             p \in DOMAIN t \cap DOMAIN u
      PROVE  Agree(p)
  <2> DEFINE hl == [n \in Entries(l, p) |-> t[Append(p, n)].hash]
             hr == [n \in Entries(r, p) |-> u[Append(p, n)].hash]
  <2>0. p \in Path \cup {Root} /\ Tree(l) /\ Tree(r)
    BY Zenon DEF Paths, Finite
  <2>1. /\ t[p].hash = [children |-> hl, chunks |-> At(l, p).chunks]
        /\ u[p].hash = [children |-> hr, chunks |-> At(r, p).chunks]
    BY <1>1, Zenon DEF Built, BuiltAt
  <2>2. t[p].hash = u[p].hash <=> hl = hr /\ At(l, p).chunks = At(r, p).chunks
    <3> HIDE DEF hl, hr
    <3> QED  BY <2>1
  <2>3. hl = hr <=> /\ Entries(l, p) = Entries(r, p)
                    /\ \A n \in Entries(l, p) : t[Append(p, n)].hash = u[Append(p, n)].hash
    <3>1. DOMAIN hl = Entries(l, p) /\ DOMAIN hr = Entries(r, p)
      BY Zenon
    <3>2. ASSUME hl = hr
          PROVE  /\ Entries(l, p) = Entries(r, p)
                 /\ \A n \in Entries(l, p) : t[Append(p, n)].hash = u[Append(p, n)].hash
      <4>1. Entries(l, p) = Entries(r, p)
        <5> HIDE DEF hl, hr
        <5> QED  BY <3>1, <3>2, Zenon
      <4>2. ASSUME NEW n \in Entries(l, p)
            PROVE  t[Append(p, n)].hash = u[Append(p, n)].hash
        <5>1. hl[n] = t[Append(p, n)].hash /\ hr[n] = u[Append(p, n)].hash
          BY <4>1, Zenon
        <5> HIDE DEF hl, hr
        <5> QED  BY <3>2, <5>1, Zenon
      <4> QED  BY <4>1, <4>2, Zenon
    <3>3. ASSUME /\ Entries(l, p) = Entries(r, p)
                 /\ \A n \in Entries(l, p) : t[Append(p, n)].hash = u[Append(p, n)].hash
          PROVE  hl = hr
      BY <3>3, Zenon
    <3> QED  BY <3>2, <3>3, Zenon
  <2>4. ASSUME Entries(l, p) = Entries(r, p), NEW n \in Entries(l, p)
        PROVE  Agree(Append(p, n))
    <3>1. /\ n \in Name /\ Append(p, n) \in Path
          /\ Present(l, Append(p, n)) /\ Present(r, Append(p, n))
      BY <2>4, Zenon DEF Entries
    <3>2. Append(p, n) \in Paths(l, r) /\ Append(p, n) \in DOMAIN t \cap DOMAIN u
      BY <3>1, Zenon DEF Paths, Built
    <3> HIDE DEF Agree
    <3> QED  BY <1>1, <3>1, <3>2, Zenon
  <2>5. t[p].hash = u[p].hash <=> SameChildren(l, r, p)
    <3> HIDE DEF hl, hr
    <3> QED  BY <2>2, <2>3, <2>4, Zenon DEF SameChildren
  <2>6. NodeHash(l, p) = NodeHash(r, p) <=> SameChildren(l, r, p)
    BY <2>0, HashOfChildren, Zenon
  <2> QED  BY <2>5, <2>6, Zenon
<1>2. Paths(l, r) \subseteq T
  <2>1. \A p \in Paths(l, r) :
           (\A n \in Name : Append(p, n) \in Path /\ Append(p, n) \in Paths(l, r)
                           => Append(p, n) \in T) => p \in T
    <3> HIDE DEF Agree
    <3>1. \A p \in Paths(l, r) : p \in Path \cup {Root}
      BY Zenon DEF Paths
    <3> QED  BY <1>1, <3>1, Zenon
  <2> HIDE DEF T
  <2> QED  BY <2>1, FromLeaves, Zenon
<1>3. ASSUME NEW p \in DOMAIN t \cap DOMAIN u
      PROVE  p \in Paths(l, r)
  BY Zenon DEF Built, Paths
<1> QED  BY <1>2, <1>3, Zenon

-----------------------------------------------------------------------------
(* Walks that collect sets *)

\* The paths of a child.
LEMMA EntryPaths ==
  ASSUME NEW l, NEW r, NEW p, NEW n \in Entries(l, p) \cup Entries(r, p)
  PROVE  n \in Name /\ Append(p, n) \in Path /\ Append(p, n) \in Paths(l, r)
BY Zenon DEF Entries, Paths

LEMMA BuiltPaths ==
  ASSUME NEW l, NEW r, NEW t, NEW u, Built(l, t), Built(r, u)
  PROVE  /\ DOMAIN t \cup DOMAIN u = Paths(l, r)
         /\ \A p \in Paths(l, r) :
              (p \in DOMAIN t <=> Present(l, p)) /\ (p \in DOMAIN u <=> Present(r, p))
         /\ \A p \in DOMAIN t : t[p].children = Entries(l, p) /\ t[p].kind = At(l, p).kind
                                /\ t[p].chunks = At(l, p).chunks
         /\ \A p \in DOMAIN u : u[p].children = Entries(r, p) /\ u[p].kind = At(r, p).kind
                                /\ u[p].chunks = At(r, p).chunks
<1>1. /\ DOMAIN t = {q \in Path \cup {Root} : Present(l, q)}
      /\ DOMAIN u = {q \in Path \cup {Root} : Present(r, q)}
  BY Zenon DEF Built
<1>2. /\ DOMAIN t \cup DOMAIN u = Paths(l, r)
      /\ \A p \in Paths(l, r) :
              (p \in DOMAIN t <=> Present(l, p)) /\ (p \in DOMAIN u <=> Present(r, p))
  BY <1>1, Zenon DEF Paths
<1>3. \A p \in DOMAIN t : t[p].children = Entries(l, p) /\ t[p].kind = At(l, p).kind
                                /\ t[p].chunks = At(l, p).chunks
  BY Zenon DEF Built, BuiltAt
<1>4. \A p \in DOMAIN u : u[p].children = Entries(r, p) /\ u[p].kind = At(r, p).kind
                                /\ u[p].chunks = At(r, p).chunks
  BY Zenon DEF Built, BuiltAt
<1> QED  BY <1>2, <1>3, <1>4, Zenon


\* What f has for the children of p.
Collected(l, r, f, p) == UNION {f[Append(p, n)] : n \in Entries(l, p) \cup Entries(r, p)}

\* A walk over two trees collects own[p] at a node p, and goes on to its children
\* if p is in D.
StepAt(l, r, D, own, f, p) ==
  own[p] \cup IF p \in D THEN Collected(l, r, f, p) ELSE {}

\* The nodes that a walk from p visits, and what it collects there.
Under(l, r, D, p) ==
  {q \in Paths(l, r) : p \in Ancestors(q) \cup {q} /\ Ancestors(q) \ Ancestors(p) \subseteq D}

Seen(l, r, D, own, p) == UNION {own[q] : q \in Under(l, r, D, p)}

LEMMA NotAbove ==
  ASSUME NEW p \in Path \cup {Root}
  PROVE  p \notin Ancestors(p)
<1>1. Ancestors(Root) = {}
  BY DEF Ancestors, Root
<1> QED  BY <1>1, AncestorFacts, Zenon

LEMMA UnderItself ==
  ASSUME NEW l, NEW r, NEW D, NEW p \in Paths(l, r)
  PROVE  p \in Under(l, r, D, p)
BY Zenon DEF Under

LEMMA UnderOne ==
  ASSUME NEW l, NEW r, NEW D, NEW p \in Paths(l, r), p \notin D
  PROVE  Under(l, r, D, p) = {p}
<1>0. p \in Path \cup {Root}
  BY Zenon DEF Paths
<1>1. ASSUME NEW q \in Under(l, r, D, p)
      PROVE  q = p
  <2>1. p \notin Ancestors(p)
    BY <1>0, NotAbove, Zenon
  <2> QED  BY <2>1, Zenon DEF Under
<1> QED  BY <1>1, UnderItself, Zenon

\* A node under p is p, or under a child of p.
LEMMA UnderChild ==
  ASSUME NEW l, NEW r, Tree(l), Tree(r), NEW D, NEW p \in Paths(l, r),
         NEW x \in Under(l, r, D, p), x # p
  PROVE  \E n \in Entries(l, p) \cup Entries(r, p) : x \in Under(l, r, D, Append(p, n))
<1>0. p \in Path \cup {Root}
  BY Zenon DEF Paths
<1>1. x \in Paths(l, r) /\ p \in Ancestors(x) /\ Ancestors(x) \ Ancestors(p) \subseteq D
  BY Zenon DEF Under
<1>2. x \in Path
  <2>1. Ancestors(Root) = {}
    BY DEF Ancestors, Root
  <2> QED  BY <1>1, <2>1, Zenon DEF Paths
<1>3. PICK n \in Entries(l, p) \cup Entries(r, p) :
         Append(p, n) \in Path /\ Append(p, n) \in Ancestors(x) \cup {x}
  <2>1. Present(l, x) \/ Present(r, x)
    BY <1>1, Zenon DEF Paths
  <2>2. CASE Present(l, x)
    BY <1>1, <1>2, <2>2, ChildOnTheWay, Zenon
  <2>3. CASE Present(r, x)
    BY <1>1, <1>2, <2>3, ChildOnTheWay, Zenon
  <2> QED  BY <2>1, <2>2, <2>3, Zenon
<1>4. n \in Name
  BY Zenon DEF Entries
<1>5. Ancestors(Append(p, n)) = Ancestors(p) \cup {p}
  BY <1>0, <1>3, <1>4, ChildPath, Zenon
<1>6. Ancestors(x) \ Ancestors(Append(p, n)) \subseteq D
  BY <1>1, <1>5, Zenon
<1>7. x \in Under(l, r, D, Append(p, n))
  BY <1>1, <1>3, <1>6, Zenon DEF Under
<1> QED  BY <1>7, Zenon

LEMMA UnderParent ==
  ASSUME NEW l, NEW r, NEW D, NEW p \in Paths(l, r), p \in D,
         NEW n \in Entries(l, p) \cup Entries(r, p), NEW x \in Under(l, r, D, Append(p, n))
  PROVE  x \in Under(l, r, D, p)
<1>0. p \in Path \cup {Root}
  BY Zenon DEF Paths
<1>1. n \in Name /\ Append(p, n) \in Path
  BY Zenon DEF Entries
<1>2. PICK c : c = Append(p, n)
  BY Zenon
<1>3. Ancestors(c) = Ancestors(p) \cup {p} /\ c \in Path
  BY <1>0, <1>1, <1>2, ChildPath, Zenon
<1>4. x \in Paths(l, r) /\ c \in Ancestors(x) \cup {x} /\ Ancestors(x) \ Ancestors(c) \subseteq D
  BY <1>2, Zenon DEF Under
<1>5. p \in Ancestors(x)
  <2>1. CASE c = x
    BY <1>3, <2>1, Zenon
  <2>2. CASE c \in Ancestors(x)
    <3>1. Ancestors(Root) = {}
      BY DEF Ancestors, Root
    <3>2. x \in Path
      BY <1>4, <2>2, <3>1, Zenon DEF Paths
    <3>3. p \in Ancestors(c)
      BY <1>3, Zenon
    <3> QED  BY <2>2, <3>2, <3>3, AncestorTransitive, Zenon
  <2> QED  BY <1>4, <2>1, <2>2, Zenon
<1>6. Ancestors(x) \ Ancestors(p) \subseteq D
  BY <1>3, <1>4, Zenon
<1> QED  BY <1>4, <1>5, <1>6, Zenon DEF Under

\* What a walk collects satisfies its equation.
LEMMA SeenStep ==
  ASSUME NEW l, NEW r, Tree(l), Tree(r), NEW D, NEW own, NEW p \in Paths(l, r)
  PROVE  Seen(l, r, D, own, p) =
           own[p] \cup IF p \in D
                         THEN UNION {Seen(l, r, D, own, Append(p, n)) :
                                       n \in Entries(l, p) \cup Entries(r, p)}
                         ELSE {}
<1> DEFINE Kids == Entries(l, p) \cup Entries(r, p)
<1>1. CASE p \notin D
  <2>1. Under(l, r, D, p) = {p}
    BY <1>1, UnderOne
  <2>2. Seen(l, r, D, own, p) = own[p]
    BY <2>1, Zenon DEF Seen
  <2> QED  BY <1>1, <2>2, Zenon
<1>2. CASE p \in D
  <2>1. ASSUME NEW x \in Seen(l, r, D, own, p)
        PROVE  x \in own[p] \/ \E n \in Kids : x \in Seen(l, r, D, own, Append(p, n))
    <3>1. PICK q \in Under(l, r, D, p) : x \in own[q]
      BY Zenon DEF Seen
    <3>2. CASE q = p
      BY <3>1, <3>2, Zenon
    <3>3. CASE q # p
      <4>1. PICK n \in Kids : q \in Under(l, r, D, Append(p, n))
        BY <3>3, UnderChild, Zenon
      <4>2. x \in Seen(l, r, D, own, Append(p, n))
        BY <3>1, <4>1, Zenon DEF Seen
      <4> QED  BY <4>2, Zenon
    <3> QED  BY <3>2, <3>3, Zenon
  <2>2. ASSUME NEW x \in own[p]
        PROVE  x \in Seen(l, r, D, own, p)
    BY UnderItself, Zenon DEF Seen
  <2>3. ASSUME NEW n \in Kids, NEW x \in Seen(l, r, D, own, Append(p, n))
        PROVE  x \in Seen(l, r, D, own, p)
    <3>1. PICK q \in Under(l, r, D, Append(p, n)) : x \in own[q]
      BY Zenon DEF Seen
    <3>2. q \in Under(l, r, D, p)
      BY <1>2, UnderParent, Zenon
    <3> QED  BY <3>1, <3>2, Zenon DEF Seen
  <2> HIDE DEF Kids
  <2>4. Seen(l, r, D, own, p) = own[p] \cup UNION {Seen(l, r, D, own, Append(p, n)) : n \in Kids}
    <3> DEFINE K == UNION {Seen(l, r, D, own, Append(p, n)) : n \in Kids}
    <3>1. \A x : x \in K <=> \E n \in Kids : x \in Seen(l, r, D, own, Append(p, n))
      BY Zenon
    <3> HIDE DEF K
    <3>2. Seen(l, r, D, own, p) = own[p] \cup K
      BY <2>1, <2>2, <2>3, <3>1, Zenon
    <3> QED  BY <3>2 DEF K
  <2> USE DEF Kids
  <2> QED  BY <1>2, <2>4, Zenon
<1> QED  BY <1>1, <1>2, Zenon

Walks(l, r, D, own, f) == f = [p \in Paths(l, r) |-> StepAt(l, r, D, own, f, p)]

LEMMA WalkExists ==
  ASSUME NEW l, NEW r, Tree(l), Tree(r), NEW D, NEW own
  PROVE  \E f : Walks(l, r, D, own, f)
<1> DEFINE f == [p \in Paths(l, r) |-> Seen(l, r, D, own, p)]
<1>1. ASSUME NEW p \in Paths(l, r)
      PROVE  f[p] = StepAt(l, r, D, own, f, p)
  <2> DEFINE Kids == Entries(l, p) \cup Entries(r, p)
  <2>1. \A n \in Kids : f[Append(p, n)] = Seen(l, r, D, own, Append(p, n))
    BY EntryPaths, Zenon
  <2>2. f[p] = Seen(l, r, D, own, p)
    BY Zenon
  <2> HIDE DEF f
  <2>3. {f[Append(p, n)] : n \in Kids} = {Seen(l, r, D, own, Append(p, n)) : n \in Kids}
    <3> HIDE DEF Kids
    <3> QED  BY <2>1, Zenon
  <2>4. Seen(l, r, D, own, p) =
          own[p] \cup IF p \in D THEN UNION {Seen(l, r, D, own, Append(p, n)) : n \in Kids}
                      ELSE {}
    BY SeenStep
  <2>5. StepAt(l, r, D, own, f, p) =
          own[p] \cup IF p \in D THEN UNION {f[Append(p, n)] : n \in Kids} ELSE {}
    BY Zenon DEF StepAt, Collected
  <2> HIDE DEF Kids
  <2> QED  BY <2>2, <2>3, <2>4, <2>5, Zenon
<1>2. f = [p \in Paths(l, r) |-> f[p]]
  BY Zenon
<1>3. f = [p \in Paths(l, r) |-> StepAt(l, r, D, own, f, p)]
  <2> HIDE DEF f
  <2> QED  BY <1>1, <1>2, Zenon
<1>4. Walks(l, r, D, own, f)
  BY <1>3, Zenon DEF Walks
<1> QED  BY <1>4

\* It is all that the walk can return.
LEMMA WalkReturns ==
  ASSUME NEW l, NEW r, Finite(l), Finite(r), NEW D, NEW own, NEW f,
         \A p \in Paths(l, r) : f[p] = StepAt(l, r, D, own, f, p)
  PROVE  \A p \in Paths(l, r) : f[p] = Seen(l, r, D, own, p)
<1> DEFINE T == {p \in Paths(l, r) : f[p] = Seen(l, r, D, own, p)}
<1>0. Tree(l) /\ Tree(r)
  BY Zenon DEF Finite
<1>1. ASSUME NEW p \in Paths(l, r),
             \A n \in Name : Append(p, n) \in Path /\ Append(p, n) \in Paths(l, r)
                             => Append(p, n) \in T
      PROVE  p \in T
  <2> DEFINE Kids == Entries(l, p) \cup Entries(r, p)
  <2>1. \A n \in Kids : f[Append(p, n)] = Seen(l, r, D, own, Append(p, n))
    BY <1>1, EntryPaths, Zenon
  <2>2. {f[Append(p, n)] : n \in Kids} = {Seen(l, r, D, own, Append(p, n)) : n \in Kids}
    <3> HIDE DEF Kids
    <3> QED  BY <2>1, Zenon
  <2>3. f[p] = StepAt(l, r, D, own, f, p)
    BY Zenon
  <2>4. Seen(l, r, D, own, p) =
          own[p] \cup IF p \in D THEN UNION {Seen(l, r, D, own, Append(p, n)) : n \in Kids}
                      ELSE {}
    BY <1>0, SeenStep
  <2>5. f[p] = own[p] \cup IF p \in D THEN UNION {f[Append(p, n)] : n \in Kids} ELSE {}
    BY <2>3, Zenon DEF StepAt, Collected
  <2>6. f[p] = Seen(l, r, D, own, p)
    <3> HIDE DEF Kids
    <3> QED  BY <2>2, <2>4, <2>5, Zenon
  <2> QED  BY <2>6, Zenon
<1>2. Paths(l, r) \subseteq T
  <2> HIDE DEF T
  <2> QED  BY <1>1, FromLeaves, Zenon
<1> QED  BY <1>2, Zenon

-----------------------------------------------------------------------------
(* collectMissingChunks and collectAll: walks over all of one tree *)

LEMMA UnderAll ==
  ASSUME NEW m, Tree(m), NEW p \in Paths(m, m)
  PROVE  Under(m, m, Paths(m, m), p) = Below(m, p) \cup {p}
<1>1. \A q \in Path : Present(m, q) => Ancestors(q) \subseteq Paths(m, m)
  <2>1. ASSUME NEW q \in Path, Present(m, q), NEW a \in Ancestors(q)
        PROVE  a \in Paths(m, m)
    <3>1. a \in Path \cup {Root}
      BY <2>1, AncestorFacts, Zenon
    <3>2. IsDir(m, a)
      BY <2>1, Zenon DEF Tree, WellFormed
    <3>3. Present(m, a)
      BY <3>2 DEF IsDir, Present
    <3> QED  BY <3>1, <3>3, Zenon DEF Paths
  <2> QED  BY <2>1, Zenon
<1>2. ASSUME NEW q \in Under(m, m, Paths(m, m), p), q # p
      PROVE  q \in Below(m, p)
  <2>1. q \in Paths(m, m) /\ p \in Ancestors(q)
    BY <1>2, Zenon DEF Under
  <2>2. Ancestors(Root) = {}
    BY DEF Ancestors, Root
  <2> QED  BY <2>1, <2>2, Zenon DEF Paths, Below
<1>3. ASSUME NEW q \in Below(m, p)
      PROVE  q \in Under(m, m, Paths(m, m), p)
  <2>1. q \in Path /\ Present(m, q) /\ p \in Ancestors(q)
    BY Zenon DEF Below
  <2>2. q \in Paths(m, m)
    BY <2>1, Zenon DEF Paths
  <2> QED  BY <1>1, <2>1, <2>2, Zenon DEF Under
<1> QED  BY <1>2, <1>3, UnderItself, Zenon

\* Facts about the tree that is walked.
LEMMA BuiltOne ==
  ASSUME NEW m, NEW t, Built(m, t)
  PROVE  /\ DOMAIN t = Paths(m, m)
         /\ \A p \in Paths(m, m) : t[p].children = Entries(m, p) \cup Entries(m, p)
                                   /\ t[p].chunks = At(m, p).chunks
<1>1. DOMAIN t = Paths(m, m)
  BY Zenon DEF Built, Paths
<1>2. \A p \in DOMAIN t : t[p].children = Entries(m, p) /\ t[p].chunks = At(m, p).chunks
  BY Zenon DEF Built, BuiltAt
<1> QED  BY <1>1, <1>2, Zenon

MissingAt(t, have, f, p) ==
  (Range(t[p].chunks) \ have) \cup UNION {f[Append(p, n)] : n \in t[p].children}

LEMMA MissingChunks ==
  ASSUME NEW m, Finite(m), NEW t, Built(m, t), NEW have
  PROVE  \A p \in DOMAIN t : CollectMissingChunks(t, have)[p] = SubtreeChunks(m, p) \ have
<1> DEFINE P == Paths(m, m)
           own == [p \in P |-> Range(At(m, p).chunks) \ have]
           g == CHOOSE f : f = [p \in DOMAIN t |-> MissingAt(t, have, f, p)]
<1>0. Tree(m) /\ DOMAIN t = P
  BY BuiltOne, Zenon DEF Finite
<1>1. ASSUME NEW f, NEW p \in P
      PROVE  MissingAt(t, have, f, p) = StepAt(m, m, P, own, f, p)
  <2>1. t[p].children = Entries(m, p) \cup Entries(m, p) /\ t[p].chunks = At(m, p).chunks
    BY BuiltOne, Zenon
  <2>2. own[p] = Range(At(m, p).chunks) \ have
    BY Zenon
  <2> HIDE DEF own, P
  <2> QED  BY <2>1, <2>2, Zenon DEF MissingAt, StepAt, Collected
<1>2. PICK h : Walks(m, m, P, own, h)
  <2> HIDE DEF own, P
  <2> QED  BY <1>0, WalkExists, Zenon
<1>3. \E f : f = [p \in DOMAIN t |-> MissingAt(t, have, f, p)]
  <2> HIDE DEF own, P
  <2>1. h = [p \in P |-> StepAt(m, m, P, own, h, p)]
    BY <1>2, Zenon DEF Walks, P
  <2>2. h = [p \in DOMAIN t |-> MissingAt(t, have, h, p)]
    BY <1>0, <1>1, <2>1, Zenon
  <2> QED  BY <2>2, Zenon
<1>4. g = [p \in DOMAIN t |-> MissingAt(t, have, g, p)]
  <2> HIDE DEF own, P
  <2> QED  BY <1>3, Zenon
<1>5. CollectMissingChunks(t, have) = g
  BY Zenon DEF CollectMissingChunks, MissingAt
<1> HIDE DEF g
<1>6. \A p \in P : g[p] = StepAt(m, m, P, own, g, p)
  <2> HIDE DEF own, P
  <2>1. \A p \in P : g[p] = MissingAt(t, have, g, p)
    BY <1>0, <1>4, Zenon
  <2> QED  BY <1>1, <2>1, Zenon
<1>7. \A p \in P : g[p] = Seen(m, m, P, own, p)
  <2> HIDE DEF own
  <2> QED  BY <1>6, WalkReturns
<1>8. ASSUME NEW p \in P
      PROVE  Seen(m, m, P, own, p) = SubtreeChunks(m, p) \ have
  <2>1. Under(m, m, P, p) = Below(m, p) \cup {p}
    BY <1>0, UnderAll
  <2>2. \A q \in Under(m, m, P, p) : own[q] = Range(At(m, q).chunks) \ have
    BY Zenon DEF Under
  <2> HIDE DEF own, P
  <2>3. \A c : c \in Seen(m, m, P, own, p)
                 <=> \E q \in Below(m, p) \cup {p} : c \in Range(At(m, q).chunks) /\ c \notin have
    BY <2>1, <2>2, Zenon DEF Seen
  <2>4. \A c : c \in SubtreeChunks(m, p)
                 <=> \E q \in Below(m, p) \cup {p} : c \in Range(At(m, q).chunks)
    BY Zenon DEF SubtreeChunks
  <2> QED  BY <2>3, <2>4, Zenon
<1> HIDE DEF own, P
<1> QED  BY <1>0, <1>5, <1>7, <1>8, Zenon

AllAt(t, class, f, p) ==
  {[class |-> class, path |-> p, chunks |-> Places(t[p].chunks)]}
    \cup UNION {f[Append(p, n)] : n \in t[p].children}

\* What collectAll returns.
Whole(m, p, class) ==
  {[class |-> class, path |-> q, chunks |-> Places(At(m, q).chunks)] : q \in Below(m, p) \cup {p}}

LEMMA AllCollected ==
  ASSUME NEW m, Finite(m), NEW t, Built(m, t), NEW class
  PROVE  \A p \in DOMAIN t : CollectAll(t, class)[p] = Whole(m, p, class)
<1> DEFINE P == Paths(m, m)
           rec(q) == [class |-> class, path |-> q, chunks |-> Places(At(m, q).chunks)]
           own == [p \in P |-> {rec(p)}]
           g == CHOOSE f : f = [p \in DOMAIN t |-> AllAt(t, class, f, p)]
<1>0. Tree(m) /\ DOMAIN t = P
  BY BuiltOne, Zenon DEF Finite
<1>1. ASSUME NEW f, NEW p \in P
      PROVE  AllAt(t, class, f, p) = StepAt(m, m, P, own, f, p)
  <2>1. t[p].children = Entries(m, p) \cup Entries(m, p) /\ t[p].chunks = At(m, p).chunks
    BY BuiltOne, Zenon
  <2>2. own[p] = {[class |-> class, path |-> p, chunks |-> Places(t[p].chunks)]}
    BY <2>1, Zenon
  <2> HIDE DEF own, P
  <2> QED  BY <2>1, <2>2, Zenon DEF AllAt, StepAt, Collected
<1>2. PICK h : Walks(m, m, P, own, h)
  <2> HIDE DEF own, P
  <2> QED  BY <1>0, WalkExists, Zenon
<1>3. \E f : f = [p \in DOMAIN t |-> AllAt(t, class, f, p)]
  <2> HIDE DEF own, P
  <2>1. h = [p \in P |-> StepAt(m, m, P, own, h, p)]
    BY <1>2, Zenon DEF Walks, P
  <2>2. h = [p \in DOMAIN t |-> AllAt(t, class, h, p)]
    BY <1>0, <1>1, <2>1, Zenon
  <2> QED  BY <2>2, Zenon
<1>4. g = [p \in DOMAIN t |-> AllAt(t, class, g, p)]
  <2> HIDE DEF own, P
  <2> QED  BY <1>3, Zenon
<1>5. CollectAll(t, class) = g
  BY Zenon DEF CollectAll, AllAt
<1> HIDE DEF g
<1>6. \A p \in P : g[p] = StepAt(m, m, P, own, g, p)
  <2> HIDE DEF own, P
  <2>1. \A p \in P : g[p] = AllAt(t, class, g, p)
    BY <1>0, <1>4, Zenon
  <2> QED  BY <1>1, <2>1, Zenon
<1>7. \A p \in P : g[p] = Seen(m, m, P, own, p)
  <2> HIDE DEF own
  <2> QED  BY <1>6, WalkReturns
<1>8. ASSUME NEW p \in P
      PROVE  Seen(m, m, P, own, p) = {rec(q) : q \in Below(m, p) \cup {p}}
  <2>1. Under(m, m, P, p) = Below(m, p) \cup {p}
    BY <1>0, UnderAll
  <2>2. \A q \in Under(m, m, P, p) : own[q] = {rec(q)}
    BY Zenon DEF Under
  <2> HIDE DEF own, P, rec
  <2>3. \A x : x \in Seen(m, m, P, own, p) <=> \E q \in Below(m, p) \cup {p} : x = rec(q)
    <3>1. \A x : x \in Seen(m, m, P, own, p) <=> \E q \in Under(m, m, P, p) : x \in own[q]
      BY Zenon DEF Seen
    <3>2. \A x : \A q \in Under(m, m, P, p) : x \in own[q] <=> x = rec(q)
      BY <2>2, Zenon
    <3>3. \A x : x \in Seen(m, m, P, own, p) <=> \E q \in Under(m, m, P, p) : x = rec(q)
      BY <3>1, <3>2, Zenon
    <3> QED  BY <2>1, <3>3, Zenon
  <2>4. \A x : x \in {rec(q) : q \in Below(m, p) \cup {p}}
                 <=> \E q \in Below(m, p) \cup {p} : x = rec(q)
    BY Zenon
  <2> QED  BY <2>3, <2>4, Zenon
<1>9. \A p : Whole(m, p, class) = {rec(q) : q \in Below(m, p) \cup {p}}
  BY Zenon DEF Whole
<1> HIDE DEF own, P, rec
<1> QED  BY <1>0, <1>5, <1>7, <1>8, <1>9, Zenon

-----------------------------------------------------------------------------
(* diff.DiffTrees *)

DiffAt(t, u, f, p) ==
  IF p \notin DOMAIN t THEN {[class |-> "added", path |-> p]}
  ELSE IF p \notin DOMAIN u THEN {[class |-> "deleted", path |-> p]}
  ELSE IF t[p].hash = u[p].hash THEN {}
  ELSE IF t[p].kind = "file" /\ u[p].kind = "file"
       THEN {[class |-> "modified", path |-> p]}
  ELSE UNION {f[Append(p, n)] : n \in t[p].children \cup u[p].children}

\* What diffNode returns if it does not go on to the children.
Alone(l, r, p) ==
  IF ~Present(l, p) THEN {[class |-> "added", path |-> p]}
  ELSE IF ~Present(r, p) THEN {[class |-> "deleted", path |-> p]}
  ELSE IF NodeHash(l, p) = NodeHash(r, p) \/ Descends(l, r, p) THEN {}
  ELSE {[class |-> "modified", path |-> p]}

Descended(l, r) == {p \in Paths(l, r) : Descends(l, r, p)}

LEMMA DiffAtIs ==
  ASSUME NEW l, NEW r, Finite(l), Finite(r), NEW t, NEW u, Built(l, t), Built(r, u),
         NEW f, NEW p \in Paths(l, r)
  PROVE  DiffAt(t, u, f, p) =
           Alone(l, r, p) \cup IF p \in Descended(l, r) THEN Collected(l, r, f, p) ELSE {}
<1> DEFINE K == Collected(l, r, f, p)
<1>1. (p \in DOMAIN t <=> Present(l, p)) /\ (p \in DOMAIN u <=> Present(r, p))
  BY BuiltPaths
<1>2. p \in DOMAIN t => t[p].children = Entries(l, p) /\ t[p].kind = At(l, p).kind
  BY Zenon DEF Built, BuiltAt
<1>3. p \in DOMAIN u => u[p].children = Entries(r, p) /\ u[p].kind = At(r, p).kind
  BY Zenon DEF Built, BuiltAt
<1>4. p \in DOMAIN t /\ p \in DOMAIN u
        => (t[p].hash = u[p].hash <=> NodeHash(l, p) = NodeHash(r, p))
  <2>1. \A q \in DOMAIN t \cap DOMAIN u :
           t[q].hash = u[q].hash <=> NodeHash(l, q) = NodeHash(r, q)
    BY HashesAgree
  <2> QED  BY <2>1, Zenon
<1>5. p \in Descended(l, r) <=>
        Present(l, p) /\ Present(r, p) /\ NodeHash(l, p) # NodeHash(r, p)
          /\ ~(At(l, p).kind = "file" /\ At(r, p).kind = "file")
  BY Zenon DEF Descended, Descends, IsFile
<1>6. p \in Descended(l, r) <=> Descends(l, r, p)
  BY Zenon DEF Descended
<1>7. CASE ~Present(l, p)
  BY <1>1, <1>5, <1>7, Zenon DEF DiffAt, Alone
<1>8. CASE Present(l, p) /\ ~Present(r, p)
  BY <1>1, <1>5, <1>8, Zenon DEF DiffAt, Alone
<1>9. CASE Present(l, p) /\ Present(r, p) /\ NodeHash(l, p) = NodeHash(r, p)
  BY <1>1, <1>4, <1>5, <1>9, Zenon DEF DiffAt, Alone
<1>10. CASE /\ Present(l, p) /\ Present(r, p) /\ NodeHash(l, p) # NodeHash(r, p)
            /\ At(l, p).kind = "file" /\ At(r, p).kind = "file"
  BY <1>1, <1>2, <1>3, <1>4, <1>5, <1>6, <1>10, Zenon DEF DiffAt, Alone
<1>11. CASE p \in Descended(l, r)
  <2>1. t[p].children \cup u[p].children = Entries(l, p) \cup Entries(r, p)
    BY <1>1, <1>2, <1>3, <1>5, <1>11, Zenon
  <2>2. DiffAt(t, u, f, p) = K
    BY <1>1, <1>2, <1>3, <1>4, <1>5, <1>11, <2>1, Zenon DEF DiffAt, Collected
  <2>3. Alone(l, r, p) = {}
    BY <1>5, <1>6, <1>11, Zenon DEF Alone
  <2> HIDE DEF K
  <2>4. DiffAt(t, u, f, p) = Alone(l, r, p) \cup K
    BY <2>2, <2>3, Zenon
  <2> USE DEF K
  <2> QED  BY <1>11, <2>4, Zenon
<1> QED  BY <1>5, <1>7, <1>8, <1>9, <1>10, <1>11, Zenon

LEMMA DiffTreesSees ==
  ASSUME NEW l, NEW r, Finite(l), Finite(r), NEW t, NEW u, Built(l, t), Built(r, u)
  PROVE  DiffTrees(t, u) =
           Seen(l, r, Descended(l, r), [p \in Paths(l, r) |-> Alone(l, r, p)], Root)
<1> DEFINE P == Paths(l, r)
           D == Descended(l, r)
           own == [p \in P |-> Alone(l, r, p)]
           S == DOMAIN t \cup DOMAIN u
           g == CHOOSE f : f = [p \in S |-> DiffAt(t, u, f, p)]
<1>0. Tree(l) /\ Tree(r) /\ S = P
  BY BuiltPaths, Zenon DEF Finite
<1>1. ASSUME NEW f, NEW p \in P
      PROVE  DiffAt(t, u, f, p) = StepAt(l, r, D, own, f, p)
  <2>1. own[p] = Alone(l, r, p)
    BY Zenon
  <2>2. DiffAt(t, u, f, p) =
          Alone(l, r, p) \cup IF p \in D THEN Collected(l, r, f, p) ELSE {}
    BY DiffAtIs
  <2> HIDE DEF own, P, D
  <2> QED  BY <2>1, <2>2, Zenon DEF StepAt
<1>2. PICK h : Walks(l, r, D, own, h)
  <2> HIDE DEF own, P, D
  <2> QED  BY <1>0, WalkExists, Zenon
<1>3. \E f : f = [p \in S |-> DiffAt(t, u, f, p)]
  <2> HIDE DEF own, P, D, S
  <2>1. h = [p \in P |-> StepAt(l, r, D, own, h, p)]
    BY <1>2, Zenon DEF Walks, P
  <2>2. h = [p \in S |-> DiffAt(t, u, h, p)]
    BY <1>0, <1>1, <2>1, Zenon
  <2> QED  BY <2>2, Zenon
<1>4. g = [p \in S |-> DiffAt(t, u, g, p)]
  <2> HIDE DEF own, P, D, S
  <2> QED  BY <1>3, Zenon
<1>5. DiffTrees(t, u) = g[Root]
  BY Zenon DEF DiffTrees, DiffAt
<1> HIDE DEF g, S
<1>6. \A p \in P : g[p] = StepAt(l, r, D, own, g, p)
  <2> HIDE DEF own, P, D
  <2>1. \A p \in P : g[p] = DiffAt(t, u, g, p)
    BY <1>0, <1>4, Zenon
  <2> QED  BY <1>1, <2>1, Zenon
<1>7. \A p \in P : g[p] = Seen(l, r, D, own, p)
  <2> HIDE DEF own, D
  <2> QED  BY <1>6, WalkReturns
<1>8. Root \in P
  BY DEF Paths, Present, At, DirNode
<1> QED  BY <1>5, <1>7, <1>8, Zenon

\* A result of DiffTrees.
Result(class, p) == [class |-> class, path |-> p]

LEMMA ResultIs ==
  ASSUME NEW class, NEW p
  PROVE  Result(class, p).class = class /\ Result(class, p).path = p
BY DEF Result

\* From the root, diffNode reaches what Reached says.
LEMMA ReachedUnder ==
  ASSUME NEW l, NEW r, Tree(l), Tree(r)
  PROVE  Under(l, r, Descended(l, r), Root) = {q \in Paths(l, r) : Reached(l, r, q)}
<1>1. Ancestors(Root) = {}
  BY DEF Ancestors, Root
<1>2. ASSUME NEW q \in Paths(l, r)
      PROVE  /\ Root \in Ancestors(q) \cup {q}
             /\ Ancestors(q) \ Ancestors(Root) \subseteq Descended(l, r) <=> Reached(l, r, q)
  <2>1. CASE q = Root
    BY <1>1, <2>1, Zenon DEF Reached
  <2>2. CASE q \in Path
    <3>1. Root \in Ancestors(q)
      BY <2>2, AncestorFacts, Zenon
    <3>2. \A a \in Ancestors(q) : a \in Path \cup {Root}
      BY <2>2, AncestorFacts, Zenon
    <3>3. \A a \in Ancestors(q) : a \in Descended(l, r) <=> Descends(l, r, a)
      BY <3>2, Zenon DEF Descended, Descends, Paths
    <3> QED  BY <1>1, <3>1, <3>3, Zenon DEF Reached
  <2> QED  BY <2>1, <2>2, Zenon DEF Paths
<1> QED  BY <1>2, Zenon DEF Under

LEMMA AloneIs ==
  ASSUME NEW l, NEW r, NEW p \in Paths(l, r), Reached(l, r, p), NEW x
  PROVE  x \in Alone(l, r, p) <=>
           \/ x = Result("added", p) /\ p \in Added(l, r)
           \/ x = Result("deleted", p) /\ p \in Deleted(l, r)
           \/ x = Result("modified", p) /\ p \in Modified(l, r)
<1>1. CASE p = Root
  <2>1. Present(l, p) /\ Present(r, p) /\ ~IsFile(l, p) /\ ~IsFile(r, p)
    BY <1>1 DEF Present, IsFile, At, DirNode
  <2>2. p \notin Added(l, r) /\ p \notin Deleted(l, r) /\ p \notin Modified(l, r)
    BY <2>1, Zenon DEF Added, Deleted, Modified
  <2>3. NodeHash(l, p) = NodeHash(r, p) \/ Descends(l, r, p)
    BY <2>1, Zenon DEF Descends
  <2>4. Alone(l, r, p) = {}
    BY <2>1, <2>3, Zenon DEF Alone
  <2> QED  BY <2>2, <2>4, Zenon
<1>2. CASE p \in Path
  <2>1. Present(l, p) \/ Present(r, p)
    BY Zenon DEF Paths
  <2>2. CASE ~Present(l, p)
    <3>1. p \in Added(l, r) /\ p \notin Deleted(l, r) /\ p \notin Modified(l, r)
      BY <1>2, <2>1, <2>2 DEF Added, Deleted, Modified, IsFile, Present
    <3>2. Alone(l, r, p) = {Result("added", p)}
      BY <2>2, Zenon DEF Alone, Result
    <3> QED  BY <3>1, <3>2, Zenon
  <2>3. CASE ~Present(r, p)
    <3>1. p \notin Added(l, r) /\ p \in Deleted(l, r) /\ p \notin Modified(l, r) /\ Present(l, p)
      BY <1>2, <2>1, <2>3 DEF Added, Deleted, Modified, IsFile, Present
    <3>2. Alone(l, r, p) = {Result("deleted", p)}
      BY <2>3, <3>1, Zenon DEF Alone, Result
    <3> QED  BY <3>1, <3>2, Zenon
  <2>4. CASE Present(l, p) /\ Present(r, p)
    <3>1. p \notin Added(l, r) /\ p \notin Deleted(l, r)
      BY <2>4, Zenon DEF Added, Deleted
    <3>2. CASE p \in Modified(l, r)
      <4>1. NodeHash(l, p) # NodeHash(r, p) /\ ~Descends(l, r, p)
        BY <3>2, Zenon DEF Modified, Descends
      <4>2. Alone(l, r, p) = {Result("modified", p)}
        BY <2>4, <4>1, Zenon DEF Alone, Result
      <4> QED  BY <3>1, <3>2, <4>2, Zenon
    <3>3. CASE p \notin Modified(l, r)
      <4>1. NodeHash(l, p) = NodeHash(r, p) \/ Descends(l, r, p)
        BY <1>2, <2>4, <3>3, Zenon DEF Modified, Descends
      <4>2. Alone(l, r, p) = {}
        BY <2>4, <4>1, Zenon DEF Alone
      <4> QED  BY <3>1, <3>3, <4>2, Zenon
    <3> QED  BY <3>2, <3>3, Zenon
  <2> QED  BY <2>2, <2>3, <2>4, Zenon
<1> QED  BY <1>1, <1>2, Zenon DEF Paths

\* DiffTrees returns the added, the deleted and the modified paths.
LEMMA DiffTreesReturns ==
  ASSUME NEW l, NEW r, Finite(l), Finite(r), NEW t, NEW u, Built(l, t), Built(r, u), NEW x
  PROVE  x \in DiffTrees(t, u) <=>
           \/ \E p \in Added(l, r) : x = Result("added", p)
           \/ \E p \in Deleted(l, r) : x = Result("deleted", p)
           \/ \E p \in Modified(l, r) : x = Result("modified", p)
<1> DEFINE own == [p \in Paths(l, r) |-> Alone(l, r, p)]
           R == {q \in Paths(l, r) : Reached(l, r, q)}
<1>1. Tree(l) /\ Tree(r)
  BY Zenon DEF Finite
<1>2. DiffTrees(t, u) = UNION {own[q] : q \in R}
  <2>1. Under(l, r, Descended(l, r), Root) = R
    BY <1>1, ReachedUnder
  <2>2. DiffTrees(t, u) = Seen(l, r, Descended(l, r), own, Root)
    BY DiffTreesSees
  <2> HIDE DEF own, R
  <2> QED  BY <2>1, <2>2, Zenon DEF Seen
<1>3. \A q \in R : own[q] = Alone(l, r, q)
  BY Zenon
<1>4. x \in DiffTrees(t, u) <=> \E q \in R : x \in Alone(l, r, q)
  <2> HIDE DEF own, R
  <2> QED  BY <1>2, <1>3, Zenon
<1>5. /\ Added(l, r) \subseteq R /\ Deleted(l, r) \subseteq R /\ Modified(l, r) \subseteq R
  BY DEF Added, Deleted, Modified, Paths, IsFile, Present
<1>6. \A q \in R : x \in Alone(l, r, q) <=>
           \/ x = Result("added", q) /\ q \in Added(l, r)
           \/ x = Result("deleted", q) /\ q \in Deleted(l, r)
           \/ x = Result("modified", q) /\ q \in Modified(l, r)
  BY AloneIs
<1> HIDE DEF own, R
<1> QED  BY <1>4, <1>5, <1>6, Zenon

\* What syncCmd makes of the diff.
LEMMA SyncPlanIs ==
  ASSUME NEW l, NEW r, Finite(l), Finite(r), NEW t, NEW u, Built(l, t), Built(r, u), NEW have
  PROVE  SyncPlan(t, u, have) =
           [added |-> Added(l, r), modified |-> Modified(l, r),
            deleted |-> Deleted(l, r), needed |-> NeededChunks(l, r, have)]
<1> DEFINE W == DiffTrees(t, u)
           In(c) == {x.path : x \in {y \in W : y.class = c}}
<1>1. \A x : x \in W <=>
           \/ \E p \in Added(l, r) : x = Result("added", p)
           \/ \E p \in Deleted(l, r) : x = Result("deleted", p)
           \/ \E p \in Modified(l, r) : x = Result("modified", p)
  BY DiffTreesReturns
<1> HIDE DEF W
<1>2. \A q : q \in In("added") <=> q \in Added(l, r)
  <2>1. ASSUME NEW q \in In("added")
        PROVE  q \in Added(l, r)
    <3>1. PICK x \in W : x.class = "added" /\ q = x.path
      BY Zenon
    <3>2. \A p : x # Result("deleted", p) /\ x # Result("modified", p)
      BY <3>1, ResultIs
    <3>3. PICK p \in Added(l, r) : x = Result("added", p)
      BY <1>1, <3>1, <3>2, Zenon
    <3>4. q = p
      BY <3>1, <3>3, ResultIs, Zenon
    <3> QED  BY <3>4, Zenon
  <2>2. ASSUME NEW q \in Added(l, r)
        PROVE  q \in In("added")
    <3>1. PICK x \in W : x = Result("added", q)
      BY <1>1, Zenon
    <3>2. x.class = "added" /\ q = x.path
      BY <3>1, ResultIs, Zenon
    <3> QED  BY <3>2, Zenon
  <2> QED  BY <2>1, <2>2, Zenon
<1>3. \A q : q \in In("deleted") <=> q \in Deleted(l, r)
  <2>1. ASSUME NEW q \in In("deleted")
        PROVE  q \in Deleted(l, r)
    <3>1. PICK x \in W : x.class = "deleted" /\ q = x.path
      BY Zenon
    <3>2. \A p : x # Result("added", p) /\ x # Result("modified", p)
      BY <3>1, ResultIs
    <3>3. PICK p \in Deleted(l, r) : x = Result("deleted", p)
      BY <1>1, <3>1, <3>2, Zenon
    <3>4. q = p
      BY <3>1, <3>3, ResultIs, Zenon
    <3> QED  BY <3>4, Zenon
  <2>2. ASSUME NEW q \in Deleted(l, r)
        PROVE  q \in In("deleted")
    <3>1. PICK x \in W : x = Result("deleted", q)
      BY <1>1, Zenon
    <3>2. x.class = "deleted" /\ q = x.path
      BY <3>1, ResultIs, Zenon
    <3> QED  BY <3>2, Zenon
  <2> QED  BY <2>1, <2>2, Zenon
<1>4. \A q : q \in In("modified") <=> q \in Modified(l, r)
  <2>1. ASSUME NEW q \in In("modified")
        PROVE  q \in Modified(l, r)
    <3>1. PICK x \in W : x.class = "modified" /\ q = x.path
      BY Zenon
    <3>2. \A p : x # Result("added", p) /\ x # Result("deleted", p)
      BY <3>1, ResultIs
    <3>3. PICK p \in Modified(l, r) : x = Result("modified", p)
      BY <1>1, <3>1, <3>2, Zenon
    <3>4. q = p
      BY <3>1, <3>3, ResultIs, Zenon
    <3> QED  BY <3>4, Zenon
  <2>2. ASSUME NEW q \in Modified(l, r)
        PROVE  q \in In("modified")
    <3>1. PICK x \in W : x = Result("modified", q)
      BY <1>1, Zenon
    <3>2. x.class = "modified" /\ q = x.path
      BY <3>1, ResultIs, Zenon
    <3> QED  BY <3>2, Zenon
  <2> QED  BY <2>1, <2>2, Zenon
<1>5. In("added") = Added(l, r) /\ In("deleted") = Deleted(l, r) /\ In("modified") = Modified(l, r)
  <2> HIDE DEF In
  <2> QED  BY <1>2, <1>3, <1>4, Zenon
<1> DEFINE A == Added(l, r) \cup Modified(l, r)
           need == UNION {CollectMissingChunks(u, have)[p] : p \in A}
<1>6. A \subseteq DOMAIN u
  <2>1. \A p \in A : p \in Path \cup {Root} /\ Present(r, p)
    BY DEF Added, Modified, IsFile, Present
  <2> QED  BY <2>1, Zenon DEF Built
<1>7. \A p \in A : CollectMissingChunks(u, have)[p] = SubtreeChunks(r, p) \ have
  <2>1. \A p \in DOMAIN u : CollectMissingChunks(u, have)[p] = SubtreeChunks(r, p) \ have
    BY MissingChunks
  <2> HIDE DEF A
  <2> QED  BY <1>6, <2>1, Zenon
<1>8. need = NeededChunks(l, r, have)
  <2>1. NeededChunks(l, r, have) = (UNION {SubtreeChunks(r, p) : p \in A}) \ have
    BY Zenon DEF NeededChunks
  <2> HIDE DEF A
  <2>2. \A c : c \in need <=> \E p \in A : c \in SubtreeChunks(r, p) /\ c \notin have
    BY <1>7, Zenon
  <2>3. \A c : c \in NeededChunks(l, r, have)
                 <=> \E p \in A : c \in SubtreeChunks(r, p) /\ c \notin have
    BY <2>1, Zenon
  <2> HIDE DEF need
  <2> QED  BY <2>2, <2>3, Zenon
<1>9. SyncPlan(t, u, have) =
        [added |-> In("added"), modified |-> In("modified"), deleted |-> In("deleted"),
         needed |-> UNION {CollectMissingChunks(u, have)[p] :
                             p \in In("added") \cup In("modified")}]
  BY Zenon DEF SyncPlan, W
<1> HIDE DEF In
<1>10. UNION {CollectMissingChunks(u, have)[p] : p \in In("added") \cup In("modified")} = need
  BY <1>5, Zenon
<1> HIDE DEF need
<1> QED  BY <1>5, <1>8, <1>9, <1>10, Zenon

-----------------------------------------------------------------------------
(* merkle.Diff *)

NodesAt(t, u, f, p) ==
  IF p \notin DOMAIN u THEN CollectAll(t, "added")[p]
  ELSE IF p \notin DOMAIN t THEN CollectAll(u, "deleted")[p]
  ELSE IF t[p].hash = u[p].hash THEN {}
  ELSE IF t[p].kind # u[p].kind
       THEN {[class |-> "modified", path |-> p, chunks |-> {}]}
  ELSE IF t[p].kind = "file"
       THEN {[class |-> "modified", path |-> p,
              chunks |-> FindDifferingChunks(t[p].chunks, u[p].chunks)]}
  ELSE UNION {f[Append(p, n)] : n \in t[p].children \cup u[p].children}

\* What diffNodes returns if it does not go on to the children.
Own(l, r, p) ==
  IF ~Present(r, p) THEN Whole(l, p, "added")
  ELSE IF ~Present(l, p) THEN Whole(r, p, "deleted")
  ELSE IF NodeHash(l, p) = NodeHash(r, p) \/ Enters(l, r, p) THEN {}
  ELSE {[class |-> "modified", path |-> p, chunks |-> ChangedChunks(l, r, p)]}

Entered(l, r) == {p \in Paths(l, r) : Enters(l, r, p)}

\* A node that is there is a file or a directory, and the root is a directory.
LEMMA Kinds ==
  ASSUME NEW m, Tree(m), NEW p \in Path \cup {Root}
  PROVE  /\ Present(m, p) <=> IsDir(m, p) \/ IsFile(m, p)
         /\ ~(IsDir(m, p) /\ IsFile(m, p))
         /\ IsFile(m, p) => At(m, p) = m[p]
<1>1. CASE p = Root
  BY <1>1 DEF Present, IsDir, IsFile, At, DirNode
<1>2. CASE p \in Path
  <2>1. At(m, p) = m[p] /\ m[p] \in Node
    BY <1>2, AtPath DEF Tree
  <2> QED  BY <2>1 DEF Present, IsDir, IsFile, Node
<1> QED  BY <1>1, <1>2, Zenon

LEMMA NodesAtIs ==
  ASSUME NEW l, NEW r, Finite(l), Finite(r), NEW t, NEW u, Built(l, t), Built(r, u),
         NEW f, NEW p \in Paths(l, r)
  PROVE  NodesAt(t, u, f, p) =
           Own(l, r, p) \cup IF p \in Entered(l, r) THEN Collected(l, r, f, p) ELSE {}
<1> DEFINE K == Collected(l, r, f, p)
<1>1. (p \in DOMAIN t <=> Present(l, p)) /\ (p \in DOMAIN u <=> Present(r, p))
  BY BuiltPaths
<1>2. p \in DOMAIN t => /\ t[p].children = Entries(l, p)
                        /\ t[p].kind = At(l, p).kind /\ t[p].chunks = At(l, p).chunks
  BY Zenon DEF Built, BuiltAt
<1>3. p \in DOMAIN u => /\ u[p].children = Entries(r, p)
                        /\ u[p].kind = At(r, p).kind /\ u[p].chunks = At(r, p).chunks
  BY Zenon DEF Built, BuiltAt
<1>4. p \in DOMAIN t /\ p \in DOMAIN u
        => (t[p].hash = u[p].hash <=> NodeHash(l, p) = NodeHash(r, p))
  <2>1. \A q \in DOMAIN t \cap DOMAIN u :
           t[q].hash = u[q].hash <=> NodeHash(l, q) = NodeHash(r, q)
    BY HashesAgree
  <2> QED  BY <2>1, Zenon
<1>5. p \in Path \cup {Root} /\ (Present(l, p) \/ Present(r, p)) /\ Tree(l) /\ Tree(r)
  BY Zenon DEF Paths, Finite
<1>6. /\ Present(l, p) <=> IsDir(l, p) \/ IsFile(l, p)
      /\ ~(IsDir(l, p) /\ IsFile(l, p)) /\ (IsFile(l, p) => At(l, p) = l[p])
  BY <1>5, Kinds
<1>7. /\ Present(r, p) <=> IsDir(r, p) \/ IsFile(r, p)
      /\ ~(IsDir(r, p) /\ IsFile(r, p)) /\ (IsFile(r, p) => At(r, p) = r[p])
  BY <1>5, Kinds
<1>8. p \in Entered(l, r) <=> IsDir(l, p) /\ IsDir(r, p) /\ NodeHash(l, p) # NodeHash(r, p)
  BY Zenon DEF Entered, Enters
<1>9. CASE ~Present(r, p)
  <2>1. NodesAt(t, u, f, p) = CollectAll(t, "added")[p] /\ p \in DOMAIN t
    BY <1>1, <1>5, <1>9, Zenon DEF NodesAt
  <2>2. CollectAll(t, "added")[p] = Whole(l, p, "added")
    BY <2>1, AllCollected, Zenon
  <2> QED  BY <1>7, <1>8, <1>9, <2>1, <2>2, Zenon DEF Own
<1>10. CASE Present(r, p) /\ ~Present(l, p)
  <2>1. NodesAt(t, u, f, p) = CollectAll(u, "deleted")[p] /\ p \in DOMAIN u
    BY <1>1, <1>10, Zenon DEF NodesAt
  <2>2. CollectAll(u, "deleted")[p] = Whole(r, p, "deleted")
    BY <2>1, AllCollected, Zenon
  <2> QED  BY <1>6, <1>8, <1>10, <2>1, <2>2, Zenon DEF Own
<1>11. CASE Present(l, p) /\ Present(r, p) /\ NodeHash(l, p) = NodeHash(r, p)
  <2>1. NodesAt(t, u, f, p) = {}
    BY <1>1, <1>4, <1>11, Zenon DEF NodesAt
  <2> QED  BY <1>8, <1>11, <2>1, Zenon DEF Own
<1>12. CASE /\ Present(l, p) /\ Present(r, p) /\ NodeHash(l, p) # NodeHash(r, p)
            /\ p \notin Entered(l, r)
  <2>1. Own(l, r, p) = {[class |-> "modified", path |-> p, chunks |-> ChangedChunks(l, r, p)]}
    BY <1>8, <1>12, Zenon DEF Own, Enters
  <2>2. CASE At(l, p).kind # At(r, p).kind
    <3>1. ChangedChunks(l, r, p) = {}
      BY <2>2, Zenon DEF ChangedChunks, IsFile
    <3>2. NodesAt(t, u, f, p) = {[class |-> "modified", path |-> p, chunks |-> {}]}
      BY <1>1, <1>2, <1>3, <1>4, <1>12, <2>2, Zenon DEF NodesAt
    <3> QED  BY <1>12, <2>1, <3>1, <3>2, Zenon
  <2>3. CASE At(l, p).kind = At(r, p).kind
    <3>1. IsFile(l, p) /\ IsFile(r, p)
      BY <1>6, <1>7, <1>8, <1>12, <2>3, Zenon DEF IsDir, IsFile
    <3>2. ChangedChunks(l, r, p) = FindDifferingChunks(t[p].chunks, u[p].chunks)
      BY <1>1, <1>2, <1>3, <1>6, <1>7, <1>12, <3>1, Zenon DEF ChangedChunks
    <3>3. NodesAt(t, u, f, p) = {[class |-> "modified", path |-> p,
                                  chunks |-> FindDifferingChunks(t[p].chunks, u[p].chunks)]}
      BY <1>1, <1>2, <1>3, <1>4, <1>12, <2>3, <3>1, Zenon DEF NodesAt, IsFile
    <3> QED  BY <1>12, <2>1, <3>2, <3>3, Zenon
  <2> QED  BY <2>2, <2>3, Zenon
<1>13. CASE p \in Entered(l, r)
  <2>0. Present(l, p) /\ Present(r, p) /\ ~IsFile(l, p)
    BY <1>6, <1>7, <1>8, <1>13, Zenon
  <2>1. t[p].children \cup u[p].children = Entries(l, p) \cup Entries(r, p)
    BY <1>1, <1>2, <1>3, <2>0, Zenon
  <2>2. t[p].kind = u[p].kind /\ t[p].kind # "file" /\ t[p].hash # u[p].hash
    BY <1>1, <1>2, <1>3, <1>4, <1>8, <1>13, <2>0, Zenon DEF IsDir, IsFile
  <2>3. NodesAt(t, u, f, p) = K
    BY <1>1, <2>0, <2>1, <2>2, Zenon DEF NodesAt, Collected
  <2>4. Own(l, r, p) = {}
    BY <1>8, <1>13, <2>0, Zenon DEF Own, Enters
  <2> HIDE DEF K
  <2>5. NodesAt(t, u, f, p) = Own(l, r, p) \cup K
    BY <2>3, <2>4, Zenon
  <2> USE DEF K
  <2> QED  BY <1>13, <2>5, Zenon
<1> QED  BY <1>5, <1>9, <1>10, <1>11, <1>12, <1>13, Zenon

LEMMA DiffNodesSees ==
  ASSUME NEW l, NEW r, Finite(l), Finite(r), NEW t, NEW u, Built(l, t), Built(r, u)
  PROVE  DiffNodes(t, u) =
           Seen(l, r, Entered(l, r), [p \in Paths(l, r) |-> Own(l, r, p)], Root)
<1> DEFINE P == Paths(l, r)
           D == Entered(l, r)
           own == [p \in P |-> Own(l, r, p)]
           S == DOMAIN t \cup DOMAIN u
           g == CHOOSE f : f = [p \in S |-> NodesAt(t, u, f, p)]
<1>0. Tree(l) /\ Tree(r) /\ S = P
  BY BuiltPaths, Zenon DEF Finite
<1>1. ASSUME NEW f, NEW p \in P
      PROVE  NodesAt(t, u, f, p) = StepAt(l, r, D, own, f, p)
  <2>1. own[p] = Own(l, r, p)
    BY Zenon
  <2>2. NodesAt(t, u, f, p) =
          Own(l, r, p) \cup IF p \in D THEN Collected(l, r, f, p) ELSE {}
    BY NodesAtIs
  <2> HIDE DEF own, P, D
  <2> QED  BY <2>1, <2>2, Zenon DEF StepAt
<1>2. PICK h : Walks(l, r, D, own, h)
  <2> HIDE DEF own, P, D
  <2> QED  BY <1>0, WalkExists, Zenon
<1>3. \E f : f = [p \in S |-> NodesAt(t, u, f, p)]
  <2> HIDE DEF own, P, D, S
  <2>1. h = [p \in P |-> StepAt(l, r, D, own, h, p)]
    BY <1>2, Zenon DEF Walks, P
  <2>2. h = [p \in S |-> NodesAt(t, u, h, p)]
    BY <1>0, <1>1, <2>1, Zenon
  <2> QED  BY <2>2, Zenon
<1>4. g = [p \in S |-> NodesAt(t, u, g, p)]
  <2> HIDE DEF own, P, D, S
  <2> QED  BY <1>3, Zenon
<1>5. DiffNodes(t, u) = g[Root]
  BY Zenon DEF DiffNodes, NodesAt
<1> HIDE DEF g, S
<1>6. \A p \in P : g[p] = StepAt(l, r, D, own, g, p)
  <2> HIDE DEF own, P, D
  <2>1. \A p \in P : g[p] = NodesAt(t, u, g, p)
    BY <1>0, <1>4, Zenon
  <2> QED  BY <1>1, <2>1, Zenon
<1>7. \A p \in P : g[p] = Seen(l, r, D, own, p)
  <2> HIDE DEF own, D
  <2> QED  BY <1>6, WalkReturns
<1>8. Root \in P
  BY DEF Paths, Present, At, DirNode
<1> QED  BY <1>5, <1>7, <1>8, Zenon

\* From the root, diffNodes comes to what Visited says.
LEMMA VisitedUnder ==
  ASSUME NEW l, NEW r, Tree(l), Tree(r)
  PROVE  Under(l, r, Entered(l, r), Root) = {q \in Paths(l, r) : Visited(l, r, q)}
<1>1. Ancestors(Root) = {}
  BY DEF Ancestors, Root
<1>2. ASSUME NEW q \in Paths(l, r)
      PROVE  /\ Root \in Ancestors(q) \cup {q}
             /\ Ancestors(q) \ Ancestors(Root) \subseteq Entered(l, r) <=> Visited(l, r, q)
  <2>1. CASE q = Root
    BY <1>1, <2>1, Zenon DEF Visited
  <2>2. CASE q \in Path
    <3>1. Root \in Ancestors(q)
      BY <2>2, AncestorFacts, Zenon
    <3>2. \A a \in Ancestors(q) : a \in Path \cup {Root}
      BY <2>2, AncestorFacts, Zenon
    <3>3. \A a \in Ancestors(q) : a \in Entered(l, r) <=> Enters(l, r, a)
      BY <3>2, Zenon DEF Entered, Enters, Paths, IsDir, Present
    <3> QED  BY <1>1, <3>1, <3>3, Zenon DEF Visited
  <2> QED  BY <2>1, <2>2, Zenon DEF Paths
<1> QED  BY <1>2, Zenon DEF Under

\* What collectAll returns for the nodes at which one side ends.
LEMMA OnlyInIs ==
  ASSUME NEW m, NEW other, Tree(m), Tree(other), NEW class, NEW x
  PROVE  (\E p \in OnlyIn(m, other) :
            x = [class |-> class, path |-> p, chunks |-> Places(m[p].chunks)])
         <=> \E q \in Path : /\ Present(m, q) /\ ~Present(other, q) /\ Visited(m, other, q)
                             /\ x \in Whole(m, q, class)
<1>1. \A p \in Path : At(m, p) = m[p]
  BY AtPath, Zenon
<1>2. ASSUME NEW p \in OnlyIn(m, other),
             x = [class |-> class, path |-> p, chunks |-> Places(m[p].chunks)]
      PROVE  \E q \in Path : /\ Present(m, q) /\ ~Present(other, q) /\ Visited(m, other, q)
                             /\ x \in Whole(m, q, class)
  <2>1. p \in Path /\ Present(m, p)
    BY Zenon DEF OnlyIn
  <2>2. PICK q \in Ancestors(p) \cup {p} : Visited(m, other, q) /\ ~Present(other, q)
    BY Zenon DEF OnlyIn
  <2>3. q # Root
    BY <2>2 DEF Present, At, DirNode
  <2>4. q \in Path
    BY <2>1, <2>3, AncestorFacts, Zenon
  <2>5. Present(m, q)
    <3>1. CASE q = p
      BY <2>1, <3>1, Zenon
    <3>2. CASE q \in Ancestors(p)
      <4>1. IsDir(m, q)
        BY <2>1, <3>2, Zenon DEF Tree, WellFormed
      <4> QED  BY <4>1 DEF IsDir, Present
    <3> QED  BY <3>1, <3>2, Zenon
  <2>6. p \in Below(m, q) \cup {q}
    BY <2>1, Zenon DEF Below
  <2>7. x \in Whole(m, q, class)
    BY <1>1, <1>2, <2>1, <2>6, Zenon DEF Whole
  <2> QED  BY <2>2, <2>4, <2>5, <2>7, Zenon
<1>3. ASSUME NEW q \in Path, Present(m, q), ~Present(other, q), Visited(m, other, q),
             x \in Whole(m, q, class)
      PROVE  \E p \in OnlyIn(m, other) :
               x = [class |-> class, path |-> p, chunks |-> Places(m[p].chunks)]
  <2>1. PICK p \in Below(m, q) \cup {q} :
          x = [class |-> class, path |-> p, chunks |-> Places(At(m, p).chunks)]
    BY <1>3, Zenon DEF Whole
  <2>2. p \in Path /\ Present(m, p) /\ q \in Ancestors(p) \cup {p}
    BY <1>3, Zenon DEF Below
  <2>3. p \in OnlyIn(m, other)
    BY <1>3, <2>2, Zenon DEF OnlyIn
  <2> QED  BY <1>1, <2>1, <2>2, <2>3, Zenon
<1> QED  BY <1>2, <1>3, Zenon

LEMMA OwnIs ==
  ASSUME NEW l, NEW r, Tree(l), Tree(r), NEW p \in Paths(l, r), Visited(l, r, p), NEW x
  PROVE  x \in Own(l, r, p) <=>
           \/ /\ p \in Path /\ Present(l, p) /\ ~Present(r, p)
              /\ x \in Whole(l, p, "added")
           \/ /\ p \in Path /\ Present(r, p) /\ ~Present(l, p)
              /\ x \in Whole(r, p, "deleted")
           \/ /\ p \in Differing(l, r)
              /\ x = [class |-> "modified", path |-> p, chunks |-> ChangedChunks(l, r, p)]
<1>1. CASE p = Root
  <2>1. Present(l, p) /\ Present(r, p) /\ IsDir(l, p) /\ IsDir(r, p)
    BY <1>1 DEF Present, IsDir, At, DirNode
  <2>2. Own(l, r, p) = {}
    BY <2>1, Zenon DEF Own, Enters
  <2>3. p \notin Differing(l, r)
    BY <2>1, Zenon DEF Differing, Enters
  <2> QED  BY <2>1, <2>2, <2>3, Zenon
<1>2. CASE p \in Path
  <2>1. Present(l, p) \/ Present(r, p)
    BY Zenon DEF Paths
  <2>2. CASE ~Present(r, p)
    <3>1. Own(l, r, p) = Whole(l, p, "added") /\ p \notin Differing(l, r)
      BY <2>2, Zenon DEF Own, Differing
    <3> QED  BY <1>2, <2>1, <2>2, <3>1, Zenon
  <2>3. CASE Present(r, p) /\ ~Present(l, p)
    <3>1. Own(l, r, p) = Whole(r, p, "deleted") /\ p \notin Differing(l, r)
      BY <2>3, Zenon DEF Own, Differing
    <3> QED  BY <1>2, <2>3, <3>1, Zenon
  <2>4. CASE Present(l, p) /\ Present(r, p) /\ p \in Differing(l, r)
    <3>1. NodeHash(l, p) # NodeHash(r, p) /\ ~Enters(l, r, p)
      BY <2>4, Zenon DEF Differing
    <3>2. Own(l, r, p) = {[class |-> "modified", path |-> p, chunks |-> ChangedChunks(l, r, p)]}
      BY <2>4, <3>1, Zenon DEF Own
    <3> QED  BY <2>4, <3>2, Zenon
  <2>5. CASE Present(l, p) /\ Present(r, p) /\ p \notin Differing(l, r)
    <3>1. NodeHash(l, p) = NodeHash(r, p) \/ Enters(l, r, p)
      BY <1>2, <2>5, Zenon DEF Differing
    <3>2. Own(l, r, p) = {}
      BY <2>5, <3>1, Zenon DEF Own
    <3> QED  BY <2>5, <3>2, Zenon
  <2> QED  BY <2>2, <2>3, <2>4, <2>5, Zenon
<1> QED  BY <1>1, <1>2, Zenon DEF Paths

\* merkle.Diff returns what module SyncManager says.
LEMMA DiffNodesReturns ==
  ASSUME NEW l, NEW r, Finite(l), Finite(r), NEW t, NEW u, Built(l, t), Built(r, u)
  PROVE  DiffNodes(t, u) = Diff(l, r)
<1> DEFINE own == [p \in Paths(l, r) |-> Own(l, r, p)]
           R == {q \in Paths(l, r) : Visited(l, r, q)}
           Side(m, other, class, x) ==
             \E q \in Path : /\ Present(m, q) /\ ~Present(other, q) /\ Visited(m, other, q)
                             /\ x \in Whole(m, q, class)
           Modification(p, x) ==
             x = [class |-> "modified", path |-> p, chunks |-> ChangedChunks(l, r, p)]
<1>1. Tree(l) /\ Tree(r)
  BY Zenon DEF Finite
<1>2. DiffNodes(t, u) = UNION {own[q] : q \in R}
  <2>1. Under(l, r, Entered(l, r), Root) = R
    BY <1>1, VisitedUnder
  <2>2. DiffNodes(t, u) = Seen(l, r, Entered(l, r), own, Root)
    BY DiffNodesSees
  <2> HIDE DEF own, R
  <2> QED  BY <2>1, <2>2, Zenon DEF Seen
<1>3. \A q \in R : own[q] = Own(l, r, q)
  BY Zenon
<1>4. \A x : x \in DiffNodes(t, u) <=> \E q \in R : x \in Own(l, r, q)
  <2> HIDE DEF own, R
  <2> QED  BY <1>2, <1>3, Zenon
<1>5. \A q \in Path : Visited(r, l, q) <=> Visited(l, r, q)
  BY Zenon DEF Visited, Enters
<1>6. \A q \in Path : Visited(l, r, q) /\ (Present(l, q) \/ Present(r, q)) => q \in R
  BY Zenon DEF Paths
<1>7. Differing(l, r) \subseteq R
  BY <1>6, Zenon DEF Differing
<1>8. ASSUME NEW x
      PROVE  x \in DiffNodes(t, u) <=>
               \/ Side(l, r, "added", x)
               \/ Side(r, l, "deleted", x)
               \/ \E p \in Differing(l, r) : Modification(p, x)
  <2>1. \A q \in R : x \in Own(l, r, q) <=>
           \/ /\ q \in Path /\ Present(l, q) /\ ~Present(r, q)
              /\ x \in Whole(l, q, "added")
           \/ /\ q \in Path /\ Present(r, q) /\ ~Present(l, q)
              /\ x \in Whole(r, q, "deleted")
           \/ q \in Differing(l, r) /\ Modification(q, x)
    BY <1>1, OwnIs
  <2>2. \A q \in R : Visited(l, r, q)
    BY Zenon
  <2> HIDE DEF R, own, Modification
  <2> QED  BY <1>4, <1>5, <1>6, <1>7, <2>1, <2>2, Zenon
<1>9. \A x : x \in Diff(l, r) <=>
               \/ Side(l, r, "added", x)
               \/ Side(r, l, "deleted", x)
               \/ \E p \in Differing(l, r) : Modification(p, x)
  <2> TAKE x
  <2>1. x \in Diff(l, r) <=>
          \/ \E p \in OnlyIn(l, r) :
               x = [class |-> "added", path |-> p, chunks |-> Places(l[p].chunks)]
          \/ \E p \in OnlyIn(r, l) :
               x = [class |-> "deleted", path |-> p, chunks |-> Places(r[p].chunks)]
          \/ \E p \in Differing(l, r) : Modification(p, x)
    BY Zenon DEF Diff
  <2>2. (\E p \in OnlyIn(l, r) :
            x = [class |-> "added", path |-> p, chunks |-> Places(l[p].chunks)])
          <=> Side(l, r, "added", x)
    BY <1>1, OnlyInIs
  <2>3. (\E p \in OnlyIn(r, l) :
            x = [class |-> "deleted", path |-> p, chunks |-> Places(r[p].chunks)])
          <=> Side(r, l, "deleted", x)
    BY <1>1, OnlyInIs
  <2> HIDE DEF Side, Modification
  <2> QED  BY <2>1, <2>2, <2>3, Zenon
<1> HIDE DEF Side, Modification
<1> QED  BY <1>8, <1>9, Zenon

\* The recursive algorithms on any two finite trees.
LEMMA AlgorithmsAgree ==
  ASSUME NEW l, NEW r, Finite(l), Finite(r)
  PROVE  LET t == BuildFromFS(l)
             u == ManifestToNode(NodeToManifest(BuildFromFS(r))) IN
         /\ \A have \in Stores :
              SyncPlan(t, u, have) =
                [added |-> Added(l, r), modified |-> Modified(l, r),
                 deleted |-> Deleted(l, r), needed |-> NeededChunks(l, r, have)]
         /\ DiffNodes(t, u) = Diff(l, r)
<1>1. PICK t : t = BuildFromFS(l)
  OBVIOUS
<1>2. PICK u : u = ManifestToNode(NodeToManifest(BuildFromFS(r)))
  OBVIOUS
<1>3. Built(l, t) /\ Built(r, u)
  BY <1>1, <1>2, BuiltFromFS, BuiltFromManifest, Zenon
<1>4. \A have \in Stores :
        SyncPlan(t, u, have) =
          [added |-> Added(l, r), modified |-> Modified(l, r),
           deleted |-> Deleted(l, r), needed |-> NeededChunks(l, r, have)]
  BY <1>3, SyncPlanIs, Zenon
<1>5. DiffNodes(t, u) = Diff(l, r)
  BY <1>3, DiffNodesReturns, Zenon
<1> QED  BY <1>1, <1>2, <1>4, <1>5, Zenon

-----------------------------------------------------------------------------
(* The theorems *)

LEMMA Inductive == Spec => [](Types /\ Counts /\ Stored)
<1>1. Init => Types /\ Counts /\ Stored
  BY InitTypes, InitCounts, InitStored
<1>2. Types /\ Counts /\ Stored /\ [Next]_vars => (Types /\ Counts /\ Stored)'
  BY TypesKept, CountsKept, StoredKept
<1> QED  BY <1>1, <1>2, PTL DEF Spec

\* When SyncWithPeer returns, its counts account for every chunk it needed, for any
\* trees and any batch size, however the requests fail and the peer changes.
THEOREM SyncsAddUp == Spec => []CountsAddUp
<1>1. Counts => CountsAddUp
  BY DEF Counts
<1> QED  BY <1>1, Inductive, PTL

\* A sync that succeeds has stored the chunks of every file that only the peer had,
\* unless a path changed its kind, whatever failed before and changed since.
THEOREM NewFilesAlwaysArrive == Spec => []NewFilesArrive
<1>1. Types /\ Stored => NewFilesArrive
  <2> SUFFICES ASSUME Types, Stored, phase = "done" /\ ~result.inSync,
                      NEW p \in Path, IsFile(remote, p), ~Present(local, p),
                      \A q \in Ancestors(p) : Present(local, q) => IsDir(local, q)
               PROVE  Range(remote[p].chunks) \subseteq received
    BY Zenon DEF NewFilesArrive
  <2>1. Tree(remote) /\ Range(remote[p].chunks) \subseteq AllChunks(remote)
    BY AllChunksOf, Zenon DEF Types, Finite
  <2>2. ASSUME NEW c \in Range(remote[p].chunks)
        PROVE  c \in received
    <3>0. AllListed(local, remote, p)
      BY <2>1, NewFileListed, Zenon
    <3>1. PICK x \in Listed(Diff(local, remote)) : x[3] = c
      BY <3>0, Zenon DEF AllListed
    <3>2. x[3] \in AllChunks(remote)
      BY <2>1, <3>1, Zenon
    <3>3. toFetch = {} /\ (x \in toFetch \/ x[3] \in received)
      BY <3>2 DEF Stored
    <3> QED  BY <3>1, <3>3, Zenon
  <2> QED  BY <2>2, Zenon
<1> QED  BY <1>1, Inductive, PTL

\* merkle.Diff finds every path on which two trees differ, for any two trees, but
\* for an empty file against an empty directory.
THEOREM DiffAlwaysFinds == Spec => []DiffFindsAll
<1>1. Types => DiffFindsAll
  <2> SUFFICES ASSUME Types, NEW p \in Path
               PROVE  \/ local[p] = remote[p]
                      \/ /\ {local[p], remote[p]} = {EmptyFile, DirNode}
                         /\ NodeHash(local, p) = NodeHash(remote, p)
                      \/ \E x \in Diff(local, remote) :
                           \/ x.path = p /\ x.class = "added" /\ ~Present(remote, p)
                           \/ x.path = p /\ x.class = "deleted" /\ ~Present(local, p)
                           \/ x.path \in Ancestors(p) \cup {p} /\ x.class = "modified"
    BY Zenon DEF DiffFindsAll
  <2>1. Found(local, remote, p)
    BY DiffFinds, Zenon DEF Types, Finite
  <2> QED  BY <2>1, Zenon DEF Found, ListedAs
<1> QED  BY <1>1, Inductive, PTL

\* The recursive algorithms compute, on every pair of finite trees that a sync
\* compares, what is defined by quantification over paths: diff.DiffTrees and
\* collectMissingChunks what module SyncSession uses, merkle.Diff what module
\* SyncManager uses.
THEOREM DiffsAlwaysAgree == Spec => []DiffsAgree
<1>1. Types => DiffsAgree
  <2> SUFFICES ASSUME Types
               PROVE  DiffsAgree
    OBVIOUS
  <2>1. Finite(local) /\ Finite(remote)
    BY Zenon DEF Types
  <2> QED  BY <2>1, AlgorithmsAgree, Zenon DEF DiffsAgree
<1> QED  BY <1>1, Inductive, PTL
=============================================================================
