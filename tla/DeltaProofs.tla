----------------------------- MODULE DeltaProofs -----------------------------
(***************************************************************************)
(* Proofs about the delta codec, for block sizes up to MaxBlockSize.       *)
(***************************************************************************)
EXTENDS Delta, WellFoundedInduction, FiniteSetTheorems, TLAPS

Byte == 0..255

\* A rolling hash whose window has room for a block.
Rolling == [window : [0..(BlockSize - 1) -> Byte], pos : 0..(BlockSize - 1),
            count : 0..BlockSize, blockSize : {BlockSize}]

\* Where byte i of the window is in the circular buffer.
Slot(r, i) ==
  IF r.count < r.pos + i THEN r.pos + i - r.count - 1
                         ELSE r.pos + i - r.count - 1 + BlockSize

-----------------------------------------------------------------------------
(* Sequences *)

\* A set of numbers that is not empty has a least element.
LEMMA LeastNumber ==
  ASSUME NEW T, T \subseteq Nat, T # {}
  PROVE  \E i \in T : \A j \in T : i <= j
<1> DEFINE R == {ss \in Nat \X Nat : ss[1] < ss[2]}
<1>1. IsWellFoundedOn(R, Nat)
  BY NatLessThanWellFounded DEF OpToRel
<1>2. PICK i \in T : \A j \in T : ~(<<j, i>> \in R)
  <2> HIDE DEF R
  <2> QED  BY <1>1, WFMin, Zenon
<1>3. ASSUME NEW j \in T
      PROVE  i <= j
  <2>1. <<j, i>> \in Nat \X Nat /\ ~(j < i)
    BY <1>2
  <2> QED  BY <2>1
<1> QED  BY <1>3

LEMMA SameSequence ==
  ASSUME NEW S, NEW s \in Seq(S), NEW t \in Seq(S), Len(s) = Len(t),
         \A i \in 1..Len(s) : s[i] = t[i]
  PROVE  s = t
  OBVIOUS

LEMMA AppendIs ==
  ASSUME NEW S, NEW s \in Seq(S), NEW x \in S
  PROVE  /\ Append(s, x) \in Seq(S) /\ Len(Append(s, x)) = Len(s) + 1
         /\ Append(s, x) \in [1..(Len(s) + 1) -> S]
<1>1. Append(s, x) \in Seq(S) /\ Len(Append(s, x)) = Len(s) + 1
  OBVIOUS
<1>2. PICK t \in Seq(S) : t = Append(s, x)
  BY <1>1, Zenon
<1>3. t \in [1..Len(t) -> S]
  OBVIOUS
<1> QED  BY <1>1, <1>2, <1>3, Zenon

\* Sequences in a row.
LEMMA Joined ==
  ASSUME NEW S, NEW s \in Seq(S), NEW t \in Seq(S)
  PROVE  s \o t \in Seq(S) /\ Len(s \o t) = Len(s) + Len(t) /\ s \o <<>> = s
  OBVIOUS

LEMMA JoinedAt ==
  ASSUME NEW S, NEW s \in Seq(S), NEW t \in Seq(S), NEW j \in 1..Len(t)
  PROVE  (s \o t)[Len(s) + j] = t[j]
  OBVIOUS

LEMMA JoinedByOne ==
  ASSUME NEW s \in Seq(Byte), NEW t \in Seq(Byte), NEW x \in Byte
  PROVE  Append(s \o t, x) = s \o Append(t, x)
<1>1. PICK u \in Seq(Byte) : u = s \o t /\ Len(u) = Len(s) + Len(t)
  BY Joined, Zenon
<1>2. PICK v \in Seq(Byte) : v = Append(t, x) /\ Len(v) = Len(t) + 1
  BY AppendIs, Zenon
<1>3. PICK l \in Seq(Byte) : l = Append(u, x) /\ Len(l) = Len(u) + 1
  BY AppendIs, Zenon
<1>4. PICK r \in Seq(Byte) : r = s \o v /\ Len(r) = Len(s) + Len(v)
  BY Joined, Zenon
<1>5. Len(l) = Len(r)
  BY <1>1, <1>2, <1>3, <1>4
<1>6. ASSUME NEW i \in 1..Len(l)
      PROVE  l[i] = r[i]
  <2>1. CASE i <= Len(s)
    BY <1>1, <1>2, <1>3, <1>4, <2>1
  <2>2. CASE Len(s) < i /\ i <= Len(u)
    BY <1>1, <1>2, <1>3, <1>4, <2>2
  <2>3. CASE i = Len(u) + 1
    BY <1>1, <1>2, <1>3, <1>4, <2>3
  <2> QED  BY <1>3, <2>1, <2>2, <2>3
<1> QED  BY <1>1, <1>2, <1>3, <1>4, <1>5, <1>6, SameSequence, Zenon

LEMMA JoinedTwice ==
  ASSUME NEW s \in Seq(Byte), NEW t \in Seq(Byte), NEW v \in Seq(Byte)
  PROVE  (s \o t) \o v = s \o (t \o v)
<1>1. PICK u \in Seq(Byte) : u = s \o t /\ Len(u) = Len(s) + Len(t)
  BY Joined, Zenon
<1>2. PICK w \in Seq(Byte) : w = t \o v /\ Len(w) = Len(t) + Len(v)
  BY Joined, Zenon
<1>3. PICK l \in Seq(Byte) : l = u \o v /\ Len(l) = Len(u) + Len(v)
  BY Joined, Zenon
<1>4. PICK r \in Seq(Byte) : r = s \o w /\ Len(r) = Len(s) + Len(w)
  BY Joined, Zenon
<1>5. Len(l) = Len(r)
  BY <1>1, <1>2, <1>3, <1>4
<1>6. ASSUME NEW i \in 1..Len(l)
      PROVE  l[i] = r[i]
  <2>1. CASE i <= Len(s)
    BY <1>1, <1>2, <1>3, <1>4, <2>1
  <2>2. CASE Len(s) < i /\ i <= Len(u)
    BY <1>1, <1>2, <1>3, <1>4, <2>2
  <2>3. CASE Len(u) < i
    <3>1. PICK j \in 1..Len(v) : i = Len(u) + j
      <4>1. i - Len(u) \in 1..Len(v) /\ i = Len(u) + (i - Len(u))
        BY <1>1, <1>3, <2>3
      <4> QED  BY <4>1, Zenon
    <3>2. l[i] = v[j]
      BY <1>3, <3>1, JoinedAt, Zenon
    <3>3. Len(t) + j \in 1..Len(w) /\ i = Len(s) + (Len(t) + j)
      BY <1>1, <1>2, <3>1
    <3>4. w[Len(t) + j] = v[j]
      BY <1>2, JoinedAt, Zenon
    <3>5. r[i] = w[Len(t) + j]
      BY <1>4, <3>3, JoinedAt, Zenon
    <3> QED  BY <3>2, <3>4, <3>5, Zenon
  <2> QED  BY <1>1, <2>1, <2>2, <2>3
<1> QED  BY <1>1, <1>2, <1>3, <1>4, <1>5, <1>6, SameSequence, Zenon

\* A file begins with some bytes.
Begins(file, h) == Len(h) <= Len(file) /\ \A i \in 1..Len(h) : h[i] = file[i]

Operation == [op : {"copy"}, block : Nat \ {0}] \cup [op : {"data"}, data : Seq(Byte)]

-----------------------------------------------------------------------------
(* Loops that write, and the encoding *)

\* Induction up to a bound.
LEMMA UpTo ==
  ASSUME NEW n \in Nat, NEW T, 0 \in T, \A i \in 1..n : i - 1 \in T => i \in T
  PROVE  \A i \in 0..n : i \in T
<1> DEFINE Out == {i \in 0..n : i \notin T}
<1>1. SUFFICES ASSUME Out # {}
               PROVE  FALSE
  OBVIOUS
<1>2. Out \subseteq Nat
  OBVIOUS
<1>3. PICK i \in Out : \A j \in Out : i <= j
  <2> HIDE DEF Out
  <2> QED  BY <1>1, <1>2, LeastNumber, Zenon
<1>4. i \in 1..n /\ i - 1 \in 0..n /\ ~(i <= i - 1)
  OBVIOUS
<1>5. i - 1 \in T
  BY <1>3, <1>4, Zenon
<1> QED  BY <1>3, <1>4, <1>5

\* What the loop of Concat has written after each part.
Writes(parts) ==
  LET written[n \in 0..Len(parts)] == IF n = 0 THEN <<>> ELSE written[n - 1] \o parts[n]
  IN written

IsWrites(f, parts, m) == f = [n \in 0..m |-> IF n = 0 THEN <<>> ELSE f[n - 1] \o parts[n]]

LEMMA WritesIs ==
  ASSUME NEW S, NEW parts \in Seq(S)
  PROVE  /\ Concat(parts) = Writes(parts)[Len(parts)]
         /\ Writes(parts)[0] = <<>>
         /\ \A n \in 1..Len(parts) : Writes(parts)[n] = Writes(parts)[n - 1] \o parts[n]
<1> DEFINE T == {m \in Nat : \E f : IsWrites(f, parts, m)}
<1>1. 0 \in T
  <2>1. IsWrites([n \in 0..0 |-> <<>>], parts, 0)
    BY DEF IsWrites
  <2> QED  BY <2>1
<1>2. ASSUME NEW m \in 1..Len(parts), m - 1 \in T
      PROVE  m \in T
  <2>1. PICK f : IsWrites(f, parts, m - 1)
    BY <1>2
  <2> DEFINE g == [n \in 0..m |-> IF n = m THEN f[m - 1] \o parts[m] ELSE f[n]]
  <2>2. ASSUME NEW n \in 0..m
        PROVE  g[n] = IF n = 0 THEN <<>> ELSE g[n - 1] \o parts[n]
    <3>1. CASE n = m
      <4>1. n # 0 /\ n - 1 \in 0..m /\ n - 1 # m
        BY <3>1
      <4>2. g[n] = f[m - 1] \o parts[m] /\ g[n - 1] = f[n - 1]
        BY <3>1, <4>1, Zenon
      <4> QED  BY <3>1, <4>1, <4>2, Zenon
    <3>2. CASE n # m
      <4>1. n \in 0..(m - 1) /\ g[n] = f[n]
        BY <3>2
      <4>2. f[n] = IF n = 0 THEN <<>> ELSE f[n - 1] \o parts[n]
        BY <2>1, <4>1, Zenon DEF IsWrites
      <4>3. CASE n = 0
        BY <4>1, <4>2, <4>3, Zenon
      <4>4. CASE n # 0
        <5>1. n - 1 \in 0..m /\ n - 1 # m
          BY <4>1, <4>4
        <5> QED  BY <4>1, <4>2, <4>4, <5>1, Zenon
      <4> QED  BY <4>3, <4>4
    <3> QED  BY <3>1, <3>2
  <2>3. g = [n \in 0..m |-> g[n]]
    BY Zenon
  <2>4. IsWrites(g, parts, m)
    <3> HIDE DEF g
    <3> QED  BY <2>2, <2>3, Zenon DEF IsWrites
  <2> QED  BY <2>4
<1>3. Len(parts) \in Nat
  OBVIOUS
<1>4. Len(parts) \in T
  <2> HIDE DEF T
  <2>1. Len(parts) \in 0..Len(parts)
    BY <1>3
  <2> QED  BY <1>1, <1>2, <1>3, <2>1, UpTo, Zenon
<1>5. PICK f : IsWrites(f, parts, Len(parts))
  BY <1>4
<1>6. IsWrites(Writes(parts), parts, Len(parts))
  BY <1>5, Zenon DEF IsWrites, Writes
<1>7. Concat(parts) = Writes(parts)[Len(parts)]
  BY Zenon DEF Concat, Writes
<1> HIDE DEF T
<1>8. Writes(parts)[0] = <<>>
  <2>1. 0 \in 0..Len(parts)
    BY <1>3
  <2> QED  BY <1>6, <2>1, Zenon DEF IsWrites
<1>9. ASSUME NEW n \in 1..Len(parts)
      PROVE  Writes(parts)[n] = Writes(parts)[n - 1] \o parts[n]
  <2>1. n \in 0..Len(parts) /\ n # 0
    BY <1>3
  <2> QED  BY <1>6, <2>1, Zenon DEF IsWrites
<1> QED  BY <1>7, <1>8, <1>9, Zenon

\* The parts are sequences, and so is what was written.
LEMMA WritesType ==
  ASSUME NEW S, NEW parts \in Seq(Seq(S))
  PROVE  /\ \A n \in 0..Len(parts) : Writes(parts)[n] \in Seq(S)
         /\ Concat(parts) \in Seq(S)
<1> DEFINE T == {n \in 0..Len(parts) : Writes(parts)[n] \in Seq(S)}
<1>1. Len(parts) \in Nat
  OBVIOUS
<1>2. 0 \in T
  <2>1. Writes(parts)[0] = <<>>
    BY WritesIs, Zenon
  <2>2. <<>> \in Seq(S) /\ 0 \in 0..Len(parts)
    BY <1>1
  <2> QED  BY <2>1, <2>2, Zenon
<1>3. ASSUME NEW n \in 1..Len(parts), n - 1 \in T
      PROVE  n \in T
  <2>1. Writes(parts)[n] = Writes(parts)[n - 1] \o parts[n]
    BY WritesIs, Zenon
  <2>2. n \in 0..Len(parts) /\ parts[n] \in Seq(S)
    BY <1>1
  <2>3. PICK w \in Seq(S), p \in Seq(S) : w = Writes(parts)[n - 1] /\ p = parts[n]
    BY <1>3, <2>2, Zenon
  <2>4. w \o p \in Seq(S)
    OBVIOUS
  <2> QED  BY <2>1, <2>2, <2>3, <2>4, Zenon
<1>4. \A n \in 0..Len(parts) : n \in T
  <2> HIDE DEF T
  <2> QED  BY <1>1, <1>2, <1>3, UpTo, Zenon
<1>5. Len(parts) \in 0..Len(parts)
  BY <1>1
<1> QED  BY <1>4, <1>5, WritesIs, Zenon

LEMMA ConcatEmpty == Concat(<<>>) = <<>>
<1>1. <<>> \in Seq({}) /\ Len(<<>>) = 0
  OBVIOUS
<1> QED  BY <1>1, WritesIs, Zenon

\* One part more.
LEMMA ConcatAppend ==
  ASSUME NEW S, NEW parts \in Seq(S), NEW part \in S
  PROVE  Concat(Append(parts, part)) = Concat(parts) \o part
<1> DEFINE all == Append(parts, part)
           T == {n \in 0..Len(parts) : Writes(all)[n] = Writes(parts)[n]}
<1>1. /\ all \in Seq(S) /\ Len(all) = Len(parts) + 1 /\ Len(parts) \in Nat
      /\ all[Len(parts) + 1] = part
      /\ \A n \in 1..Len(parts) : all[n] = parts[n]
  OBVIOUS
<1> HIDE DEF all
<1>2. 0 \in T
  <2>1. 0 \in 0..Len(parts)
    BY <1>1
  <2> QED  BY <1>1, <2>1, WritesIs, Zenon
<1>3. ASSUME NEW n \in 1..Len(parts), n - 1 \in T
      PROVE  n \in T
  <2>1. n \in 1..Len(all) /\ n \in 0..Len(parts)
    BY <1>1
  <2>2. /\ Writes(all)[n] = Writes(all)[n - 1] \o all[n]
        /\ Writes(parts)[n] = Writes(parts)[n - 1] \o parts[n]
    BY <1>1, <2>1, WritesIs, Zenon
  <2> QED  BY <1>1, <1>3, <2>1, <2>2, Zenon
<1>4. \A n \in 0..Len(parts) : n \in T
  <2> HIDE DEF T
  <2> QED  BY <1>1, <1>2, <1>3, UpTo, Zenon
<1>5. Writes(all)[Len(parts)] = Writes(parts)[Len(parts)]
  <2>1. Len(parts) \in 0..Len(parts)
    BY <1>1
  <2> QED  BY <1>4, <2>1, Zenon
<1>6. Writes(all)[Len(parts) + 1] = Writes(all)[Len(parts)] \o part
  <2>2. PICK n \in 1..Len(all) : n = Len(parts) + 1 /\ n - 1 = Len(parts)
    BY <1>1
  <2>3. Writes(all)[n] = Writes(all)[n - 1] \o all[n]
    BY <1>1, WritesIs, Zenon
  <2> QED  BY <1>1, <2>2, <2>3, Zenon
<1>7. Concat(all) = Writes(all)[Len(parts) + 1] /\ Concat(parts) = Writes(parts)[Len(parts)]
  BY <1>1, WritesIs, Zenon
<1> QED  BY <1>5, <1>6, <1>7, Zenon DEF all

\* What was written stays: part n is found where it was put.
LEMMA PartsAreFound ==
  ASSUME NEW S, NEW parts \in Seq(Seq(S)), NEW n \in 1..Len(parts)
  PROVE  /\ Len(Writes(parts)[n]) = Len(Writes(parts)[n - 1]) + Len(parts[n])
         /\ Len(Writes(parts)[n]) <= Len(Concat(parts))
         /\ \A j \in 1..Len(parts[n]) :
              Concat(parts)[Len(Writes(parts)[n - 1]) + j] = parts[n][j]
<1> DEFINE w == Writes(parts)
           T == {m \in 0..Len(parts) : n <= m => Begins(w[m], w[n])}
<1>1. Len(parts) \in Nat /\ n \in 0..Len(parts) /\ n - 1 \in 0..Len(parts)
  OBVIOUS
<1>2. \A m \in 0..Len(parts) : w[m] \in Seq(S)
  BY WritesType
<1>3. \A m \in 1..Len(parts) : w[m] = w[m - 1] \o parts[m] /\ parts[m] \in Seq(S)
  <2>1. \A m \in 1..Len(parts) : parts[m] \in Seq(S)
    OBVIOUS
  <2> QED  BY <2>1, WritesIs, Zenon
<1> HIDE DEF w
<1>4. 0 \in T
  BY <1>1
<1>5. ASSUME NEW m \in 1..Len(parts), m - 1 \in T
      PROVE  m \in T
  <2>1. SUFFICES ASSUME n <= m
                 PROVE  Begins(w[m], w[n])
    BY <1>1
  <2>2. CASE n = m
    <3>1. Len(w[n]) \in Nat
      BY <1>1, <1>2
    <3> QED  BY <2>2, <3>1 DEF Begins
  <2>3. CASE n # m
    <3>1. Begins(w[m - 1], w[n])
      BY <1>1, <1>5, <2>1, <2>3
    <3>2. m - 1 \in 0..Len(parts)
      BY <1>1
    <3>3. PICK u \in Seq(S), p \in Seq(S), v \in Seq(S) : u = w[m - 1] /\ p = parts[m] /\ v = w[n]
      BY <1>1, <1>2, <1>3, <3>2
    <3>4. w[m] = u \o p /\ Begins(u, v)
      BY <1>3, <3>1, <3>3, Zenon
    <3>5. Begins(u \o p, v)
      BY <3>4 DEF Begins
    <3> QED  BY <3>3, <3>4, <3>5, Zenon
  <2> QED  BY <2>2, <2>3
<1>6. Begins(w[Len(parts)], w[n])
  <2>1. \A m \in 0..Len(parts) : m \in T
    <3> HIDE DEF T
    <3> QED  BY <1>1, <1>4, <1>5, UpTo, Zenon
  <2>2. Len(parts) \in 0..Len(parts) /\ n <= Len(parts)
    BY <1>1
  <2> QED  BY <2>1, <2>2
<1>7. PICK u \in Seq(S), p \in Seq(S) : u = w[n - 1] /\ p = parts[n] /\ w[n] = u \o p
  BY <1>1, <1>2, <1>3, Zenon
<1>8. PICK all \in Seq(S) : all = Concat(parts) /\ Begins(all, u \o p)
  <2>1. Concat(parts) \in Seq(S) /\ Concat(parts) = w[Len(parts)]
    BY WritesType, WritesIs, Zenon DEF w
  <2> QED  BY <1>6, <1>7, <2>1
<1>9. Len(u \o p) = Len(u) + Len(p)
  OBVIOUS
<1>10. ASSUME NEW j \in 1..Len(p)
       PROVE  all[Len(u) + j] = p[j]
  <2>1. Len(u) + j \in 1..Len(u \o p) /\ (u \o p)[Len(u) + j] = p[j]
    BY <1>9
  <2> QED  BY <1>8, <2>1, Zenon DEF Begins
<1> QED  BY <1>7, <1>8, <1>9, <1>10, Zenon DEF Begins, w

Encoded(os) == [i \in DOMAIN os |-> EncodeOp(os[i])]

LEMMA ByteIsNumber ==
  ASSUME NEW b \in Byte
  PROVE  b \in Nat
  BY DEF Byte

LEMMA BytesAreNumbers ==
  ASSUME NEW d \in Seq(Byte)
  PROVE  d \in Seq(Nat)
<1>1. d \in [1..Len(d) -> Byte] /\ Len(d) \in Nat
  OBVIOUS
<1>2. ASSUME NEW i \in 1..Len(d)
      PROVE  d[i] \in Nat
  <2>1. d[i] \in Byte
    BY <1>1, Zenon
  <2> QED  BY <2>1, ByteIsNumber, Zenon
<1>3. d \in [1..Len(d) -> Nat]
  BY <1>1, <1>2, Zenon
<1> QED  BY <1>1, <1>3

LEMMA EncodeCopyIs ==
  ASSUME NEW i \in Nat
  PROVE  LET e == EncodeOp(OpCopy(i)) IN
         e \in Seq(Nat) /\ Len(e) = 2 /\ e[1] = 1 /\ e[2] = i
<1>1. EncodeOp(OpCopy(i)) = <<1, i>>
  BY DEF EncodeOp, OpCopy
<1> QED  BY <1>1

LEMMA EncodeDataIs ==
  ASSUME NEW d \in Seq(Byte)
  PROVE  LET e == EncodeOp(OpData(d)) IN
         /\ e \in Seq(Nat) /\ Len(e) = 2 + Len(d) /\ e[1] = 2 /\ e[2] = Len(d)
         /\ \A j \in 1..Len(d) : e[2 + j] = d[j]
<1>1. EncodeOp(OpData(d)) = <<2, Len(d)>> \o d
  BY DEF EncodeOp, OpData
<1>2. d \in Seq(Nat)
  BY BytesAreNumbers
<1>3. PICK h \in Seq(Nat) : h = <<2, Len(d)>> /\ Len(h) = 2 /\ h[1] = 2 /\ h[2] = Len(d)
  <2>1. /\ <<2, Len(d)>> \in Seq(Nat) /\ Len(<<2, Len(d)>>) = 2
        /\ <<2, Len(d)>>[1] = 2 /\ <<2, Len(d)>>[2] = Len(d)
    OBVIOUS
  <2> QED  BY <2>1, Zenon
<1>4. /\ h \o d \in Seq(Nat) /\ Len(h \o d) = 2 + Len(d) /\ (h \o d)[1] = 2
      /\ (h \o d)[2] = Len(d)
      /\ \A j \in 1..Len(d) : (h \o d)[2 + j] = d[j]
  BY <1>2, <1>3
<1> QED  BY <1>1, <1>3, <1>4, Zenon

\* An operation is decoded as it was encoded.
LEMMA DecodeCopyIs ==
  ASSUME NEW body \in Seq(Nat), NEW os, NEW at0 \in Nat, at0 + 2 <= Len(body),
         body[at0 + 1] = 1
  PROVE  DecodeOp(body, [ok |-> TRUE, offset |-> at0, ops |-> os]) =
           [ok |-> TRUE, offset |-> at0 + 2, ops |-> Append(os, OpCopy(body[at0 + 2]))]
<1>1. PICK d : d = [ok |-> TRUE, offset |-> at0, ops |-> os]
  BY Zenon
<1>2. d.ok = TRUE /\ d.offset = at0 /\ d.ops = os
  BY <1>1
<1>3. /\ at0 # Len(body) /\ ~(Len(body) < at0 + 2)
      /\ at0 + 2 + (IF body[at0 + 1] = 1 THEN 0 ELSE body[at0 + 2]) = at0 + 2
  OBVIOUS
<1>4. DecodeOp(body, d) =
        [ok |-> TRUE, offset |-> at0 + 2, ops |-> Append(os, OpCopy(body[at0 + 2]))]
  BY <1>2, <1>3, Zenon DEF DecodeOp
<1> QED  BY <1>1, <1>4, Zenon

LEMMA PartOfNumbers ==
  ASSUME NEW s \in Seq(Nat), NEW a \in Nat, NEW b \in Nat, a <= b, b <= Len(s)
  PROVE  /\ SubSeq(s, a + 1, b) \in Seq(Nat) /\ Len(SubSeq(s, a + 1, b)) = b - a
         /\ \A i \in 1..(b - a) : SubSeq(s, a + 1, b)[i] = s[a + i]
<1>1. PICK z \in Nat : z = Len(s)
  OBVIOUS
<1>2. PICK c \in Nat : c = b - a /\ a + c = b
  OBVIOUS
<1>3. SubSeq(s, a + 1, b) = [i \in 1..c |-> s[a + i]]
  BY <1>1, <1>2
<1>4. \A i \in 1..c : s[a + i] \in Nat
  BY <1>1, <1>2
<1>5. PICK t : t = [i \in 1..c |-> s[a + i]]
  BY Zenon
<1>6. t \in Seq(Nat) /\ Len(t) = c
  BY <1>4, <1>5
<1>7. \A i \in 1..c : t[i] = s[a + i]
  BY <1>5, Zenon
<1> QED  BY <1>2, <1>3, <1>5, <1>6, <1>7, Zenon

LEMMA PartEquals ==
  ASSUME NEW s \in Seq(Nat), NEW d \in Seq(Nat), NEW a \in Nat, NEW b \in Nat,
         b = a + Len(d), b <= Len(s), \A i \in 1..Len(d) : s[a + i] = d[i]
  PROVE  SubSeq(s, a + 1, b) = d
<1>1. a <= b /\ b - a = Len(d) /\ Len(d) \in Nat
  OBVIOUS
<1>2. PICK part : part = SubSeq(s, a + 1, b)
  OBVIOUS
<1>3. /\ SubSeq(s, a + 1, b) \in Seq(Nat) /\ Len(SubSeq(s, a + 1, b)) = b - a
      /\ \A i \in 1..(b - a) : SubSeq(s, a + 1, b)[i] = s[a + i]
  BY <1>1, PartOfNumbers, Zenon
<1>4. /\ part \in Seq(Nat) /\ Len(part) = b - a
      /\ \A i \in 1..(b - a) : part[i] = s[a + i]
  BY <1>2, <1>3, Zenon
<1>5. \A i \in 1..Len(part) : part[i] = d[i]
  BY <1>1, <1>4, Zenon
<1>6. part = d
  BY <1>1, <1>4, <1>5, SameSequence, Zenon
<1> QED  BY <1>2, <1>6

LEMMA DecodeDataIs ==
  ASSUME NEW body \in Seq(Nat), NEW os, NEW at0 \in Nat, NEW d \in Seq(Byte),
         at0 + 2 + Len(d) <= Len(body), body[at0 + 1] = 2, body[at0 + 2] = Len(d),
         \A j \in 1..Len(d) : body[at0 + 2 + j] = d[j]
  PROVE  DecodeOp(body, [ok |-> TRUE, offset |-> at0, ops |-> os]) =
           [ok |-> TRUE, offset |-> at0 + 2 + Len(d), ops |-> Append(os, OpData(d))]
<1> DEFINE end == at0 + 2 + Len(d)
<1>1. end \in Nat /\ at0 + 2 \in Nat /\ at0 + 2 <= end /\ end <= Len(body) /\ end - (at0 + 2) = Len(d)
  OBVIOUS
<1>2. SubSeq(body, at0 + 3, end) = d
  <2>1. PICK a \in Nat, b \in Nat : a = at0 + 2 /\ b = end
    BY <1>1, Zenon
  <2>2. d \in Seq(Nat)
    BY BytesAreNumbers
  <2>3. b = a + Len(d) /\ b <= Len(body) /\ a + 1 = at0 + 3
    BY <1>1, <2>1
  <2>4. \A i \in 1..Len(d) : body[a + i] = d[i]
    BY <2>1, Zenon
  <2>5. SubSeq(body, a + 1, b) = d
    BY <2>2, <2>3, <2>4, PartEquals, Zenon
  <2> QED  BY <2>1, <2>3, <2>5, Zenon
<1>3. PICK r : r = [ok |-> TRUE, offset |-> at0, ops |-> os]
  BY Zenon
<1>4. r.ok = TRUE /\ r.offset = at0 /\ r.ops = os
  BY <1>3
<1>5. /\ at0 # Len(body) /\ ~(Len(body) < at0 + 2) /\ ~(Len(body) < end) /\ body[at0 + 1] # 1
      /\ at0 + 2 + (IF body[at0 + 1] = 1 THEN 0 ELSE body[at0 + 2]) = end
  <2>1. PICK z \in Nat, n \in Nat : z = Len(body) /\ n = Len(d)
    OBVIOUS
  <2>2. at0 + 2 + n <= z
    BY <2>1, Zenon
  <2>3. at0 # z /\ ~(z < at0 + 2) /\ ~(z < at0 + 2 + n)
    BY <2>1, <2>2
  <2>4. 2 # 1
    OBVIOUS
  <2>5. body[at0 + 1] # 1
    BY <2>4, Zenon
  <2> QED  BY <2>1, <2>3, <2>5, Zenon
<1>6. DecodeOp(body, r) = [ok |-> TRUE, offset |-> end, ops |-> Append(os, OpData(d))]
  <2> HIDE DEF end
  <2> QED  BY <1>2, <1>4, <1>5, Zenon DEF DecodeOp
<1> QED  BY <1>3, <1>6, Zenon

\* The operations that DecodeDelta has found after each round.
Decoding(body, numOps) ==
  LET decoded[n \in 0..numOps] ==
        IF n = 0 THEN [ok |-> TRUE, offset |-> 0, ops |-> <<>>]
        ELSE DecodeOp(body, decoded[n - 1])
  IN decoded

IsDecoding(f, body, m) ==
  f = [n \in 0..m |-> IF n = 0 THEN [ok |-> TRUE, offset |-> 0, ops |-> <<>>]
                      ELSE DecodeOp(body, f[n - 1])]

LEMMA DecodingIs ==
  ASSUME NEW body, NEW numOps \in Nat
  PROVE  /\ DecodeDelta(body, numOps) = Decoding(body, numOps)[numOps]
         /\ Decoding(body, numOps)[0] = [ok |-> TRUE, offset |-> 0, ops |-> <<>>]
         /\ \A n \in 1..numOps :
              Decoding(body, numOps)[n] = DecodeOp(body, Decoding(body, numOps)[n - 1])
<1> DEFINE first == [ok |-> TRUE, offset |-> 0, ops |-> <<>>]
           T == {m \in Nat : \E f : IsDecoding(f, body, m)}
<1>1. 0 \in T
  <2>1. IsDecoding([n \in 0..0 |-> first], body, 0)
    BY DEF IsDecoding
  <2> QED  BY <2>1
<1>2. ASSUME NEW m \in 1..numOps, m - 1 \in T
      PROVE  m \in T
  <2>1. PICK f : IsDecoding(f, body, m - 1)
    BY <1>2
  <2> DEFINE g == [n \in 0..m |-> IF n = m THEN DecodeOp(body, f[m - 1]) ELSE f[n]]
  <2>2. ASSUME NEW n \in 0..m
        PROVE  g[n] = IF n = 0 THEN first ELSE DecodeOp(body, g[n - 1])
    <3>1. CASE n = m
      <4>1. n # 0 /\ n - 1 \in 0..m /\ n - 1 # m
        BY <3>1
      <4>2. g[n] = DecodeOp(body, f[m - 1]) /\ g[n - 1] = f[n - 1]
        BY <3>1, <4>1, Zenon
      <4> QED  BY <3>1, <4>1, <4>2, Zenon
    <3>2. CASE n # m
      <4>1. n \in 0..(m - 1) /\ g[n] = f[n]
        BY <3>2
      <4>2. f[n] = IF n = 0 THEN first ELSE DecodeOp(body, f[n - 1])
        BY <2>1, <4>1, Zenon DEF IsDecoding
      <4>3. CASE n = 0
        BY <4>1, <4>2, <4>3, Zenon
      <4>4. CASE n # 0
        <5>1. n - 1 \in 0..m /\ n - 1 # m
          BY <4>1, <4>4
        <5> QED  BY <4>1, <4>2, <4>4, <5>1, Zenon
      <4> QED  BY <4>3, <4>4
    <3> QED  BY <3>1, <3>2
  <2>3. g = [n \in 0..m |-> g[n]]
    BY Zenon
  <2>4. IsDecoding(g, body, m)
    <3> HIDE DEF g
    <3> QED  BY <2>2, <2>3, Zenon DEF IsDecoding
  <2> QED  BY <2>4
<1>3. numOps \in T
  <2> HIDE DEF T
  <2>1. numOps \in 0..numOps
    OBVIOUS
  <2> QED  BY <1>1, <1>2, <2>1, UpTo, Zenon
<1>4. PICK f : IsDecoding(f, body, numOps)
  BY <1>3
<1>5. IsDecoding(Decoding(body, numOps), body, numOps)
  BY <1>4, Zenon DEF IsDecoding, Decoding
<1>6. DecodeDelta(body, numOps) = Decoding(body, numOps)[numOps]
  BY Zenon DEF DecodeDelta, Decoding
<1> HIDE DEF T
<1>7. Decoding(body, numOps)[0] = first
  <2>1. 0 \in 0..numOps
    OBVIOUS
  <2> QED  BY <1>5, <2>1, Zenon DEF IsDecoding
<1>8. ASSUME NEW n \in 1..numOps
      PROVE  Decoding(body, numOps)[n] = DecodeOp(body, Decoding(body, numOps)[n - 1])
  <2>1. n \in 0..numOps /\ n # 0
    OBVIOUS
  <2> QED  BY <1>5, <2>1, Zenon DEF IsDecoding
<1> QED  BY <1>6, <1>7, <1>8, Zenon

\* DecodeDelta finds the operations that were encoded.
LEMMA DecodedIs ==
  ASSUME NEW os \in Seq(Operation)
  PROVE  LET d == DecodeDelta(Concat(Encoded(os)), Len(os)) IN d.ok /\ d.ops = os
<1> DEFINE e == Encoded(os)
           w == Writes(e)
           body == Concat(e)
           d == Decoding(body, Len(os))
           T == {n \in 0..Len(os) :
                   d[n] = [ok |-> TRUE, offset |-> Len(w[n]), ops |-> SubSeq(os, 1, n)]}
<1>1. Len(os) \in Nat /\ \A n \in 1..Len(os) : os[n] \in Operation
  OBVIOUS
<1>2. ASSUME NEW n \in 1..Len(os)
      PROVE  \/ \E i \in Nat \ {0} : os[n] = OpCopy(i)
             \/ \E x \in Seq(Byte) : os[n] = OpData(x)
  BY <1>1 DEF Operation, OpCopy, OpData
<1>3. \A n \in 1..Len(os) : EncodeOp(os[n]) \in Seq(Nat)
  BY <1>2, EncodeCopyIs, EncodeDataIs, Zenon
<1>4. e \in Seq(Seq(Nat)) /\ Len(e) = Len(os) /\ \A n \in 1..Len(os) : e[n] = EncodeOp(os[n])
  BY <1>1, <1>3 DEF Encoded
<1> HIDE DEF e
<1>5. body \in Seq(Nat) /\ \A n \in 0..Len(os) : w[n] \in Seq(Nat)
  BY <1>4, WritesType, Zenon
<1>6. /\ DecodeDelta(body, Len(os)) = d[Len(os)]
      /\ d[0] = [ok |-> TRUE, offset |-> 0, ops |-> <<>>]
      /\ \A n \in 1..Len(os) : d[n] = DecodeOp(body, d[n - 1])
  BY <1>1, DecodingIs, Zenon
<1>7. w[0] = <<>>
  BY <1>4, WritesIs, Zenon
<1>8. ASSUME NEW n \in 1..Len(os)
      PROVE  /\ Len(w[n]) = Len(w[n - 1]) + Len(e[n]) /\ Len(w[n]) <= Len(body)
             /\ \A j \in 1..Len(e[n]) : body[Len(w[n - 1]) + j] = e[n][j]
  <2>1. n \in 1..Len(e)
    BY <1>4, Zenon
  <2> QED  BY <1>4, <2>1, PartsAreFound, Zenon
<1> HIDE DEF w, body, d
<1>9. 0 \in T
  <2>1. Len(w[0]) = 0 /\ SubSeq(os, 1, 0) = <<>> /\ 0 \in 0..Len(os)
    BY <1>1, <1>7
  <2> QED  BY <1>6, <2>1, Zenon
<1>10. ASSUME NEW n \in 1..Len(os), n - 1 \in T
       PROVE  n \in T
  <2>1. n \in 0..Len(os) /\ n - 1 \in 0..Len(os)
    BY <1>1
  <2>2. PICK at0 \in Nat, past \in Seq(Operation) :
          at0 = Len(w[n - 1]) /\ past = SubSeq(os, 1, n - 1)
    <3>1. Len(w[n - 1]) \in Nat
      BY <1>5, <2>1
    <3>2. SubSeq(os, 1, n - 1) \in Seq(Operation)
      BY <1>1
    <3> QED  BY <3>1, <3>2, Zenon
  <2>3. d[n - 1] = [ok |-> TRUE, offset |-> at0, ops |-> past]
    BY <1>10, <2>2, Zenon
  <2>4. SubSeq(os, 1, n) = Append(past, os[n])
    BY <1>1, <2>2
  <2>5. ASSUME NEW i \in Nat \ {0}, os[n] = OpCopy(i)
        PROVE  d[n] = [ok |-> TRUE, offset |-> Len(w[n]), ops |-> Append(past, os[n])]
    <3>1. Len(e[n]) = 2 /\ e[n][1] = 1 /\ e[n][2] = i
      <4>1. e[n] = EncodeOp(OpCopy(i)) /\ i \in Nat
        BY <1>4, <2>5, Zenon
      <4>2. LET c == EncodeOp(OpCopy(i)) IN Len(c) = 2 /\ c[1] = 1 /\ c[2] = i
        BY <4>1, EncodeCopyIs, Zenon
      <4> QED  BY <4>1, <4>2, Zenon
    <3>2. /\ Len(w[n]) = at0 + 2 /\ at0 + 2 <= Len(body)
          /\ body[at0 + 1] = 1 /\ body[at0 + 2] = i
      <4>1. 1 \in 1..Len(e[n]) /\ 2 \in 1..Len(e[n])
        BY <3>1
      <4>2. /\ Len(w[n]) = Len(w[n - 1]) + Len(e[n]) /\ Len(w[n]) <= Len(body)
            /\ body[Len(w[n - 1]) + 1] = e[n][1] /\ body[Len(w[n - 1]) + 2] = e[n][2]
        BY <1>8, <4>1, Zenon
      <4> QED  BY <2>2, <3>1, <4>2, Zenon
    <3>3. DecodeOp(body, [ok |-> TRUE, offset |-> at0, ops |-> past]) =
            [ok |-> TRUE, offset |-> at0 + 2, ops |-> Append(past, OpCopy(body[at0 + 2]))]
      BY <1>5, <3>2, DecodeCopyIs, Zenon
    <3> QED  BY <1>6, <2>3, <2>5, <3>2, <3>3, Zenon
  <2>6. ASSUME NEW x \in Seq(Byte), os[n] = OpData(x)
        PROVE  d[n] = [ok |-> TRUE, offset |-> Len(w[n]), ops |-> Append(past, os[n])]
    <3>1. /\ Len(e[n]) = 2 + Len(x) /\ e[n][1] = 2 /\ e[n][2] = Len(x)
          /\ \A j \in 1..Len(x) : e[n][2 + j] = x[j]
      <4>1. e[n] = EncodeOp(OpData(x))
        BY <1>4, <2>6, Zenon
      <4>2. /\ Len(EncodeOp(OpData(x))) = 2 + Len(x) /\ EncodeOp(OpData(x))[1] = 2
            /\ EncodeOp(OpData(x))[2] = Len(x)
            /\ \A j \in 1..Len(x) : EncodeOp(OpData(x))[2 + j] = x[j]
        BY EncodeDataIs, Zenon
      <4> QED  BY <4>1, <4>2, Zenon
    <3>2. /\ Len(w[n]) = at0 + 2 + Len(x) /\ at0 + 2 + Len(x) <= Len(body)
          /\ body[at0 + 1] = 2 /\ body[at0 + 2] = Len(x)
      <4>1. /\ 1 \in 1..Len(e[n]) /\ 2 \in 1..Len(e[n])
            /\ at0 + (2 + Len(x)) = at0 + 2 + Len(x)
        BY <3>1
      <4>2. Len(w[n]) = at0 + (2 + Len(x)) /\ Len(w[n]) <= Len(body)
        BY <1>8, <2>2, <3>1, Zenon
      <4>3. body[at0 + 1] = e[n][1] /\ body[at0 + 2] = e[n][2]
        BY <1>8, <2>2, <4>1, Zenon
      <4> QED  BY <3>1, <4>1, <4>2, <4>3, Zenon
    <3>3. ASSUME NEW j \in 1..Len(x)
          PROVE  body[at0 + 2 + j] = x[j]
      <4>0. PICK z \in Nat : z = Len(x) /\ Len(e[n]) = 2 + z
        BY <3>1
      <4>1. 2 + j \in 1..Len(e[n]) /\ at0 + (2 + j) = at0 + 2 + j
        <5>1. j \in 1..z /\ at0 \in Nat
          BY <4>0, Zenon
        <5>2. 2 + j \in 1..(2 + z) /\ at0 + (2 + j) = at0 + 2 + j
          BY <5>1
        <5> QED  BY <4>0, <5>2, Zenon
      <4>2. body[at0 + (2 + j)] = e[n][2 + j]
        BY <1>8, <2>2, <4>1, Zenon
      <4> QED  BY <3>1, <4>1, <4>2, Zenon
    <3>4. DecodeOp(body, [ok |-> TRUE, offset |-> at0, ops |-> past]) =
            [ok |-> TRUE, offset |-> at0 + 2 + Len(x), ops |-> Append(past, OpData(x))]
      BY <1>5, <3>2, <3>3, DecodeDataIs, Zenon
    <3> QED  BY <1>6, <2>3, <2>6, <3>2, <3>4, Zenon
  <2> QED  BY <1>2, <2>1, <2>4, <2>5, <2>6, Zenon
<1>11. \A n \in 0..Len(os) : n \in T
  <2> HIDE DEF T
  <2> QED  BY <1>1, <1>9, <1>10, UpTo, Zenon
<1>12. d[Len(os)] = [ok |-> TRUE, offset |-> Len(w[Len(os)]), ops |-> SubSeq(os, 1, Len(os))]
  <2>1. Len(os) \in 0..Len(os)
    BY <1>1
  <2> QED  BY <1>11, <2>1, Zenon
<1>13. SubSeq(os, 1, Len(os)) = os
  BY <1>1
<1>14. d[Len(os)].ok = TRUE /\ d[Len(os)].ops = os
  BY <1>12, <1>13
<1> QED  BY <1>6, <1>14, Zenon DEF body, e

-----------------------------------------------------------------------------
(* The circular window *)

LEMMA Division ==
  ASSUME NEW n \in Nat, NEW b \in Nat \ {0}
  PROVE  n \div b \in Nat /\ b * (n \div b) <= n /\ n < b * (n \div b) + b
  OBVIOUS

LEMMA Monotonic ==
  ASSUME NEW n \in Nat, NEW i \in Nat, NEW j \in Nat, i <= j
  PROVE  n * i \in Nat /\ n * j \in Nat /\ n * i <= n * j
  OBVIOUS

LEMMA BlockSizeIs == BlockSize \in Nat \ {0}
  BY DeltaAssumption, RollingHashAssumption

\* A remainder, when one subtraction is enough.
LEMMA ModOnce ==
  ASSUME NEW n \in Nat \ {0}, NEW x \in 0..(2 * n - 1)
  PROVE  x % n = IF x < n THEN x ELSE x - n
<1>1. CASE x < n
  BY <1>1
<1>2. CASE n <= x
  BY <1>2
<1> QED  BY <1>1, <1>2

\* The size of the window is that of a block.
LEMMA SizeIs ==
  ASSUME NEW r \in Rolling
  PROVE  Size(r) = BlockSize
<1>1. DOMAIN r.window = 0..(BlockSize - 1)
  BY DEF Rolling
<1>2. Cardinality(0..(BlockSize - 1)) = BlockSize
  BY BlockSizeIs, FS_Interval
<1> QED  BY <1>1, <1>2 DEF Size

\* The remainders of the code find the oldest byte, and it never panics.
LEMMA StartIs ==
  ASSUME NEW r \in Rolling
  PROVE  /\ Start(r) = IF r.pos < r.count THEN r.pos - r.count + BlockSize ELSE r.pos - r.count
         /\ ~BadStart(r)
<1>1. Size(r) = BlockSize
  BY SizeIs
<1>2. r.pos \in 0..(BlockSize - 1) /\ r.count \in 0..BlockSize
  BY DEF Rolling
<1>3. PICK x \in 0..(2 * BlockSize - 1) : x = r.pos - r.count + BlockSize
  BY <1>2, BlockSizeIs
<1>4. x % BlockSize = IF x < BlockSize THEN x ELSE x - BlockSize
  BY ModOnce, BlockSizeIs, Zenon
<1>5. Start(r) = x % BlockSize /\ (BadStart(r) => x < 0)
  BY <1>1, <1>3 DEF Start, BadStart
<1> QED  BY <1>2, <1>3, <1>4, <1>5, BlockSizeIs

LEMMA WindowIs ==
  ASSUME NEW r \in Rolling
  PROVE  /\ Window(r) \in Seq(Byte) /\ Len(Window(r)) = BlockSize
         /\ \A i \in 1..r.count : Window(r)[i] = r.window[Slot(r, i)]
<1>1. Size(r) = BlockSize
  BY SizeIs
<1>2. /\ r.pos \in 0..(BlockSize - 1) /\ r.count \in 0..BlockSize /\ r.blockSize = BlockSize
      /\ r.window \in [0..(BlockSize - 1) -> Byte]
  BY DEF Rolling
<1>3. ASSUME NEW i \in 1..r.count
      PROVE  (Start(r) + i - 1) % Size(r) = Slot(r, i) /\ Slot(r, i) \in 0..(BlockSize - 1)
  <2>1. PICK x \in 0..(2 * BlockSize - 1) : x = Start(r) + i - 1
    BY <1>2, StartIs, BlockSizeIs
  <2>2. x % BlockSize = IF x < BlockSize THEN x ELSE x - BlockSize
    BY ModOnce, BlockSizeIs, Zenon
  <2>3. x % BlockSize = Slot(r, i) /\ Slot(r, i) \in 0..(BlockSize - 1)
    <3>1. Start(r) = IF r.pos < r.count THEN r.pos - r.count + BlockSize ELSE r.pos - r.count
      BY StartIs
    <3>2. /\ Slot(r, i) = IF x < BlockSize THEN x ELSE x - BlockSize
          /\ Slot(r, i) \in 0..(BlockSize - 1)
      <4>1. r.pos \in 0..(BlockSize - 1) /\ r.count \in 0..BlockSize
        BY <1>2
      <4>2. x = (IF r.pos < r.count THEN r.pos - r.count + BlockSize ELSE r.pos - r.count) + i - 1
        BY <2>1, <3>1, Zenon
      <4> QED  BY <4>1, <4>2, BlockSizeIs DEF Slot
    <3> QED  BY <2>2, <3>2
  <2> QED  BY <1>1, <2>1, <2>3, Zenon
<1>4. ASSUME NEW i \in 1..BlockSize
      PROVE  (IF i <= r.count THEN r.window[(Start(r) + i - 1) % Size(r)] ELSE 0) \in Byte
  <2>1. CASE i <= r.count
    <3>1. i \in 1..r.count
      BY <1>2, <2>1, BlockSizeIs
    <3>2. r.window[Slot(r, i)] \in Byte
      BY <1>2, <1>3, <3>1, Zenon
    <3> QED  BY <1>3, <2>1, <3>1, <3>2, Zenon
  <2>2. CASE ~(i <= r.count)
    BY <2>2 DEF Byte
  <2> QED  BY <2>1, <2>2
<1>5. Window(r) \in [1..BlockSize -> Byte]
  BY <1>2, <1>4 DEF Window
<1>6. Window(r) \in Seq(Byte) /\ Len(Window(r)) = BlockSize
  BY <1>5, BlockSizeIs
<1>7. ASSUME NEW i \in 1..r.count
      PROVE  Window(r)[i] = r.window[Slot(r, i)]
  BY <1>2, <1>3, BlockSizeIs DEF Window
<1> QED  BY <1>6, <1>7

\* What Shift changes.
LEMMA ShiftIs ==
  ASSUME NEW r \in Rolling, NEW b \in Byte, NEW c \in 0..BlockSize
  PROVE  /\ Shift(r, b, c) \in Rolling
         /\ Shift(r, b, c).count = c
         /\ Shift(r, b, c).pos = IF r.pos + 1 = BlockSize THEN 0 ELSE r.pos + 1
         /\ \A j \in 0..(BlockSize - 1) :
              Shift(r, b, c).window[j] = IF j = r.pos THEN b ELSE r.window[j]
<1> DEFINE s == Shift(r, b, c)
<1>1. Size(r) = BlockSize
  BY SizeIs
<1>2. /\ r.pos \in 0..(BlockSize - 1) /\ r.window \in [0..(BlockSize - 1) -> Byte]
      /\ r.blockSize = BlockSize
  BY DEF Rolling
<1>3. (r.pos + 1) % BlockSize = IF r.pos + 1 = BlockSize THEN 0 ELSE r.pos + 1
  <2>1. PICK x \in 0..(2 * BlockSize - 1) : x = r.pos + 1
    BY <1>2, BlockSizeIs
  <2>2. x % BlockSize = IF x < BlockSize THEN x ELSE x - BlockSize
    BY ModOnce, BlockSizeIs, Zenon
  <2> QED  BY <1>2, <2>1, <2>2, BlockSizeIs
<1>4. s = [window |-> [r.window EXCEPT ![r.pos] = b], pos |-> (r.pos + 1) % BlockSize,
           count |-> c, blockSize |-> BlockSize]
  BY <1>1, <1>2 DEF Shift
<1>5. (r.pos + 1) % BlockSize \in 0..(BlockSize - 1)
  BY <1>2, <1>3, BlockSizeIs
<1>6. [r.window EXCEPT ![r.pos] = b] \in [0..(BlockSize - 1) -> Byte]
  BY <1>2
<1>7. s \in Rolling
  BY <1>4, <1>5, <1>6 DEF Rolling
<1>8. s.count = c /\ s.pos = (r.pos + 1) % BlockSize /\ s.window = [r.window EXCEPT ![r.pos] = b]
  BY <1>4
<1> QED  BY <1>2, <1>3, <1>7, <1>8, Zenon

\* While the window is not full, RollIn puts the byte behind those it holds.
LEMMA RollInIs ==
  ASSUME NEW r \in Rolling, NEW b \in Byte, r.count < BlockSize
  PROVE  /\ RollIn(r, b) \in Rolling /\ RollIn(r, b).count = r.count + 1
         /\ \A i \in 1..r.count : Window(RollIn(r, b))[i] = Window(r)[i]
         /\ Window(RollIn(r, b))[r.count + 1] = b
<1> DEFINE s == Shift(r, b, r.count + 1)
<1>1. r.pos \in 0..(BlockSize - 1) /\ r.count \in 0..BlockSize /\ r.blockSize = BlockSize
  BY DEF Rolling
<1>2. RollIn(r, b) = s
  BY <1>1 DEF RollIn
<1>3. r.count + 1 \in 0..BlockSize
  BY <1>1, BlockSizeIs
<1>4. /\ s \in Rolling /\ s.count = r.count + 1
      /\ s.pos = IF r.pos + 1 = BlockSize THEN 0 ELSE r.pos + 1
      /\ \A j \in 0..(BlockSize - 1) : s.window[j] = IF j = r.pos THEN b ELSE r.window[j]
  BY <1>3, ShiftIs
<1> HIDE DEF s
<1>5. ASSUME NEW i \in 1..r.count
      PROVE  Window(s)[i] = Window(r)[i]
  <2>1. i \in 1..s.count
    BY <1>1, <1>4
  <2>2. Window(s)[i] = s.window[Slot(s, i)] /\ Window(r)[i] = r.window[Slot(r, i)]
    BY <1>4, <2>1, WindowIs
  <2>3. /\ Slot(s, i) = Slot(r, i)
        /\ Slot(r, i) \in 0..(BlockSize - 1)
        /\ Slot(r, i) # r.pos
    BY <1>1, <1>4, BlockSizeIs DEF Slot
  <2> QED  BY <1>4, <2>2, <2>3
<1>6. Window(s)[r.count + 1] = b
  <2>1. r.count + 1 \in 1..s.count
    BY <1>1, <1>4
  <2>2. Window(s)[r.count + 1] = s.window[Slot(s, r.count + 1)]
    BY <1>4, <2>1, WindowIs
  <2>3. Slot(s, r.count + 1) = r.pos
    BY <1>1, <1>4, BlockSizeIs DEF Slot
  <2> QED  BY <1>1, <1>4, <2>2, <2>3
<1> QED  BY <1>2, <1>4, <1>5, <1>6

\* Roll drops the oldest byte of a full window and puts the new one behind.
LEMMA RollIs ==
  ASSUME NEW r \in Rolling, NEW b \in Byte, r.count = BlockSize
  PROVE  /\ Roll(r, b) \in Rolling /\ Roll(r, b).count = BlockSize
         /\ \A i \in 1..(BlockSize - 1) : Window(Roll(r, b))[i] = Window(r)[i + 1]
         /\ Window(Roll(r, b))[BlockSize] = b
<1> DEFINE s == Shift(r, b, r.count)
<1>1. r.pos \in 0..(BlockSize - 1) /\ r.count \in 0..BlockSize
  BY DEF Rolling
<1>2. Roll(r, b) = s
  BY DEF Roll
<1>3. /\ s \in Rolling /\ s.count = BlockSize
      /\ s.pos = IF r.pos + 1 = BlockSize THEN 0 ELSE r.pos + 1
      /\ \A j \in 0..(BlockSize - 1) : s.window[j] = IF j = r.pos THEN b ELSE r.window[j]
  BY <1>1, ShiftIs
<1> HIDE DEF s
<1>4. ASSUME NEW i \in 1..(BlockSize - 1)
      PROVE  Window(s)[i] = Window(r)[i + 1]
  <2>1. i \in 1..s.count /\ i + 1 \in 1..r.count
    BY <1>3, BlockSizeIs
  <2>2. Window(s)[i] = s.window[Slot(s, i)] /\ Window(r)[i + 1] = r.window[Slot(r, i + 1)]
    BY <1>3, <2>1, WindowIs
  <2>3. /\ Slot(s, i) = Slot(r, i + 1)
        /\ Slot(r, i + 1) \in 0..(BlockSize - 1)
        /\ Slot(r, i + 1) # r.pos
    BY <1>1, <1>3, BlockSizeIs DEF Slot
  <2> QED  BY <1>3, <2>2, <2>3
<1>5. Window(s)[BlockSize] = b
  <2>1. BlockSize \in 1..s.count
    BY <1>3, BlockSizeIs
  <2>2. Window(s)[BlockSize] = s.window[Slot(s, BlockSize)]
    BY <1>3, <2>1, WindowIs
  <2>3. Slot(s, BlockSize) = r.pos
    BY <1>1, <1>3, BlockSizeIs DEF Slot
  <2> QED  BY <1>1, <1>3, <2>2, <2>3
<1> QED  BY <1>2, <1>3, <1>4, <1>5

LEMMA MinOfTwo ==
  ASSUME NEW a \in Nat, NEW b \in Nat
  PROVE  Min({a, b}) = IF a <= b THEN a ELSE b
<1>1. \E m \in {a, b} : \A x \in {a, b} : m <= x
  OBVIOUS
<1>2. Min({a, b}) \in {a, b} /\ \A x \in {a, b} : Min({a, b}) <= x
  BY <1>1, Zenon DEF Min
<1> QED  BY <1>2

\* A window that was cleared.
LEMMA ResetIs ==
  ASSUME NEW r \in Rolling
  PROVE  Reset(r, BlockSize) \in Rolling /\ Reset(r, BlockSize).count = 0
<1>1. DOMAIN r.window = 0..(BlockSize - 1)
  BY DEF Rolling
<1>2. [i \in DOMAIN r.window |-> 0] \in [0..(BlockSize - 1) -> Byte]
  BY <1>1 DEF Byte
<1> QED  BY <1>2, BlockSizeIs DEF Reset, Rolling

\* The window of a new rolling hash, for a block size that is not clamped.
LEMMA NewIs ==
  ASSUME BlockSize <= MaxBlockSize
  PROVE  NewRollingHash(BlockSize) \in Rolling /\ NewRollingHash(BlockSize).count = 0
<1>1. Min({BlockSize, MaxBlockSize}) = BlockSize
  BY MinOfTwo, BlockSizeIs, RollingHashAssumption
<1>2. [i \in 0..(BlockSize - 1) |-> 0] \in [0..(BlockSize - 1) -> Byte]
  BY DEF Byte
<1> QED  BY <1>1, <1>2, BlockSizeIs DEF NewRollingHash, Reset, Rolling

-----------------------------------------------------------------------------
(* Blocks and their signatures *)

Signature(file) == GenerateSignature(file, BlockSize)

\* A file has the blocks that begin within it.
LEMMA HasBlock ==
  ASSUME NEW file \in Seq(Byte), NEW k \in Nat
  PROVE  k + 1 \in DOMAIN Signature(file) <=> BlockSize * k < Len(file)
<1> DEFINE n == Len(file) + BlockSize - 1
           q == n \div BlockSize
<1>1. n \in Nat /\ Len(file) \in Nat
  BY BlockSizeIs
<1>2. q \in Nat /\ BlockSize * q <= n /\ n < BlockSize * q + BlockSize
  BY <1>1, BlockSizeIs, Division
<1>3. DOMAIN Signature(file) = 1..q
  BY DEF Signature, GenerateSignature
<1>4. BlockSize * (k + 1) = BlockSize * k + BlockSize /\ BlockSize * k \in Nat
  BY BlockSizeIs
<1>5. ASSUME k + 1 <= q
      PROVE  BlockSize * k < Len(file)
  <2>1. BlockSize * (k + 1) <= BlockSize * q
    BY <1>2, <1>5, BlockSizeIs, Monotonic
  <2> QED  BY <1>1, <1>2, <1>4, <2>1, BlockSizeIs
<1>6. ASSUME BlockSize * k < Len(file)
      PROVE  k + 1 <= q
  <2>1. SUFFICES ASSUME q <= k
                 PROVE  FALSE
    BY <1>2
  <2>2. BlockSize * q <= BlockSize * k /\ BlockSize * q \in Nat
    BY <1>2, <2>1, BlockSizeIs, Monotonic
  <2> QED  BY <1>1, <1>2, <1>4, <1>6, <2>2, BlockSizeIs
<1> HIDE DEF q
<1> QED  BY <1>2, <1>3, <1>5, <1>6

\* The part of a sequence behind its first a elements, up to b.
LEMMA PartIs ==
  ASSUME NEW S, NEW s \in Seq(S), NEW a \in Nat, NEW b \in Nat, a <= b, b <= Len(s)
  PROVE  /\ SubSeq(s, a + 1, b) \in Seq(S) /\ Len(SubSeq(s, a + 1, b)) = b - a
         /\ \A i \in 1..(b - a) : SubSeq(s, a + 1, b)[i] = s[a + i]
  OBVIOUS

\* The bytes of a block; only the last one is short.
LEMMA BlockIs ==
  ASSUME NEW file \in Seq(Byte), NEW k \in Nat, BlockSize * k < Len(file)
  PROVE  LET block == Block(file, k + 1, BlockSize) IN
         /\ block \in Seq(Byte)
         /\ Len(block) = IF BlockSize * k + BlockSize <= Len(file) THEN BlockSize
                         ELSE Len(file) - BlockSize * k
         /\ \A i \in 1..Len(block) : block[i] = file[BlockSize * k + i]
<1>1. PICK first \in Nat : first = BlockSize * k
  BY BlockSizeIs
<1>2. (k + 1) * BlockSize = first + BlockSize
  BY <1>1, BlockSizeIs
<1>3. PICK last \in Nat : /\ last = Min({(k + 1) * BlockSize, Len(file)})
                          /\ last = IF first + BlockSize <= Len(file) THEN first + BlockSize
                                    ELSE Len(file)
  BY <1>2, MinOfTwo, BlockSizeIs
<1>4. Block(file, k + 1, BlockSize) = SubSeq(file, first + 1, last)
  <2>1. PICK i \in Nat : i = k + 1
    OBVIOUS
  <2>2. (i - 1) * BlockSize = first
    BY <1>1, <2>1, BlockSizeIs
  <2>3. last = Min({i * BlockSize, Len(file)})
    BY <1>3, <2>1, Zenon
  <2>4. Block(file, i, BlockSize) = SubSeq(file, first + 1, last)
    BY <2>2, <2>3, Zenon DEF Block
  <2> QED  BY <2>1, <2>4, Zenon
<1>5. /\ SubSeq(file, first + 1, last) \in Seq(Byte)
      /\ Len(SubSeq(file, first + 1, last)) = last - first
      /\ \A i \in 1..(last - first) : SubSeq(file, first + 1, last)[i] = file[first + i]
  <2>1. first <= last /\ last <= Len(file)
    BY <1>1, <1>3, BlockSizeIs
  <2> QED  BY <2>1, PartIs, Zenon
<1>6. last - first = IF BlockSize * k + BlockSize <= Len(file) THEN BlockSize
                     ELSE Len(file) - BlockSize * k
  BY <1>1, <1>3, BlockSizeIs
<1> QED  BY <1>1, <1>4, <1>5, <1>6, Zenon

\* A match has the bytes of the window: a weak hash that collides does not matter.
LEMMA MatchIs ==
  ASSUME NEW file, NEW data, Match(Signature(file), data) # 0
  PROVE  /\ Match(Signature(file), data) \in DOMAIN Signature(file)
         /\ Block(file, Match(Signature(file), data), BlockSize) = data
<1> DEFINE s == Signature(file)
           hash == ComputeBlockSignature(data)
           found == {i \in FindByWeakHash(s, hash.weak) : s[i].strong = hash.strong}
<1>1. found # {} /\ Match(s, data) = Min(found)
  BY Zenon DEF Match
<1>2. found \subseteq Nat
  BY DEF FindByWeakHash, Signature, GenerateSignature
<1>3. \E i \in found : \A j \in found : i <= j
  <2> HIDE DEF found
  <2> QED  BY <1>1, <1>2, LeastNumber, Zenon
<1>4. Min(found) \in found
  <2> HIDE DEF found
  <2> QED  BY <1>3, Zenon DEF Min
<1>5. PICK i \in DOMAIN s : i = Min(found) /\ s[i].strong = hash.strong
  BY <1>4, Zenon DEF FindByWeakHash
<1>6. s[i] = ComputeBlockSignature(Block(file, i, BlockSize))
  BY Zenon DEF Signature, GenerateSignature
<1>7. Block(file, i, BlockSize) = data
  BY <1>5, <1>6 DEF ComputeBlockSignature
<1> QED  BY <1>1, <1>5, <1>7, Zenon

\* Bytes that are a block of the file match.
LEMMA BlockMatches ==
  ASSUME NEW file, NEW i \in DOMAIN Signature(file)
  PROVE  Match(Signature(file), Block(file, i, BlockSize)) # 0
<1> DEFINE s == Signature(file)
           hash == ComputeBlockSignature(Block(file, i, BlockSize))
           found == {j \in FindByWeakHash(s, hash.weak) : s[j].strong = hash.strong}
<1>1. s[i] = hash
  BY Zenon DEF Signature, GenerateSignature
<1>2. i \in found
  BY <1>1, Zenon DEF FindByWeakHash
<1>3. found # {} /\ found \subseteq Nat \ {0}
  BY <1>2 DEF FindByWeakHash, Signature, GenerateSignature
<1>4. Match(s, Block(file, i, BlockSize)) = Min(found)
  BY <1>3, Zenon DEF Match
<1>5. \E m \in found : \A j \in found : m <= j
  <2> HIDE DEF found
  <2>1. found \subseteq Nat
    BY <1>3
  <2> QED  BY <1>3, <2>1, LeastNumber, Zenon
<1>6. Min(found) \in found
  <2> HIDE DEF found
  <2> QED  BY <1>5, Zenon DEF Min
<1> QED  
  <2> HIDE DEF found
  <2> QED  BY <1>3, <1>4, <1>6

-----------------------------------------------------------------------------
(* The hash is that of the new file *)

\* From byte k on, a file goes on with some bytes.
GoesOn(file, k, h) == k + Len(h) <= Len(file) /\ \A i \in 1..Len(h) : h[i] = file[k + i]

LEMMA BeginsMore ==
  ASSUME NEW file \in Seq(Byte), NEW h \in Seq(Byte), NEW w \in Seq(Byte),
         Begins(file, h), GoesOn(file, Len(h), w)
  PROVE  Begins(file, h \o w)
<1>1. Len(h \o w) = Len(h) + Len(w) /\ h \o w \in Seq(Byte)
  OBVIOUS
<1>2. ASSUME NEW i \in 1..Len(h \o w)
      PROVE  (h \o w)[i] = file[i]
  <2>1. CASE i <= Len(h)
    BY <1>1, <2>1 DEF Begins
  <2>2. CASE Len(h) < i
    <3>0. i - Len(h) \in 1..Len(w)
      BY <1>1, <2>2
    <3>1. PICK j \in 1..Len(w) : j = i - Len(h)
      BY <3>0, Zenon
    <3>2. (h \o w)[i] = w[j] /\ i = Len(h) + j
      BY <1>1, <2>2, <3>1
    <3> QED  BY <3>2 DEF GoesOn
  <2> QED  BY <1>1, <2>1, <2>2
<1> QED  BY <1>1, <1>2 DEF Begins, GoesOn

LEMMA BeginsAll ==
  ASSUME NEW file \in Seq(Byte), NEW h \in Seq(Byte), NEW w \in Seq(Byte),
         Begins(file, h), GoesOn(file, Len(h), w), Len(h) + Len(w) = Len(file)
  PROVE  h \o w = file
<1>1. Begins(file, h \o w)
  BY BeginsMore
<1>2. h \o w \in Seq(Byte) /\ Len(h \o w) = Len(file)
  OBVIOUS
<1>3. PICK all \in Seq(Byte) : all = h \o w
  BY <1>2, Zenon
<1>4. Begins(file, all) /\ Len(all) = Len(file)
  BY <1>1, <1>2, <1>3, Zenon
<1>5. all = file
  BY <1>4 DEF Begins
<1> QED  BY <1>3, <1>5, Zenon

\* The bytes that a window holds.
Held(r) == SubSeq(Window(r), 1, r.count)

LEMMA HeldIs ==
  ASSUME NEW r \in Rolling
  PROVE  /\ r.count \in 0..BlockSize
         /\ Held(r) \in Seq(Byte) /\ Len(Held(r)) = r.count
         /\ \A i \in 1..r.count : Held(r)[i] = Window(r)[i]
<1>1. r.count \in 0..BlockSize
  BY DEF Rolling
<1>2. Window(r) \in Seq(Byte) /\ Len(Window(r)) = BlockSize
  BY WindowIs
<1> QED  BY <1>1, <1>2, BlockSizeIs DEF Held

\* A byte more is read into a window that is not full.
LEMMA HeldRollIn ==
  ASSUME NEW r \in Rolling, r.count < BlockSize, NEW file \in Seq(Byte), NEW k \in Nat,
         GoesOn(file, k, Held(r)), k + r.count < Len(file)
  PROVE  LET s == RollIn(r, file[k + r.count + 1]) IN
         s \in Rolling /\ s.count = r.count + 1 /\ GoesOn(file, k, Held(s))
<1> DEFINE b == file[k + r.count + 1]
           s == RollIn(r, b)
<1>1. /\ r.count \in 0..BlockSize /\ Len(Held(r)) = r.count
      /\ \A i \in 1..r.count : Held(r)[i] = Window(r)[i]
  BY HeldIs
<1>2. b \in Byte
  BY <1>1, BlockSizeIs
<1>3. /\ s \in Rolling /\ s.count = r.count + 1
      /\ \A i \in 1..r.count : Window(s)[i] = Window(r)[i]
      /\ Window(s)[r.count + 1] = b
  BY <1>2, RollInIs
<1> HIDE DEF s
<1>4. Len(Held(s)) = r.count + 1 /\ \A i \in 1..(r.count + 1) : Held(s)[i] = Window(s)[i]
  BY <1>3, HeldIs
<1>5. ASSUME NEW i \in 1..(r.count + 1)
      PROVE  Held(s)[i] = file[k + i]
  <2>1. CASE i = r.count + 1
    BY <1>1, <1>3, <1>4, <2>1
  <2>2. CASE i # r.count + 1
    <3>1. i \in 1..r.count
      BY <1>1, <2>2
    <3> QED  BY <1>1, <1>3, <1>4, <3>1 DEF GoesOn
  <2> QED  BY <2>1, <2>2
<1>6. GoesOn(file, k, Held(s))
  BY <1>1, <1>4, <1>5 DEF GoesOn
<1> QED  BY <1>3, <1>6 DEF s

\* A full window moves on by a byte.
LEMMA HeldRoll ==
  ASSUME NEW r \in Rolling, r.count = BlockSize, NEW file \in Seq(Byte), NEW k \in Nat,
         GoesOn(file, k, Held(r)), k + r.count < Len(file)
  PROVE  LET s == Roll(r, file[k + r.count + 1]) IN
         s \in Rolling /\ s.count = BlockSize /\ GoesOn(file, k + 1, Held(s))
<1> DEFINE b == file[k + BlockSize + 1]
           s == Roll(r, b)
<1>1. /\ Len(Held(r)) = BlockSize
      /\ \A i \in 1..BlockSize : Held(r)[i] = Window(r)[i]
  BY HeldIs
<1>2. b \in Byte
  BY BlockSizeIs
<1>3. /\ s \in Rolling /\ s.count = BlockSize
      /\ \A i \in 1..(BlockSize - 1) : Window(s)[i] = Window(r)[i + 1]
      /\ Window(s)[BlockSize] = b
  BY <1>2, RollIs
<1> HIDE DEF s
<1>4. Len(Held(s)) = BlockSize /\ \A i \in 1..BlockSize : Held(s)[i] = Window(s)[i]
  BY <1>3, HeldIs, Zenon
<1>5. ASSUME NEW i \in 1..BlockSize
      PROVE  Held(s)[i] = file[k + 1 + i]
  <2>1. CASE i = BlockSize
    BY <1>3, <1>4, <2>1, BlockSizeIs
  <2>2. CASE i # BlockSize
    <3>1. i \in 1..(BlockSize - 1) /\ i + 1 \in 1..BlockSize /\ k + (i + 1) = k + 1 + i
      BY <2>2, BlockSizeIs
    <3>2. Held(r)[i + 1] = file[k + (i + 1)]
      BY <1>1, <3>1 DEF GoesOn
    <3> QED  BY <1>1, <1>3, <1>4, <3>1, <3>2, Zenon
  <2> QED  BY <2>1, <2>2
<1>6. GoesOn(file, k + 1, Held(s))
  BY <1>4, <1>5, BlockSizeIs DEF GoesOn
<1> QED  BY <1>3, <1>6 DEF s

Reading == {"fill", "main", "refill"}
Generated == {"flush", "generated", "received", "applied"}

Types ==
  /\ old \in Seq(Byte) /\ new \in Seq(Byte) /\ phase \in Reading \cup Generated
  /\ at \in 0..Len(new) /\ rh \in Rolling
  /\ hashed \in Seq(Byte) /\ literal \in Seq(Byte)

\* What was hashed is followed by what is in the window.
Progress ==
  phase \in Reading =>
    /\ at = Len(hashed) + rh.count
    /\ Begins(new, hashed) /\ GoesOn(new, Len(hashed), Held(rh))
    /\ phase = "fill" => hashed = <<>>
    /\ phase = "main" => rh.count = BlockSize
    /\ phase = "refill" => rh.count < BlockSize

Hashed ==
  /\ phase \in Generated => hashed = new
  /\ phase \in {"received", "applied"} => packet.hash = hashed
  /\ AppliedIsNew

HashInv == Types /\ Progress /\ Hashed

LEMMA InitHash ==
  ASSUME BlockSize <= MaxBlockSize, Init
  PROVE  HashInv
<1>1. old \in Seq(Byte) /\ new \in Seq(Byte)
  BY DeltaAssumption DEF Init, Byte
<1>2. rh \in Rolling /\ rh.count = 0
  BY NewIs DEF Init
<1>3. Len(Held(rh)) = 0
  BY <1>2, HeldIs
<1>4. Types
  BY <1>1, <1>2 DEF Init, Types, Reading
<1>5. Progress
  BY <1>1, <1>2, <1>3 DEF Init, Progress, Begins, GoesOn
<1>6. Hashed
  BY DEF Init, Hashed, Generated, AppliedIsNew
<1> QED  BY <1>4, <1>5, <1>6 DEF HashInv

LEMMA NextHash ==
  ASSUME HashInv, [Next]_vars
  PROVE  HashInv'
<1>1. /\ old \in Seq(Byte) /\ new \in Seq(Byte) /\ phase \in Reading \cup Generated
      /\ at \in 0..Len(new) /\ rh \in Rolling /\ hashed \in Seq(Byte) /\ literal \in Seq(Byte)
  BY DEF HashInv, Types
<1>2. /\ rh.count \in 0..BlockSize /\ Held(rh) \in Seq(Byte) /\ Len(Held(rh)) = rh.count
      /\ Window(rh) \in Seq(Byte) /\ Len(Window(rh)) = BlockSize
  BY <1>1, HeldIs, WindowIs
<1>3. ASSUME phase \in Reading
      PROVE  /\ at = Len(hashed) + rh.count
             /\ Begins(new, hashed) /\ GoesOn(new, Len(hashed), Held(rh))
             /\ phase = "fill" => hashed = <<>>
             /\ phase = "main" => rh.count = BlockSize
             /\ phase = "refill" => rh.count < BlockSize
  BY <1>3 DEF HashInv, Progress
<1>0. Min({BlockSize, Len(new)}) = IF BlockSize <= Len(new) THEN BlockSize ELSE Len(new)
  <2>1. BlockSize \in Nat /\ Len(new) \in Nat
    BY <1>1, BlockSizeIs
  <2> QED  BY <2>1, MinOfTwo, Zenon
<1>4. CASE Fill
  <2>1. phase \in Reading /\ hashed = <<>> /\ at = rh.count /\ Len(hashed) = 0
    BY <1>2, <1>3, <1>4 DEF Fill, Reading
  <2>2. at < BlockSize /\ at < Len(new)
    BY <1>0, <1>1, <1>4, BlockSizeIs DEF Fill
  <2>3. rh' = RollIn(rh, new[0 + rh.count + 1]) /\ at' = at + 1
    BY <1>2, <1>4, <2>1 DEF Fill
  <2>4. rh' \in Rolling /\ rh'.count = rh.count + 1 /\ GoesOn(new, 0, Held(rh'))
    BY <1>1, <1>3, <2>1, <2>2, <2>3, HeldRollIn
  <2>5. UNCHANGED <<old, new, phase, literal, hashed>>
    BY <1>4 DEF Fill, files
  <2>6. Types' /\ Hashed'
    BY <1>1, <2>1, <2>2, <2>3, <2>4, <2>5 DEF Types, Hashed, Reading, Generated, AppliedIsNew
  <2>7. Progress'
    BY <1>2, <1>3, <1>4, <2>1, <2>2, <2>3, <2>4, <2>5 DEF Fill, Progress
  <2> QED  BY <2>6, <2>7 DEF HashInv
<1>5. CASE FillEnds
  <2>1. phase = "fill" /\ phase \in Reading /\ hashed = <<>> /\ at = rh.count /\ Len(hashed) = 0
    BY <1>2, <1>3, <1>5 DEF FillEnds, Reading
  <2>2. UNCHANGED <<old, new, at, rh>>
    BY <1>5 DEF FillEnds, files
  <2>3. CASE at = BlockSize
    <3>1. phase' = "main" /\ UNCHANGED <<literal, hashed>>
      BY <1>5, <2>3 DEF FillEnds
    <3>2. Types' /\ Hashed'
      BY <1>1, <2>2, <3>1 DEF Types, Hashed, Reading, Generated, AppliedIsNew
    <3>3. Progress'
      BY <1>3, <2>1, <2>2, <2>3, <3>1 DEF Progress
    <3> QED  BY <3>2, <3>3 DEF HashInv
  <2>4. CASE at # BlockSize
    <3>1. at = Len(new) /\ ~(at > Len(Window(rh)))
      BY <1>0, <1>1, <1>2, <1>5, <2>1, <2>4, BlockSizeIs DEF FillEnds
    <3>2. phase' = "flush" /\ literal' = Held(rh) /\ hashed' = Held(rh)
      BY <1>5, <2>1, <2>4, <3>1, Zenon DEF FillEnds, Held
    <3>3. hashed \o Held(rh) = new
      BY <1>1, <1>2, <1>3, <2>1, <3>1, BeginsAll, Zenon
    <3>4. Held(rh) = new
      BY <1>2, <2>1, <3>3
    <3>5. Types' /\ Hashed'
      BY <1>1, <1>2, <2>2, <3>2, <3>4 DEF Types, Hashed, Reading, Generated, AppliedIsNew
    <3>6. Progress'
      BY <3>2 DEF Progress, Reading
    <3> QED  BY <3>5, <3>6 DEF HashInv
  <2> QED  BY <2>3, <2>4
<1>6. CASE CopyBlock
  <2>1. phase \in Reading /\ rh.count = BlockSize
    BY <1>3, <1>6 DEF CopyBlock, Reading
  <2>2. /\ UNCHANGED <<old, new, at>> /\ literal' = <<>> /\ hashed' = hashed \o Window(rh)
        /\ rh' = Reset(rh, BlockSize) /\ phase' = "refill"
    BY <1>6 DEF CopyBlock, files
  <2>3. Held(rh) = Window(rh)
    BY <1>2, <2>1, BlockSizeIs DEF Held
  <2>4. rh' \in Rolling /\ rh'.count = 0 /\ Len(Held(rh')) = 0
    BY <1>1, <2>2, ResetIs, HeldIs
  <2>5. Begins(new, hashed') /\ hashed' \in Seq(Byte) /\ Len(hashed') = Len(hashed) + BlockSize
    BY <1>1, <1>2, <1>3, <2>1, <2>2, <2>3, BeginsMore
  <2>6. Types' /\ Hashed'
    BY <1>1, <2>2, <2>4, <2>5 DEF Types, Hashed, Reading, Generated, AppliedIsNew
  <2>7. Progress'
    BY <1>1, <1>3, <2>1, <2>2, <2>4, <2>5, BlockSizeIs DEF Progress, GoesOn, Begins
  <2> QED  BY <2>6, <2>7 DEF HashInv
<1>7. CASE Refill
  <2>1. phase \in Reading /\ rh.count < BlockSize /\ at < Len(new)
    BY <1>7 DEF Refill, Reading
  <2>2. rh' = RollIn(rh, new[Len(hashed) + rh.count + 1]) /\ at' = at + 1
    BY <1>3, <1>7, <2>1 DEF Refill
  <2>3. rh' \in Rolling /\ rh'.count = rh.count + 1 /\ GoesOn(new, Len(hashed), Held(rh'))
    BY <1>1, <1>3, <2>1, <2>2, HeldRollIn
  <2>4. /\ UNCHANGED <<old, new, literal, hashed>>
        /\ phase' = IF rh'.count = BlockSize THEN "main" ELSE "refill"
    BY <1>7 DEF Refill, files
  <2>5. Types' /\ Hashed'
    BY <1>1, <2>1, <2>2, <2>3, <2>4 DEF Types, Hashed, Reading, Generated, AppliedIsNew
  <2>6. Progress'
    <3>1. at' = Len(hashed') + rh'.count /\ (phase' = "refill" => rh'.count < BlockSize)
      <4>1. at = Len(hashed) + rh.count /\ hashed' = hashed
        BY <1>3, <2>1, <2>4, Zenon
      <4>2. rh'.count \in 0..BlockSize
        BY <1>2, <2>1, <2>3, BlockSizeIs
      <4>3. phase' = "refill" => rh'.count # BlockSize
        BY <2>4
      <4>4. PICK h \in Nat, c \in Nat : h = Len(hashed) /\ c = rh.count
        BY <1>1, <1>2, BlockSizeIs
      <4>5. at' = h + c + 1 /\ rh'.count = c + 1 /\ Len(hashed') = h
        BY <2>2, <2>3, <4>1, <4>4, Zenon
      <4>6. at' = Len(hashed') + rh'.count
        BY <4>4, <4>5
      <4>7. phase' = "refill" => rh'.count < BlockSize
        BY <4>2, <4>3, BlockSizeIs
      <4> QED  BY <4>6, <4>7, Zenon
    <3>2. phase' # "fill" /\ (phase' = "main" => rh'.count = BlockSize)
      BY <2>4
    <3>3. Begins(new', hashed') /\ GoesOn(new', Len(hashed'), Held(rh'))
      BY <1>3, <2>1, <2>3, <2>4, Zenon
    <3> QED  BY <3>1, <3>2, <3>3, Zenon DEF Progress
  <2> QED  BY <2>5, <2>6 DEF HashInv
<1>8. CASE RefillEnds
  <2>1. phase \in Reading /\ at = Len(new)
    BY <1>8 DEF RefillEnds, Reading
  <2>2. /\ UNCHANGED <<old, new, at, rh>> /\ hashed' = hashed \o Held(rh) /\ phase' = "flush"
        /\ (literal' = literal \/ literal' = literal \o Held(rh))
    BY <1>8, Zenon DEF RefillEnds, files, Held
  <2>3. hashed' = new
    BY <1>1, <1>2, <1>3, <2>1, <2>2, BeginsAll, Zenon
  <2>4. literal' \in Seq(Byte)
    <3>1. literal \o Held(rh) \in Seq(Byte)
      BY <1>1, <1>2
    <3> QED  BY <1>1, <2>2, <3>1, Zenon
  <2>5. Types' /\ Hashed'
    BY <1>1, <2>2, <2>3, <2>4 DEF Types, Hashed, Reading, Generated, AppliedIsNew
  <2>6. Progress'
    BY <2>2 DEF Progress, Reading
  <2> QED  BY <2>5, <2>6 DEF HashInv
<1>9. CASE RollOn
  <2>1. phase \in Reading /\ phase = "main" /\ rh.count = BlockSize
    BY <1>3, <1>9 DEF RollOn, Reading
  <2>2. Held(rh) = Window(rh) /\ Window(rh)[1] = new[Len(hashed) + 1] /\ Window(rh)[1] \in Byte
    BY <1>1, <1>2, <1>3, <2>1, BlockSizeIs DEF Held, GoesOn
  <2>3. UNCHANGED <<old, new>>
    BY <1>9 DEF RollOn, files
  <2>4. CASE at < Len(new)
    <3>1. /\ at' = at + 1 /\ rh' = Roll(rh, new[Len(hashed) + rh.count + 1])
          /\ literal' = Append(literal, Window(rh)[1])
          /\ hashed' = Append(hashed, Window(rh)[1])
          /\ phase' = IF BadStart(rh') THEN "panic" ELSE "main"
      BY <1>1, <1>2, <1>3, <1>9, <2>1, <2>4 DEF RollOn
    <3>2. rh' \in Rolling /\ rh'.count = BlockSize /\ GoesOn(new, Len(hashed) + 1, Held(rh'))
      BY <1>1, <1>3, <2>1, <2>4, <3>1, HeldRoll
    <3>3. phase' = "main"
      BY <3>1, <3>2, StartIs
    <3>4. hashed' \in Seq(Byte) /\ literal' \in Seq(Byte) /\ Len(hashed') = Len(hashed) + 1
      BY <1>1, <2>2, <3>1
    <3>5. Begins(new, hashed')
      BY <1>1, <1>2, <1>3, <2>1, <2>2, <3>1, <3>4, BlockSizeIs, SMTT(30) DEF Begins, GoesOn
    <3>6. Types' /\ Hashed'
      BY <1>1, <2>3, <2>4, <3>1, <3>2, <3>3, <3>4
      DEF Types, Hashed, Reading, Generated, AppliedIsNew
    <3>7. Progress'
      BY <1>1, <1>3, <2>1, <2>3, <3>1, <3>2, <3>3, <3>4, <3>5, BlockSizeIs DEF Progress
    <3> QED  BY <3>6, <3>7 DEF HashInv
  <2>5. CASE ~(at < Len(new))
    <3>1. /\ literal' = literal \o Window(rh) /\ hashed' = hashed \o Window(rh)
          /\ phase' = "flush" /\ UNCHANGED <<at, rh>>
      BY <1>9, <2>5 DEF RollOn
    <3>2. at = Len(new)
      BY <1>1, <2>5
    <3>3. hashed' = new
      BY <1>1, <1>2, <1>3, <2>1, <2>2, <3>1, <3>2, BeginsAll, Zenon
    <3>4. literal' \in Seq(Byte)
      BY <1>1, <1>2, <3>1
    <3>5. Types' /\ Hashed'
      BY <1>1, <2>3, <3>1, <3>3, <3>4 DEF Types, Hashed, Reading, Generated, AppliedIsNew
    <3>6. Progress'
      BY <3>1 DEF Progress, Reading
    <3> QED  BY <3>5, <3>6 DEF HashInv
  <2> QED  BY <2>4, <2>5
<1>10. CASE Flush
  <2>1. /\ UNCHANGED <<old, new, at, rh, literal, hashed>> /\ phase = "flush"
        /\ phase' = "generated"
    BY <1>10 DEF Flush, files
  <2> QED  BY <2>1 DEF HashInv, Types, Progress, Hashed, Reading, Generated, AppliedIsNew
<1>11. CASE Receive
  <2>1. /\ UNCHANGED <<old, new, at, rh, literal, hashed>> /\ phase = "generated"
        /\ phase' = "received"
    BY <1>11 DEF Receive, files
  <2>2. packet'.hash = hashed
    BY <1>11 DEF Receive, EncodeDelta
  <2> QED  BY <2>1, <2>2 DEF HashInv, Types, Progress, Hashed, Reading, Generated, AppliedIsNew
<1>12. CASE ApplyDelta
  <2>1. /\ UNCHANGED <<old, new, at, rh, literal, hashed, packet>> /\ phase = "received"
        /\ phase' = "applied"
    BY <1>12, Zenon DEF ApplyDelta, files
  <2>2. packet.hash = new
    BY <2>1 DEF HashInv, Hashed, Generated
  <2>3. result'.ok => result'.out = packet.hash
    <3>1. \/ result' = [ok |-> FALSE, out |-> <<>>]
          \/ \E out : Accepted(out) /\ result' = [ok |-> TRUE, out |-> out]
      BY <1>12, Zenon DEF ApplyDelta
    <3> QED  BY <3>1 DEF Accepted
  <2> QED  BY <2>1, <2>2, <2>3
           DEF HashInv, Types, Progress, Hashed, Reading, Generated, AppliedIsNew
<1>13. CASE UNCHANGED vars
  BY <1>13 DEF vars, HashInv, Types, Progress, Hashed, AppliedIsNew
<1> QED  BY <1>4, <1>5, <1>6, <1>7, <1>8, <1>9, <1>10, <1>11, <1>12, <1>13 DEF Next

\* NewFileHash is the hash of the new file for every block size that NewRollingHash
\* does not clamp; for larger ones it is not, as a model-checked counterexample shows.
THEOREM HashesAreOfNewFile ==
  ASSUME BlockSize <= MaxBlockSize
  PROVE  Spec => []HashIsOfNewFile
<1>1. Init => HashInv
  BY InitHash
<1>2. HashInv /\ [Next]_vars => HashInv'
  BY NextHash
<1>3. HashInv => HashIsOfNewFile
  BY DEF HashInv, Hashed, HashIsOfNewFile, Generated
<1> QED  BY <1>1, <1>2, <1>3, PTL DEF Spec

\* What ApplyDelta accepts is the new file, for files of any length and every block
\* size that NewRollingHash does not clamp, whatever happened to the delta and to
\* the old file.
THEOREM AppliedFilesAreNew ==
  ASSUME BlockSize <= MaxBlockSize
  PROVE  Spec => []AppliedIsNew
<1>1. Init => HashInv
  BY InitHash
<1>2. HashInv /\ [Next]_vars => HashInv'
  BY NextHash
<1>3. HashInv => AppliedIsNew
  BY DEF HashInv, Hashed
<1> QED  BY <1>1, <1>2, <1>3, PTL DEF Spec

-----------------------------------------------------------------------------
(* An unchanged file is sent as copies *)

LEMMA OperationsAre ==
  /\ \A i \in Nat \ {0} : OpCopy(i) \in Operation /\ OpCopy(i).op = "copy" /\ OpCopy(i).block = i
  /\ \A d \in Seq(Byte) : OpData(d) \in Operation /\ OpData(d).op = "data" /\ OpData(d).data = d
  BY DEF Operation, OpCopy, OpData

Same == new = old /\ BlockSize <= Len(new)

OnlyCopies ==
  /\ ops \in Seq(Operation)
  /\ Same => /\ literal = <<>>
             /\ \A i \in DOMAIN ops : ops[i].op = "copy"
             /\ phase \in Reading => \E k \in Nat : Len(hashed) = BlockSize * k

\* What the window holds at the end of a block, or of the file, is a block.
LEMMA HeldMatches ==
  ASSUME HashInv, OnlyCopies, Same, phase \in Reading, rh.count # 0,
         rh.count = BlockSize \/ at = Len(new)
  PROVE  Match(sig, Held(rh)) # 0
<1>1. old \in Seq(Byte) /\ new = old /\ hashed \in Seq(Byte) /\ rh \in Rolling
  BY DEF HashInv, Types, Same
<1>2. PICK k \in Nat : Len(hashed) = BlockSize * k
  BY DEF OnlyCopies
<1>3. PICK c \in Nat : c = rh.count /\ Len(Held(rh)) = c /\ c <= BlockSize
  BY <1>1, HeldIs, BlockSizeIs
<1>4. /\ Held(rh) \in Seq(Byte) /\ at = BlockSize * k + c
      /\ BlockSize * k + c <= Len(old)
      /\ \A i \in 1..c : Held(rh)[i] = old[BlockSize * k + i]
  <2>1. Held(rh) \in Seq(Byte)
    BY <1>1, HeldIs
  <2>2. at = Len(hashed) + rh.count /\ GoesOn(new, Len(hashed), Held(rh))
    BY DEF HashInv, Progress
  <2> QED  BY <1>1, <1>2, <1>3, <2>1, <2>2, Zenon DEF GoesOn
<1>5. PICK n \in Nat : n = BlockSize * k
  BY BlockSizeIs
<1>6. BlockSize * k < Len(old)
  BY <1>1, <1>3, <1>4, <1>5
<1>7. PICK block : block = Block(old, k + 1, BlockSize)
  OBVIOUS
<1>8. /\ block \in Seq(Byte)
      /\ Len(block) = IF n + BlockSize <= Len(old) THEN BlockSize ELSE Len(old) - n
      /\ \A i \in 1..Len(block) : block[i] = old[n + i]
  BY <1>1, <1>5, <1>6, <1>7, BlockIs, Zenon
<1>9. Len(block) = c
  <2>1. PICK z \in Nat : z = Len(old)
    BY <1>1
  <2>2. n + c <= z /\ (c = BlockSize \/ n + c = z)
    BY <1>1, <1>3, <1>4, <1>5, <2>1, Zenon
  <2>3. Len(block) = IF n + BlockSize <= z THEN BlockSize ELSE z - n
    BY <1>8, <2>1, Zenon
  <2>4. c \in Nat /\ n \in Nat /\ c <= BlockSize
    BY <1>3, Zenon
  <2> QED  BY <2>2, <2>3, <2>4, BlockSizeIs
<1>10. Held(rh) = block
  <2>1. PICK h \in Seq(Byte) : h = Held(rh)
    BY <1>4, Zenon
  <2>2. Len(h) = c /\ \A i \in 1..c : h[i] = old[n + i]
    BY <1>3, <1>4, <1>5, <2>1, Zenon
  <2>3. Len(h) = Len(block) /\ \A i \in 1..Len(h) : h[i] = block[i]
    BY <1>8, <1>9, <2>2, Zenon
  <2>4. h = block
    BY <1>8, <2>3
  <2> QED  BY <2>1, <2>4, Zenon
<1>11. k + 1 \in DOMAIN Signature(old)
  BY <1>1, <1>6, HasBlock, Zenon
<1> QED  BY <1>7, <1>10, <1>11, BlockMatches, Zenon DEF sig, Signature

LEMMA InitCopies ==
  ASSUME Init
  PROVE  OnlyCopies
<1>1. Len(hashed) = BlockSize * 0
  BY BlockSizeIs DEF Init
<1> QED  BY <1>1 DEF Init, OnlyCopies, Reading

\* The operations of GenerateDelta are of their type.
LEMMA OpsKept ==
  ASSUME HashInv, ops \in Seq(Operation), [Next]_vars
  PROVE  /\ ops' \in Seq(Operation)
         /\ WithLiteral \in Seq(Operation)
<1>1. literal \in Seq(Byte)
  BY DEF HashInv, Types
<1>2. WithLiteral \in Seq(Operation)
  <2>1. OpData(literal) \in Operation
    BY <1>1, OperationsAre
  <2> QED  BY <2>1 DEF WithLiteral
<1>3. ASSUME NEW d, Match(sig, d) # 0
      PROVE  OpCopy(Match(sig, d)) \in Operation
  <2>1. Match(sig, d) \in DOMAIN Signature(old)
    BY <1>3, MatchIs, Zenon DEF sig, Signature
  <2>2. Match(sig, d) \in Nat \ {0}
    BY <2>1 DEF Signature, GenerateSignature
  <2> QED  BY <2>2, OperationsAre
<1>4. CASE CopyBlock
  <2>1. /\ ops' = Append(WithLiteral, OpCopy(Match(sig, Window(rh))))
        /\ Match(sig, Window(rh)) # 0
    BY <1>4, Zenon DEF CopyBlock
  <2>2. OpCopy(Match(sig, Window(rh))) \in Operation
    BY <1>3, <2>1, Zenon
  <2> QED  BY <1>2, <2>1, <2>2
<1>5. CASE RefillEnds
  <2>1. \/ ops' = ops
        \/ \E d : ops' = Append(ops, OpCopy(Match(sig, d))) /\ Match(sig, d) # 0
    BY <1>5, Zenon DEF RefillEnds
  <2>2. CASE ops' = ops
    BY <1>2, <2>2
  <2>3. ASSUME NEW d, ops' = Append(ops, OpCopy(Match(sig, d))), Match(sig, d) # 0
        PROVE  ops' \in Seq(Operation)
    <3>1. OpCopy(Match(sig, d)) \in Operation
      BY <1>3, <2>3, Zenon
    <3> QED  BY <2>3, <3>1
  <2> QED  BY <1>2, <2>1, <2>2, <2>3
<1>6. CASE Flush
  BY <1>2, <1>6 DEF Flush
<1>7. CASE ~CopyBlock /\ ~RefillEnds /\ ~Flush
  <2>1. ops' = ops
    BY <1>7, Zenon DEF Next, Fill, FillEnds, Refill, RollOn, Receive, ApplyDelta, vars
  <2> QED  BY <1>2, <2>1
<1> QED  BY <1>4, <1>5, <1>6, <1>7

LEMMA NextCopies ==
  ASSUME HashInv, OnlyCopies, [Next]_vars
  PROVE  OnlyCopies'
<1>1. ops' \in Seq(Operation)
  BY OpsKept DEF OnlyCopies
<1>2. UNCHANGED <<old, new>>
  BY Zenon DEF Next, Fill, FillEnds, CopyBlock, Refill, RefillEnds, RollOn, Flush, Receive, ApplyDelta,
              files, vars
<1>3. SUFFICES ASSUME Same
               PROVE  /\ literal' = <<>>
                      /\ \A i \in DOMAIN ops' : ops'[i].op = "copy"
                      /\ phase' \in Reading => \E k \in Nat : Len(hashed') = BlockSize * k
  BY <1>1, <1>2 DEF OnlyCopies, Same
<1>4. /\ literal = <<>> /\ ops \in Seq(Operation)
      /\ \A i \in DOMAIN ops : ops[i].op = "copy"
      /\ phase \in Reading => \E k \in Nat : Len(hashed) = BlockSize * k
  BY <1>3 DEF OnlyCopies
<1>5. /\ new \in Seq(Byte) /\ hashed \in Seq(Byte) /\ rh \in Rolling /\ at \in 0..Len(new)
      /\ BlockSize <= Len(new)
  BY <1>3 DEF HashInv, Types, Same
<1>6. WithLiteral = ops
  BY <1>4 DEF WithLiteral
<1>7. ASSUME NEW i \in Nat \ {0}
      PROVE  \A j \in DOMAIN Append(ops, OpCopy(i)) : Append(ops, OpCopy(i))[j].op = "copy"
  <2>1. OpCopy(i).op = "copy" /\ OpCopy(i) \in Operation
    BY OperationsAre
  <2> QED  BY <1>4, <2>1
<1>8. ASSUME NEW d, Match(sig, d) # 0
      PROVE  Match(sig, d) \in Nat \ {0}
  <2>1. Match(sig, d) \in DOMAIN Signature(old)
    BY <1>8, MatchIs, Zenon DEF sig, Signature
  <2> QED  BY <2>1 DEF Signature, GenerateSignature
<1>9. CASE Fill \/ Refill
  <2>1. phase \in Reading /\ UNCHANGED <<literal, ops, hashed>>
    BY <1>9, Zenon DEF Fill, Refill, Reading
  <2> QED  BY <1>4, <2>1
<1>10. CASE FillEnds
  <2>1. at = BlockSize
    BY <1>5, <1>10, MinOfTwo, BlockSizeIs DEF FillEnds
  <2>2. phase \in Reading /\ UNCHANGED <<literal, ops, hashed>>
    BY <1>10, <2>1 DEF FillEnds, Reading
  <2> QED  BY <1>4, <2>2
<1>11. CASE CopyBlock
  <2>1. /\ phase = "main" /\ ops' = Append(ops, OpCopy(Match(sig, Window(rh))))
        /\ Match(sig, Window(rh)) # 0 /\ literal' = <<>> /\ hashed' = hashed \o Window(rh)
    BY <1>6, <1>11, Zenon DEF CopyBlock
  <2>2. PICK k \in Nat : Len(hashed) = BlockSize * k
    BY <1>4, <2>1 DEF Reading
  <2>3. Window(rh) \in Seq(Byte) /\ Len(Window(rh)) = BlockSize
    BY <1>5, WindowIs
  <2>4. Len(hashed') = BlockSize * k + BlockSize
    <3>1. Len(hashed \o Window(rh)) = Len(hashed) + Len(Window(rh))
      BY <1>5, <2>3
    <3> QED  BY <2>1, <2>2, <2>3, <3>1, Zenon
  <2>5. BlockSize * (k + 1) = BlockSize * k + BlockSize
    BY BlockSizeIs
  <2>6. \E m \in Nat : Len(hashed') = BlockSize * m
    <3>1. k + 1 \in Nat
      OBVIOUS
    <3> QED  BY <2>4, <2>5, <3>1, Zenon
  <2>7. \A j \in DOMAIN ops' : ops'[j].op = "copy"
    BY <1>7, <1>8, <2>1, Zenon
  <2> QED  BY <2>1, <2>6, <2>7
<1>12. CASE RefillEnds
  <2>1. phase \in Reading /\ at = Len(new) /\ phase' \notin Reading
    BY <1>12 DEF RefillEnds, Reading
  <2>2. Held(rh) \in Seq(Byte) /\ Len(Held(rh)) = rh.count
    BY <1>5, HeldIs
  <2>3. CASE Held(rh) = <<>>
    <3>1. ops' = ops /\ literal' = literal \o Held(rh)
      BY <1>12, <2>3, Zenon DEF RefillEnds, Held
    <3> QED  BY <1>4, <2>1, <2>3, <3>1
  <2>4. CASE Held(rh) # <<>>
    <3>1. Match(sig, Held(rh)) # 0
      <4>1. rh.count # 0
        BY <2>2, <2>4
      <4> QED  BY <1>3, <2>1, <4>1, HeldMatches
    <3>2. ops' = Append(ops, OpCopy(Match(sig, Held(rh)))) /\ literal' = literal
      BY <1>12, <2>4, <3>1, Zenon DEF RefillEnds, Held
    <3>3. \A j \in DOMAIN ops' : ops'[j].op = "copy"
      BY <1>7, <1>8, <3>1, <3>2, Zenon
    <3> QED  BY <1>4, <2>1, <3>2, <3>3
  <2> QED  BY <2>3, <2>4
<1>13. CASE RollOn
  <2>1. phase \in Reading /\ phase = "main" /\ Match(sig, Window(rh)) = 0
    BY <1>13 DEF RollOn, Reading
  <2>2. rh.count = BlockSize
    BY <2>1 DEF HashInv, Progress
  <2>3. Held(rh) = Window(rh)
    BY <1>5, <2>2, WindowIs, BlockSizeIs DEF Held
  <2> QED  BY <1>3, <2>1, <2>2, <2>3, HeldMatches, BlockSizeIs
<1>14. CASE Flush
  BY <1>4, <1>6, <1>14 DEF Flush, Reading
<1>15. CASE Receive \/ ApplyDelta
  <2>1. UNCHANGED <<literal, ops>> /\ phase' \notin Reading
    BY <1>15, Zenon DEF Receive, ApplyDelta, Reading
  <2> QED  BY <1>4, <2>1
<1>16. CASE UNCHANGED vars
  BY <1>4, <1>16 DEF vars
<1> QED  BY <1>9, <1>10, <1>11, <1>12, <1>13, <1>14, <1>15, <1>16 DEF Next

\* A file that did not change and is not shorter than a block is sent without a
\* literal, whatever its length, its bytes and the collisions of weak hashes.
THEOREM UnchangedFilesAreCopied ==
  ASSUME BlockSize <= MaxBlockSize
  PROVE  Spec => []UnchangedIsCopied
<1>1. Init => HashInv /\ OnlyCopies
  BY InitHash, InitCopies
<1>2. (HashInv /\ OnlyCopies) /\ [Next]_vars => (HashInv /\ OnlyCopies)'
  BY NextHash, NextCopies
<1>3. HashInv /\ OnlyCopies => UnchangedIsCopied
  BY DEF OnlyCopies, UnchangedIsCopied, HashInv, Types, Same
<1> QED  BY <1>1, <1>2, <1>3, PTL DEF Spec

-----------------------------------------------------------------------------
(* A delta rebuilds the file *)

\* The operations that can be applied to a file.
Valid(file) == {o \in Operation : o.op = "copy" => o.block \in DOMAIN Signature(file)}

\* What operations write when they are applied to a file.
Says(file, o) == IF o.op = "copy" THEN Block(file, o.block, BlockSize) ELSE o.data
Text(file, os) == Concat([i \in DOMAIN os |-> Says(file, os[i])])

LEMMA ValidCopy ==
  ASSUME NEW file, NEW i \in DOMAIN Signature(file)
  PROVE  OpCopy(i) \in Valid(file) /\ Says(file, OpCopy(i)) = Block(file, i, BlockSize)
<1>1. i \in Nat \ {0}
  BY DEF Signature, GenerateSignature
<1> QED  BY <1>1, OperationsAre, Zenon DEF Valid, Says

LEMMA ValidData ==
  ASSUME NEW file, NEW d \in Seq(Byte)
  PROVE  OpData(d) \in Valid(file) /\ Says(file, OpData(d)) = d
<1>1. OpData(d) \in Operation /\ OpData(d).op = "data" /\ OpData(d).data = d
  BY OperationsAre, Zenon
<1>2. "data" # "copy"
  OBVIOUS
<1> QED  BY <1>1, <1>2, Zenon DEF Valid, Says

\* A valid operation copies a block that the file has.
LEMMA ValidIs ==
  ASSUME NEW file \in Seq(Byte), NEW o \in Valid(file)
  PROVE  /\ o \in Operation /\ Says(file, o) \in Seq(Byte)
         /\ o.op = "copy" => (o.block - 1) * BlockSize < Len(file)
<1>1. CASE o.op = "copy"
  <2>1. o.block \in DOMAIN Signature(file) /\ o.block \in Nat \ {0}
    BY <1>1 DEF Valid, Signature, GenerateSignature
  <2>2. PICK k \in Nat : o.block = k + 1 /\ o.block - 1 = k
    <3>1. o.block - 1 \in Nat /\ o.block = (o.block - 1) + 1
      BY <2>1
    <3> QED  BY <3>1, Zenon
  <2>3. BlockSize * k < Len(file)
    BY <2>1, <2>2, HasBlock, Zenon
  <2>4. Block(file, k + 1, BlockSize) \in Seq(Byte)
    BY <2>3, BlockIs, Zenon
  <2>5. (o.block - 1) * BlockSize < Len(file)
    <3>1. k * BlockSize = BlockSize * k
      BY BlockSizeIs
    <3> QED  BY <2>2, <2>3, <3>1, Zenon
  <2> QED  BY <1>1, <2>2, <2>4, <2>5, Zenon DEF Valid, Says
<1>2. CASE o.op # "copy"
  <2>1. o.data \in Seq(Byte)
    BY <1>2 DEF Valid, Operation
  <2> QED  BY <1>2, <2>1, Zenon DEF Valid, Says
<1> QED  BY <1>1, <1>2

LEMMA TextEmpty ==
  ASSUME NEW file
  PROVE  Text(file, <<>>) = <<>>
<1>1. [i \in DOMAIN <<>> |-> Says(file, <<>>[i])] = <<>>
  OBVIOUS
<1> QED  BY <1>1, ConcatEmpty, Zenon DEF Text

LEMMA TextIs ==
  ASSUME NEW file \in Seq(Byte), NEW os \in Seq(Valid(file))
  PROVE  Text(file, os) \in Seq(Byte)
<1> DEFINE parts == [i \in DOMAIN os |-> Says(file, os[i])]
<1>1. \A i \in DOMAIN os : Says(file, os[i]) \in Seq(Byte)
  BY ValidIs
<1>2. parts \in Seq(Seq(Byte))
  BY <1>1
<1> QED  BY <1>2, WritesType, Zenon DEF Text

\* One operation more.
LEMMA TextAppend ==
  ASSUME NEW file \in Seq(Byte), NEW os \in Seq(Valid(file)), NEW o \in Valid(file)
  PROVE  /\ Append(os, o) \in Seq(Valid(file))
         /\ Text(file, Append(os, o)) = Text(file, os) \o Says(file, o)
<1> DEFINE parts == [i \in DOMAIN os |-> Says(file, os[i])]
           part == Says(file, o)
           all == [i \in DOMAIN Append(os, o) |-> Says(file, Append(os, o)[i])]
<1>1. \A i \in DOMAIN os : Says(file, os[i]) \in Seq(Byte)
  BY ValidIs
<1>2. part \in Seq(Byte)
  BY ValidIs, Zenon
<1>3. /\ parts \in Seq(Seq(Byte)) /\ Len(parts) = Len(os) /\ Len(os) \in Nat
      /\ \A i \in 1..Len(os) : parts[i] = Says(file, os[i])
  BY <1>1
<1>4. /\ DOMAIN Append(os, o) = 1..(Len(os) + 1) /\ Append(os, o)[Len(os) + 1] = o
      /\ \A i \in 1..Len(os) : Append(os, o)[i] = os[i]
  OBVIOUS
<1>5. ASSUME NEW i \in 1..(Len(os) + 1)
      PROVE  all[i] = Append(parts, part)[i]
  <2> HIDE DEF parts, part
  <2>1. CASE i = Len(os) + 1
    <3>1. Append(parts, part)[i] = part
      BY <1>2, <1>3, <2>1
    <3> QED  BY <1>4, <2>1, <3>1, Zenon DEF part
  <2>2. CASE i # Len(os) + 1
    <3>1. i \in 1..Len(os)
      BY <1>3, <2>2
    <3>2. Append(parts, part)[i] = parts[i]
      BY <1>2, <1>3, <3>1
    <3> QED  BY <1>3, <1>4, <3>1, <3>2, Zenon
  <2> QED  BY <2>1, <2>2, Zenon
<1>6. all = Append(parts, part)
  <2> HIDE DEF parts, part
  <2>1. Append(parts, part) \in [1..(Len(os) + 1) -> Seq(Byte)]
    BY <1>2, <1>3, AppendIs, Zenon
  <2>2. all = [i \in 1..(Len(os) + 1) |-> all[i]]
    BY <1>4, Zenon
  <2> HIDE DEF all
  <2> QED  BY <1>5, <2>1, <2>2, Zenon
<1>7. Concat(Append(parts, part)) = Concat(parts) \o part
  <2> HIDE DEF parts, part
  <2> QED  BY <1>2, <1>3, ConcatAppend, Zenon
<1>8. Text(file, Append(os, o)) = Text(file, os) \o Says(file, o)
  BY <1>6, <1>7, Zenon DEF Text
<1> QED  BY <1>8

\* The operations so far say what was hashed, up to literalBuf, and are counted.
Tells ==
  /\ ops \in Seq(Valid(old)) /\ copied \in Nat /\ literals \in Nat
  /\ phase = "refill" => literal = <<>>
  /\ phase \in Reading \cup {"flush"} =>
       /\ Text(old, ops) \o literal = hashed
       /\ copied + literals + Len(literal) = Len(hashed)
  /\ phase \in Generated \ {"flush"} =>
       Text(old, ops) = hashed /\ copied + literals = Len(hashed)
  /\ DeltaApplies

LEMMA InitTells ==
  ASSUME Init
  PROVE  Tells
<1>1. ops \in Seq(Valid(old)) /\ <<>> \o <<>> = <<>> /\ 0 + 0 + Len(<<>>) = Len(<<>>)
  BY DEF Init
<1>2. Text(old, ops) = <<>>
  BY TextEmpty, Zenon DEF Init
<1>3. phase \notin Generated /\ phase # "refill" /\ phase # "applied"
  BY DEF Init, Generated
<1>4. copied \in Nat /\ literals \in Nat
  BY DEF Init
<1>5. Text(old, ops) \o literal = hashed /\ copied + literals + Len(literal) = Len(hashed)
  BY <1>1, <1>2, Zenon DEF Init
<1> QED  BY <1>1, <1>3, <1>4, <1>5, Zenon DEF Tells, DeltaApplies

\* literalBuf becomes an operation.
LEMMA WithLiteralIs ==
  ASSUME HashInv, Tells
  PROVE  WithLiteral \in Seq(Valid(old)) /\ Text(old, WithLiteral) = Text(old, ops) \o literal
<1>1. old \in Seq(Byte) /\ literal \in Seq(Byte) /\ ops \in Seq(Valid(old))
  BY DEF HashInv, Types, Tells
<1>2. CASE literal = <<>>
  <2>1. Text(old, ops) \in Seq(Byte)
    BY <1>1, TextIs, Zenon
  <2>2. Text(old, ops) \o <<>> = Text(old, ops)
    BY <2>1
  <2> QED  BY <1>1, <1>2, <2>2, Zenon DEF WithLiteral
<1>3. CASE literal # <<>>
  <2>1. OpData(literal) \in Valid(old) /\ Says(old, OpData(literal)) = literal
    BY <1>1, ValidData, Zenon
  <2>2. /\ Append(ops, OpData(literal)) \in Seq(Valid(old))
        /\ Text(old, Append(ops, OpData(literal))) = Text(old, ops) \o Says(old, OpData(literal))
    BY <1>1, <2>1, TextAppend, Zenon
  <2> QED  BY <1>3, <2>1, <2>2, Zenon DEF WithLiteral
<1> QED  BY <1>2, <1>3

\* A block that matches becomes an operation.
LEMMA WithCopyIs ==
  ASSUME NEW file \in Seq(Byte), NEW os \in Seq(Valid(file)), NEW d \in Seq(Byte),
         Match(Signature(file), d) # 0
  PROVE  LET all == Append(os, OpCopy(Match(Signature(file), d))) IN
         all \in Seq(Valid(file)) /\ Text(file, all) = Text(file, os) \o d
<1>1. PICK i \in DOMAIN Signature(file) :
        i = Match(Signature(file), d) /\ Block(file, i, BlockSize) = d
  BY MatchIs, Zenon
<1>2. OpCopy(i) \in Valid(file) /\ Says(file, OpCopy(i)) = d
  BY <1>1, ValidCopy, Zenon
<1>3. /\ Append(os, OpCopy(i)) \in Seq(Valid(file))
      /\ Text(file, Append(os, OpCopy(i))) = Text(file, os) \o Says(file, OpCopy(i))
  BY <1>2, TextAppend, Zenon
<1> QED  BY <1>1, <1>2, <1>3, Zenon

\* ApplyDelta accepts a whole delta for the file of the signature.
LEMMA ApplyIsOk ==
  ASSUME HashInv, Tells, ApplyDelta, base = old, packet = EncodeDelta
  PROVE  result'.ok
<1> DEFINE decoded == DecodeDelta(packet.body, packet.numOps)
           defined == \A i \in DOMAIN decoded.ops : ~Undefined(decoded.ops[i])
           out == Concat([i \in DOMAIN decoded.ops |-> Written(decoded.ops[i])])
<1>1. old \in Seq(Byte) /\ ops \in Seq(Valid(old)) /\ Text(old, ops) = hashed
  <2>1. phase = "received"
    BY DEF ApplyDelta
  <2>2. phase \in Generated \ {"flush"}
    BY <2>1 DEF Generated
  <2> QED  BY <2>2 DEF HashInv, Types, Tells
<1>2. /\ packet.size = Len(hashed) /\ packet.hash = hashed /\ packet.numOps = Len(ops)
      /\ packet.body = Concat(Encoded(ops))
  BY Zenon DEF EncodeDelta, Encoded
<1>3. ops \in Seq(Operation)
  <2>1. Valid(old) \subseteq Operation
    BY Zenon DEF Valid
  <2> QED  BY <1>1, <2>1
<1>4. decoded.ok /\ decoded.ops = ops
  BY <1>2, <1>3, DecodedIs, Zenon
<1>5. \A i \in DOMAIN ops : ops[i] \in Valid(old)
  BY <1>1
<1>6. defined
  <2>1. ASSUME NEW i \in DOMAIN ops
        PROVE  ~Undefined(ops[i])
    <3>1. ops[i].op = "copy" => (ops[i].block - 1) * BlockSize < Len(old)
      BY <1>1, <1>5, ValidIs, Zenon
    <3>2. PICK x : x = (ops[i].block - 1) * BlockSize
      OBVIOUS
    <3>4. PICK y \in Nat : y = Len(old)
      BY <1>1
    <3>3. ASSUME ops[i].op = "copy"
          PROVE  ~((ops[i].block - 1) * BlockSize >= Len(base))
      <4>1. ops[i].block \in Nat \ {0}
        BY <1>5, <3>3 DEF Valid, Signature, GenerateSignature
      <4>2. x \in Int
        BY <3>2, <4>1, BlockSizeIs
      <4>3. x < y
        BY <3>1, <3>2, <3>3, <3>4, Zenon
      <4>4. ~(x >= y)
        BY <4>2, <4>3
      <4> QED  BY <3>2, <3>4, <4>4, Zenon
    <3> QED  BY <3>3, Zenon DEF Undefined
  <2> HIDE DEF decoded
  <2> QED  BY <1>4, <2>1, Zenon
<1>7. out = hashed
  <2> HIDE DEF decoded
  <2>1. \A o : Written(o) = Says(old, o)
    BY Zenon DEF Written, Says
  <2>2. out = Text(old, ops)
    BY <1>4, <2>1, Zenon DEF Text
  <2> QED  BY <1>1, <2>2, Zenon
<1>8. Accepted(out)
  <2> HIDE DEF out
  <2> QED  BY <1>2, <1>7, Zenon DEF Accepted
<1>9. result' = IF decoded.ok /\ defined /\ Accepted(out) THEN [ok |-> TRUE, out |-> out]
                ELSE [ok |-> FALSE, out |-> <<>>]
  BY Zenon DEF ApplyDelta
<1> HIDE DEF decoded, defined, out
<1>10. result' = [ok |-> TRUE, out |-> out]
  BY <1>4, <1>6, <1>8, <1>9, Zenon
<1> QED  BY <1>10

LEMMA NextTells ==
  ASSUME HashInv, Tells, [Next]_vars
  PROVE  Tells'
<1>1. /\ old \in Seq(Byte) /\ new \in Seq(Byte) /\ rh \in Rolling
      /\ hashed \in Seq(Byte) /\ literal \in Seq(Byte)
  BY DEF HashInv, Types
<1>2. /\ Held(rh) \in Seq(Byte) /\ Len(Held(rh)) = rh.count
      /\ Window(rh) \in Seq(Byte) /\ Len(Window(rh)) = BlockSize
  BY <1>1, HeldIs, WindowIs, Zenon
<1>3. ops \in Seq(Valid(old)) /\ copied \in Nat /\ literals \in Nat
  BY DEF Tells
<1>4. PICK text \in Seq(Byte) : text = Text(old, ops)
  BY <1>1, <1>3, TextIs, Zenon
<1>5. ASSUME phase \in Reading \cup {"flush"}
      PROVE  /\ text \o literal = hashed /\ copied + literals + Len(literal) = Len(hashed)
             /\ phase = "refill" => literal = <<>>
  BY <1>4, <1>5, Zenon DEF Tells
<1>6. WithLiteral \in Seq(Valid(old)) /\ Text(old, WithLiteral) = text \o literal
  BY <1>4, WithLiteralIs, Zenon
<1>7. UNCHANGED <<old, new>>
  BY Zenon DEF Next, Fill, FillEnds, CopyBlock, Refill, RefillEnds, RollOn, Flush, Receive, ApplyDelta,
              files, vars
\* While the file is read.
<1>8. ASSUME phase' \in Reading \cup {"flush"}, phase' = "refill" => literal' = <<>>,
             ops' \in Seq(Valid(old)), Text(old, ops') \o literal' = hashed',
             copied' \in Nat, literals' \in Nat,
             copied' + literals' + Len(literal') = Len(hashed')
      PROVE  Tells'
  <2>1. phase' \notin Generated \ {"flush"} /\ phase' # "applied"
    BY <1>8 DEF Reading, Generated
  <2> QED  BY <1>7, <1>8, <2>1, Zenon DEF Tells, DeltaApplies
<1>9. CASE Fill \/ Refill
  <2>1. /\ UNCHANGED <<literal, ops, hashed, copied, literals>>
        /\ phase \in Reading /\ phase' \in Reading
        /\ phase' = "refill" => phase = "refill"
    BY <1>9 DEF Fill, Refill, Reading
  <2> QED  BY <1>3, <1>4, <1>5, <1>8, <2>1, Zenon
<1>10. CASE FillEnds
  <2>1. phase = "fill" /\ phase \in Reading /\ hashed = <<>>
    BY <1>10 DEF FillEnds, HashInv, Progress, Reading
  <2>2. UNCHANGED <<ops, copied, literals>>
    BY <1>10 DEF FillEnds
  <2>3. text \o literal = <<>> /\ copied + literals + Len(literal) = 0 /\ Len(hashed) = 0
    <3>1. Len(hashed) = 0
      BY <2>1
    <3> QED  BY <1>5, <2>1, <3>1, Zenon
  <2>4. text = <<>> /\ copied = 0 /\ literals = 0
    <3>1. Len(text) + Len(literal) = 0
      BY <1>1, <1>4, <2>3
    <3>2. Len(text) = 0
      BY <1>1, <1>4, <3>1
    <3>3. PICK n \in Nat : n = Len(literal)
      BY <1>1
    <3>4. copied + literals + n = 0
      BY <2>3, <3>3, Zenon
    <3> QED  BY <1>3, <1>4, <3>2, <3>4
  <2>5. CASE phase' = "main" /\ UNCHANGED <<literal, hashed>>
    <3>1. phase' \in Reading /\ phase' # "refill"
      BY <2>5 DEF Reading
    <3> QED  BY <1>3, <1>4, <1>5, <1>8, <2>1, <2>2, <2>5, <3>1, Zenon
  <2>6. CASE phase' = "flush" /\ hashed' = literal'
    <3>1. phase' # "refill"
      BY <2>6
    <3>2. literal' \in Seq(Byte)
      BY NextHash DEF HashInv, Types
    <3>3. <<>> \o literal' = literal' /\ 0 + 0 + Len(literal') = Len(literal')
      BY <3>2
    <3> QED  BY <1>3, <1>4, <1>8, <2>2, <2>4, <2>6, <3>1, <3>3, Zenon
  <2>7. phase' # "panic"
    BY NextHash DEF HashInv, Types, Reading, Generated
  <2> QED  BY <1>10, <2>5, <2>6, <2>7, Zenon DEF FillEnds
<1>11. CASE CopyBlock
  <2>1. /\ phase = "main" /\ ops' = Append(WithLiteral, OpCopy(Match(sig, Window(rh))))
        /\ Match(sig, Window(rh)) # 0 /\ literal' = <<>> /\ hashed' = hashed \o Window(rh)
        /\ literals' = literals + Len(literal) /\ copied' = copied + BlockSize
        /\ phase' = "refill"
    BY <1>11, Zenon DEF CopyBlock
  <2>2. phase \in Reading /\ phase' \in Reading
    BY <2>1 DEF Reading
  <2>3. ops' \in Seq(Valid(old)) /\ Text(old, ops') = hashed \o Window(rh)
    <3>1. sig = Signature(old)
      BY DEF sig, Signature
    <3>2. /\ Append(WithLiteral, OpCopy(Match(Signature(old), Window(rh)))) \in Seq(Valid(old))
          /\ Text(old, Append(WithLiteral, OpCopy(Match(Signature(old), Window(rh))))) =
               Text(old, WithLiteral) \o Window(rh)
      BY <1>1, <1>2, <1>6, <2>1, <3>1, WithCopyIs, Zenon
    <3> QED  BY <1>5, <1>6, <2>1, <2>2, <3>1, <3>2, Zenon
  <2>4. PICK h \in Seq(Byte) : h = hashed \o Window(rh) /\ Len(h) = Len(hashed) + BlockSize
    <3>1. /\ hashed \o Window(rh) \in Seq(Byte)
          /\ Len(hashed \o Window(rh)) = Len(hashed) + Len(Window(rh))
      BY <1>1, <1>2, Joined, Zenon
    <3> QED  BY <1>2, <3>1, Zenon
  <2>5. h \o <<>> = h
    OBVIOUS
  <2>6. /\ copied' \in Nat /\ literals' \in Nat
        /\ copied' + literals' + Len(literal') = Len(hashed')
    <3>1. PICK n \in Nat, m \in Nat : n = Len(literal) /\ m = Len(hashed)
      BY <1>1
    <3>2. copied + literals + n = m
      BY <1>5, <2>2, <3>1, Zenon
    <3>3. literals' = literals + n /\ copied' = copied + BlockSize /\ Len(hashed') = m + BlockSize
      BY <2>1, <2>4, <3>1, Zenon
    <3>4. Len(literal') = 0
      BY <2>1
    <3> QED  BY <1>3, <3>2, <3>3, <3>4, BlockSizeIs
  <2> QED  BY <1>8, <2>1, <2>2, <2>3, <2>4, <2>5, <2>6, Zenon
<1>12. CASE RefillEnds
  <2>1. /\ phase = "refill" /\ phase \in Reading /\ phase' = "flush" /\ phase' # "refill"
        /\ hashed' = hashed \o Held(rh) /\ literals' = literals
    BY <1>12 DEF RefillEnds, Reading, Held
  <2>2. /\ hashed = text /\ literal = <<>>
        /\ copied + literals + 0 = Len(hashed)
    <3>1. text \o <<>> = text /\ Len(<<>>) = 0
      OBVIOUS
    <3> QED  BY <1>5, <2>1, <3>1, Zenon
  <2>3. PICK n \in Nat, m \in Nat : n = Len(Held(rh)) /\ m = Len(hashed) /\ Len(hashed') = m + n
    <3>1. Len(hashed \o Held(rh)) = Len(hashed) + Len(Held(rh))
      BY <1>1, <1>2, Joined, Zenon
    <3>2. Len(Held(rh)) \in Nat /\ Len(hashed) \in Nat
      BY <1>1, <1>2
    <3> QED  BY <2>1, <3>1, <3>2, Zenon
  <2>4. CASE /\ ops' = Append(ops, OpCopy(Match(sig, Held(rh)))) /\ Match(sig, Held(rh)) # 0
             /\ copied' = copied + Len(Held(rh)) /\ literal' = literal
    <3>1. sig = Signature(old)
      BY DEF sig, Signature
    <3>2. /\ Append(ops, OpCopy(Match(Signature(old), Held(rh)))) \in Seq(Valid(old))
          /\ Text(old, Append(ops, OpCopy(Match(Signature(old), Held(rh))))) =
               Text(old, ops) \o Held(rh)
      BY <1>1, <1>2, <1>3, <2>4, <3>1, WithCopyIs, Zenon
    <3>3. ops' \in Seq(Valid(old)) /\ Text(old, ops') = hashed'
      BY <1>4, <2>1, <2>2, <2>4, <3>1, <3>2, Zenon
    <3>4. hashed' \o <<>> = hashed'
      <4>1. hashed' \in Seq(Byte)
        BY NextHash DEF HashInv, Types
      <4> QED  BY <4>1, Joined, Zenon
    <3>5. /\ copied' \in Nat /\ literals' \in Nat
          /\ copied' + literals' + Len(literal') = Len(hashed')
      <4>1. copied' = copied + n /\ literals' = literals /\ copied + literals + 0 = m
        BY <2>1, <2>2, <2>3, <2>4, Zenon
      <4>2. Len(literal') = 0
        BY <2>2, <2>4
      <4>3. copied \in Nat /\ literals \in Nat /\ Len(hashed') = m + n
        BY <1>3, <2>3, Zenon
      <4> QED  BY <4>1, <4>2, <4>3
    <3> QED  BY <1>8, <2>1, <2>2, <2>4, <3>3, <3>4, <3>5, Zenon
  <2>5. CASE ops' = ops /\ copied' = copied /\ literal' = literal \o Held(rh)
    <3>1. literal' = Held(rh)
      BY <1>2, <2>2, <2>5
    <3>2. copied' + literals' + Len(literal') = Len(hashed')
      <4>1. copied' = copied /\ literals' = literals /\ Len(literal') = n /\ copied + literals + 0 = m
        BY <2>1, <2>2, <2>3, <2>5, <3>1, Zenon
      <4> QED  BY <1>3, <2>3, <4>1
    <3> QED  BY <1>3, <1>4, <1>8, <2>1, <2>2, <2>5, <3>1, <3>2, Zenon
  <2> QED  BY <1>12, <2>4, <2>5, Zenon DEF RefillEnds, Held
<1>13. CASE RollOn
  <2>1. /\ phase = "main" /\ phase \in Reading
        /\ ops' = ops /\ copied' = copied /\ literals' = literals
    BY <1>13 DEF RollOn, Reading
  <2>2. PICK w \in Seq(Byte) : w = Window(rh) /\ Len(w) = BlockSize
    BY <1>2, Zenon
  <2>3. PICK n \in Nat, m \in Nat : n = Len(literal) /\ m = Len(hashed) /\ copied + literals + n = m
    <3>1. Len(literal) \in Nat /\ Len(hashed) \in Nat
      BY <1>1
    <3> QED  BY <1>5, <2>1, <3>1, Zenon
  <2>4. CASE at < Len(new)
    <3>1. PICK x \in Byte : x = Head(w)
      BY <2>2, BlockSizeIs
    <3>2. /\ literal' = Append(literal, x) /\ hashed' = Append(hashed, x)
          /\ phase' \in {"main", "panic"}
      BY <1>13, <2>2, <2>4, <3>1 DEF RollOn
    <3>3. phase' \in Reading /\ phase' # "refill"
      <4>1. phase' # "panic"
        BY NextHash DEF HashInv, Types, Reading, Generated
      <4> QED  BY <3>2, <4>1 DEF Reading
    <3>4. Text(old, ops') \o literal' = hashed'
      <4>0. literal \in Seq(Byte)
        BY <1>1
      <4>1. Append(text \o literal, x) = text \o Append(literal, x)
        BY <4>0, JoinedByOne, Zenon
      <4> QED  BY <1>4, <1>5, <2>1, <3>2, <4>1, Zenon
    <3>5. copied' + literals' + Len(literal') = Len(hashed')
      <4>1. Len(literal') = n + 1 /\ Len(hashed') = m + 1
        <5>1. /\ Len(Append(literal, x)) = Len(literal) + 1
              /\ Len(Append(hashed, x)) = Len(hashed) + 1
          BY <1>1, AppendIs, Zenon
        <5> QED  BY <2>3, <3>2, <5>1, Zenon
      <4> QED  BY <1>3, <2>1, <2>3, <4>1
    <3> QED  BY <1>3, <1>8, <2>1, <3>3, <3>4, <3>5, Zenon
  <2>5. CASE ~(at < Len(new))
    <3>1. literal' = literal \o w /\ hashed' = hashed \o w /\ phase' = "flush" /\ phase' # "refill"
      BY <1>13, <2>2, <2>5 DEF RollOn
    <3>2. Text(old, ops') \o literal' = hashed'
      <4>1. (text \o literal) \o w = text \o (literal \o w)
        <5>1. literal \in Seq(Byte)
          BY <1>1
        <5> QED  BY <5>1, JoinedTwice, Zenon
      <4> QED  BY <1>4, <1>5, <2>1, <3>1, <4>1, Zenon
    <3>3. copied' + literals' + Len(literal') = Len(hashed')
      <4>1. Len(literal \o w) = Len(literal) + Len(w) /\ Len(hashed \o w) = Len(hashed) + Len(w)
        BY <1>1, Joined, Zenon
      <4>2. Len(literal') = n + BlockSize /\ Len(hashed') = m + BlockSize
        BY <2>2, <2>3, <3>1, <4>1, Zenon
      <4>3. /\ copied \in Nat /\ literals \in Nat /\ copied + literals + n = m
            /\ copied' = copied /\ literals' = literals
        BY <1>3, <2>1, <2>3, Zenon
      <4> QED  BY <4>2, <4>3, BlockSizeIs
    <3> QED  BY <1>3, <1>8, <2>1, <3>1, <3>2, <3>3, Zenon
  <2> QED  BY <2>4, <2>5
\* Afterwards.
<1>14. ASSUME phase' \in Generated \ {"flush"}, ops' \in Seq(Valid(old)),
              Text(old, ops') = hashed', copied' \in Nat, literals' \in Nat,
              copied' + literals' = Len(hashed'), DeltaApplies'
       PROVE  Tells'
  <2>1. phase' \notin Reading \cup {"flush"} /\ phase' # "refill"
    BY <1>14 DEF Reading, Generated
  <2> QED  BY <1>7, <1>14, <2>1, Zenon DEF Tells
<1>15. CASE Flush
  <2>1. /\ phase = "flush" /\ phase' = "generated" /\ ops' = WithLiteral /\ copied' = copied
        /\ literals' = literals + Len(literal) /\ hashed' = hashed
    BY <1>15 DEF Flush
  <2>2. /\ phase' \in Generated \ {"flush"} /\ phase \in Reading \cup {"flush"}
        /\ phase' # "applied"
    BY <2>1 DEF Generated
  <2>3. /\ copied' \in Nat /\ literals' \in Nat /\ copied' + literals' = Len(hashed')
    <3>1. PICK n \in Nat, m \in Nat : n = Len(literal) /\ m = Len(hashed)
      BY <1>1
    <3>2. literals' = literals + n /\ Len(hashed') = m /\ copied + literals + n = m
      BY <1>5, <2>1, <2>2, <3>1, Zenon
    <3> QED  BY <1>3, <2>1, <3>1, <3>2
  <2>4. DeltaApplies'
    BY <2>2, Zenon DEF DeltaApplies
  <2> QED  BY <1>5, <1>6, <1>14, <2>1, <2>2, <2>3, <2>4, Zenon
<1>16. ASSUME phase \in Generated \ {"flush"}
       PROVE  Text(old, ops) = hashed /\ copied + literals = Len(hashed)
  BY <1>16 DEF Tells
<1>17. CASE Receive
  <2>1. phase = "generated" /\ phase' = "received" /\ UNCHANGED <<ops, copied, literals, hashed>>
    BY <1>17 DEF Receive
  <2>2. /\ phase' \in Generated \ {"flush"} /\ phase \in Generated \ {"flush"}
        /\ phase' # "applied"
    BY <2>1 DEF Generated
  <2>3. DeltaApplies'
    BY <2>2, Zenon DEF DeltaApplies
  <2> QED  BY <1>3, <1>14, <1>16, <2>1, <2>2, <2>3, Zenon
<1>18. CASE ApplyDelta
  <2>1. /\ phase = "received" /\ phase' = "applied"
        /\ UNCHANGED <<ops, copied, literals, hashed, packet, base>>
    BY <1>18, Zenon DEF ApplyDelta
  <2>2. phase' \in Generated \ {"flush"} /\ phase \in Generated \ {"flush"} /\ phase \in Generated
    BY <2>1 DEF Generated
  <2>3. base' = old' /\ packet' = EncodeDelta' => result'.ok
    <3>1. EncodeDelta' = EncodeDelta
      BY <2>1, Zenon DEF EncodeDelta
    <3> QED  BY <1>7, <1>18, <2>1, <3>1, ApplyIsOk, Zenon
  <2>4. copied' + literals' = Len(new')
    <3>1. hashed = new
      BY <2>2 DEF HashInv, Hashed
    <3> QED  BY <1>7, <1>16, <2>1, <2>2, <3>1, Zenon
  <2>5. DeltaApplies'
    BY <2>3, <2>4, Zenon DEF DeltaApplies
  <2> QED  BY <1>3, <1>14, <1>16, <2>1, <2>2, <2>5, Zenon
<1>19. CASE UNCHANGED vars
  <2>1. UNCHANGED <<old, new, phase, literal, ops, hashed, copied, literals, packet, base, result>>
    BY <1>19 DEF vars
  <2> QED  BY <2>1, Zenon DEF Tells, DeltaApplies, EncodeDelta
<1> QED  BY <1>9, <1>10, <1>11, <1>12, <1>13, <1>15, <1>17, <1>18, <1>19 DEF Next

\* A delta that arrives whole at the file of its signature is accepted, and its
\* statistics account for every byte: for files of any length, with any bytes.
THEOREM WholeDeltasApply ==
  ASSUME BlockSize <= MaxBlockSize
  PROVE  Spec => []DeltaApplies
<1>1. Init => HashInv /\ Tells
  BY InitHash, InitTells
<1>2. (HashInv /\ Tells) /\ [Next]_vars => (HashInv /\ Tells)'
  BY NextHash, NextTells
<1>3. HashInv /\ Tells => DeltaApplies
  BY DEF Tells
<1> QED  BY <1>1, <1>2, <1>3, PTL DEF Spec
=============================================================================
