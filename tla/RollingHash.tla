---------------------------- MODULE RollingHash ----------------------------
(***************************************************************************)
(* The rolling hash and the block signatures of the delta codec            *)
(* (internal/delta/rolling.go), as operators on the circular window.       *)
(*                                                                         *)
(* The code recomputes the hash from the window at every change, so that   *)
(* it is a function of the window here.  A strong hash is the data itself. *)
(***************************************************************************)
EXTENDS Integers, Sequences, FiniteSets, FiniteSetsExt

CONSTANTS
  MaxBlockSize,
  RollingHashMod  \* a small one, so that weak hashes collide

ASSUME RollingHashAssumption == MaxBlockSize \in Nat \ {0} /\ RollingHashMod \in Nat \ {0}

\* The window is cleared; its length stays, whatever the block size.
Reset(rh, blockSize) ==
  [window |-> [i \in DOMAIN rh.window |-> 0], pos |-> 0, count |-> 0, blockSize |-> blockSize]

NewRollingHash(blockSize) ==
  LET size == Min({blockSize, MaxBlockSize}) IN
    Reset([window |-> [i \in 0..size - 1 |-> 0]], size)

\* The length of the circular buffer.
Size(rh) == Cardinality(DOMAIN rh.window)

Shift(rh, b, count) ==
  [window |-> [rh.window EXCEPT ![rh.pos] = b], pos |-> (rh.pos + 1) % Size(rh),
   count |-> count, blockSize |-> rh.blockSize]

\* A byte that comes when the window is full is dropped.
RollIn(rh, b) == IF rh.count < rh.blockSize THEN Shift(rh, b, rh.count + 1) ELSE rh

Roll(rh, b) == Shift(rh, b, rh.count)

IsFull(rh) == rh.count >= rh.blockSize

\* Where the oldest byte is.
Start(rh) == (rh.pos - rh.count + Size(rh)) % Size(rh)

\* Go's remainder of a negative number is negative: as an index it panics.
BadStart(rh) == rh.pos - rh.count + Size(rh) < 0 /\ Start(rh) # 0

\* The bytes in order, from the oldest, filled up with zeros.
Window(rh) ==
  [i \in 1..rh.blockSize |->
     IF i <= rh.count THEN rh.window[(Start(rh) + i - 1) % Size(rh)] ELSE 0]

\* The weak hash as the code folds it over the bytes.
WeakHash(data) ==
  LET hash[n \in 0..Len(data)] ==
        IF n = 0 THEN [a |-> 1, b |-> 0]
        ELSE LET h == hash[n - 1]
                 a == (h.a + data[n]) % RollingHashMod
             IN [a |-> a, b |-> (h.b + a) % RollingHashMod]
  IN hash[Len(data)]

ComputeBlockSignature(data) == [weak |-> WeakHash(data), strong |-> data]

\* Block i of a file, from 1; the last one may be short.
Block(file, i, blockSize) ==
  SubSeq(file, (i - 1) * blockSize + 1, Min({i * blockSize, Len(file)}))

GenerateSignature(file, blockSize) ==
  [i \in 1..((Len(file) + blockSize - 1) \div blockSize) |->
     ComputeBlockSignature(Block(file, i, blockSize))]

FindByWeakHash(sig, weak) == {i \in DOMAIN sig : sig[i].weak = weak}

\* The first candidate with the strong hash of the data, 0 if there is none.
Match(sig, data) ==
  LET hash == ComputeBlockSignature(data)
      found == {i \in FindByWeakHash(sig, hash.weak) : sig[i].strong = hash.strong} IN
  IF found = {} THEN 0 ELSE Min(found)
=============================================================================
