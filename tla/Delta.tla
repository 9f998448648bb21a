-------------------------------- MODULE Delta --------------------------------
(***************************************************************************)
(* The delta codec (internal/delta/delta.go): GenerateDelta reads a new    *)
(* file byte by byte and says it in blocks of an old one and in literals,  *)
(* the delta travels encoded, and ApplyDelta rebuilds the new file.        *)
(*                                                                         *)
(* Blocks count from 1 here, from 0 in the code.                           *)
(***************************************************************************)
EXTENDS RollingHash

CONSTANTS
  File,       \* contents of files, sequences of bytes
  BlockSize   \* of the signature

\* With blocks of more than twice MaxBlockSize even Window panics, which is left out.
ASSUME DeltaAssumption ==
  BlockSize \in 1..2 * MaxBlockSize /\ \A f \in File : f \in Seq(0..255)

VARIABLES
  old, new,   \* the two files
  phase,      \* where GenerateDelta, the transfer and ApplyDelta are
  at,         \* bytes of the new file that were read
  rh,         \* the rolling hash
  literal,    \* literalBuf
  ops,        \* operations emitted
  hashed,     \* the bytes that went into fileHasher
  copied, literals,  \* BytesCopied and BytesLiteral
  packet,     \* the encoded delta as it was received
  base,       \* the receiver's file when the delta arrives
  result      \* what ApplyDelta returned and wrote

vars == <<old, new, phase, at, rh, literal, ops, hashed, copied, literals, packet, base, result>>
files == <<old, new>>
transfer == <<packet, base, result>>

sig == GenerateSignature(old, BlockSize)
OpCopy(i) == [op |-> "copy", block |-> i]
OpData(d) == [op |-> "data", data |-> d]

Init ==
  /\ old \in File /\ new \in File
  /\ phase = "fill" /\ at = 0 /\ rh = NewRollingHash(BlockSize)
  /\ literal = <<>> /\ ops = <<>> /\ hashed = <<>> /\ copied = 0 /\ literals = 0
  /\ packet = <<>> /\ base = <<>> /\ result = <<>>
-----------------------------------------------------------------------------
(* GenerateDelta. *)

\* The first window is filled.
Fill ==
  /\ phase = "fill" /\ at < Min({BlockSize, Len(new)})
  /\ at' = at + 1
  /\ rh' = RollIn(rh, new[at'])
  /\ UNCHANGED <<files, phase, literal, ops, hashed, copied, literals, transfer>>

\* The file ends within it: all of it is a literal.  Slicing a window that is
\* shorter than the bytes read panics.
FillEnds ==
  /\ phase = "fill" /\ at = Min({BlockSize, Len(new)})
  /\ IF at = BlockSize THEN phase' = "main" /\ UNCHANGED <<literal, hashed>>
     ELSE IF at > Len(Window(rh)) THEN phase' = "panic" /\ UNCHANGED <<literal, hashed>>
     ELSE /\ phase' = "flush"
          /\ literal' = SubSeq(Window(rh), 1, at)
          /\ hashed' = literal'
  /\ UNCHANGED <<files, at, rh, ops, copied, literals, transfer>>

\* literalBuf becomes an operation, if there is something in it.
WithLiteral == IF literal = <<>> THEN ops ELSE Append(ops, OpData(literal))

\* The window is a block of the old file.
CopyBlock ==
  LET window == Window(rh)  i == Match(sig, window) IN
  /\ phase = "main" /\ IsFull(rh) /\ i # 0
  /\ ops' = Append(WithLiteral, OpCopy(i))
  /\ literals' = literals + Len(literal)
  /\ literal' = <<>>
  /\ copied' = copied + BlockSize
  /\ hashed' = hashed \o window
  /\ rh' = Reset(rh, BlockSize)
  /\ phase' = "refill"
  /\ UNCHANGED <<files, at, transfer>>

\* The next window is filled after a match.
Refill ==
  /\ phase = "refill" /\ rh.count < BlockSize /\ at < Len(new)
  /\ at' = at + 1
  /\ rh' = RollIn(rh, new[at'])
  /\ phase' = IF rh'.count = BlockSize THEN "main" ELSE "refill"
  /\ UNCHANGED <<files, literal, ops, hashed, copied, literals, transfer>>

\* A bug to avoid: what is left at the end is not looked up.
RefillEndsPlain ==
  LET partial == SubSeq(Window(rh), 1, rh.count) IN
  /\ phase = "refill" /\ at = Len(new)
  /\ literal' = literal \o partial
  /\ hashed' = hashed \o partial
  /\ phase' = "flush"
  /\ UNCHANGED <<files, at, rh, ops, copied, literals, transfer>>

\* The file ends within it: what is left may be the short last block, or else it
\* is a literal.
RefillEnds ==
  LET partial == SubSeq(Window(rh), 1, rh.count)
      i == IF partial = <<>> THEN 0 ELSE Match(sig, partial) IN
  /\ phase = "refill" /\ at = Len(new)
  /\ IF i # 0
       THEN /\ ops' = Append(ops, OpCopy(i)) /\ copied' = copied + Len(partial)
            /\ UNCHANGED literal
       ELSE literal' = literal \o partial /\ UNCHANGED <<ops, copied>>
  /\ hashed' = hashed \o partial
  /\ phase' = "flush"
  /\ UNCHANGED <<files, at, rh, literals, transfer>>

\* A bug to avoid: at the end the oldest byte is written a second time.
RollOnTwice ==
  LET window == Window(rh) IN
  /\ phase = "main" /\ IsFull(rh) /\ Match(sig, window) = 0
  /\ IF at < Len(new)
       THEN /\ at' = at + 1 /\ rh' = Roll(rh, new[at'])
            /\ literal' = Append(literal, Head(window))
            /\ hashed' = Append(hashed, Head(window))
            /\ UNCHANGED phase
       ELSE /\ literal' = Append(literal, Head(window)) \o window
            /\ hashed' = Append(hashed, Head(window)) \o window
            /\ phase' = "flush"
            /\ UNCHANGED <<at, rh>>
  /\ UNCHANGED <<files, ops, copied, literals, transfer>>

\* No match: the oldest byte is a literal and the window moves on by one, or the
\* rest of it is literal too.  The hash of the moved window is computed at once.
RollOn ==
  LET window == Window(rh) IN
  /\ phase = "main" /\ IsFull(rh) /\ Match(sig, window) = 0
  /\ IF at < Len(new)
       THEN /\ at' = at + 1 /\ rh' = Roll(rh, new[at'])
            /\ literal' = Append(literal, Head(window))
            /\ hashed' = Append(hashed, Head(window))
            /\ phase' = IF BadStart(rh') THEN "panic" ELSE "main"
       ELSE /\ literal' = literal \o window
            /\ hashed' = hashed \o window
            /\ phase' = "flush"
            /\ UNCHANGED <<at, rh>>
  /\ UNCHANGED <<files, ops, copied, literals, transfer>>

Flush ==
  /\ phase = "flush"
  /\ ops' = WithLiteral
  /\ literals' = literals + Len(literal)
  /\ phase' = "generated"
  /\ UNCHANGED <<files, at, rh, literal, hashed, copied, transfer>>
-----------------------------------------------------------------------------
(* The transfer, and ApplyDelta. *)

\* What a loop writes: the parts one after the other.
Concat(parts) ==
  LET written[n \in 0..Len(parts)] == IF n = 0 THEN <<>> ELSE written[n - 1] \o parts[n]
  IN written[Len(parts)]

\* Delta.Encode: a header, then each operation with its opcode.
EncodeOp(o) == IF o.op = "copy" THEN <<1, o.block>> ELSE <<2, Len(o.data)>> \o o.data
EncodeDelta == [size |-> Len(hashed), hash |-> hashed, numOps |-> Len(ops),
                body |-> Concat([i \in DOMAIN ops |-> EncodeOp(ops[i])])]

\* The delta is received, whole or cut off after the header.  Meanwhile the
\* receiver's file is the old one, has lost its last byte or has others.
Receive ==
  /\ phase = "generated"
  /\ \E n \in 0..Len(EncodeDelta.body) :
       packet' = [EncodeDelta EXCEPT !.body = SubSeq(@, 1, n)]
  /\ base' \in {old, SubSeq(old, 1, Len(old) - 1), [i \in DOMAIN old |-> old[Len(old) + 1 - i]]}
  /\ phase' = "received"
  /\ UNCHANGED <<files, at, rh, literal, ops, hashed, copied, literals, result>>

\* One round of DecodeDelta, from the offset on: an operation that is cut off is an
\* error, and a body that ends before the last one is not.
DecodeOp(body, d) ==
  LET end == d.offset + 2 + (IF body[d.offset + 1] = 1 THEN 0 ELSE body[d.offset + 2])
      op == IF body[d.offset + 1] = 1 THEN OpCopy(body[d.offset + 2])
            ELSE OpData(SubSeq(body, d.offset + 3, end)) IN
  IF ~d.ok \/ d.offset = Len(body) THEN d
  ELSE IF Len(body) < d.offset + 2 \/ Len(body) < end THEN [d EXCEPT !.ok = FALSE]
  ELSE [ok |-> TRUE, offset |-> end, ops |-> Append(d.ops, op)]

DecodeDelta(body, numOps) ==
  LET decoded[n \in 0..numOps] ==
        IF n = 0 THEN [ok |-> TRUE, offset |-> 0, ops |-> <<>>]
        ELSE DecodeOp(body, decoded[n - 1])
  IN decoded[numOps]

\* What an operation writes: a block of the receiver's file, or the data.
Written(o) == IF o.op = "copy" THEN Block(base, o.block, BlockSize) ELSE o.data

\* The oldBlocks of the receiver fails for a block its file does not have.
Undefined(o) == o.op = "copy" /\ (o.block - 1) * BlockSize >= Len(base)

\* A bug to avoid: the sizes are compared, but not the hashes.
AcceptedBySize(out) == Len(out) = packet.size

Accepted(out) == out = packet.hash /\ Len(out) = packet.size

ApplyDelta ==
  LET decoded == DecodeDelta(packet.body, packet.numOps)
      defined == \A i \in DOMAIN decoded.ops : ~Undefined(decoded.ops[i])
      out == Concat([i \in DOMAIN decoded.ops |-> Written(decoded.ops[i])]) IN
  /\ phase = "received"
  /\ phase' = "applied"
  /\ result' = IF decoded.ok /\ defined /\ Accepted(out) THEN [ok |-> TRUE, out |-> out]
               ELSE [ok |-> FALSE, out |-> <<>>]
  /\ UNCHANGED <<files, at, rh, literal, ops, hashed, copied, literals, packet, base>>

Next ==
  \/ Fill \/ FillEnds \/ CopyBlock \/ Refill \/ RefillEnds \/ RollOn \/ Flush
  \/ Receive \/ ApplyDelta

Spec == Init /\ [][Next]_vars

-----------------------------------------------------------------------------

\* What ApplyDelta accepts is the new file, byte for byte: not if the delta was
\* cut off, if the old file changed since its signature was made, or if blocks
\* have the same weak hash.
AppliedIsNew == phase = "applied" /\ result.ok => result.out = new

\* A delta that arrives whole at the file of the signature is accepted, and its
\* statistics account for every byte.
DeltaApplies ==
  phase = "applied" /\ base = old /\ packet = EncodeDelta =>
    result.ok /\ copied + literals = Len(new)

\* A file that did not change is sent without a literal, its short last block
\* included, unless it is shorter than a block.
UnchangedIsCopied ==
  phase = "received" /\ new = old /\ Len(new) >= BlockSize =>
    \A i \in DOMAIN ops : ops[i].op = "copy"

\* NewFileHash is the hash of the new file.
HashIsOfNewFile == phase \in {"generated", "received", "applied"} => hashed = new
=============================================================================
