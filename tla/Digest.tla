-------------------------------- MODULE Digest --------------------------------
(***************************************************************************)
(* How a vendor library is hashed before it is trusted: fileSha256 of      *)
(* tc002/VendorLibrary.cpp reads the file in pieces and the class of       *)
(* tc002/Sha256.h cuts what it is given into blocks and pads the last one. *)
(*                                                                         *)
(* The compression of a block is not modelled: a digest stands for the     *)
(* blocks it was made of, one after the other.                             *)
(***************************************************************************)
EXTENDS Integers, Sequences

CONSTANTS
  Block,     \* bytes of a block: 64
  Weights,   \* of the bytes of the length: 2^56, ..., 256, 1
  Piece,     \* bytes read at a time: 16384
  Bytes,     \* what a file may hold
  MaxFile    \* bound: bytes of a file

DigestAssumption ==
  /\ Block \in Nat /\ Piece \in Nat \ {0} /\ MaxFile \in Nat
  /\ Weights \in Seq(Nat \ {0}) /\ 0 < Len(Weights) /\ Len(Weights) < Block
  /\ Bytes \subseteq 0..255

VARIABLES
  rest,      \* of the file, not read yet
  at,        \* "read", and of finish "one", "zeros" and "length"
  data,      \* given to update and not taken yet
  length,    \* length_
  bits,      \* of finish
  block,     \* block_ up to fill_
  hashed,    \* the blocks that were transformed
  read,      \* history: what was read of the file
  padding    \* history: what finish gave to update

vars == <<rest, at, data, length, bits, block, hashed, read, padding>>

Minimum(a, b) == IF a < b THEN a ELSE b
From(s, n) == SubSeq(s, n + 1, Len(s))

\* Variant: what fills a block up exactly is left for the next time.
Overfull(filled) == Len(filled) > Block

Full(filled) == Len(filled) = Block

\* One turn of the loop of update.
Take ==
  LET taken == Minimum(Len(data), Block - Len(block))
      filled == block \o SubSeq(data, 1, taken)
  IN  /\ data # <<>>
      /\ data' = From(data, taken)
      /\ hashed' = IF Full(filled) THEN hashed \o filled ELSE hashed
      /\ block' = IF Full(filled) THEN <<>> ELSE filled
      /\ UNCHANGED <<rest, at, length, bits, read, padding>>

Update(bytes) ==
  /\ data = <<>>
  /\ data' = bytes
  /\ length' = length + Len(bytes)
  /\ UNCHANGED <<block, hashed>>

Feed(n) ==
  /\ Update(SubSeq(rest, 1, n))
  /\ read' = read \o SubSeq(rest, 1, n)
  /\ rest' = From(rest, n)
  /\ UNCHANGED <<bits, padding>>

ReadPiece ==
  /\ at = "read" /\ Len(rest) >= Piece
  /\ Feed(Piece)
  /\ UNCHANGED at

\* A piece that is cut short by the end of the file, or an error, is the last.
ReadLast ==
  /\ at = "read"
  /\ \E n \in 0..Minimum(Len(rest), Piece - 1) : Feed(n)
  /\ at' = "one"

Pad(bytes) ==
  /\ Update(bytes)
  /\ padding' = padding \o bytes
  /\ UNCHANGED <<rest, read>>

FinishOne ==
  /\ at = "one"
  /\ Pad(<<128>>)
  /\ bits' = length * 8
  /\ at' = "zeros"

FinishZero ==
  /\ at = "zeros" /\ Len(block) # Block - Len(Weights)
  /\ Pad(<<0>>)
  /\ UNCHANGED <<bits, at>>

LengthBytes(n) == [i \in 1..Len(Weights) |-> (n \div Weights[i]) % 256]

FinishLength ==
  /\ at = "zeros" /\ Len(block) = Block - Len(Weights)
  /\ Pad(LengthBytes(bits))
  /\ at' = "length"
  /\ UNCHANGED bits

Init ==
  /\ rest \in UNION {[1..n -> Bytes] : n \in 0..MaxFile}
  /\ at = "read"
  /\ data = <<>> /\ length = 0 /\ bits = 0
  /\ block = <<>> /\ hashed = <<>> /\ read = <<>> /\ padding = <<>>

Next == Take \/ ReadPiece \/ ReadLast \/ FinishOne \/ FinishZero \/ FinishLength

Spec == Init /\ [][Next]_vars

-----------------------------------------------------------------------------
TypeOK ==
  /\ {rest, data, block, hashed, read, padding} \subseteq Seq(Int)
  /\ at \in {"read", "one", "zeros", "length"}
  /\ length \in Nat /\ bits \in Nat
  /\ Len(block) < Block

\* What the standard has after a message of n bytes: one bit, then as few zeros
\* as make the blocks come out even, and the number of bits.
IsPadding(p, n) ==
  LET zeros == Len(p) - 1 - Len(Weights)
  IN  /\ 0 <= zeros /\ zeros < Block
      /\ (n + Len(p)) % Block = 0
      /\ p[1] = 128
      /\ \A i \in 2..1 + zeros : p[i] = 0
      /\ From(p, 1 + zeros) = LengthBytes(8 * n)

\* However a file falls into pieces and the pieces into blocks, the digest is
\* the standard's of what was read of the file: each byte once and in order, the
\* padding whole, and nothing left over.
DigestIsStandard ==
  at = "length" /\ data = <<>> =>
    /\ hashed = read \o padding /\ block = <<>>
    /\ IsPadding(padding, Len(read))
=============================================================================
