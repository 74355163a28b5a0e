-------------------------------- MODULE McuLink --------------------------------
(***************************************************************************)
(* The serial line to the clock's microcontroller (tc002/Tc002Hardware.cpp)*)
(* which answers queries with packets: two header bytes, command, length,  *)
(* payload and a checksum of two bytes.  The line may lose the end of a    *)
(* packet.  tickMcu reads what has come in pieces of any size and takes    *)
(* packets out of it with parseMcuPacket.                                  *)
(*                                                                         *)
(* Bytes are digits to a small base, so that the checksum still takes both *)
(* of its bytes.                                                           *)
(***************************************************************************)
EXTENDS Integers, Sequences, FiniteSetsExt

CONSTANTS
  Base,        \* of a byte, 256
  MaxPayload,  \* 32
  RxLimit,     \* 256
  MaxPackets   \* bound: packets sent

Overhead == 6   \* bytes of a packet beside its payload

\* The first byte of a header differs from the second and from any command, which
\* is the number of its packet.
McuLinkAssumption ==
  /\ {Base, MaxPayload, RxLimit} \subseteq Nat \ {0}
  /\ Base > 3 /\ MaxPackets \in 0..Base - 2
  /\ RxLimit >= MaxPayload + Overhead
  /\ MaxPayload < Base - 1

VARIABLES
  packets,  \* history: what was sent, in order, and whether it came whole
  line,     \* bytes the UART has received and nobody has read
  rx,       \* rx_
  parsing,  \* tickMcu is taking packets out of rx_
  got,      \* commands of the packets taken
  chance    \* history: what was taken is no packet that came, but has the sum
            \*   of one by chance

vars == <<packets, line, rx, parsing, got, chance>>

Byte == 0..Base - 1
Header == <<Base - 1, 2>>
\* What a sum of 16 bits makes of them.
SumOf(bytes) ==
  LET upto[n \in 0..Len(bytes)] ==
        IF n = 0 THEN 0 ELSE (upto[n - 1] + bytes[n]) % (Base * Base)
  IN  upto[Len(bytes)]

\* mcuPacket, which the microcontroller uses as well.
McuPacket(command, payload) ==
  LET front == Header \o <<command, Len(payload)>> \o payload
      sum == SumOf(front)
  IN  front \o <<sum \div Base, sum % Base>>

-----------------------------------------------------------------------------
\* A packet could begin at i, going by what has come of it.
LooksRight(bytes, i) == SubSeq(bytes, i, i + 1) = Header /\ bytes[i + 3] <= MaxPayload

SizeAt(bytes, i) == bytes[i + 3] + Overhead

SumAgrees(bytes, i) ==
  LET n == SizeAt(bytes, i)
      sum == SumOf(SubSeq(bytes, i, i + n - 3))
  IN  sum = bytes[i + n - 2] * Base + bytes[i + n - 1]

\* parseMcuPacket stops at the first place where too little has come to tell,
\* or a packet that is complete and has its sum.  Everything before it goes,
\* byte by byte.
Stops(bytes, i) ==
  LET left == Len(bytes) - i + 1
  IN  \/ left < Overhead
      \/ LooksRight(bytes, i) /\ (left < SizeAt(bytes, i) \/ SumAgrees(bytes, i))

\* Variant: a packet with the wrong sum goes as a whole.
ParseWholesale(bytes) ==
  IF Len(bytes) >= Overhead /\ LooksRight(bytes, 1) /\ Len(bytes) >= SizeAt(bytes, 1)
     /\ ~SumAgrees(bytes, 1)
    THEN SizeAt(bytes, 1) + 1
    ELSE Min({i \in 1..Len(bytes) + 1 : Stops(bytes, i)})

Parse(bytes) == Min({i \in 1..Len(bytes) + 1 : Stops(bytes, i)})

Whole == {packets[k].bytes : k \in {k \in DOMAIN packets : packets[k].whole}}

\* The microcontroller sends a packet, of which the end may get lost.
Answer ==
  /\ Len(packets) < MaxPackets
  /\ \E size \in 0..MaxPayload :
       LET packet == McuPacket(Len(packets) + 1, [i \in 1..size |-> i])
       IN  \E n \in 1..Len(packet) :
             /\ line' = line \o SubSeq(packet, 1, n)
             /\ packets' = Append(packets, [bytes |-> packet, whole |-> n = Len(packet)])
  /\ UNCHANGED <<rx, parsing, got, chance>>

\* A read returns what has come, or as much as there is room for.
Read ==
  /\ ~parsing /\ line # <<>>
  /\ \E n \in 1..Len(line) :
       /\ rx' = rx \o SubSeq(line, 1, n)
       /\ line' = SubSeq(line, n + 1, Len(line))
  /\ parsing' = TRUE
  /\ UNCHANGED <<packets, got, chance>>

\* One call of parseMcuPacket, and at the end of the loop the limit of rx_.
Take ==
  /\ parsing
  /\ LET at == Parse(rx)
         rest == SubSeq(rx, at, Len(rx))
         there == Len(rest) >= Overhead /\ Len(rest) >= SizeAt(rest, 1)
     IN  IF there
           THEN /\ got' = got \cup {rest[3]}
                /\ chance' = (chance \/ SubSeq(rest, 1, SizeAt(rest, 1)) \notin Whole)
                /\ rx' = SubSeq(rest, SizeAt(rest, 1) + 1, Len(rest))
                /\ UNCHANGED parsing
           ELSE /\ rx' = IF Len(rest) > RxLimit THEN <<>> ELSE rest
                /\ parsing' = FALSE
                /\ UNCHANGED <<got, chance>>
  /\ UNCHANGED <<packets, line>>

Init ==
  /\ packets = <<>>
  /\ line = <<>> /\ rx = <<>>
  /\ parsing = FALSE
  /\ got = {}
  /\ chance = FALSE

Next == Answer \/ Read \/ Take

Spec == Init /\ [][Next]_vars

-----------------------------------------------------------------------------
TypeOK ==
  /\ packets \in Seq([bytes : Seq(Byte), whole : BOOLEAN])
  /\ line \in Seq(Byte) /\ rx \in Seq(Byte)
  /\ parsing \in BOOLEAN
  /\ got \subseteq Byte
  /\ chance \in BOOLEAN

\* A packet that came whole is not lost to one before it that did not, however
\* the reads cut them: it has been taken, or all of it is still there to be, as
\* long as no cut one has the sum of its neighbour's bytes by chance.
IntactIsKept ==
  ~chance => \A k \in DOMAIN packets :
    packets[k].whole /\ k \notin got =>
      LET unread == rx \o line
          n == Len(packets[k].bytes)
      IN  \E i \in 0..Len(unread) - n : SubSeq(unread, i + 1, i + n) = packets[k].bytes
=============================================================================
