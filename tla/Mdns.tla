--------------------------------- MODULE Mdns ---------------------------------
(***************************************************************************)
(* How the multicast DNS responder (tc002/Tc002Mdns.cpp) reads a packet of *)
(* questions and what it answers.  A packet is a sequence of bytes; a name *)
(* is text, its labels in small letters with dots between.                 *)
(***************************************************************************)
EXTENDS Integers, SequencesExt

CONSTANTS
  Header,        \* bytes before the questions: 12
  TypeClass,     \* bytes of a question after its name: 4
  MaxSteps,      \* labels and jumps of a name: 128
  MaxName,       \* letters of a name: 253
  MaxQuestions,  \* that are looked at: 32
  Ours           \* the six names that are answered for

MdnsAssumption ==
  /\ {Header, MaxName} \subseteq Nat /\ {MaxSteps, MaxQuestions} \subseteq Nat \ {0}
  /\ TypeClass \in Nat /\ TypeClass > 2

Dot == 46
ToLower(b) == IF b \in 65..90 THEN b + 32 ELSE b
Lower(text) == [i \in DOMAIN text |-> ToLower(text[i])]

Pointer == 192
MaxLabel == 63

-----------------------------------------------------------------------------
(* A name                                                                  *)

Unread == [ok |-> FALSE, name |-> <<>>, pos |-> 0]

\* Variant: the next question follows where the name was read to the end.
PlaceByEnd(after, at) == at

\* What follows a name follows the first jump, if there is one (after is 0 as
\* long as there is none), or its end.
Place(after, at) == IF after = 0 THEN at ELSE after

\* Where the reading of a name is: what is left of MaxSteps, the byte it has come
\* to, what will follow the name, and the name so far.
Walks == [steps : 0..MaxSteps, at : Nat \ {0}, after : Nat, name : Seq(Nat)]

Jump(p, w) ==
  [steps |-> w.steps - 1, at |-> 1 + (p[w.at] - Pointer) * 256 + p[w.at + 1],
   after |-> Place(w.after, w.at + 2), name |-> w.name]

Spell(p, w) ==
  LET next == w.at + 1 + p[w.at]
      label == Lower(SubSeq(p, w.at + 1, next - 1))
  IN  [steps |-> w.steps - 1, at |-> next, after |-> w.after,
       name |-> (IF w.name = <<>> THEN <<>> ELSE Append(w.name, Dot)) \o label]

\* readName: the name at index `start`, label by label and jump by jump.
ReadName(p, start) ==
  LET walk[w \in Walks] ==
        IF w.steps = 0 \/ w.at > Len(p) THEN Unread
        ELSE LET len == p[w.at]
             IN  CASE len = 0 ->
                        [ok |-> TRUE, name |-> w.name, pos |-> Place(w.after, w.at + 1)]
                   [] len >= Pointer ->
                        IF w.at = Len(p) THEN Unread ELSE walk[Jump(p, w)]
                   [] OTHER ->
                        IF len > MaxLabel \/ w.at + len > Len(p) \/ Len(w.name) + len > MaxName
                        THEN Unread ELSE walk[Spell(p, w)]
  IN  walk[[steps |-> MaxSteps, at |-> start, after |-> 0, name |-> <<>>]]

-----------------------------------------------------------------------------
(* A packet                                                                *)

\* Variant: one question too few.
LookedAtButOne(count) == IF count < MaxQuestions THEN count ELSE MaxQuestions - 1

LookedAt(count) == IF count < MaxQuestions THEN count ELSE MaxQuestions

\* The questions from index `start`, `count` at most: a name, and whether the
\* answer is to come to the asker alone.
Questions(p, start, count) ==
  LET from[n \in [left : 0..MaxQuestions, at : Nat \ {0}]] ==
        LET q == ReadName(p, n.at)
        IN  IF n.left = 0 \/ ~q.ok \/ q.pos - 1 + TypeClass > Len(p) THEN {}
            ELSE {[name |-> q.name, alone |-> p[q.pos + 2] >= 128]}
                   \cup from[[left |-> n.left - 1, at |-> q.pos + TypeClass]]
  IN  from[[left |-> count, at |-> start]]

\* A packet of `count` questions, or of answers, from port 5353 or another.  An
\* answer to a question of another port, which expects one, has its number.
Answer(packet) ==
  LET asked == Questions(packet.bytes, Header + 1, LookedAt(packet.count))
      matched == {q \in asked : q.name \in Ours}
  IN  IF packet.answers \/ Len(packet.bytes) < Header \/ matched = {} THEN "none"
      ELSE IF packet.elsewhere \/ \E q \in matched : q.alone THEN "alone" ELSE "all"

-----------------------------------------------------------------------------
(* What it promises                                                        *)

\* Whatever the bytes, reading a name ends, stays in the packet and gets on.
NameIsInside(p, at) ==
  LET q == ReadName(p, at)
  IN  q.ok => q.pos \in at + 1..Len(p) + 1 /\ Len(q.name) <= MaxName + 1

\* A name on the wire; the text it stands for; and the labels two names end with.
Wire(labels) == FlattenSeq([i \in DOMAIN labels |-> <<Len(labels[i])>> \o labels[i]]) \o <<0>>
Text(labels) ==
  Tail(FlattenSeq([i \in DOMAIN labels |-> <<Dot>> \o Lower(labels[i])]))
Ending(labels, n) == SubSeq(labels, Len(labels) - n + 1, Len(labels))
Shared(a, b) ==
  CHOOSE n \in 0..Len(a) :
    /\ n <= Len(b) /\ Ending(a, n) = Ending(b, n)
    /\ ~(n < Len(a) /\ n < Len(b) /\ Ending(a, n + 1) = Ending(b, n + 1))

\* A question whose name ends in a jump to what it shares with the packet's first.
Compressed(labels, first) ==
  LET n == Shared(first, labels)
      own == SubSeq(labels, 1, Len(labels) - n)
      place == Header + Len(Wire(first)) - Len(Wire(Ending(first, n)))
  IN  IF n = 0 THEN Wire(labels)
      ELSE SubSeq(Wire(own), 1, Len(Wire(own)) - 1) \o <<Pointer, place>>

Rest(q) == [i \in 1..TypeClass |-> IF i = 3 /\ q.alone THEN 128 ELSE 0]

Encoded(qs, first) ==
  FlattenSeq([i \in DOMAIN qs |-> Compressed(qs[i].labels, first) \o Rest(qs[i])])

Packet(qs, elsewhere) ==
  [bytes |-> [i \in 1..Header |-> 0] \o Wire(qs[1].labels) \o Rest(qs[1])
               \o Encoded(Tail(qs), qs[1].labels),
   count |-> Len(qs), answers |-> FALSE, elsewhere |-> elsewhere]

\* When our names are in small letters, as they are unless the clock was given one
\* with capitals, a question for one of them, in letters of either size and wherever
\* in a packet of several it stands, shortened or not, is answered, and to the asker
\* alone when it wants that or does not listen to the group.  Whatever the letters of
\* our names, nothing is answered but a question for one of them.
QuestionIsAnswered(qs, elsewhere) ==
  LET heard == {qs[i] : i \in 1..(IF Len(qs) < MaxQuestions THEN Len(qs) ELSE MaxQuestions)}
      forUs == {q \in heard : \E our \in Ours : Text(q.labels) = Lower(our)}
      answer == Answer(Packet(qs, elsewhere))
  IN  /\ (\A our \in Ours : Lower(our) = our) =>
           answer = IF forUs = {} THEN "none"
                    ELSE IF elsewhere \/ \E q \in forUs : q.alone THEN "alone" ELSE "all"
      /\ answer # "none" => forUs # {}
=============================================================================
