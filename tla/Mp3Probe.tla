------------------------------- MODULE Mp3Probe -------------------------------
(***************************************************************************)
(* Where the audio of an MP3 file starts and whether the decoder can play  *)
(* it (tc002/Tc002Mp3Probe.cpp).                                           *)
(*                                                                         *)
(* A file is a sequence of cells, each as long as a frame header.  A cell  *)
(* is "other", or looks like the start of a frame: a "sync" that is no     *)
(* header, or a header.  The first cell may be that of an ID3v2 tag.       *)
(***************************************************************************)
EXTENDS Integers, Sequences, FiniteSetsExt

CONSTANTS
  Scan,    \* kScanBytes: how far past the tag a first frame is looked for
  Margin   \* what is read beyond: 8 KiB, more than a frame

Mp3Assumption == {Scan, Margin} \subseteq Nat \ {0}

Other == [is |-> "other"]
IsHeader(cell) == cell.is = "header"
LooksLikeFrame(cell) == cell.is \in {"sync", "header"}

\* Variant: the footer is forgotten.
SizeButFooter(cell) == IF cell.is = "tag" THEN 1 + cell.body ELSE 0

\* id3v2Size: header, body and maybe a footer; no tag is as good as a broken one.
Id3v2Size(cell) ==
  IF cell.is = "tag" THEN 1 + cell.body + (IF cell.footer THEN 1 ELSE 0) ELSE 0

AudioOffset(file) == IF file = <<>> THEN 0 ELSE Id3v2Size(file[1])

\* What is read: as much of the audio as the buffer holds.
Buffer(file) ==
  LET start == AudioOffset(file)
      left == Len(file) - start
  IN  IF left <= 0 THEN <<>>
      ELSE SubSeq(file, start + 1, start + Min({left, Scan + Margin}))

\* The cells the loop comes to: it goes on from one only within the first Scan.
Visited(buf) ==
  LET starts == {p \in DOMAIN buf : LooksLikeFrame(buf[p])}
  IN  {p \in starts : \A q \in starts : q < p => q < Scan}

\* Variant: a header alone is enough.
NeedsNoNext(buf, p) == IsHeader(buf[p]) /\ buf[p].length > 0

\* A frame counts when the header of another of its kind follows or it ends the
\* buffer.
Confirmed(buf, p) ==
  LET next == p + buf[p].length
  IN  /\ IsHeader(buf[p]) /\ buf[p].length > 0
      /\ \/ next = Len(buf) + 1
         \/ /\ next <= Len(buf) /\ IsHeader(buf[next])
            /\ buf[next].kind = buf[p].kind

Unplayable(buf) ==
  IF \E p \in Visited(buf) : IsHeader(buf[p]) /\ buf[p].length = 0
    THEN "free format" ELSE "no frames"

\* probeMp3; "" is no problem.  Free format frames are headers of length 0, kinds
\* are the version and rate of a frame.
Problem(file, supported) ==
  LET buf == Buffer(file)
      confirmed == {p \in Visited(buf) : Confirmed(buf, p)}
  IN  IF confirmed = {} THEN Unplayable(buf)
      ELSE IF buf[Min(confirmed)].kind \in supported THEN "" ELSE "unsupported"

-----------------------------------------------------------------------------
(* What it promises                                                        *)

\* A file of a tag, if any, with its pictures, and of audio.
File(tagged, pictures, footer, audio) ==
  (IF tagged
     THEN <<[is |-> "tag", body |-> Len(pictures), footer |-> footer]>> \o pictures
            \o (IF footer THEN <<Other>> ELSE <<>>)
     ELSE <<>>) \o audio

\* From cell `start` on there are whole frames of one kind and nothing else.
Plays(audio, start, kind) ==
  LET plays[p \in Nat \ {0}] ==
        \/ p = Len(audio) + 1
        \/ /\ p <= Len(audio) /\ IsHeader(audio[p])
           /\ audio[p].kind = kind /\ audio[p].length > 0
           /\ plays[p + audio[p].length]
  IN  plays[start]

\* Mp3Probe.cpp:53, "A frame counts once the next header follows it, or it ends
\* the file": audio that is frames to its end is found and judged by their kind,
\* whatever is in the tag before it; and audio is only taken for a frame followed
\* by another or ending it - or ending the buffer, when the file is longer.
ProbeIsRight(tagged, pictures, footer, audio, supported) ==
  LET problem == Problem(File(tagged, pictures, footer, audio), supported)
      kind == audio[1].kind
  IN  /\ audio # <<>> /\ IsHeader(audio[1]) /\ Plays(audio, 1, kind) =>
           problem = IF kind \in supported THEN "" ELSE "unsupported"
      /\ problem = "" =>
           \E p \in DOMAIN audio :
             /\ IsHeader(audio[p]) /\ audio[p].length > 0 /\ audio[p].kind \in supported
             /\ LET next == p + audio[p].length
                IN  \/ next = Len(audio) + 1 \/ next = Scan + Margin + 1
                    \/ /\ next <= Len(audio) /\ IsHeader(audio[next])
                       /\ audio[next].kind = audio[p].kind
=============================================================================
