------------------------------- MODULE MCSmall -------------------------------
(***************************************************************************)
(* Components that are too small for runs of their own and have no state   *)
(* in common: the resolver file, the update helper, the requests of        *)
(* scripts, the line to the microcontroller, the keys and the hashing of a *)
(* file; and four decisions that are functions of what the program is      *)
(* given, each over the samples of its input: the vendor gate, the names   *)
(* of multicast DNS, the probe of an MP3 file and the time of a server.    *)
(* What one of them does cannot depend on another, so a behaviour is one   *)
(* of one component, and the others stay where they began: all of their    *)
(* behaviours are checked, without their product.                          *)
(***************************************************************************)
EXTENDS Integers, SequencesExt

CONSTANTS
  Addresses, Garbage, NetStatic, MaxChanges,               \* Resolver
  Blocks,                                                  \* Updater
  MaxRequests, MaxPending,                                 \* ScriptHttp
  Base, MaxPayload, RxLimit, MaxPackets,                   \* McuLink
  Debounce, Hold, Repeat, Double, MaxGap,                  \* Controls
  Block, Piece, MaxFile                                    \* Digest

VARIABLES
  part,   \* the component that is looked at
  phase, static, named, changes, path, content, mounted, current, settled,
  torn,
  pc, mode, force, image, clock, stock, block, flash, res, gui, asked, bluetooth,
  refused,
  requests, thread, kind, filter, came, ok, pending, queue, handled,
  packets, line, rx, parsing, got, chance,
  raw, rawAge, stable, pressedAge, repeatAge, long, edgeAge, feedback, panel, gesture,
  pushed, span, shown,
  rest, at, data, length, bits, filling, hashed, read, padding,
  sample  \* the input of a decision that is looked at

Dns == INSTANCE Resolver
Update == INSTANCE Updater
Http == INSTANCE ScriptHttp WITH asked <- requests
Mcu == INSTANCE McuLink
Touch == INSTANCE Controls
Hash == INSTANCE Digest WITH Weights <- <<16, 1>>, Bytes <- {1, 2}, block <- filling
Gate == INSTANCE VendorGate
  WITH Width <- 6, MaxSize <- 5, SectionSize <- 1, SymbolSize <- 1
Responder == INSTANCE Mdns
  WITH Header <- 1, TypeClass <- 3, MaxSteps <- 4, MaxName <- 4, MaxQuestions <- 2,
       Ours <- {<<104, 46, 108>>}
Probe == INSTANCE Mp3Probe WITH Scan <- 2, Margin <- 2
Ntp == INSTANCE NtpTime
  WITH Era <- 16, Epoch <- 9, MaxTime <- 12, Fraction <- 8, Micro <- 5

ASSUME SmallAssumption ==
  /\ Dns!ResolverAssumption /\ Update!UpdaterAssumption /\ Http!ScriptHttpAssumption
  /\ Mcu!McuLinkAssumption /\ Touch!ControlsAssumption /\ Hash!DigestAssumption
  /\ Gate!VendorAssumption /\ Responder!MdnsAssumption /\ Probe!Mp3Assumption
  /\ Ntp!NtpAssumption

dnsVars == <<phase, static, named, changes, path, content, mounted, current, settled,
             torn>>
updateVars == <<pc, mode, force, image, clock, stock, block, flash, res, gui, asked, bluetooth,
                refused>>
httpVars == <<requests, thread, kind, filter, came, ok, pending, queue, handled>>
mcuVars == <<packets, line, rx, parsing, got, chance>>
touchVars == <<raw, rawAge, stable, pressedAge, repeatAge, long, edgeAge, feedback, panel,
               gesture, pushed, span, shown>>
hashVars == <<rest, at, data, length, bits, filling, hashed, read, padding>>
vars == <<part, sample, dnsVars, updateVars, httpVars, mcuVars, touchVars, hashVars>>

-----------------------------------------------------------------------------
(* The samples                                                             *)

\* Files of two sections, placed anywhere; of any sections; and with symbols of
\* every kind.
Tables(offset, symbols, names) ==
  [elf |-> TRUE, size |-> 4, shoff |-> offset, digest |-> "d", table |-> <<>>, strings |-> <<>>,
   sections |-> <<symbols, names>>]
Sections(types, places, sizes, links) ==
  [type : types, offset : places, size : sizes, link : links]
Sound == Tables(0, [type |-> "dynsym", offset |-> 2, size |-> 1, link |-> 1],
                   [type |-> "strtab", offset |-> 3, size |-> 1, link |-> 0])
Symbols ==
  [name : 0..3, bind : {"global"}, type : {"func", "data"}, defined : BOOLEAN]
    \cup [name : 0..3, bind : {"weak", "local"}, type : {"func"}, defined : {TRUE}]
Null == [name |-> 0, bind |-> "local", type |-> "data", defined |-> FALSE]
Placed == {Tables(o, a, b) : o \in 0..5, a \in Sections({"dynsym"}, 0..5, 0..5, {1}),
                                       b \in Sections({"strtab"}, 0..5, 0..5, {0})}
Listed ==
  [elf : BOOLEAN, size : 0..5, shoff : {0}, digest : {"d"}, table : {<<>>}, strings : {<<>>},
   sections : BoundedSeq(Sections({"dynsym", "strtab", "other"}, {0}, {1}, 0..2), 2)]
First == {[Sound EXCEPT !.table = t] : t \in BoundedSeq(Symbols, 1)}
Later == {[Sound EXCEPT !.table = <<Null>> \o t] : t \in BoundedSeq(Symbols, 2)}
Files == Placed \cup Listed \cup First \cup Later
Strings == BoundedSeq({"a", "b", "NUL"}, 3)
Functions == {{}, {<<"a">>}, {<<"a">>, <<"b", "a">>}}

\* A few bytes; and up to three questions for "h.l", our name, and for others.
Octets == {0, 1, 2, 65, 192}
Asked == [labels : {<<<<104>>, <<108>>>>, <<<<72>>, <<108>>>>, <<<<108>>>>, <<<<108>>, <<104>>>>},
          alone : BOOLEAN]

\* Cells of audio.
Cells == {[is |-> "other"], [is |-> "sync"]}
           \cup [is : {"header"}, length : 0..2, kind : {"mpeg1", "mpeg2"}]

Decisions == {"gate", "bytes", "questions", "probe", "time"}
Samples ==
  CASE part = "gate" -> Files
    [] part = "bytes" -> BoundedSeq(Octets, 4)
    [] part = "questions" -> BoundedSeq(Asked, 3) \ {<<>>}
    [] part = "probe" -> BoundedSeq(Cells, 4)
    [] part = "time" -> [seconds : 0..15, micro : 0..4]
    [] OTHER -> {0}

-----------------------------------------------------------------------------
(* The behaviours                                                          *)

\* Where a component waits that is not looked at: one of its initial states.
DnsWaits == ~static /\ \A s \in DOMAIN named : named[s] = CHOOSE t \in Garbage \X Garbage : TRUE
UpdateWaits == mode = "validate" /\ ~force /\ ~image /\ ~clock /\ ~stock /\ ~bluetooth

Init ==
  /\ part \in {"resolver", "updater", "requests", "mcu", "keys", "digest"} \cup Decisions
  /\ Dns!Init /\ (part # "resolver" => DnsWaits)
  /\ Update!Init /\ (part # "updater" => UpdateWaits)
  /\ Http!Init
  /\ Mcu!Init
  /\ Touch!Init
  /\ Hash!Init /\ (part # "digest" => rest = <<>>)
  /\ sample \in Samples

\* A step of the component that is looked at.
DnsStep(A) ==
  part = "resolver" /\ A
    /\ UNCHANGED <<part, sample, updateVars, httpVars, mcuVars, touchVars, hashVars>>
UpdateStep(A) ==
  part = "updater" /\ A
    /\ UNCHANGED <<part, sample, dnsVars, httpVars, mcuVars, touchVars, hashVars>>
HttpStep(A) ==
  part = "requests" /\ A
    /\ UNCHANGED <<part, sample, dnsVars, updateVars, mcuVars, touchVars, hashVars>>
McuStep(A) ==
  part = "mcu" /\ A
    /\ UNCHANGED <<part, sample, dnsVars, updateVars, httpVars, touchVars, hashVars>>
TouchStep(A) ==
  part = "keys" /\ A
    /\ UNCHANGED <<part, sample, dnsVars, updateVars, httpVars, mcuVars, hashVars>>
HashStep(A) ==
  part = "digest" /\ A
    /\ UNCHANGED <<part, sample, dnsVars, updateVars, httpVars, mcuVars, touchVars>>

Next ==
  \/ DnsStep(Dns!Next) \/ UpdateStep(Update!Next) \/ HttpStep(Http!Next) \/ McuStep(Mcu!Next)
  \/ TouchStep(Touch!Next) \/ HashStep(Hash!Next)

\* The fairness of the components, each as long as it is looked at.
Fairness ==
  /\ WF_dnsVars(DnsStep(Dns!WorkerRefresh))
  /\ SF_dnsVars(DnsStep(Dns!WorkerRefresh /\ settled'))
  /\ WF_updateVars(UpdateStep(Update!Helper))
  /\ WF_updateVars(UpdateStep(Update!Service))

FairSpec == Init /\ [][Next]_vars /\ Fairness

-----------------------------------------------------------------------------
\* The variables of the components keep their types.
TypeOK ==
  /\ Dns!TypeOK /\ Update!TypeOK /\ Http!TypeOK /\ Mcu!TypeOK /\ Touch!TypeOK
  /\ Hash!TypeOK

\* Resolver: while the file is mounted it names a server.
MountedIsUsable == Dns!MountedIsUsable

\* Resolver: in the end the file names the servers DHCP gives.
FollowsDhcp == Dns!FollowsDhcp

\* Updater: the flash is only touched when image, clock and processes allow it,
\* and at most one block is neither old nor new.
FlashIsSafe == Update!FlashIsSafe

\* Updater: a helper that gives up in time leaves a clock with its GUI, unless init
\* does not take the request.
GivingUpLeavesGui == Update!GivingUpLeavesGui

\* ScriptHttp: every exchange gives one result, good only if complete, and
\* gives back the room it took.
ResultsAreHonest == Http!ResultsAreHonest

\* McuLink: a packet that came whole is not lost to a cut one before it.
IntactIsKept == Mcu!IntactIsKept

\* Controls: a push of the rocker is one step of the volume or a hold.
GesturesAreDistinct == Touch!GesturesAreDistinct

\* Digest, VendorGate: a vendor library is judged by the standard's digest of all
\* that was read of it or by the functions it defines, and its tables are only
\* read where they are in the file.
GateIsRight ==
  /\ Hash!DigestIsStandard
  /\ part = "gate" =>
       /\ Gate!TablesAreInside(sample)
       /\ \A required \in Functions, recorded \in {{}, {"d"}, {"e", ""}}, digest \in {"d", ""} :
            \A strings \in IF sample.table = <<>> THEN {<<>>} ELSE Strings :
              Gate!VerdictIsRight([sample EXCEPT !.digest = digest, !.strings = strings],
                                  recorded, required)

\* Mdns, Mp3Probe, NtpTime: what comes from the network or in a file is read for
\* what it is - a question for the clock's name, which has no capitals here, whatever
\* the question's letters and however it is shortened; the frames of an MP3 file; the time of a server in this era
\* and the next.
InputIsRead ==
  /\ part = "bytes" =>
       \A more \in BoundedSeq(Octets, 2), place \in 1..2 :
         Responder!NameIsInside(sample \o more, place)
  /\ part = "questions" =>
       \A elsewhere \in BOOLEAN : Responder!QuestionIsAnswered(sample, elsewhere)
  /\ part = "probe" =>
       \A tagged, footer \in BOOLEAN, pictures \in BoundedSeq(Cells, 1) :
         Probe!ProbeIsRight(tagged, pictures, footer, sample, {"mpeg1"})
  /\ part = "time" =>
       LET now == [seconds |-> 3, micro |-> 1]
           others == Ntp!Stamp([now EXCEPT !.seconds = 4])
       IN  \A reply \in [mode : {3, 4}, leap : {0, 3}, stratum : {0, 1, 16},
                         origin : {Ntp!Stamp(now), others}, transmit : {others}] :
             Ntp!TimeIsRight(sample, reply, Ntp!Stamp(now), now)
=============================================================================
