------------------------------ MODULE SmallProofs ------------------------------
(***************************************************************************)
(* Proofs for the components that share a run (MCSmall), for every value   *)
(* of the constants of the run.  A step of the whole is a step of one      *)
(* component or none (Parts), so what each of them keeps it keeps in the   *)
(* whole: the inductive invariants DnsInv, UpdateInv, HttpInv, McuInv and  *)
(* TouchInv are of one component each.  What is made of a file and of the  *)
(* network has proofs of its own (InputProofs), used here.                 *)
(***************************************************************************)
EXTENDS MCSmall, SequenceTheorems, FiniteSetTheorems,
        WellFoundedInduction, TLAPS

Inputs == INSTANCE InputProofs
  WITH Weights <- <<16, 1>>, Bytes <- {1, 2}, block <- filling,
       Width <- 6, MaxSize <- 5, SectionSize <- 1, SymbolSize <- 1,
       Header <- 1, TypeClass <- 3, MaxSteps <- 4, MaxName <- 4, MaxQuestions <- 2,
       Ours <- {<<104, 46, 108>>}, Scan <- 2, Margin <- 2,
       Era <- 16, Epoch <- 9, MaxTime <- 12, Fraction <- 8, Micro <- 5

-----------------------------------------------------------------------------
(* One behaviour, one component                                            *)

\* A step of the whole is, for each component, one of its own or none.
LEMMA Parts ==
  ASSUME [Next]_vars
  PROVE  /\ Dns!Next \/ UNCHANGED dnsVars
         /\ Update!Next \/ UNCHANGED updateVars
         /\ Http!Next \/ UNCHANGED httpVars
         /\ Mcu!Next \/ UNCHANGED mcuVars
         /\ Touch!Next \/ UNCHANGED touchVars
         /\ Hash!Next \/ UNCHANGED hashVars
<1>1. CASE DnsStep(Dns!Next)
  BY <1>1, Zenon DEF DnsStep
<1>2. CASE UpdateStep(Update!Next)
  BY <1>2, Zenon DEF UpdateStep
<1>3. CASE HttpStep(Http!Next)
  BY <1>3, Zenon DEF HttpStep
<1>4. CASE McuStep(Mcu!Next)
  BY <1>4, Zenon DEF McuStep
<1>5. CASE TouchStep(Touch!Next)
  BY <1>5, Zenon DEF TouchStep
<1>6. CASE HashStep(Hash!Next)
  BY <1>6, Zenon DEF HashStep
<1>7. CASE UNCHANGED vars
  BY <1>7, Zenon DEF vars
<1> QED
  BY <1>1, <1>2, <1>3, <1>4, <1>5, <1>6, <1>7, Zenon DEF Next

-----------------------------------------------------------------------------
(* Resolver                                                                *)

\* Nothing is mounted before there is a file that could be.
DnsInv == Dns!MountedIsUsable /\ (phase = "off" => ~mounted)

\* What a refresh writes names a server, or it writes nothing.
LEMMA RefreshKeeps ==
  ASSUME NEW hasPath, Dns!Refresh(hasPath), mounted => hasPath /\ (content # <<>> \/ torn)
  PROVE  mounted' => hasPath /\ (content' # <<>> \/ torn')
<1>1. CASE ~hasPath \/ Dns!NothingToDo(Dns!ConfiguredDns)
  BY <1>1 DEF Dns!Refresh
<1>2. CASE hasPath /\ ~Dns!NothingToDo(Dns!ConfiguredDns)
  <2>1. Dns!Rewrite(Dns!ConfiguredDns) /\ Dns!ConfiguredDns # <<>>
    BY <1>2 DEF Dns!Refresh, Dns!NothingToDo
  <2>2. \/ mounted' = mounted /\ content' = content /\ torn' = torn
        \/ mounted' = mounted /\ torn'
        \/ content' = Dns!ConfiguredDns
    BY <2>1, Zenon DEF Dns!Rewrite
  <2> QED
    BY <1>2, <2>1, <2>2
<1> QED
  BY <1>1, <1>2

LEMMA DnsKeeps ==
  ASSUME DnsInv, Dns!Next \/ UNCHANGED dnsVars
  PROVE  DnsInv'
<1> USE DEF DnsInv, Dns!MountedIsUsable
<1>1. CASE Dns!Begin
  <2>1. Dns!Refresh(path') /\ ~mounted /\ phase' = "begun"
    BY <1>1 DEF Dns!Begin
  <2> QED
    BY <2>1, RefreshKeeps
<1>2. CASE Dns!WorkerRefresh
  <2>1. Dns!Refresh(path) /\ phase' = "begun" /\ path' = path
    BY <1>2 DEF Dns!WorkerRefresh
  <2> QED
    BY <2>1, RefreshKeeps
<1>3. CASE Dns!Stop
  BY <1>3 DEF Dns!Stop, Dns!StopWith, Dns!resolver
<1>4. CASE Dns!Rename
  BY <1>4 DEF Dns!Rename, Dns!resolver
<1>5. CASE UNCHANGED dnsVars
  BY <1>5 DEF dnsVars
<1> QED
  BY <1>1, <1>2, <1>3, <1>4, <1>5 DEF Dns!Next

\* Dns::refresh, Dns::stop (Tc002Dns.cpp): while the private file covers
\* /etc/resolv.conf it names a server, whatever DHCP said and whichever calls
\* failed, unless the last write of it broke off.
THEOREM ResolverIsUsable == FairSpec => []MountedIsUsable
<1>1. Init => DnsInv
  BY DEF Init, Dns!Init, DnsInv, Dns!MountedIsUsable
<1>2. DnsInv /\ [Next]_vars => DnsInv'
  BY Parts, DnsKeeps
<1>3. DnsInv => MountedIsUsable
  BY DEF DnsInv, MountedIsUsable
<1> QED
  BY <1>1, <1>2, <1>3, PTL DEF FairSpec

-----------------------------------------------------------------------------
(* Updater                                                                 *)
(*                                                                         *)
(* The flash is only touched when it is safe, one block at a time.  That   *)
(* no process comes back to the partition after it was unmounted rests on  *)
(* the order in which init is asked: the GUI is only down once nothing is  *)
(* left to be carried out.                                                 *)

Untouched == flash = [b \in Update!Positions |-> "old"] /\ block = 0

\* What the checks so far have established.
ChecksPassed ==
  /\ pc \in {"checks", "recognise", "stop", "helper", "unmount"} => image
  /\ pc \in {"recognise", "stop", "helper", "unmount"} => clock
  /\ pc \in {"stop", "helper", "unmount"} => mode = "install" /\ (stock \/ force)

\* init stops the GUI once, when it is asked to.
StoppedOnce ==
  /\ pc \in {"open", "checks", "recognise", "stop"} => asked = <<>> /\ gui = "up"
  /\ pc \in {"helper", "unmount"} => asked \in {<<>>, <<"stop">>}
  /\ pc \in {"helper", "unmount"} /\ gui = "down" => asked = <<>>

\* /res is unmounted by an install that was allowed to, with nothing left that
\* could run from it, and it is there as long as nothing was written.
WritingIsAllowed ==
  /\ pc \in {"read", "erase", "write", "verify", "finish"} => ~res
  /\ pc \in {"open", "checks", "recognise", "stop", "helper", "unmount"} => res
  /\ res => Untouched
  /\ ~res =>
       /\ mode = "install" /\ image /\ clock /\ (stock \/ force)
       /\ gui = "down" /\ ~bluetooth /\ asked = <<>>

UpdateInv ==
  /\ Update!TypeOK /\ ChecksPassed /\ StoppedOnce /\ WritingIsAllowed
  /\ Update!OneBlockAtATime

LEMMA UpdateBegins ==
  ASSUME Update!UpdaterAssumption, Update!Init
  PROVE  UpdateInv
<1>1. Update!TypeOK
  <2>1. /\ {force, image, clock, stock, res, bluetooth, refused} \subseteq BOOLEAN
    BY Zenon DEF Update!Init
  <2>2. pc = "open" /\ mode \in {"validate", "preflight", "install"} /\ gui = "up" /\ asked = <<>>
    BY Zenon DEF Update!Init
  <2>3. /\ block \in Update!Positions
        /\ flash \in [Update!Positions -> {"old", "erased", "new", "broken"}]
    BY DEF Update!Init, Update!Positions, Update!UpdaterAssumption
  <2> QED
    BY <2>1, <2>2, <2>3 DEF Update!TypeOK
<1>2. ChecksPassed /\ StoppedOnce /\ WritingIsAllowed
  BY DEF Update!Init, ChecksPassed, StoppedOnce, WritingIsAllowed, Untouched
<1>3. Update!OneBlockAtATime
  BY DEF Update!Init, Update!OneBlockAtATime, Update!Positions
<1> QED
  BY <1>1, <1>2, <1>3 DEF UpdateInv

\* What init is asked, request by request.
LEMMA SecondRequest == Append(<<"stop">>, "start") = <<"stop", "start">>
<1> DEFINE s == Append(<<"stop">>, "start")
           t == <<"stop", "start">>
<1>1. s \in Seq({"stop", "start"}) /\ t \in Seq({"stop", "start"})
  OBVIOUS
<1>2. Len(s) = 2 /\ Len(t) = 2
  OBVIOUS
<1>3. \A i \in 1..2 : s[i] = t[i]
  OBVIOUS
<1> HIDE DEF s, t
<1>4. s = t
  BY <1>1, <1>2, <1>3, SeqEqual
<1> QED
  BY <1>4 DEF s, t

LEMMA Requests ==
  /\ Append(<<>>, "stop") = <<"stop">>
  /\ Append(<<>>, "start") = <<"start">>
  /\ Append(<<"stop">>, "start") = <<"stop", "start">>
  /\ Head(<<"stop">>) = "stop" /\ Tail(<<"stop">>) = <<>>
  /\ Head(<<"start">>) = "start" /\ Tail(<<"start">>) = <<>>
  /\ Head(<<"stop", "start">>) = "stop" /\ Tail(<<"stop", "start">>) = <<"start">>
<1>1. Append(<<>>, "stop") = <<"stop">> /\ Append(<<>>, "start") = <<"start">>
  OBVIOUS
<1>2. Head(<<"stop">>) = "stop" /\ Tail(<<"stop">>) = <<>>
  OBVIOUS
<1>3. Head(<<"start">>) = "start" /\ Tail(<<"start">>) = <<>>
  OBVIOUS
<1>4. Head(<<"stop", "start">>) = "stop" /\ Tail(<<"stop", "start">>) = <<"start">>
  OBVIOUS
<1> QED
  BY <1>1, <1>2, <1>3, <1>4, SecondRequest

\* A step that leaves the flash alone leaves its order alone.
LEMMA OrderKept ==
  ASSUME Update!OneBlockAtATime, UNCHANGED <<block, flash>>, pc' # "finish"
  PROVE  Update!OneBlockAtATime'
  BY DEF Update!OneBlockAtATime, Update!Positions

\* The steps before /res is unmounted, and giving up at any time.
LEMMA UpdateBefore ==
  ASSUME UpdateInv,
         \/ Update!Validate \/ Update!CheckClock \/ Update!Recognise \/ Update!AskStop
         \/ Update!StopBluetooth \/ Update!UnmountFails
         \/ \E from \in {"read", "erase", "write", "verify"} : Update!Fail(from)
  PROVE  UpdateInv'
<1> USE DEF UpdateInv, Update!flashing, Update!args, Update!init
<1>1. CASE Update!Validate
  BY <1>1, OrderKept
     DEF Update!Validate, Update!Goto, Update!TypeOK, ChecksPassed, StoppedOnce,
         WritingIsAllowed, Untouched, Update!Positions
<1>2. CASE Update!CheckClock
  BY <1>2, OrderKept
     DEF Update!CheckClock, Update!Goto, Update!TypeOK, ChecksPassed, StoppedOnce,
         WritingIsAllowed, Untouched, Update!Positions
<1>3. CASE Update!Recognise
  BY <1>3, OrderKept
     DEF Update!Recognise, Update!Goto, Update!TypeOK, ChecksPassed, StoppedOnce,
         WritingIsAllowed, Untouched, Update!Positions
<1>4. CASE Update!AskStop
  <2>1. pc = "stop" /\ asked = <<>> /\ gui = "up"
    BY <1>4 DEF Update!AskStop, Update!Goto, StoppedOnce, WritingIsAllowed
  <2>2. \/ asked' = <<"stop">> /\ pc' = "helper"
        \/ asked' = <<>> /\ pc' = "exit"
    <3>1. Update!Goto("stop", "helper") /\ Update!Ask("stop")
          => asked' = <<"stop">> /\ pc' = "helper"
      BY <2>1, Requests DEF Update!Ask, Update!Goto
    <3> QED
      BY <1>4, <2>1, <3>1 DEF Update!AskStop, Update!Goto
  <2>3. UNCHANGED <<mode, force, image, clock, stock, block, flash, res, gui, bluetooth,
                   refused>>
    BY <1>4 DEF Update!AskStop
  <2> QED
    BY <2>1, <2>2, <2>3, OrderKept
       DEF Update!TypeOK, ChecksPassed, StoppedOnce, WritingIsAllowed, Untouched,
           Update!Positions
<1>5. CASE Update!StopBluetooth
  BY <1>5, OrderKept
     DEF Update!StopBluetooth, Update!Goto, Update!TypeOK, ChecksPassed, StoppedOnce,
         WritingIsAllowed, Untouched, Update!Positions
<1>6. CASE Update!UnmountFails
  BY <1>6, OrderKept, Requests
     DEF Update!UnmountFails, Update!Ask, Update!Goto, Update!TypeOK, ChecksPassed, StoppedOnce,
         WritingIsAllowed, Untouched, Update!Positions
<1>7. CASE \E from \in {"read", "erase", "write", "verify"} : Update!Fail(from)
  BY <1>7, OrderKept
     DEF Update!Fail, Update!Goto, Update!TypeOK, ChecksPassed, StoppedOnce, WritingIsAllowed,
         Untouched, Update!Positions
<1> QED
  BY <1>1, <1>2, <1>3, <1>4, <1>5, <1>6, <1>7

\* init, the GUI, and the power.
LEMMA UpdateAround ==
  ASSUME UpdateInv, Update!Service \/ Update!Respawn \/ Update!PowerCut \/ UNCHANGED updateVars
  PROVE  UpdateInv'
<1> USE DEF UpdateInv, Update!flashing, Update!args, Update!init
<1>1. CASE Update!Service
  <2>1. /\ asked \in {<<"stop">>, <<"start">>, <<"stop", "start">>}
        /\ gui' = IF Head(asked) = "stop" THEN "down" ELSE "up"
        /\ asked' = Tail(asked)
        /\ UNCHANGED <<pc, mode, force, image, clock, stock, block, flash, res, bluetooth,
                       refused>>
    BY <1>1 DEF Update!Service, Update!TypeOK
  <2>2. /\ gui' \in {"up", "down"} /\ asked' \in {<<>>, <<"start">>}
        /\ asked = <<"stop">> => asked' = <<>>
    BY <2>1, Requests
  <2>3. asked # <<>>
    BY <1>1 DEF Update!Service
  <2> QED
    BY <2>1, <2>2, <2>3
       DEF Update!TypeOK, ChecksPassed, StoppedOnce, WritingIsAllowed, Untouched,
           Update!OneBlockAtATime, Update!Positions, Update!Written
<1>2. CASE Update!Respawn
  BY <1>2
     DEF Update!Respawn, Update!TypeOK, ChecksPassed, StoppedOnce, WritingIsAllowed, Untouched,
         Update!OneBlockAtATime, Update!Positions, Update!Written
<1>3. CASE Update!PowerCut
  BY <1>3, OrderKept
     DEF Update!PowerCut, Update!TypeOK, ChecksPassed, StoppedOnce, WritingIsAllowed, Untouched,
         Update!Positions
<1>4. CASE UNCHANGED updateVars
  BY <1>4
     DEF updateVars, Update!TypeOK, ChecksPassed, StoppedOnce, WritingIsAllowed, Untouched,
         Update!OneBlockAtATime, Update!Positions, Update!Written
<1> QED
  BY <1>1, <1>2, <1>3, <1>4

\* From the unmounting on.
LEMMA UpdateWriting ==
  ASSUME Update!UpdaterAssumption, UpdateInv,
         Update!UnmountDone \/ Update!Read \/ Update!Erase \/ Update!Write \/ Update!Verify
           \/ Update!Reboot
  PROVE  UpdateInv'
<1> USE Update!UpdaterAssumption DEF Update!UpdaterAssumption, UpdateInv,
       Update!flashing, Update!args, Update!init
<1>1. CASE Update!UnmountDone
  BY <1>1, OrderKept
     DEF Update!UnmountDone, Update!Busy, Update!Goto, Update!TypeOK, ChecksPassed, StoppedOnce,
         WritingIsAllowed, Untouched, Update!Positions
<1>2. CASE Update!Read
  BY <1>2, OrderKept
     DEF Update!Read, Update!Goto, Update!TypeOK, ChecksPassed, StoppedOnce, WritingIsAllowed,
         Untouched, Update!Positions
<1>3. ASSUME NEW from \in {"erase", "write"}, NEW to \in {"write", "verify"},
             NEW contents \in {"erased", "new", "broken"}, Update!Goto(from, to),
             Update!SetBlock(contents),
             UNCHANGED <<Update!args, block, res, Update!init, refused>>
      PROVE  UpdateInv'
  <2>1. /\ flash' \in [Update!Positions -> {"old", "erased", "new", "broken"}]
        /\ \A b \in Update!Positions \ {block} : flash'[b] = flash[b]
    BY <1>3 DEF Update!SetBlock, Update!TypeOK
  <2>2. Update!OneBlockAtATime'
    BY <1>3, <2>1 DEF Update!OneBlockAtATime, Update!TypeOK, Update!Goto, Update!Positions
  <2> QED
    BY <1>3, <2>1, <2>2
       DEF Update!Goto, Update!TypeOK, ChecksPassed, StoppedOnce, WritingIsAllowed,
           Update!Positions
<1>4. CASE Update!Erase
  BY <1>4, <1>3 DEF Update!Erase
<1>5. CASE Update!Write
  BY <1>5, <1>3 DEF Update!Write
<1>6. CASE Update!Verify
  <2>1. /\ pc = "verify" /\ flash[block] = "new"
        /\ UNCHANGED <<mode, force, image, clock, stock, flash, res, gui, asked, bluetooth,
                       refused>>
    BY <1>6 DEF Update!Verify, Update!NextBlock, Update!Goto
  <2>2. CASE block + 1 < Blocks
    <3>1. pc' = "read" /\ block' = block + 1
      BY <1>6, <2>2 DEF Update!Verify, Update!NextBlock, Update!Goto
    <3>2. Update!OneBlockAtATime'
      BY <2>1, <3>1 DEF Update!OneBlockAtATime, Update!TypeOK, Update!Positions
    <3> QED
      BY <2>1, <2>2, <3>1, <3>2
         DEF Update!TypeOK, ChecksPassed, StoppedOnce, WritingIsAllowed, Update!Positions
  <2>3. CASE ~(block + 1 < Blocks)
    <3>1. pc' = "finish" /\ block' = block
      BY <1>6, <2>3 DEF Update!Verify, Update!NextBlock, Update!Goto
    <3>2. Update!Written
      <4>1. \A b \in Update!Positions : flash[b] = "new"
        BY <2>1, <2>3 DEF Update!OneBlockAtATime, Update!TypeOK, Update!Positions
      <4> QED
        BY <4>1 DEF Update!Written, Update!TypeOK
    <3>3. Update!OneBlockAtATime'
      BY <2>1, <3>1, <3>2 DEF Update!OneBlockAtATime, Update!Written, Update!Positions
    <3> QED
      BY <2>1, <3>1, <3>3
         DEF Update!TypeOK, ChecksPassed, StoppedOnce, WritingIsAllowed, Update!Positions
  <2> QED
    BY <2>2, <2>3
<1>7. CASE Update!Reboot
  BY <1>7, OrderKept
     DEF Update!Reboot, Update!TypeOK, ChecksPassed, StoppedOnce, WritingIsAllowed, Untouched,
         Update!Positions
<1> QED
  BY <1>1, <1>2, <1>4, <1>5, <1>6, <1>7

LEMMA UpdateHolds == FairSpec => []UpdateInv
<1>0. Update!UpdaterAssumption
  BY SmallAssumption DEF SmallAssumption
<1>1. Init => UpdateInv
  BY <1>0, UpdateBegins DEF Init
<1>2. UpdateInv /\ [Next]_vars => UpdateInv'
  BY <1>0, Parts, UpdateBefore, UpdateAround, UpdateWriting DEF Update!Next, Update!Helper
<1> QED
  BY <1>1, <1>2, PTL DEF FairSpec

\* FirmwareUpdate.cpp: in whatever order helper, init, GUI and power cut come,
\* the flash is only touched when image, clock and processes allow it, and one
\* block at a time, for an image of any size.
THEOREM UpdateIsSafe == FairSpec => []FlashIsSafe
<1>1. UpdateInv => FlashIsSafe
  BY DEF UpdateInv, FlashIsSafe, Update!FlashIsSafe, Update!ErasedOnlyWhenSafe,
         WritingIsAllowed, Untouched, Update!Busy
<1> QED
  BY <1>1, UpdateHolds, PTL

-----------------------------------------------------------------------------
(* ScriptHttp                                                              *)

\* Requests that are not made yet have no thread; a filter is done when it has
\* enough; and one result stands for each thread that ended, in the queue or
\* handled.
Unmade == \A r \in Http!Ids : r > requests => thread[r] = "none"
FilterHasEnough == \A r \in Http!Ids : filter[r] = "done" => came[r] \in {"enough", "all"}
EachOnce(s) == \A i, j \in DOMAIN s : s[i] = s[j] => i = j
Apart == \A i \in DOMAIN queue, j \in DOMAIN handled : queue[i] # handled[j]
Among(s, r) == \E i \in DOMAIN s : s[i] = r
ResultsStand ==
  /\ EachOnce(queue) /\ EachOnce(handled) /\ Apart
  /\ \A r \in Http!Ids : thread[r] = "pushed" <=> Among(queue, r) \/ Among(handled, r)

HttpInv ==
  /\ Http!TypeOK /\ Http!PendingIsLive /\ Http!GoodIsComplete
  /\ Unmade /\ FilterHasEnough /\ ResultsStand

\* Counting in ScriptHttp is counting here.
LEMMA SameCount == /\ \A S : Http!Cardinality(S) = Cardinality(S)
                   /\ Http!PendingIsLive <=> pending = Cardinality(Http!Talking)
<1>1. \A S : Http!Cardinality(S) = Cardinality(S)
  BY DEF Http!Cardinality, Cardinality
<1> QED
  BY <1>1, Zenon DEF Http!PendingIsLive

LEMMA SameCountNext == Http!PendingIsLive' <=> pending' = Cardinality(Http!Talking')
  BY SameCount DEF Http!PendingIsLive

LEMMA FiniteIds == ASSUME Http!ScriptHttpAssumption, NEW S \in SUBSET Http!Ids
                   PROVE  IsFiniteSet(S) /\ Cardinality(S) \in Nat
<1>1. IsFiniteSet(Http!Ids)
  BY FS_Interval DEF Http!Ids, Http!ScriptHttpAssumption
<1> QED
  BY <1>1, FS_Subset, FS_CardinalityType

\* One request more or less is under way.
LEMMA OneMore ==
  ASSUME Http!ScriptHttpAssumption, Http!TypeOK, NEW r \in Http!Ids, NEW t,
         thread' = [thread EXCEPT ![r] = t]
  PROVE  Cardinality(Http!Talking') =
           Cardinality(Http!Talking) + (IF t = "talking" THEN 1 ELSE 0)
                                     - (IF thread[r] = "talking" THEN 1 ELSE 0)
<1>1. IsFiniteSet(Http!Talking) /\ Cardinality(Http!Talking) \in Nat
  BY FiniteIds DEF Http!Talking
<1>2. \A q \in Http!Ids : thread'[q] = IF q = r THEN t ELSE thread[q]
  BY DEF Http!TypeOK
<1> DEFINE others == Http!Talking \ {r}
<1>3. IsFiniteSet(others) /\ Cardinality(others) =
        Cardinality(Http!Talking) - (IF thread[r] = "talking" THEN 1 ELSE 0)
  <2>1. r \in Http!Talking <=> thread[r] = "talking"
    BY DEF Http!Talking
  <2>2. IsFiniteSet(others)
        /\ Cardinality(others) = IF r \in Http!Talking THEN Cardinality(Http!Talking) - 1
                                 ELSE Cardinality(Http!Talking)
    BY <1>1, FS_RemoveElement
  <2> QED
    BY <2>1, <2>2, <1>1
<1>4. CASE t = "talking"
  <2>1. Http!Talking' = others \cup {r} /\ r \notin others
    BY <1>2, <1>4 DEF Http!Talking, Http!Ids
  <2>2. Cardinality(Http!Talking') = Cardinality(others) + 1
    BY <2>1, <1>3, FS_AddElement
  <2> QED
    BY <2>2, <1>1, <1>3, <1>4
<1>5. CASE t # "talking"
  <2>1. Http!Talking' = others
    BY <1>2, <1>5 DEF Http!Talking, Http!Ids
  <2> QED
    BY <2>1, <1>1, <1>3, <1>5
<1> QED
  BY <1>4, <1>5

\* request: the next one, refused or begun.
LEMMA RequestKeeps ==
  ASSUME Http!ScriptHttpAssumption, HttpInv, Http!Request
  PROVE  HttpInv'
<1> DEFINE r == requests + 1
<1>1. /\ r \in Http!Ids /\ requests' = r /\ requests \in Nat
      /\ UNCHANGED <<filter, came, ok, queue, handled>>
  BY DEF HttpInv, Http!TypeOK, Http!Request, Http!Ids, Http!ScriptHttpAssumption, Http!exchange
<1>2. thread[r] = "none"
  BY <1>1 DEF HttpInv, Unmade, Http!Ids
<1>3. PICK t \in {"refused", "talking"} :
        /\ thread' = [thread EXCEPT ![r] = t]
        /\ kind' \in [Http!Ids -> {"http", "modbus"}]
        /\ pending' = pending + (IF t = "talking" THEN 1 ELSE 0)
        /\ t = "talking" => pending < MaxPending
  <2>1. pending \in Nat /\ kind \in [Http!Ids -> {"http", "modbus"}]
    BY DEF HttpInv, Http!TypeOK
  <2>2. CASE thread' = [thread EXCEPT ![r] = "refused"] /\ UNCHANGED <<kind, pending>>
    BY <2>1, <2>2
  <2>3. CASE /\ Http!Room /\ thread' = [thread EXCEPT ![r] = "talking"] /\ pending' = pending + 1
             /\ \E k \in {"http", "modbus"} : kind' = [kind EXCEPT ![r] = k]
    BY <2>1, <2>3 DEF Http!Room
  <2> QED
    BY <2>2, <2>3 DEF Http!Request
<1> HIDE DEF r
<1>4. \A q \in Http!Ids : thread'[q] = IF q = r THEN t ELSE thread[q]
  BY <1>3 DEF HttpInv, Http!TypeOK
<1>5. Http!TypeOK'
  <2>1. requests' \in 0..MaxRequests
    BY <1>1 DEF Http!Ids, Http!ScriptHttpAssumption
  <2>2. pending' \in 0..MaxPending
    BY <1>3 DEF HttpInv, Http!TypeOK, Http!ScriptHttpAssumption
  <2>3. thread' \in [Http!Ids -> {"none", "refused", "talking", "counted", "pushed"}]
    BY <1>1, <1>3 DEF HttpInv, Http!TypeOK
  <2> QED
    BY <1>1, <1>3, <2>1, <2>2, <2>3 DEF HttpInv, Http!TypeOK, Http!Ids
<1>6. Http!PendingIsLive'
  <2>1. Cardinality(Http!Talking') = Cardinality(Http!Talking) + (IF t = "talking" THEN 1 ELSE 0)
                                     - (IF thread[r] = "talking" THEN 1 ELSE 0)
    BY <1>1, <1>3, OneMore DEF HttpInv
  <2>2. Cardinality(Http!Talking) = pending /\ pending \in Nat
    BY SameCount DEF HttpInv, Http!TypeOK
  <2> QED
    BY <2>1, <2>2, <1>2, <1>3, SameCountNext
<1>7. Unmade'
  BY <1>1, <1>4 DEF HttpInv, Unmade, Http!Ids, r
<1>8. Http!GoodIsComplete' /\ FilterHasEnough'
  BY <1>1 DEF HttpInv, Http!GoodIsComplete, FilterHasEnough, Http!Ids
<1>9. ResultsStand'
  BY <1>1, <1>2, <1>4 DEF HttpInv, ResultsStand, EachOnce, Apart, Among, Http!Ids
<1> QED
  BY <1>5, <1>6, <1>7, <1>8, <1>9 DEF HttpInv

\* A response comes, and what the filter makes of it.
LEMMA ResponseKeeps ==
  ASSUME Http!ScriptHttpAssumption, HttpInv, NEW r \in Http!Ids,
         Http!Begins(r) \/ Http!FilterDone(r)
  PROVE  HttpInv'
<1>1. /\ UNCHANGED <<requests, thread, kind, ok, pending, queue, handled>>
      /\ thread[r] = "talking"
  BY DEF Http!Begins, Http!FilterDone, Http!Talking
<1>2. \/ came[r] = "nothing" /\ came' = [came EXCEPT ![r] = "part"] /\ filter' = filter
      \/ /\ came[r] = "part" /\ came' = [came EXCEPT ![r] = "enough"]
         /\ filter' = [filter EXCEPT ![r] = "done"]
  BY DEF Http!Begins, Http!FilterDone
<1>3. Http!TypeOK'
  BY <1>1, <1>2 DEF HttpInv, Http!TypeOK, Http!Ids
<1>4. Http!PendingIsLive' /\ Unmade'
  BY <1>1 DEF HttpInv, Http!PendingIsLive, Http!Talking, Unmade, Http!Ids
<1>5. Http!GoodIsComplete' /\ FilterHasEnough'
  BY <1>1, <1>2 DEF HttpInv, Http!TypeOK, Http!GoodIsComplete, FilterHasEnough, Http!Ids
<1>6. ResultsStand'
  BY <1>1 DEF HttpInv, ResultsStand, EachOnce, Apart, Among, Http!Ids
<1> QED
  BY <1>3, <1>4, <1>5, <1>6 DEF HttpInv

\* The exchange is over and counted down.
LEMMA EndKeeps ==
  ASSUME Http!ScriptHttpAssumption, HttpInv, NEW r \in Http!Ids, Http!ExchangeEnds(r)
  PROVE  HttpInv'
<1>1. /\ UNCHANGED <<requests, kind, filter, queue, handled>> /\ thread[r] = "talking"
      /\ thread' = [thread EXCEPT ![r] = "counted"] /\ pending' = pending - 1
  BY DEF Http!ExchangeEnds, Http!Talking
<1>2. PICK whole \in BOOLEAN, fits \in BOOLEAN :
        /\ came' = IF whole THEN [came EXCEPT ![r] = "all"] ELSE came
        /\ ok' = [ok EXCEPT ![r] = Http!Usable(r, whole) /\ fits]
  BY DEF Http!ExchangeEnds
<1>3. \A q \in Http!Ids : thread'[q] = IF q = r THEN "counted" ELSE thread[q]
  BY <1>1 DEF HttpInv, Http!TypeOK
<1>4. Http!PendingIsLive' /\ pending' \in 0..MaxPending
  <2>1. Cardinality(Http!Talking') = Cardinality(Http!Talking) - 1
    <3>1. Cardinality(Http!Talking') =
            Cardinality(Http!Talking) + (IF "counted" = "talking" THEN 1 ELSE 0)
                                      - (IF thread[r] = "talking" THEN 1 ELSE 0)
      BY <1>1, OneMore DEF HttpInv
    <3>2. Cardinality(Http!Talking) \in Nat
      BY FiniteIds DEF Http!Talking
    <3> QED
      BY <3>1, <3>2, <1>1
  <2>2. Cardinality(Http!Talking') \in Nat
    <3>1. Http!Talking' \in SUBSET Http!Ids
      BY DEF Http!Talking, Http!Ids
    <3> QED
      BY <3>1, FiniteIds
  <2>3. Cardinality(Http!Talking) = pending /\ pending \in 0..MaxPending /\ MaxPending \in Nat
    BY SameCount DEF HttpInv, Http!TypeOK, Http!ScriptHttpAssumption
  <2> QED
    BY <2>1, <2>2, <2>3, <1>1, SameCountNext
<1>5. Http!TypeOK'
  <2>1. ok' \in [Http!Ids -> BOOLEAN]
    <3> DEFINE u == Http!Usable(r, whole) /\ fits
    <3>1. u \in BOOLEAN
      OBVIOUS
    <3> HIDE DEF u
    <3>2. ok' = [ok EXCEPT ![r] = u]
      BY <1>2 DEF u
    <3> QED
      BY <3>1, <3>2 DEF HttpInv, Http!TypeOK
  <2>2. came' \in [Http!Ids -> {"nothing", "part", "enough", "all"}]
    BY <1>2 DEF HttpInv, Http!TypeOK
  <2>3. thread' \in [Http!Ids -> {"none", "refused", "talking", "counted", "pushed"}]
    BY <1>1 DEF HttpInv, Http!TypeOK
  <2> QED
    BY <1>1, <1>4, <2>1, <2>2, <2>3 DEF HttpInv, Http!TypeOK, Http!Ids
<1>6. Unmade'
  BY <1>1, <1>3 DEF HttpInv, Unmade, Http!Ids
<1>7. Http!GoodIsComplete' /\ FilterHasEnough'
  <2>1. \A q \in Http!Ids : came'[q] \in {"enough", "all"} <=>
          came[q] \in {"enough", "all"} \/ (q = r /\ whole)
    BY <1>2 DEF HttpInv, Http!TypeOK
  <2>2. \A q \in Http!Ids : ok'[q] => ok[q] \/ (q = r /\ (whole \/ filter[r] = "done"))
    BY <1>2, Zenon DEF HttpInv, Http!TypeOK, Http!Usable
  <2> QED
    BY <1>1, <2>1, <2>2 DEF HttpInv, Http!GoodIsComplete, FilterHasEnough, Http!Ids
<1>8. ResultsStand'
  BY <1>1, <1>3 DEF HttpInv, ResultsStand, EachOnce, Apart, Among, Http!Ids
<1> QED
  BY <1>5, <1>4, <1>6, <1>7, <1>8 DEF HttpInv

\* The thread's last act.
LEMMA PushKeeps ==
  ASSUME Http!ScriptHttpAssumption, HttpInv, NEW r \in Http!Ids, Http!Push(r)
  PROVE  HttpInv'
<1>1. /\ UNCHANGED <<requests, kind, filter, came, ok, pending, handled>>
      /\ thread[r] = "counted" /\ thread' = [thread EXCEPT ![r] = "pushed"]
      /\ queue' = Append(queue, r)
  BY DEF Http!Push, Http!exchange
<1>2. \A q \in Http!Ids : thread'[q] = IF q = r THEN "pushed" ELSE thread[q]
  BY <1>1 DEF HttpInv, Http!TypeOK
<1>3. /\ queue \in Seq(Http!Ids) /\ handled \in Seq(Http!Ids) /\ queue' \in Seq(Http!Ids)
      /\ DOMAIN queue = 1..Len(queue) /\ Len(queue) \in Nat
      /\ DOMAIN queue' = 1..Len(queue) + 1
      /\ \A i \in 1..Len(queue) : queue'[i] = queue[i]
      /\ queue'[Len(queue) + 1] = r
  BY <1>1 DEF HttpInv, Http!TypeOK
<1>4. Http!TypeOK'
  BY <1>1, <1>3 DEF HttpInv, Http!TypeOK, Http!Ids
<1>5. Http!PendingIsLive'
  <2>1. Http!Talking' = Http!Talking
    BY <1>1, <1>2 DEF Http!Talking, Http!Ids
  <2> QED
    BY <2>1, <1>1 DEF HttpInv, Http!PendingIsLive
<1>6. Unmade'
  BY <1>1, <1>2 DEF HttpInv, Unmade, Http!Ids
<1>7. Http!GoodIsComplete' /\ FilterHasEnough'
  BY <1>1 DEF HttpInv, Http!GoodIsComplete, FilterHasEnough, Http!Ids
<1>8. ResultsStand'
  <2>1. ~Among(queue, r) /\ ~Among(handled, r)
    BY <1>1 DEF HttpInv, ResultsStand
  <2>2. EachOnce(queue)' /\ EachOnce(handled)' /\ Apart'
    BY <2>1, <1>1, <1>3 DEF HttpInv, ResultsStand, EachOnce, Apart, Among
  <2>3. \A q \in Http!Ids : Among(queue', q) <=> Among(queue, q) \/ q = r
    BY <1>3 DEF Among
  <2> QED
    BY <2>2, <2>3, <1>1, <1>2 DEF HttpInv, ResultsStand, Http!Ids, Among
<1> QED
  BY <1>4, <1>5, <1>6, <1>7, <1>8 DEF HttpInv

\* The script host's tick moves a result from the queue.
LEMMA HandleKeeps ==
  ASSUME Http!ScriptHttpAssumption, HttpInv, Http!Handle
  PROVE  HttpInv'
<1>1. /\ UNCHANGED <<requests, thread, kind, filter, came, ok, pending>>
      /\ queue # <<>> /\ queue' = Tail(queue) /\ handled' = Append(handled, Head(queue))
  BY DEF Http!Handle, Http!exchange
<1>2. queue \in Seq(Http!Ids) /\ handled \in Seq(Http!Ids)
  BY DEF HttpInv, Http!TypeOK
<1>3. /\ DOMAIN queue = 1..Len(queue) /\ Len(queue) \in Nat \ {0}
      /\ queue' \in Seq(Http!Ids) /\ DOMAIN queue' = 1..Len(queue) - 1
      /\ \A i \in 1..Len(queue) - 1 : queue'[i] = queue[i + 1]
  BY <1>1, <1>2
<1>4. /\ DOMAIN handled = 1..Len(handled) /\ Len(handled) \in Nat
      /\ handled' \in Seq(Http!Ids) /\ DOMAIN handled' = 1..Len(handled) + 1
      /\ \A i \in 1..Len(handled) : handled'[i] = handled[i]
      /\ handled'[Len(handled) + 1] = queue[1]
  BY <1>1, <1>2
<1>5. Http!TypeOK'
  BY <1>1, <1>3, <1>4 DEF HttpInv, Http!TypeOK, Http!Ids
<1>6. Http!PendingIsLive' /\ Unmade'
  BY <1>1 DEF HttpInv, Http!PendingIsLive, Http!Talking, Unmade, Http!Ids
<1>7. Http!GoodIsComplete' /\ FilterHasEnough'
  BY <1>1 DEF HttpInv, Http!GoodIsComplete, FilterHasEnough, Http!Ids
<1>8. ResultsStand'
  <2>0. EachOnce(queue) /\ EachOnce(handled) /\ Apart
    BY DEF HttpInv, ResultsStand
  <2>1. EachOnce(queue)'
    <3> SUFFICES ASSUME NEW i \in DOMAIN queue', NEW j \in DOMAIN queue', queue'[i] = queue'[j]
                 PROVE  i = j
      BY DEF EachOnce
    <3>1. i + 1 \in DOMAIN queue /\ j + 1 \in DOMAIN queue /\ queue[i + 1] = queue[j + 1]
      BY <1>3
    <3> QED
      BY <3>1, <2>0, <1>3 DEF EachOnce
  <2>2. EachOnce(handled)'
    <3> SUFFICES ASSUME NEW i \in DOMAIN handled', NEW j \in DOMAIN handled',
                        handled'[i] = handled'[j]
                 PROVE  i = j
      BY DEF EachOnce
    <3>1. \A k \in DOMAIN handled : handled[k] # queue[1]
      BY <2>0, <1>3 DEF Apart
    <3> QED
      BY <3>1, <2>0, <1>4 DEF EachOnce
  <2>4. Apart'
    <3> SUFFICES ASSUME NEW i \in DOMAIN queue', NEW j \in DOMAIN handled'
                 PROVE  queue'[i] # handled'[j]
      BY DEF Apart
    <3>1. i + 1 \in DOMAIN queue /\ 1 \in DOMAIN queue /\ queue'[i] = queue[i + 1]
      BY <1>3
    <3>2. queue[i + 1] # queue[1]
      BY <3>1, <2>0, <1>3 DEF EachOnce
    <3> QED
      BY <3>1, <3>2, <2>0, <1>4 DEF Apart
  <2>3. \A q : Among(queue', q) \/ Among(handled', q) <=> Among(queue, q) \/ Among(handled, q)
    <3> TAKE q
    <3>1. Among(queue, q) <=> queue[1] = q \/ Among(queue', q)
      <4>1. ASSUME NEW i \in DOMAIN queue, queue[i] = q, i # 1
            PROVE  Among(queue', q)
        <5>1. i - 1 \in DOMAIN queue' /\ queue'[i - 1] = q
          BY <4>1, <1>3
        <5> QED
          BY <5>1 DEF Among
      <4>2. Among(queue', q) => Among(queue, q)
        BY <1>3 DEF Among
      <4>3. queue[1] = q => Among(queue, q)
        BY <1>3 DEF Among
      <4> QED
        BY <4>1, <4>2, <4>3 DEF Among
    <3>2. Among(handled', q) <=> queue[1] = q \/ Among(handled, q)
      BY <1>4 DEF Among
    <3> QED
      BY <3>1, <3>2
  <2> QED
    BY <2>1, <2>2, <2>3, <2>4, <1>1 DEF HttpInv, ResultsStand, Http!Ids, Among
<1> QED
  BY <1>5, <1>6, <1>7, <1>8 DEF HttpInv

LEMMA HttpKeeps ==
  ASSUME Http!ScriptHttpAssumption, HttpInv, Http!Next \/ UNCHANGED httpVars
  PROVE  HttpInv'
<1>1. CASE UNCHANGED httpVars
  <2>1. Http!TypeOK' /\ Http!PendingIsLive' /\ Http!GoodIsComplete'
    BY <1>1 DEF httpVars, HttpInv, Http!TypeOK, Http!Ids, Http!PendingIsLive, Http!Talking,
       Http!GoodIsComplete
  <2>2. Unmade' /\ FilterHasEnough' /\ ResultsStand'
    BY <1>1 DEF httpVars, HttpInv, Http!Ids, Unmade, FilterHasEnough, ResultsStand, EachOnce,
       Apart, Among
  <2> QED
    BY <2>1, <2>2 DEF HttpInv
<1> QED
  BY <1>1, RequestKeeps, ResponseKeeps, EndKeeps, PushKeeps, HandleKeeps DEF Http!Next

\* A result that stands once is counted once.
LEMMA OneResultCounted ==
  ASSUME Http!ScriptHttpAssumption, HttpInv
  PROVE  Http!OneResult
<1> DEFINE all == queue \o handled
           places(r) == {i \in DOMAIN all : all[i] = r}
<1>1. queue \in Seq(Http!Ids) /\ handled \in Seq(Http!Ids)
  BY DEF HttpInv, Http!TypeOK
<1>2. /\ Len(queue) \in Nat /\ Len(handled) \in Nat
      /\ DOMAIN queue = 1..Len(queue) /\ DOMAIN handled = 1..Len(handled)
      /\ DOMAIN all = 1..Len(queue) + Len(handled)
      /\ \A i \in DOMAIN all :
           all[i] = IF i <= Len(queue) THEN queue[i] ELSE handled[i - Len(queue)]
  BY <1>1
<1> HIDE DEF all
<1>3. \A i, j \in DOMAIN all : all[i] = all[j] => i = j
  <2> SUFFICES ASSUME NEW i \in DOMAIN all, NEW j \in DOMAIN all, all[i] = all[j], i # j
               PROVE  FALSE
    OBVIOUS
  <2>1. CASE i <= Len(queue) /\ j <= Len(queue)
    BY <2>1, <1>2 DEF HttpInv, ResultsStand, EachOnce
  <2>2. CASE i > Len(queue) /\ j > Len(queue)
    <3>1. i - Len(queue) \in DOMAIN handled /\ j - Len(queue) \in DOMAIN handled
      BY <2>2, <1>2
    <3>2. handled[i - Len(queue)] = handled[j - Len(queue)]
      BY <2>2, <1>2
    <3> QED
      BY <3>1, <3>2, <1>2 DEF HttpInv, ResultsStand, EachOnce
  <2>3. CASE i <= Len(queue) /\ j > Len(queue)
    BY <2>3, <1>2 DEF HttpInv, ResultsStand, Apart
  <2>4. CASE i > Len(queue) /\ j <= Len(queue)
    BY <2>4, <1>2 DEF HttpInv, ResultsStand, Apart
  <2> QED
    BY <2>1, <2>2, <2>3, <2>4, <1>2
<1>4. \A r : (\E i \in DOMAIN all : all[i] = r) <=> Among(queue, r) \/ Among(handled, r)
  <2> TAKE r
  <2>1. ASSUME NEW i \in DOMAIN handled, handled[i] = r
        PROVE  \E k \in DOMAIN all : all[k] = r
    <3>1. Len(queue) + i \in DOMAIN all /\ all[Len(queue) + i] = r
      BY <2>1, <1>2
    <3> QED
      BY <3>1
  <2>2. Among(queue, r) => \E k \in DOMAIN all : all[k] = r
    BY <1>2 DEF Among
  <2>3. ASSUME NEW i \in DOMAIN all, all[i] = r
        PROVE  Among(queue, r) \/ Among(handled, r)
    <3>1. CASE i <= Len(queue)
      BY <3>1, <2>3, <1>2 DEF Among
    <3>2. CASE i > Len(queue)
      <4>1. i - Len(queue) \in DOMAIN handled /\ handled[i - Len(queue)] = r
        BY <3>2, <2>3, <1>2
      <4> QED
        BY <4>1 DEF Among
    <3> QED
      BY <3>1, <3>2, <1>2
  <2> QED
    BY <2>1, <2>2, <2>3 DEF Among
<1>5. ASSUME NEW r \in Http!Ids
      PROVE  Cardinality(places(r)) = IF thread[r] = "pushed" THEN 1 ELSE 0
  <2>1. CASE thread[r] = "pushed"
    <3>1. PICK i \in DOMAIN all : all[i] = r
      BY <2>1, <1>4 DEF HttpInv, ResultsStand
    <3>2. places(r) = {i}
      BY <3>1, <1>3
    <3> QED
      BY <3>2, <2>1, FS_Singleton
  <2>2. CASE thread[r] # "pushed"
    <3>1. places(r) = {}
      BY <2>2, <1>4 DEF HttpInv, ResultsStand
    <3> QED
      BY <3>1, <2>2, FS_EmptySet
  <2> QED
    BY <2>1, <2>2
<1> QED
  BY <1>5, SameCount, Zenon DEF Http!OneResult, all

LEMMA SameHttpAssumption == Http!ScriptHttpAssumption
BY SmallAssumption DEF SmallAssumption

LEMMA HttpHolds == FairSpec => []HttpInv
<1>0. Http!ScriptHttpAssumption
  BY SameHttpAssumption
<1>1. Init => HttpInv
  <2> SUFFICES ASSUME Http!Init
               PROVE  HttpInv
    BY DEF Init
  <2>1. Http!TypeOK /\ Http!GoodIsComplete
    BY <1>0 DEF Http!Init, Http!TypeOK, Http!GoodIsComplete, Http!ScriptHttpAssumption
  <2>2. Http!PendingIsLive
    <3>1. Http!Talking = {}
      BY DEF Http!Init, Http!Talking
    <3> QED
      BY <3>1, FS_EmptySet, SameCount DEF Http!Init
  <2>3. Unmade /\ FilterHasEnough
    BY DEF Http!Init, Unmade, FilterHasEnough
  <2>4. ResultsStand
    BY DEF Http!Init, ResultsStand, EachOnce, Apart, Among
  <2> QED
    BY <2>1, <2>2, <2>3, <2>4 DEF HttpInv
<1>2. HttpInv /\ [Next]_vars => HttpInv'
  BY <1>0, Parts, HttpKeeps
<1> QED
  BY <1>1, <1>2, PTL DEF FairSpec

\* ScriptHttp::request and its threads (Tc002ScriptHttp.h): for any number of
\* requests and any limit, every exchange gives one result, good only if it is
\* complete, and gives back the room it took.
THEOREM ResultsStayHonest == FairSpec => []ResultsAreHonest
<1>1. HttpInv => ResultsAreHonest
  BY SameHttpAssumption, OneResultCounted DEF HttpInv, ResultsAreHonest, Http!ResultsAreHonest
<1> QED
  BY <1>1, HttpHolds, PTL

-----------------------------------------------------------------------------
(* Controls                                                                *)

\* A key that counts as pushed has been pushed for as long as it was debounced
\* before that and as has gone by since, and is released as soon as its samples
\* have been for as long as the debouncing takes.  controlLong_ tells whether the
\* push has dimmed anything, and only a push of the hold's length has.
PushIsMeasured(k) ==
  /\ stable[k] =>
       /\ gesture[k].taps = 0 /\ (long[k] <=> gesture[k].dims > 0)
       /\ gesture[k].dims > 0 => pressedAge[k] = Hold
       /\ pushed[k] >= pressedAge[k] + Debounce
       /\ raw[k] => span[k] = pushed[k]
       /\ ~raw[k] => rawAge[k] < Debounce /\ span[k] + rawAge[k] >= pushed[k]
  /\ ~stable[k] =>
       /\ gesture[k].taps = (IF gesture[k].dims = 0 THEN 1 ELSE 0)
       /\ raw[k] => rawAge[k] < Debounce /\ pushed[k] >= rawAge[k]

TouchInv ==
  Touch!TypeOK /\ Touch!FeedbackIsVolume /\ \A k \in Touch!Rocker : PushIsMeasured(k)

LEMMA OlderIs ==
  ASSUME NEW a \in Nat, NEW d \in Nat, NEW c \in Nat
  PROVE  /\ Touch!Older(a, d, c) = (IF a + d <= c THEN a + d ELSE c)
         /\ Touch!Older(a, d, c) \in 0..c
<1> DEFINE m == IF a + d <= c THEN a + d ELSE c
<1>1. m \in {a + d, c} /\ \A y \in {a + d, c} : m <= y
  OBVIOUS
<1>2. \A x \in {a + d, c} : (\A y \in {a + d, c} : x <= y) => x = m
  OBVIOUS
<1>3. Touch!Older(a, d, c) = m
  BY <1>1, <1>2 DEF Touch!Older, Touch!Min
<1> QED
  BY <1>3

\* What a tick makes of one key of the rocker.
LEMMA KeyTick ==
  ASSUME Touch!ControlsAssumption, Touch!TypeOK, NEW d \in 1..MaxGap,
         NEW samples \in [Touch!Keys -> BOOLEAN],
         Touch!Sample(d, samples), Touch!RockerKeys(d), Touch!History(d),
         NEW k \in Touch!Rocker
  PROVE  /\ raw'[k] = samples[k]
         /\ rawAge'[k] = IF samples[k] # raw[k] THEN 0 ELSE Touch!Older(rawAge[k], d, Debounce)
         /\ stable'[k] = IF rawAge'[k] >= Debounce THEN samples[k] ELSE stable[k]
         /\ pressedAge'[k] = IF Touch!Pressed(k) THEN 0 ELSE Touch!Older(pressedAge[k], d, Hold)
         /\ repeatAge'[k] = IF Touch!Dims(k, d) THEN 0 ELSE Touch!Older(repeatAge[k], d, Repeat)
         /\ long'[k] = (Touch!Dims(k, d) \/ Touch!WasLong(k))
         /\ gesture'[k] =
              LET g == IF Touch!Pressed(k) THEN [taps |-> 0, dims |-> 0] ELSE gesture[k]
              IN  [taps |-> IF Touch!Taps(k) THEN Touch!Older(g.taps, 1, 2) ELSE g.taps,
                   dims |-> IF Touch!Dims(k, d) THEN Touch!Older(g.dims, 1, 2) ELSE g.dims]
         /\ pushed'[k] = IF raw'[k] /\ ~raw[k] /\ ~stable[k] THEN 0
                         ELSE IF ~raw'[k] /\ ~stable'[k] THEN 0
                         ELSE Touch!Older(pushed[k], d, Hold + Debounce)
         /\ span'[k] = IF raw'[k] \/ raw[k] THEN pushed'[k] ELSE span[k]
<1>1. k \in Touch!Keys
  BY DEF Touch!Keys
<1>2. /\ raw'[k] = samples[k]
      /\ rawAge'[k] = IF samples[k] # raw[k] THEN 0 ELSE Touch!Older(rawAge[k], d, Debounce)
      /\ stable'[k] = IF rawAge'[k] >= Debounce THEN samples[k] ELSE stable[k]
  BY <1>1, Zenon DEF Touch!Sample
<1>3. /\ pressedAge'[k] = IF Touch!Pressed(k) THEN 0 ELSE Touch!Older(pressedAge[k], d, Hold)
      /\ repeatAge'[k] = IF Touch!Dims(k, d) THEN 0 ELSE Touch!Older(repeatAge[k], d, Repeat)
      /\ long'[k] = (Touch!Dims(k, d) \/ Touch!WasLong(k))
  BY Zenon DEF Touch!RockerKeys
<1>4. /\ gesture'[k] =
           LET g == IF Touch!Pressed(k) THEN [taps |-> 0, dims |-> 0] ELSE gesture[k]
           IN  [taps |-> IF Touch!Taps(k) THEN Touch!Older(g.taps, 1, 2) ELSE g.taps,
                dims |-> IF Touch!Dims(k, d) THEN Touch!Older(g.dims, 1, 2) ELSE g.dims]
      /\ pushed'[k] = IF raw'[k] /\ ~raw[k] /\ ~stable[k] THEN 0
                      ELSE IF ~raw'[k] /\ ~stable'[k] THEN 0
                      ELSE Touch!Older(pushed[k], d, Hold + Debounce)
      /\ span'[k] = IF raw'[k] \/ raw[k] THEN pushed'[k] ELSE span[k]
  BY Zenon DEF Touch!History
<1> QED
  BY <1>2, <1>3, <1>4, Zenon

\* A tick leaves what is known of a key, whatever it is sampled as.
LEMMA KeyKeeps ==
  ASSUME Touch!ControlsAssumption, Touch!TypeOK, NEW d \in 1..MaxGap,
         NEW samples \in [Touch!Keys -> BOOLEAN],
         Touch!Sample(d, samples), Touch!RockerKeys(d), Touch!History(d),
         NEW k \in Touch!Rocker, PushIsMeasured(k)
  PROVE  PushIsMeasured(k)'
<1>1. /\ Debounce \in Nat \ {0} /\ Hold \in Nat \ {0} /\ Repeat \in Nat /\ d \in Nat \ {0}
      /\ k \in Touch!Keys
  BY DEF Touch!ControlsAssumption, Touch!Keys
<1>2. /\ raw[k] \in BOOLEAN /\ stable[k] \in BOOLEAN /\ long[k] \in BOOLEAN
      /\ samples[k] \in BOOLEAN
      /\ rawAge[k] \in 0..Debounce /\ pressedAge[k] \in 0..Hold /\ repeatAge[k] \in 0..Repeat
      /\ gesture[k].taps \in 0..2 /\ gesture[k].dims \in 0..2
      /\ pushed[k] \in 0..Hold + Debounce /\ span[k] \in 0..Hold + Debounce
  BY <1>1 DEF Touch!TypeOK
<1> DEFINE r == raw[k]
           s == stable[k]
           press == Touch!Pressed(k)
           dim == Touch!Dims(k, d)
           tap == Touch!Taps(k)
           aged == Touch!Older(rawAge[k], d, Debounce)
           older == Touch!Older(pressedAge[k], d, Hold)
           longer == Touch!Older(pushed[k], d, Hold + Debounce)
<1>3. /\ aged = (IF rawAge[k] + d <= Debounce THEN rawAge[k] + d ELSE Debounce)
      /\ older = (IF pressedAge[k] + d <= Hold THEN pressedAge[k] + d ELSE Hold)
      /\ longer = (IF pushed[k] + d <= Hold + Debounce THEN pushed[k] + d ELSE Hold + Debounce)
  <2>1. /\ rawAge[k] \in Nat /\ pressedAge[k] \in Nat /\ pushed[k] \in Nat
        /\ Hold + Debounce \in Nat
    BY <1>1, <1>2
  <2> QED
    BY <2>1, <1>1, OlderIs
<1>4. /\ raw'[k] = samples[k]
      /\ rawAge'[k] = (IF samples[k] # r THEN 0 ELSE aged)
      /\ stable'[k] = (IF rawAge'[k] >= Debounce THEN samples[k] ELSE s)
      /\ pressedAge'[k] = (IF press THEN 0 ELSE older)
      /\ long'[k] = (dim \/ Touch!WasLong(k))
      /\ pushed'[k] = (IF raw'[k] /\ ~r /\ ~s THEN 0
                       ELSE IF ~raw'[k] /\ ~stable'[k] THEN 0 ELSE longer)
      /\ span'[k] = (IF raw'[k] \/ r THEN pushed'[k] ELSE span[k])
  BY KeyTick, Zenon
<1>5. /\ press <=> stable'[k] /\ ~s
      /\ Touch!WasLong(k) <=> long[k] /\ ~press
      /\ tap <=> ~stable'[k] /\ s /\ ~(long[k] /\ ~press)
      /\ dim => stable'[k] /\ pressedAge'[k] >= Hold
  BY Zenon DEF Touch!Pressed, Touch!WasLong, Touch!Taps, Touch!Released, Touch!Dims
<1>6. /\ gesture'[k].taps = LET g == IF press THEN 0 ELSE gesture[k].taps
                            IN  IF tap THEN Touch!Older(g, 1, 2) ELSE g
      /\ gesture'[k].dims = LET g == IF press THEN 0 ELSE gesture[k].dims
                            IN  IF dim THEN Touch!Older(g, 1, 2) ELSE g
  <2>1. gesture'[k] =
          LET g == IF press THEN [taps |-> 0, dims |-> 0] ELSE gesture[k]
          IN  [taps |-> IF tap THEN Touch!Older(g.taps, 1, 2) ELSE g.taps,
               dims |-> IF dim THEN Touch!Older(g.dims, 1, 2) ELSE g.dims]
    BY KeyTick, Zenon
  <2> HIDE DEF press, tap, dim
  <2> QED
    BY <2>1
<1>7. /\ Touch!Older(0, 1, 2) = 1
      /\ \A n \in 0..2 : Touch!Older(n, 1, 2) = (IF n = 2 THEN 2 ELSE n + 1)
  BY OlderIs
<1>8. samples[k] = raw'[k] /\ raw'[k] \in BOOLEAN /\ stable'[k] \in BOOLEAN /\ long'[k] \in BOOLEAN
  BY <1>2, <1>4
<1>11. /\ rawAge'[k] >= Debounce => (stable'[k] <=> raw'[k])
       /\ ~(rawAge'[k] >= Debounce) => (stable'[k] <=> s)
       /\ (raw'[k] <=> r) => rawAge'[k] = aged
       /\ ~(raw'[k] <=> r) => rawAge'[k] = 0
       /\ long'[k] <=> dim \/ (long[k] /\ ~press)
  <2>1. /\ rawAge'[k] >= Debounce => stable'[k] = samples[k]
        /\ ~(rawAge'[k] >= Debounce) => stable'[k] = s
        /\ samples[k] = r => rawAge'[k] = aged
        /\ samples[k] # r => rawAge'[k] = 0
    BY <1>4, Zenon
  <2>2. long'[k] = (dim \/ (long[k] /\ ~press))
    BY <1>4, <1>5, Zenon
  <2> HIDE DEF press, dim
  <2> QED
    BY <2>1, <2>2, <1>2, <1>8
<1> HIDE DEF press, dim, tap, aged, older, longer
<1>9. CASE stable'[k]
  <2>1. CASE press
    <3>1. ~s /\ r /\ raw'[k] /\ rawAge'[k] = Debounce /\ rawAge'[k] = aged
      BY <2>1, <1>1, <1>2, <1>3, <1>4, <1>5, <1>8 DEF PushIsMeasured
    <3>2. pressedAge'[k] = 0 /\ ~dim /\ ~tap /\ ~long'[k]
      <4>1. pressedAge'[k] = 0
        BY <2>1, <1>4
      <4> QED
        BY <4>1, <2>1, <3>1, <1>1, <1>5, <1>9, <1>11
    <3>3. pushed'[k] = longer /\ pushed'[k] >= Debounce /\ span'[k] = pushed'[k]
      <4>1. pushed'[k] = longer /\ span'[k] = pushed'[k]
        BY <3>1, <1>4, <1>9, Zenon
      <4>2. pushed[k] >= rawAge[k]
        BY <3>1 DEF PushIsMeasured
      <4>3. rawAge[k] + d >= Debounce
        BY <3>1, <1>1, <1>2, <1>3
      <4> QED
        BY <4>1, <4>2, <4>3, <1>1, <1>2, <1>3
    <3>4. gesture'[k].taps = 0 /\ gesture'[k].dims = 0
      BY <2>1, <3>2, <1>6
    <3> QED
      BY <1>9, <3>1, <3>2, <3>3, <3>4, <1>1 DEF PushIsMeasured
  <2>2. CASE ~press
    <3>1. s /\ pressedAge'[k] = older /\ pushed'[k] = longer /\ ~tap
      BY <2>2, <1>9, <1>4, <1>5
    <3>2. pushed'[k] >= pressedAge'[k] + Debounce
      BY <3>1, <1>1, <1>2, <1>3 DEF PushIsMeasured
    <3>3. gesture'[k].taps = 0
      BY <2>2, <3>1, <1>6 DEF PushIsMeasured
    <3>4. (long'[k] <=> gesture'[k].dims > 0) /\ (gesture'[k].dims > 0 => pressedAge'[k] = Hold)
      <4>1. CASE dim
        <5>1. gesture'[k].dims > 0 /\ long'[k]
          BY <4>1, <2>2, <1>2, <1>6, <1>7, <1>11
        <5> QED
          BY <5>1, <4>1, <1>5, <3>1, <1>1, <1>2, <1>3
      <4>2. CASE ~dim
        <5>1. gesture'[k].dims = gesture[k].dims /\ (long'[k] <=> long[k])
          BY <4>2, <2>2, <1>2, <1>4, <1>5, <1>6, <1>8
        <5> QED
          BY <5>1, <3>1, <1>1, <1>2, <1>3 DEF PushIsMeasured
      <4> QED
        BY <4>1, <4>2
    <3>5. raw'[k] => span'[k] = pushed'[k]
      BY <1>4
    <3>6. ~raw'[k] => rawAge'[k] < Debounce /\ span'[k] + rawAge'[k] >= pushed'[k]
      <4> SUFFICES ASSUME ~raw'[k]
                   PROVE  rawAge'[k] < Debounce /\ span'[k] + rawAge'[k] >= pushed'[k]
        OBVIOUS
      <4>1. rawAge'[k] < Debounce
        BY <1>9, <1>1, <1>2, <1>3, <1>4, <1>8
      <4>2. CASE r
        <5>1. rawAge'[k] = 0 /\ span'[k] = pushed'[k]
          BY <4>2, <1>4, <1>8
        <5> QED
          BY <5>1, <4>1, <3>1, <1>1, <1>2, <1>3
      <4>3. CASE ~r
        <5>1. rawAge'[k] = aged /\ span'[k] = span[k]
          BY <4>3, <1>2, <1>4, <1>8
        <5> QED
          BY <5>1, <4>1, <4>3, <3>1, <1>1, <1>2, <1>3 DEF PushIsMeasured
      <4> QED
        BY <4>2, <4>3
    <3> QED
      BY <1>9, <3>2, <3>3, <3>4, <3>5, <3>6 DEF PushIsMeasured
  <2> QED
    BY <2>1, <2>2
<1>10. CASE ~stable'[k]
  <2>1. ~press /\ ~dim
    BY <1>10, <1>5
  <2>2. gesture'[k].taps = IF gesture'[k].dims = 0 THEN 1 ELSE 0
    <3>1. CASE s
      BY <3>1, <2>1, <1>10, <1>2, <1>5, <1>6, <1>7 DEF PushIsMeasured
    <3>2. CASE ~s
      BY <3>2, <2>1, <1>10, <1>2, <1>5, <1>6, <1>7 DEF PushIsMeasured
    <3> QED
      BY <3>1, <3>2
  <2>3. raw'[k] => rawAge'[k] < Debounce /\ pushed'[k] >= rawAge'[k]
    <3> SUFFICES ASSUME raw'[k]
                 PROVE  rawAge'[k] < Debounce /\ pushed'[k] >= rawAge'[k]
      OBVIOUS
    <3>1. rawAge'[k] < Debounce
      <4>1. rawAge'[k] \in Int /\ Debounce \in Int
        BY <1>1, <1>2, <1>3, <1>11
      <4> QED
        BY <4>1, <1>10, <1>11
    <3>2. ~s
      <4>1. ~(rawAge'[k] >= Debounce)
        BY <3>1, <1>1, <1>2, <1>3, <1>11
      <4> QED
        BY <4>1, <1>10, <1>11
    <3>3. CASE r
      <4>1. rawAge'[k] = aged /\ pushed'[k] = longer
        BY <3>3, <1>2, <1>4, <1>8
      <4> QED
        BY <4>1, <3>1, <3>2, <3>3, <1>1, <1>2, <1>3 DEF PushIsMeasured
    <3>4. CASE ~r
      <4>1. rawAge'[k] = 0 /\ pushed'[k] = 0
        BY <3>2, <3>4, <1>2, <1>4, <1>8
      <4> QED
        BY <4>1, <3>1
    <3> QED
      BY <3>3, <3>4
  <2> QED
    BY <1>10, <2>2, <2>3 DEF PushIsMeasured
<1> QED
  BY <1>9, <1>10

LEMMA TouchTypes ==
  ASSUME Touch!ControlsAssumption, Touch!TypeOK, Touch!Tick
  PROVE  Touch!TypeOK'
<1>1. /\ Debounce \in Nat \ {0} /\ Hold \in Nat \ {0} /\ Repeat \in Nat /\ Double \in Nat
      /\ MaxGap \in Nat
  BY DEF Touch!ControlsAssumption
<1>2. PICK d \in 1..MaxGap, samples \in [Touch!Keys -> BOOLEAN] :
        /\ Touch!Sample(d, samples) /\ Touch!RockerKeys(d) /\ Touch!SelectKey(d)
        /\ Touch!History(d)
  BY Zenon DEF Touch!Tick
<1>3. d \in Nat
  BY <1>1
<1>4. \A a, c \in Nat : Touch!Older(a, d, c) \in 0..c
  BY <1>3, OlderIs
<1>5. \A n \in 0..2 : Touch!Older(n, 1, 2) \in 0..2
  <2>1. \A n \in 0..2 : n \in Nat
    OBVIOUS
  <2>2. \A n \in Nat : Touch!Older(n, 1, 2) \in 0..2
    BY OlderIs
  <2> QED
    BY <2>1, <2>2
<1>6. raw' \in [Touch!Keys -> BOOLEAN] /\ rawAge' \in [Touch!Keys -> 0..Debounce]
  <2>1. raw' = samples
    BY <1>2 DEF Touch!Sample
  <2>2. \A k \in Touch!Keys : rawAge[k] \in Nat
    BY DEF Touch!TypeOK
  <2>3. rawAge' = [k \in Touch!Keys |->
          IF samples[k] # raw[k] THEN 0 ELSE Touch!Older(rawAge[k], d, Debounce)]
    BY <1>2, Zenon DEF Touch!Sample
  <2>4. \A k \in Touch!Keys :
          (IF samples[k] # raw[k] THEN 0 ELSE Touch!Older(rawAge[k], d, Debounce)) \in 0..Debounce
    <3>1. \A k \in Touch!Keys : Touch!Older(rawAge[k], d, Debounce) \in 0..Debounce
      BY <2>2, <1>1, <1>4
    <3>2. 0 \in 0..Debounce
      BY <1>1
    <3> QED
      BY <3>1, <3>2, Zenon
  <2> QED
    BY <2>1, <2>3, <2>4
<1>7. stable' \in [Touch!Keys -> BOOLEAN]
  <2>1. stable' = [k \in Touch!Keys |-> IF rawAge'[k] >= Debounce THEN samples[k] ELSE stable[k]]
    BY <1>2, Zenon DEF Touch!Sample
  <2>2. stable \in [Touch!Keys -> BOOLEAN]
    BY DEF Touch!TypeOK
  <2> QED
    BY <2>1, <2>2, Zenon
<1>8. pressedAge' \in [Touch!Rocker -> 0..Hold] /\ repeatAge' \in [Touch!Rocker -> 0..Repeat]
  <2>1. /\ pressedAge' = [k \in Touch!Rocker |->
             IF Touch!Pressed(k) THEN 0 ELSE Touch!Older(pressedAge[k], d, Hold)]
        /\ repeatAge' = [k \in Touch!Rocker |->
             IF Touch!Dims(k, d) THEN 0 ELSE Touch!Older(repeatAge[k], d, Repeat)]
    BY <1>2, Zenon DEF Touch!RockerKeys
  <2>2. \A k \in Touch!Rocker : pressedAge[k] \in Nat /\ repeatAge[k] \in Nat
    BY DEF Touch!TypeOK
  <2>3. \A k \in Touch!Rocker :
          /\ Touch!Older(pressedAge[k], d, Hold) \in 0..Hold
          /\ Touch!Older(repeatAge[k], d, Repeat) \in 0..Repeat
    BY <2>2, <1>1, <1>4
  <2>4. 0 \in 0..Hold /\ 0 \in 0..Repeat
    BY <1>1
  <2> QED
    BY <2>1, <2>3, <2>4, Zenon
<1>9. long' \in [Touch!Rocker -> BOOLEAN]
  <2>1. long' = [k \in Touch!Rocker |-> Touch!Dims(k, d) \/ Touch!WasLong(k)]
    BY <1>2, Zenon DEF Touch!RockerKeys
  <2> QED
    BY <2>1
<1>10. edgeAge' \in 0..Double + 1 /\ panel' \in BOOLEAN
  <2>1. Touch!Older(edgeAge, d, Double + 1) \in 0..Double + 1 /\ 0 \in 0..Double + 1
    <3>1. edgeAge \in Nat /\ Double + 1 \in Nat
      BY <1>1 DEF Touch!TypeOK
    <3> QED
      BY <3>1, <1>1, <1>4
  <2>2. panel \in BOOLEAN
    BY DEF Touch!TypeOK
  <2>3. \/ edgeAge' = Touch!Older(edgeAge, d, Double + 1)
        \/ edgeAge' = 0
    BY <1>2, Zenon DEF Touch!SelectKey
  <2>4. panel' = panel \/ panel' = ~panel
    BY <1>2, Zenon DEF Touch!SelectKey
  <2> QED
    BY <2>1, <2>2, <2>3, <2>4
<1>11. feedback' \in BOOLEAN /\ shown' \in {"nothing", "volume", "brightness"}
  <2>1. feedback \in BOOLEAN /\ shown \in {"nothing", "volume", "brightness"}
    BY DEF Touch!TypeOK
  <2>2. \/ feedback' \in {FALSE, feedback} /\ shown' = shown
        \/ \E k : feedback' = Touch!Taps(k)
                /\ shown' = (IF Touch!Taps(k) THEN "volume" ELSE "brightness")
    BY <1>2, Zenon DEF Touch!RockerKeys, Touch!AdjustControl
  <2>3. \A k : Touch!Taps(k) \in BOOLEAN
    BY DEF Touch!Taps
  <2> QED
    BY <2>1, <2>2, <2>3
<1>12. gesture' \in [Touch!Rocker -> [taps : 0..2, dims : 0..2]]
  <2> DEFINE g(k) == IF Touch!Pressed(k) THEN [taps |-> 0, dims |-> 0] ELSE gesture[k]
             taps(k) == IF Touch!Taps(k) THEN Touch!Older(g(k).taps, 1, 2) ELSE g(k).taps
             dims(k) == IF Touch!Dims(k, d) THEN Touch!Older(g(k).dims, 1, 2) ELSE g(k).dims
  <2>1. gesture' = [k \in Touch!Rocker |-> [taps |-> taps(k), dims |-> dims(k)]]
    BY <1>2, Zenon DEF Touch!History
  <2>2. ASSUME NEW k \in Touch!Rocker
        PROVE  taps(k) \in 0..2 /\ dims(k) \in 0..2
    <3>1. gesture[k] \in [taps : 0..2, dims : 0..2]
      BY DEF Touch!TypeOK
    <3>2. g(k) \in [taps : 0..2, dims : 0..2]
      BY <3>1
    <3> HIDE DEF g
    <3> QED
      BY <3>2, <1>5
  <2> HIDE DEF taps, dims
  <2> QED
    BY <2>1, <2>2
<1>13. pushed' \in [Touch!Rocker -> 0..Hold + Debounce]
  <2>1. pushed' = [k \in Touch!Rocker |->
          IF raw'[k] /\ ~raw[k] /\ ~stable[k] THEN 0
          ELSE IF ~raw'[k] /\ ~stable'[k] THEN 0
          ELSE Touch!Older(pushed[k], d, Hold + Debounce)]
    BY <1>2, Zenon DEF Touch!History
  <2>2. \A k \in Touch!Rocker : Touch!Older(pushed[k], d, Hold + Debounce) \in 0..Hold + Debounce
    <3>1. (\A k \in Touch!Rocker : pushed[k] \in Nat) /\ Hold + Debounce \in Nat
      BY <1>1 DEF Touch!TypeOK
    <3> QED
      BY <3>1, <1>4
  <2>3. 0 \in 0..Hold + Debounce
    BY <1>1
  <2> QED
    BY <2>1, <2>2, <2>3, Zenon
<1>14. span' \in [Touch!Rocker -> 0..Hold + Debounce]
  <2>1. span' = [k \in Touch!Rocker |-> IF raw'[k] \/ raw[k] THEN pushed'[k] ELSE span[k]]
    BY <1>2, Zenon DEF Touch!History
  <2>2. span \in [Touch!Rocker -> 0..Hold + Debounce]
    BY DEF Touch!TypeOK
  <2> QED
    BY <2>1, <2>2, <1>13, Zenon
<1> QED
  BY <1>6, <1>7, <1>8, <1>9, <1>10, <1>11, <1>12, <1>13, <1>14 DEF Touch!TypeOK

LEMMA TouchKeeps ==
  ASSUME Touch!ControlsAssumption, TouchInv, Touch!Next \/ UNCHANGED touchVars
  PROVE  TouchInv'
<1>1. CASE UNCHANGED touchVars
  <2>1. Touch!TypeOK' /\ Touch!FeedbackIsVolume'
    BY <1>1 DEF TouchInv, touchVars, Touch!TypeOK, Touch!FeedbackIsVolume, Touch!Keys,
       Touch!Rocker, Touch!Knob
  <2>2. \A k \in Touch!Rocker : PushIsMeasured(k)'
    BY <1>1 DEF TouchInv, touchVars, PushIsMeasured
  <2> QED
    BY <2>1, <2>2 DEF TouchInv, Touch!Rocker
<1>2. CASE Touch!Tick
  <2>1. PICK d \in 1..MaxGap, samples \in [Touch!Keys -> BOOLEAN] :
          /\ Touch!Sample(d, samples) /\ Touch!RockerKeys(d) /\ Touch!SelectKey(d)
          /\ Touch!History(d)
    BY <1>2, Zenon DEF Touch!Tick
  <2>2. \A k \in Touch!Rocker : PushIsMeasured(k)'
    BY <2>1, KeyKeeps DEF TouchInv
  <2>3. Touch!FeedbackIsVolume'
    <3>1. Touch!AdjustControl(d) /\ (feedback => shown = "volume")
      BY <2>1, Zenon DEF Touch!RockerKeys, TouchInv, Touch!FeedbackIsVolume
    <3>2. \/ feedback' \in {FALSE, feedback} /\ shown' = shown
          \/ \E k : feedback' = Touch!Taps(k)
                  /\ shown' = (IF Touch!Taps(k) THEN "volume" ELSE "brightness")
      BY <3>1, Zenon DEF Touch!AdjustControl
    <3> QED
      BY <3>1, <3>2 DEF Touch!FeedbackIsVolume
  <2> QED
    BY <2>2, <2>3, <1>2, TouchTypes DEF TouchInv, Touch!Rocker
<1> QED
  BY <1>1, <1>2 DEF Touch!Next

\* What is known of a push makes one gesture of it.
LEMMA OneGestureEach ==
  ASSUME Touch!ControlsAssumption, TouchInv
  PROVE  Touch!GesturesAreDistinct
<1>1. ASSUME NEW k \in Touch!Rocker, stable[k], gesture[k].dims > 0
      PROVE  span[k] >= Hold
  <2>1. /\ Debounce \in Nat /\ Hold \in Nat
        /\ rawAge[k] \in Nat /\ pushed[k] \in Nat /\ span[k] \in Nat /\ raw[k] \in BOOLEAN
    BY DEF TouchInv, Touch!TypeOK, Touch!ControlsAssumption, Touch!Keys
  <2>2. pushed[k] >= Hold + Debounce
    BY <1>1 DEF TouchInv, PushIsMeasured
  <2>3. (raw[k] => span[k] = pushed[k])
        /\ (~raw[k] => rawAge[k] < Debounce /\ span[k] + rawAge[k] >= pushed[k])
    BY <1>1 DEF TouchInv, PushIsMeasured
  <2> QED
    BY <2>1, <2>2, <2>3
<1>2. Touch!OneGesture
  BY <1>1 DEF TouchInv, PushIsMeasured, Touch!OneGesture
<1> QED
  BY <1>2 DEF TouchInv, Touch!GesturesAreDistinct

LEMMA SameTouchAssumption == Touch!ControlsAssumption
BY SmallAssumption DEF SmallAssumption

LEMMA TouchHolds == FairSpec => []TouchInv
<1>0. Touch!ControlsAssumption
  BY SameTouchAssumption
<1>1. Init => TouchInv
  <2> SUFFICES ASSUME Touch!Init
               PROVE  TouchInv
    BY DEF Init
  <2>1. Touch!TypeOK
    <3>1. /\ Debounce \in Nat /\ Hold \in Nat /\ Repeat \in Nat /\ Double \in Nat
          /\ Hold + Debounce \in Nat /\ Double + 1 \in Nat
      BY <1>0 DEF Touch!ControlsAssumption
    <3>2. /\ {raw, stable} \subseteq [Touch!Keys -> BOOLEAN] /\ long \in [Touch!Rocker -> BOOLEAN]
          /\ {feedback, panel} \subseteq BOOLEAN
          /\ shown \in {"nothing", "volume", "brightness"}
      BY DEF Touch!Init
    <3>3. /\ rawAge \in [Touch!Keys -> 0..Debounce] /\ edgeAge \in 0..Double + 1
          /\ pressedAge \in [Touch!Rocker -> 0..Hold] /\ repeatAge \in [Touch!Rocker -> 0..Repeat]
      BY <3>1 DEF Touch!Init
    <3>4. gesture \in [Touch!Rocker -> [taps : 0..2, dims : 0..2]]
      BY DEF Touch!Init
    <3>5. pushed \in [Touch!Rocker -> 0..Hold + Debounce]
          /\ span \in [Touch!Rocker -> 0..Hold + Debounce]
      BY <3>1 DEF Touch!Init
    <3> QED
      BY <3>2, <3>3, <3>4, <3>5 DEF Touch!TypeOK
  <2>2. Touch!FeedbackIsVolume
    BY DEF Touch!Init, Touch!FeedbackIsVolume
  <2>3. \A k \in Touch!Rocker : PushIsMeasured(k)
    BY DEF Touch!Init, PushIsMeasured, Touch!Keys
  <2> QED
    BY <2>1, <2>2, <2>3 DEF TouchInv
<1>2. TouchInv /\ [Next]_vars => TouchInv'
  BY <1>0, Parts, TouchKeeps
<1> QED
  BY <1>1, <1>2, PTL DEF FairSpec

\* The debouncing and the control loop (Tc002Periphery.cpp): for any times of
\* debouncing, hold and repetition and any frames, a push of the rocker is one
\* step of the volume or dims, and dims only if it was sampled as long as a hold.
THEOREM GesturesStayDistinct == FairSpec => []GesturesAreDistinct
<1>1. TouchInv => GesturesAreDistinct
  BY SameTouchAssumption, OneGestureEach DEF GesturesAreDistinct
<1> QED
  BY <1>1, TouchHolds, PTL

-----------------------------------------------------------------------------
(* McuLink                                                                 *)

\* The sum of bytes is a number of two bytes: there is a function that adds them
\* up one by one, and every one that does stays among those numbers.
LEMMA SumIsTwoBytes ==
  ASSUME Base \in Nat \ {0}, NEW b \in Seq(Int)
  PROVE  Mcu!SumOf(b) \in 0..Base * Base - 1
<1> DEFINE M == Base * Base
           Adds(f, m) == f = [n \in 0..m |-> IF n = 0 THEN 0 ELSE (f[n - 1] + b[n]) % M]
           upto == CHOOSE f : Adds(f, Len(b))
<1>0. M \in Nat \ {0} /\ Len(b) \in Nat /\ \A n \in 1..Len(b) : b[n] \in Int
  <2>1. Base * Base \in Nat \ {0}
    BY SMT
  <2> QED
    BY <2>1
<1> HIDE DEF M
<1>1. \A m \in 0..Len(b) : \E f : Adds(f, m)
  <2> DEFINE T == {m \in 0..Len(b) : ~\E f : Adds(f, m)}
  <2> SUFFICES ASSUME T # {}
               PROVE  FALSE
    OBVIOUS
  <2>0. T \subseteq Nat
    BY <1>0
  <2>1. PICK m \in T : \A y \in T : m <= y
    <3> HIDE DEF T
    <3> QED
      BY <2>0, Inputs!Least
  <2>2. CASE m = 0
    <3>1. Adds([n \in 0..0 |-> 0], 0)
      OBVIOUS
    <3> QED
      BY <3>1, <2>1, <2>2
  <2>3. CASE m # 0
    <3>1. m - 1 \in 0..Len(b) /\ ~(m - 1 \in T)
      <4>1. m \in 0..Len(b)
        OBVIOUS
      <4> HIDE DEF T
      <4> QED
        BY <4>1, <2>1, <2>3, <1>0
    <3>2. PICK f : Adds(f, m - 1)
      BY <3>1
    <3> DEFINE g == [n \in 0..m |-> IF n = m THEN (f[m - 1] + b[m]) % M ELSE f[n]]
    <3>3. Adds(g, m)
      <4>1. ASSUME NEW n \in 0..m
            PROVE  g[n] = IF n = 0 THEN 0 ELSE (g[n - 1] + b[n]) % M
        <5>1. CASE n = m
          <6>1. g[n] = (f[m - 1] + b[m]) % M /\ g[n - 1] = f[m - 1]
            BY <5>1, <2>1, <2>3
          <6> QED
            BY <6>1, <5>1, <2>3
        <5>2. CASE n # m
          <6>1. g[n] = f[n] /\ n \in 0..m - 1 /\ (n # 0 => g[n - 1] = f[n - 1])
            BY <5>2, <2>1
          <6>2. f[n] = IF n = 0 THEN 0 ELSE (f[n - 1] + b[n]) % M
            BY <6>1, <3>2, Zenon
          <6> QED
            BY <6>1, <6>2
        <5> QED
          BY <5>1, <5>2
      <4>2. DOMAIN g = 0..m /\ g = [n \in 0..m |-> g[n]]
        OBVIOUS
      <4> HIDE DEF g
      <4> QED
        BY <4>1, <4>2, Zenon
    <3> QED
      BY <3>3, <2>1, Zenon
  <2> QED
    BY <2>2, <2>3
<1>2. Adds(upto, Len(b))
  <2>1. Len(b) \in 0..Len(b)
    BY <1>0
  <2>2. \E f : Adds(f, Len(b))
    BY <2>1, <1>1
  <2> HIDE DEF Adds
  <2> QED
    BY <2>2, Zenon
<1> HIDE DEF upto
<1>3. \A n \in 0..Len(b) : upto[n] \in 0..M - 1
  <2> DEFINE T == {m \in 0..Len(b) : upto[m] \notin 0..M - 1}
  <2> SUFFICES ASSUME T # {}
               PROVE  FALSE
    OBVIOUS
  <2>0. T \subseteq Nat
    BY <1>0
  <2>1. PICK m \in T : \A y \in T : m <= y
    <3> HIDE DEF T
    <3> QED
      BY <2>0, Inputs!Least
  <2>2. upto[m] = IF m = 0 THEN 0 ELSE (upto[m - 1] + b[m]) % M
    BY <2>1, <1>2, Zenon
  <2>3. CASE m = 0
    BY <2>1, <2>2, <2>3, <1>0
  <2>4. CASE m # 0
    <3>1. upto[m - 1] \in Int /\ b[m] \in Int
      BY <2>1, <2>4, <1>0
    <3>2. (upto[m - 1] + b[m]) % M \in 0..M - 1
      <4> DEFINE x == upto[m - 1] + b[m]
      <4>1. x \in Int /\ M \in Nat /\ M > 0
        BY <3>1, <1>0
      <4> HIDE DEF x
      <4>2. x % M \in 0..M - 1
        BY <4>1
      <4> QED
        BY <4>2 DEF x
    <3> QED
      BY <3>2, <2>1, <2>2, <2>4
  <2> QED
    BY <2>3, <2>4
<1>4. Mcu!SumOf(b) = upto[Len(b)]
  BY Zenon DEF Mcu!SumOf, upto, M
<1> QED
  BY <1>3, <1>4, <1>0 DEF M

\* What a packet of the microcontroller looks like.
IsPacket(p, c) ==
  \E n \in 0..MaxPayload :
    /\ p \in Seq(Mcu!Byte) /\ Len(p) = n + 6
    /\ p[1] = Base - 1 /\ p[2] = 2 /\ p[3] = c /\ p[4] = n
    /\ \A i \in 2..n + 4 : p[i] # Base - 1
    /\ Mcu!SumOf(SubSeq(p, 1, n + 4)) = p[n + 5] * Base + p[n + 6]

LEMMA PacketsArePackets ==
  ASSUME Mcu!McuLinkAssumption, NEW c \in 1..MaxPackets, NEW n \in 0..MaxPayload
  PROVE  /\ IsPacket(Mcu!McuPacket(c, [i \in 1..n |-> i]), c)
         /\ Len(Mcu!McuPacket(c, [i \in 1..n |-> i])) = n + 6
<1> DEFINE payload == [i \in 1..n |-> i]
           lead == Mcu!Header \o <<c, Len(payload)>>
           front == lead \o payload
           sum == Mcu!SumOf(front)
           tail == <<sum \div Base, sum % Base>>
           p == front \o tail
<1>1. /\ Base \in Nat /\ Base > 3 /\ MaxPayload \in Nat /\ MaxPayload < Base - 1
      /\ c \in 1..Base - 2 /\ n \in 0..Base - 2
  BY DEF Mcu!McuLinkAssumption
<1>2. /\ payload \in Seq(Mcu!Byte) /\ Len(payload) = n
      /\ \A i \in 1..n : payload[i] = i
  <2>1. \A i \in 1..n : i \in Mcu!Byte
    BY <1>1 DEF Mcu!Byte
  <2> QED
    BY <2>1, <1>1
<1> HIDE DEF payload
<1>3. /\ lead \in Seq(Mcu!Byte) /\ Len(lead) = 4
      /\ lead[1] = Base - 1 /\ lead[2] = 2 /\ lead[3] = c /\ lead[4] = n
  <2>1. /\ Base - 1 \in Mcu!Byte /\ 2 \in Mcu!Byte /\ c \in Mcu!Byte /\ n \in Mcu!Byte
    BY <1>1 DEF Mcu!Byte
  <2>2. lead = <<Base - 1, 2>> \o <<c, n>>
    BY <1>2 DEF Mcu!Header
  <2>3. <<Base - 1, 2>> \in Seq(Mcu!Byte) /\ <<c, n>> \in Seq(Mcu!Byte)
    BY <2>1
  <2>4. /\ lead \in Seq(Mcu!Byte) /\ Len(lead) = 2 + 2
        /\ \A i \in 1..2 + 2 : lead[i] = IF i <= 2 THEN <<Base - 1, 2>>[i] ELSE <<c, n>>[i - 2]
    <3> HIDE DEF lead
    <3>1. Len(<<Base - 1, 2>>) = 2 /\ Len(<<c, n>>) = 2
      OBVIOUS
    <3> QED
      BY <2>2, <2>3, <3>1, ConcatProperties
  <2> HIDE DEF lead
  <2> QED
    BY <2>4
<1> HIDE DEF lead
<1>4. /\ front \in Seq(Mcu!Byte) /\ Len(front) = n + 4
      /\ \A i \in 1..n + 4 : front[i] = IF i <= 4 THEN lead[i] ELSE payload[i - 4]
  <2>1. /\ front \in Seq(Mcu!Byte) /\ Len(front) = Len(lead) + Len(payload)
        /\ \A i \in 1..Len(lead) + Len(payload) :
             front[i] = IF i <= Len(lead) THEN lead[i] ELSE payload[i - Len(lead)]
    BY <1>2, <1>3, ConcatProperties
  <2> QED
    BY <2>1, <1>1, <1>2, <1>3
<1> HIDE DEF front
<1>5. sum \in 0..Base * Base - 1
  <2>1. front \in Seq(Int) /\ Base \in Nat \ {0}
    <3>1. Mcu!Byte \subseteq Int
      BY <1>1 DEF Mcu!Byte
    <3>2. Base \in Nat \ {0}
      BY <1>1
    <3>3. Seq(Mcu!Byte) \subseteq Seq(Int)
      BY <3>1, SeqMonotonic, Zenon
    <3> QED
      BY <3>2, <3>3, <1>4, Zenon
  <2> QED
    BY <2>1, SumIsTwoBytes
<1> HIDE DEF sum
<1>6. /\ sum \div Base \in 0..Base - 1 /\ sum % Base \in 0..Base - 1
      /\ (sum \div Base) * Base + (sum % Base) = sum
  <2> DEFINE q == sum \div Base
             r == sum % Base
  <2>1. /\ q \in Int /\ r \in 0..Base - 1 /\ sum = Base * q + r
    BY <1>1, <1>5
  <2> HIDE DEF q, r
  <2>2. sum = q * Base + r /\ Base * Base \in Int /\ q * Base \in Int
    BY <2>1, <1>1
  <2>3. q >= 0
    <3> SUFFICES ASSUME q <= 0 - 1
                 PROVE  FALSE
      BY <2>1
    <3>1. q * Base <= 0 - Base
      BY <2>1, <1>1
    <3> QED
      BY <3>1, <2>1, <2>2, <1>1, <1>5
  <2>4. q <= Base - 1
    <3> SUFFICES ASSUME q >= Base
                 PROVE  FALSE
      BY <2>1, <1>1
    <3>1. q * Base >= Base * Base
      BY <2>1, <1>1
    <3> QED
      BY <3>1, <2>1, <2>2, <1>1, <1>5
  <2> QED
    BY <2>1, <2>2, <2>3, <2>4 DEF q, r
<1>7. tail \in Seq(Mcu!Byte) /\ Len(tail) = 2 /\ tail[1] = sum \div Base /\ tail[2] = sum % Base
  BY <1>6 DEF Mcu!Byte
<1> HIDE DEF tail
<1>8. /\ p \in Seq(Mcu!Byte) /\ Len(p) = n + 6
      /\ \A i \in 1..n + 4 : p[i] = front[i]
      /\ p[n + 5] = tail[1] /\ p[n + 6] = tail[2]
  <2>1. /\ p \in Seq(Mcu!Byte) /\ Len(p) = Len(front) + Len(tail)
        /\ \A i \in 1..Len(front) + Len(tail) :
             p[i] = IF i <= Len(front) THEN front[i] ELSE tail[i - Len(front)]
    BY <1>4, <1>7, ConcatProperties
  <2> QED
    BY <2>1, <1>1, <1>4, <1>7
<1> HIDE DEF p
<1>9. SubSeq(p, 1, n + 4) = front
  <2>1. \A i \in 1..n + 4 : p[i] \in Mcu!Byte
    BY <1>8, <1>1
  <2>2. /\ SubSeq(p, 1, n + 4) \in Seq(Mcu!Byte) /\ Len(SubSeq(p, 1, n + 4)) = n + 4
        /\ \A i \in 1..n + 4 : SubSeq(p, 1, n + 4)[i] = p[i]
    BY <2>1, <1>1, SubSeqProperties
  <2> QED
    BY <2>2, <1>4, <1>8, SeqEqual
<1>10. /\ p[1] = Base - 1 /\ p[2] = 2 /\ p[3] = c /\ p[4] = n
       /\ \A i \in 2..n + 4 : p[i] # Base - 1
  <2>1. p[1] = Base - 1 /\ p[2] = 2 /\ p[3] = c /\ p[4] = n
    BY <1>1, <1>3, <1>4, <1>8
  <2>2. \A i \in 5..n + 4 : p[i] = i - 4
    BY <1>1, <1>2, <1>4, <1>8
  <2> QED
    BY <2>1, <2>2, <1>1
<1>11. Mcu!SumOf(SubSeq(p, 1, n + 4)) = p[n + 5] * Base + p[n + 6]
  BY <1>6, <1>7, <1>8, <1>9 DEF sum
<1>12. IsPacket(p, c) /\ Len(p) = n + 6
  BY <1>8, <1>10, <1>11 DEF IsPacket
<1> QED
  BY <1>12, Zenon DEF Mcu!McuPacket, p, tail, sum, front, lead, payload

\* A packet's command begins at i.
Mark(s, i, c) == s[i] = Base - 1 /\ s[i + 1] = 2 /\ s[i + 2] = c

\* Only packets that were sent and not taken have their command in s, each once.
OwnMarks(s, n, taken) ==
  /\ \A c \in 1..MaxPackets, i \in 1..Len(s) - 2 :
       Mark(s, i, c) => c <= n /\ c \notin taken
  /\ \A c \in 1..MaxPackets, i, j \in 1..Len(s) - 2 :
       Mark(s, i, c) /\ Mark(s, j, c) => i = j

\* The packet p stands in s from i on, and no other command begins in it.
Stands(s, p, i) == \A j \in 1..Len(p) : s[i + j - 1] = p[j]
Alone(s, p, i) ==
  \A j \in i + 1..i + Len(p) - 1, c \in 1..MaxPackets : j + 2 <= Len(s) => ~Mark(s, j, c)
Places(s, p) == 1..Len(s) - Len(p) + 1

KeptIn(s, sent, taken) ==
  \A k \in DOMAIN sent : sent[k].whole /\ k \notin taken =>
    \E i \in Places(s, sent[k].bytes) : Stands(s, sent[k].bytes, i) /\ Alone(s, sent[k].bytes, i)

SoundPackets(sent) ==
  Len(sent) <= MaxPackets /\ \A k \in DOMAIN sent : IsPacket(sent[k].bytes, k)

\* A packet that stands somewhere has its command there.
LEMMA CommandStands ==
  ASSUME Mcu!McuLinkAssumption, NEW s \in Seq(Mcu!Byte), NEW c \in 1..MaxPackets, NEW p,
         IsPacket(p, c), NEW i \in Places(s, p), Stands(s, p, i)
  PROVE  i \in 1..Len(s) - 2 /\ Mark(s, i, c) /\ Len(p) \in Nat /\ Len(p) >= 6
<1>1. PICK n \in 0..MaxPayload :
        Len(p) = n + 6 /\ p[1] = Base - 1 /\ p[2] = 2 /\ p[3] = c
  BY Zenon DEF IsPacket
<1>2. MaxPayload \in Nat /\ Len(s) \in Nat /\ i \in Nat
  BY <1>1 DEF Mcu!McuLinkAssumption, Places
<1>3. 1 \in 1..Len(p) /\ 2 \in 1..Len(p) /\ 3 \in 1..Len(p)
  BY <1>1, <1>2
<1>4. s[i + 1 - 1] = p[1] /\ s[i + 2 - 1] = p[2] /\ s[i + 3 - 1] = p[3]
  BY <1>3 DEF Stands
<1> QED
  BY <1>1, <1>2, <1>4 DEF Mark, Places

\* t is s without its first d bytes.
Behind(t, s, d) ==
  /\ t \in Seq(Mcu!Byte) /\ s \in Seq(Mcu!Byte) /\ d \in 0..Len(s)
  /\ Len(t) = Len(s) - d /\ \A i \in 1..Len(t) : t[i] = s[i + d]

\* What goes from the front takes nothing with it that is still to be taken.
LEMMA DropKeeps ==
  ASSUME Mcu!McuLinkAssumption, NEW t, NEW s, NEW d, Behind(t, s, d),
         NEW sent \in Seq([bytes : Seq(Mcu!Byte), whole : BOOLEAN]), SoundPackets(sent),
         NEW n \in Nat, NEW taken, NEW more, taken \subseteq more,
         OwnMarks(s, n, taken), KeptIn(s, sent, taken),
         \A c \in 1..MaxPackets, i \in d + 1..Len(s) - 2 : Mark(s, i, c) => c \notin more,
         \A k \in DOMAIN sent : sent[k].whole /\ k \notin more =>
           \A i \in Places(s, sent[k].bytes) :
             Stands(s, sent[k].bytes, i) /\ Alone(s, sent[k].bytes, i) => i > d
  PROVE  OwnMarks(t, n, more) /\ KeptIn(t, sent, more)
<1>1. /\ Len(s) \in Nat /\ d \in Nat /\ Len(t) = Len(s) - d /\ Len(t) \in Nat
      /\ \A i \in 1..Len(t) : t[i] = s[i + d]
  BY DEF Behind
<1>2. \A c \in 1..MaxPackets, i \in 1..Len(t) - 2 :
        Mark(t, i, c) <=> Mark(s, i + d, c)
  <2>1. ASSUME NEW c \in 1..MaxPackets, NEW i \in 1..Len(t) - 2
        PROVE  Mark(t, i, c) <=> Mark(s, i + d, c)
    <3>1. i \in 1..Len(t) /\ i + 1 \in 1..Len(t) /\ i + 2 \in 1..Len(t)
      BY <1>1
    <3>2. t[i] = s[i + d] /\ t[i + 1] = s[(i + 1) + d] /\ t[i + 2] = s[(i + 2) + d]
      BY <1>1, <3>1, Zenon
    <3>3. (i + 1) + d = (i + d) + 1 /\ (i + 2) + d = (i + d) + 2
      BY <1>1
    <3> QED
      BY <3>2, <3>3, Zenon DEF Mark
  <2> QED
    BY <2>1
<1>3. \A i \in 1..Len(t) - 2 : i + d \in d + 1..Len(s) - 2 /\ i + d \in 1..Len(s) - 2
  BY <1>1
<1>4. OwnMarks(t, n, more)
  <2>1. ASSUME NEW c \in 1..MaxPackets, NEW i \in 1..Len(t) - 2, Mark(t, i, c)
        PROVE  c <= n /\ c \notin more
    BY <1>2, <1>3, <2>1 DEF OwnMarks
  <2>2. ASSUME NEW c \in 1..MaxPackets, NEW i \in 1..Len(t) - 2, NEW j \in 1..Len(t) - 2,
               Mark(t, i, c), Mark(t, j, c)
        PROVE  i = j
    <3>1. i + d = j + d
      BY <1>2, <1>3, <2>2 DEF OwnMarks
    <3> QED
      BY <3>1, <1>1
  <2> QED
    BY <2>1, <2>2, Zenon DEF OwnMarks
<1>5. KeptIn(t, sent, more)
  <2>1. SUFFICES ASSUME NEW k \in DOMAIN sent, sent[k].whole, k \notin more
                 PROVE  \E i \in Places(t, sent[k].bytes) :
                          Stands(t, sent[k].bytes, i) /\ Alone(t, sent[k].bytes, i)
    BY Zenon DEF KeptIn
  <2> DEFINE p == sent[k].bytes
  <2>2. PICK i \in Places(s, p) : Stands(s, p, i) /\ Alone(s, p, i)
    BY <2>1, Zenon DEF KeptIn
  <2>3. i > d
    BY <2>1, <2>2, Zenon
  <2>4. Len(p) \in Nat /\ Len(p) >= 6 /\ i \in Nat
    <3>1. IsPacket(p, k)
      BY Zenon DEF SoundPackets
    <3> QED
      BY <2>2, <3>1 DEF IsPacket, Mcu!McuLinkAssumption, Places
  <2> HIDE DEF p
  <2>5. i - d \in Places(t, p) /\ i \in 1..Len(s) - Len(p) + 1
    BY <1>1, <2>2, <2>3, <2>4 DEF Places
  <2>6. Stands(t, p, i - d)
    <3>1. ASSUME NEW j \in 1..Len(p)
          PROVE  t[(i - d) + j - 1] = p[j]
      <4>1. (i - d) + j - 1 \in 1..Len(t) /\ ((i - d) + j - 1) + d = i + j - 1
        BY <1>1, <2>3, <2>4, <2>5
      <4>2. t[(i - d) + j - 1] = s[i + j - 1]
        BY <4>1, <1>1, Zenon
      <4> QED
        BY <4>2, <2>2 DEF Stands
    <3> QED
      BY <3>1, Zenon DEF Stands
  <2>7. Alone(t, p, i - d)
    <3>1. ASSUME NEW j \in (i - d) + 1..(i - d) + Len(p) - 1, NEW c \in 1..MaxPackets,
                 j + 2 <= Len(t), Mark(t, j, c)
          PROVE  FALSE
      <4>1. j \in 1..Len(t) - 2 /\ j + d \in i + 1..i + Len(p) - 1 /\ (j + d) + 2 <= Len(s)
        BY <1>1, <2>3, <2>4, <2>5, <3>1
      <4> QED
        BY <4>1, <1>2, <2>2, <3>1 DEF Alone
    <3> QED
      BY <3>1, Zenon DEF Alone
  <2> QED
    BY <2>5, <2>6, <2>7, Zenon DEF p
<1> QED
  BY <1>4, <1>5

\* Bytes of a packet put behind the others bring its command and no other.
LEMMA SentKeeps ==
  ASSUME Mcu!McuLinkAssumption,
         NEW s \in Seq(Mcu!Byte), NEW t \in Seq(Mcu!Byte), NEW p, NEW m \in 1..Len(p),
         Len(t) = Len(s) + m, \A i \in 1..Len(s) : t[i] = s[i],
         \A j \in 1..m : t[Len(s) + j] = p[j],
         NEW sent \in Seq([bytes : Seq(Mcu!Byte), whole : BOOLEAN]), SoundPackets(sent),
         Len(sent) < MaxPackets, IsPacket(p, Len(sent) + 1),
         NEW taken, taken \subseteq 1..Len(sent),
         OwnMarks(s, Len(sent), taken), KeptIn(s, sent, taken)
  PROVE  LET more == Append(sent, [bytes |-> p, whole |-> m = Len(p)])
         IN  /\ OwnMarks(t, Len(sent) + 1, taken) /\ KeptIn(t, more, taken)
             /\ SoundPackets(more)
<1> DEFINE L == Len(s)
           n == Len(sent)
           new == [bytes |-> p, whole |-> m = Len(p)]
           more == Append(sent, new)
<1>1. /\ Base \in Nat /\ Base > 3 /\ MaxPackets \in 0..Base - 2 /\ MaxPayload \in Nat
      /\ L \in Nat /\ n \in Nat /\ n + 1 \in 1..MaxPackets
  BY DEF Mcu!McuLinkAssumption
<1>2. PICK z \in 0..MaxPayload :
        /\ p \in Seq(Mcu!Byte) /\ Len(p) = z + 6
        /\ p[1] = Base - 1 /\ p[2] = 2 /\ p[3] = n + 1
        /\ \A i \in 2..z + 4 : p[i] # Base - 1
  BY Zenon DEF IsPacket
<1>3. m \in Nat /\ m >= 1 /\ m <= z + 6 /\ Len(t) = L + m /\ z \in Nat
  BY <1>1, <1>2
<1>4. \A c \in 1..MaxPackets, i \in 1..L - 2 : Mark(t, i, c) <=> Mark(s, i, c)
  <2>1. ASSUME NEW i \in 1..L - 2
        PROVE  t[i] = s[i] /\ t[i + 1] = s[i + 1] /\ t[i + 2] = s[i + 2]
    <3>1. i \in 1..L /\ i + 1 \in 1..L /\ i + 2 \in 1..L
      BY <1>1
    <3> QED
      BY <3>1
  <2> QED
    BY <2>1, Zenon DEF Mark
<1>5. ASSUME NEW c \in 1..MaxPackets, NEW i \in 1..Len(t) - 2, Mark(t, i, c)
      PROVE  (i \in 1..L - 2 /\ Mark(s, i, c)) \/ (i = L + 1 /\ c = n + 1)
  <2>0. 1 \in 1..m /\ t[L + 1] = p[1] /\ t[i] = Base - 1 /\ t[i + 1] = 2 /\ t[i + 2] = c
    BY <1>3, <1>5 DEF Mark
  <2>1. CASE i <= L - 2
    BY <2>1, <1>4, <1>5, <1>1
  <2>2. CASE i = L - 1
    BY <2>0, <2>2, <1>1, <1>2
  <2>3. CASE i = L
    BY <2>0, <2>3, <1>1, <1>2
  <2>4. CASE i = L + 1
    <3>1. 3 \in 1..m /\ i + 2 = L + 3
      BY <1>1, <1>3, <2>4
    <3>2. t[L + 3] = p[3]
      BY <3>1
    <3> QED
      BY <3>1, <3>2, <2>0, <2>4, <1>2
  <2>5. CASE i > L + 1
    <3>1. i - L \in 1..m /\ i - L \in 2..z + 4 /\ L + (i - L) = i
      <4>1. i \in Int /\ i <= L + m - 2
        BY <1>1, <1>3
      <4> QED
        BY <4>1, <1>1, <1>3, <2>5
    <3>2. t[i] = p[i - L]
      BY <3>1
    <3> QED
      BY <3>1, <3>2, <2>0, <1>2
  <2>6. i \in Int /\ (i <= L - 2 \/ i = L - 1 \/ i = L \/ i = L + 1 \/ i > L + 1)
    <3>1. i \in Int /\ L \in Int
      BY <1>1, <1>3
    <3>2. \A a, l \in Int :
            a <= l - 2 \/ a = l - 1 \/ a = l \/ a = l + 1 \/ a > l + 1
      OBVIOUS
    <3> HIDE DEF L
    <3> QED
      BY <3>1, <3>2, Zenon
  <2> QED
    BY <2>1, <2>2, <2>3, <2>4, <2>5, <2>6, Zenon
<1>6. OwnMarks(t, n + 1, taken)
  <2>1. ASSUME NEW c \in 1..MaxPackets, NEW i \in 1..Len(t) - 2, Mark(t, i, c)
        PROVE  c <= n + 1 /\ c \notin taken
    <3>1. (i \in 1..L - 2 /\ Mark(s, i, c)) \/ (i = L + 1 /\ c = n + 1)
      BY <1>5, <2>1
    <3>2. CASE i \in 1..L - 2 /\ Mark(s, i, c)
      <4>1. c <= n /\ c \notin taken
        BY <3>2, Zenon DEF OwnMarks
      <4> QED
        BY <4>1, <1>1
    <3>3. CASE c = n + 1
      BY <3>3, <1>1
    <3> QED
      BY <3>1, <3>2, <3>3
  <2>2. ASSUME NEW c \in 1..MaxPackets, NEW i \in 1..Len(t) - 2, NEW j \in 1..Len(t) - 2,
               Mark(t, i, c), Mark(t, j, c)
        PROVE  i = j
    <3>1. /\ (i \in 1..L - 2 /\ Mark(s, i, c)) \/ (i = L + 1 /\ c = n + 1)
          /\ (j \in 1..L - 2 /\ Mark(s, j, c)) \/ (j = L + 1 /\ c = n + 1)
      BY <1>5, <2>2
    <3>2. \A k \in 1..L - 2 : Mark(s, k, c) => c <= n
      BY Zenon DEF OwnMarks
    <3>3. CASE c = n + 1
      BY <3>1, <3>2, <3>3, <1>1
    <3>4. CASE c # n + 1
      BY <3>1, <3>4, Zenon DEF OwnMarks
    <3> QED
      BY <3>3, <3>4
  <2> QED
    BY <2>1, <2>2, Zenon DEF OwnMarks
<1>7. /\ Len(more) = n + 1 /\ \A k \in 1..n : more[k] = sent[k]
      /\ more[n + 1].bytes = p /\ (more[n + 1].whole <=> m = Len(p))
      /\ DOMAIN more = 1..n + 1 /\ DOMAIN sent = 1..n
  <2>1. new \in [bytes : Seq(Mcu!Byte), whole : BOOLEAN]
    BY <1>2
  <2>3. new.bytes = p /\ (new.whole <=> m = Len(p))
    BY Zenon
  <2> HIDE DEF n, new
  <2>2. /\ Len(more) = Len(sent) + 1 /\ \A k \in 1..Len(sent) : more[k] = sent[k]
        /\ more[Len(sent) + 1] = new
        /\ more \in Seq([bytes : Seq(Mcu!Byte), whole : BOOLEAN])
    BY <2>1, AppendProperties
  <2> HIDE DEF more
  <2>4. DOMAIN more = 1..Len(more) /\ DOMAIN sent = 1..Len(sent)
    BY <2>2
  <2>5. more[Len(sent) + 1].bytes = p /\ (more[Len(sent) + 1].whole <=> m = Len(p))
    BY <2>2, <2>3, Zenon
  <2> QED
    BY <2>2, <2>4, <2>5, Zenon DEF n
<1> HIDE DEF more
<1>8. KeptIn(t, more, taken)
  <2>1. SUFFICES ASSUME NEW k \in DOMAIN more, more[k].whole, k \notin taken
                 PROVE  \E i \in Places(t, more[k].bytes) :
                          Stands(t, more[k].bytes, i) /\ Alone(t, more[k].bytes, i)
    BY Zenon DEF KeptIn
  <2> DEFINE q == more[k].bytes
  <2>2. CASE k = n + 1
    <3>1. q = p /\ m = z + 6 /\ Len(t) = L + m
      BY <1>2, <1>3, <1>7, <2>1, <2>2
    <3>2. L + 1 \in Places(t, p)
      BY <3>1, <1>1, <1>2 DEF Places
    <3>3. Stands(t, p, L + 1)
      <4>1. ASSUME NEW j \in 1..Len(p)
            PROVE  t[(L + 1) + j - 1] = p[j]
        <5>1. (L + 1) + j - 1 = L + j /\ j \in 1..m
          BY <1>1, <1>2, <3>1
        <5> QED
          BY <5>1
      <4> QED
        BY <4>1, Zenon DEF Stands
    <3>4. Alone(t, p, L + 1)
      <4>1. ASSUME NEW j \in (L + 1) + 1..(L + 1) + Len(p) - 1, NEW c \in 1..MaxPackets,
                   j + 2 <= Len(t), Mark(t, j, c)
            PROVE  FALSE
        <5>1. j \in 1..Len(t) - 2
          BY <4>1, <1>1, <1>3
        <5>2. j <= L - 2 \/ j = L + 1
          BY <5>1, <4>1, <1>5, <1>1
        <5> QED
          BY <5>2, <1>1, <1>2
      <4> QED
        BY <4>1, Zenon DEF Alone
    <3> HIDE DEF q
    <3>5. Stands(t, q, L + 1) /\ Alone(t, q, L + 1) /\ L + 1 \in Places(t, q)
      BY <3>1, <3>2, <3>3, <3>4, Zenon
    <3> QED
      BY <3>5, Zenon DEF q
  <2>3. CASE k # n + 1
    <3>1. k \in 1..n /\ q = sent[k].bytes /\ sent[k].whole
      BY <1>1, <1>7, <2>1, <2>3
    <3>2. k \in 1..MaxPackets /\ IsPacket(q, k)
      BY <3>1, <1>1, <1>7 DEF SoundPackets
    <3>3. PICK i \in Places(s, q) : Stands(s, q, i) /\ Alone(s, q, i)
      BY <3>1, <2>1, <1>7, Zenon DEF KeptIn
    <3> HIDE DEF q
    <3>4. Len(q) \in Nat /\ Len(q) >= 6 /\ i \in 1..L - 2
      BY <3>2, <3>3, CommandStands
    <3>5. i \in 1..L - Len(q) + 1
      BY <3>3 DEF Places
    <3>6. i \in Places(t, q)
      BY <3>4, <3>5, <1>1, <1>3 DEF Places
    <3>7. Stands(t, q, i)
      <4>1. ASSUME NEW j \in 1..Len(q)
            PROVE  t[i + j - 1] = q[j]
        <5>1. i + j - 1 \in 1..L
          BY <1>1, <3>4, <3>5
        <5> QED
          BY <5>1, <3>3 DEF Stands
      <4> QED
        BY <4>1, Zenon DEF Stands
    <3>8. Alone(t, q, i)
      <4>1. ASSUME NEW j \in i + 1..i + Len(q) - 1, NEW c \in 1..MaxPackets,
                   j + 2 <= Len(t), Mark(t, j, c)
            PROVE  FALSE
        <5>1. j \in 1..Len(t) - 2 /\ j <= L
          BY <4>1, <1>1, <1>3, <3>4, <3>5
        <5>2. j \in 1..L - 2 /\ Mark(s, j, c)
          BY <5>1, <4>1, <1>5, <1>1
        <5>3. j + 2 <= Len(s)
          BY <5>2, <1>1
        <5> QED
          BY <5>2, <5>3, <3>3, Zenon DEF Alone
      <4> QED
        BY <4>1, Zenon DEF Alone
    <3> QED
      BY <3>6, <3>7, <3>8, Zenon DEF q
  <2> QED
    BY <2>2, <2>3
<1>9. SoundPackets(more)
  <2>1. ASSUME NEW k \in DOMAIN more
        PROVE  IsPacket(more[k].bytes, k)
    <3>1. CASE k = n + 1
      <4>1. more[k].bytes = p
        BY <3>1, <1>7
      <4> QED
        BY <4>1, <3>1, Zenon
    <3>2. CASE k # n + 1
      <4>1. k \in DOMAIN sent /\ more[k] = sent[k]
        BY <3>2, <1>1, <1>7
      <4> QED
        BY <4>1, Zenon DEF SoundPackets
    <3> QED
      BY <3>1, <3>2
  <2>2. Len(more) <= MaxPackets
    BY <1>1, <1>7
  <2> QED
    BY <2>1, <2>2, Zenon DEF SoundPackets
<1> QED
  BY <1>6, <1>8, <1>9, Zenon DEF more, new, n

\* Parse stops at the first place where it must.
LEMMA ParseStops ==
  ASSUME NEW b \in Seq(Mcu!Byte)
  PROVE  /\ Mcu!Parse(b) \in 1..Len(b) + 1 /\ Mcu!Stops(b, Mcu!Parse(b))
         /\ \A i \in 1..Mcu!Parse(b) - 1 : ~Mcu!Stops(b, i)
<1> DEFINE T == {i \in 1..Len(b) + 1 : Mcu!Stops(b, i)}
           first == Mcu!Parse(b)
<1>0. Len(b) \in Nat
  OBVIOUS
<1>1. Len(b) + 1 \in T /\ T \subseteq Nat
  <2>1. Len(b) - (Len(b) + 1) + 1 < Mcu!Overhead /\ Len(b) + 1 \in 1..Len(b) + 1
    BY <1>0 DEF Mcu!Overhead
  <2>2. Mcu!Stops(b, Len(b) + 1)
    BY <2>1, Zenon DEF Mcu!Stops
  <2>3. T \subseteq Nat
    BY <1>0
  <2> QED
    BY <2>1, <2>2, <2>3
<1>2. first = CHOOSE x \in T : \A y \in T : x <= y
  BY Zenon DEF Mcu!Parse, Mcu!Min
<1>3. \E x \in T : \A y \in T : x <= y
  <2> HIDE DEF T
  <2> QED
    BY <1>1, Inputs!Least
<1>4. first \in T /\ \A y \in T : first <= y
  <2> HIDE DEF T, first
  <2> QED
    BY <1>2, <1>3, Zenon
<1> HIDE DEF first
<1>5. \A i \in 1..first - 1 : i \notin T
  BY <1>0, <1>4
<1>6. \A i \in 1..first - 1 : i \in 1..Len(b) + 1
  BY <1>0, <1>4
<1> QED
  BY <1>4, <1>5, <1>6 DEF first

\* What parseMcuPacket leaves of bytes, and that it is a packet for it to take.
LeftOf(b) == SubSeq(b, Mcu!Parse(b), Len(b))
Complete(r) == Len(r) >= Mcu!Overhead /\ Len(r) >= Mcu!SizeAt(r, 1)

\* Bytes stay only as long as they may be the beginning of a packet.
LEMMA IncompleteIsShort ==
  ASSUME Mcu!McuLinkAssumption, NEW b \in Seq(Mcu!Byte), ~Complete(LeftOf(b))
  PROVE  Len(LeftOf(b)) \in Nat /\ Len(LeftOf(b)) < MaxPayload + Mcu!Overhead
<1> DEFINE first == Mcu!Parse(b)
           left == SubSeq(b, first, Len(b))
<1>1. first \in 1..Len(b) + 1 /\ Mcu!Stops(b, first) /\ Len(b) \in Nat
  BY ParseStops
<1>2. Base \in Nat /\ MaxPayload \in Nat \ {0}
  BY DEF Mcu!McuLinkAssumption
<1>3. left = LeftOf(b) /\ ~(Len(left) >= Mcu!Overhead /\ Len(left) >= Mcu!SizeAt(left, 1))
  BY Zenon DEF LeftOf, Complete
<1> HIDE DEF first
<1>4. /\ left \in Seq(Mcu!Byte) /\ Len(left) = Len(b) - first + 1
      /\ \A i \in 1..Len(b) - first + 1 : left[i] = b[first + i - 1]
  <2>1. /\ first \in Int /\ Len(b) \in Int /\ first <= Len(b) + 1
        /\ \A i \in first..Len(b) : b[i] \in Mcu!Byte
    BY <1>1
  <2> QED
    BY <2>1, SubSeqProperties
<1> HIDE DEF left
<1>5. Mcu!Overhead = 6 /\ MaxPayload \in Nat /\ Len(left) \in Nat
  BY <1>1, <1>2, <1>4 DEF Mcu!Overhead
<1>6. CASE Len(left) < 6
  <2>1. Len(left) < MaxPayload + Mcu!Overhead
    BY <1>5, <1>6
  <2> QED
    BY <2>1, <1>3, <1>5, Zenon
<1>7. CASE Len(left) >= 6
  <2>1. ~(Len(b) - first + 1 < Mcu!Overhead)
    BY <1>1, <1>4, <1>5, <1>7
  <2>2. Mcu!LooksRight(b, first)
    BY <2>1, <1>1, Zenon DEF Mcu!Stops
  <2>3. b[first + 3] <= MaxPayload
    BY <2>2, Zenon DEF Mcu!LooksRight
  <2>4. left[4] = b[first + 3] /\ left[4] \in Nat
    <3>1. 4 \in 1..Len(left) /\ 4 \in 1..Len(b) - first + 1 /\ first + 4 - 1 = first + 3
      BY <1>1, <1>4, <1>7
    <3> QED
      BY <3>1, <1>2, <1>4 DEF Mcu!Byte
  <2>5. ~(Len(left) >= Mcu!SizeAt(left, 1))
    BY <1>3, <1>5, <1>7
  <2>6. Mcu!SizeAt(left, 1) = left[4] + 6
    <3>1. 1 + 3 = 4
      OBVIOUS
    <3> QED
      BY <3>1, <1>5, Zenon DEF Mcu!SizeAt
  <2>7. Len(left) < MaxPayload + Mcu!Overhead
    BY <2>3, <2>4, <2>5, <2>6, <1>5
  <2> QED
    BY <2>7, <1>3, <1>5, Zenon
<1> QED
  BY <1>5, <1>6, <1>7

\* It must where a packet begins, however little of it has come.
LEMMA StopsAtPacket ==
  ASSUME Mcu!McuLinkAssumption, NEW b \in Seq(Mcu!Byte), NEW c, NEW p, IsPacket(p, c),
         NEW i \in 1..Len(b) + 1,
         \A j \in 1..Len(p) : i + j - 1 <= Len(b) => b[i + j - 1] = p[j]
  PROVE  Mcu!Stops(b, i)
<1> DEFINE left == Len(b) - i + 1
<1>1. PICK z \in 0..MaxPayload :
        /\ p \in Seq(Mcu!Byte) /\ Len(p) = z + 6
        /\ p[1] = Base - 1 /\ p[2] = 2 /\ p[4] = z
        /\ Mcu!SumOf(SubSeq(p, 1, z + 4)) = p[z + 5] * Base + p[z + 6]
  BY Zenon DEF IsPacket
<1>2. /\ MaxPayload \in Nat /\ Base \in Nat /\ Base > 3 /\ Len(b) \in Nat /\ z \in Nat
      /\ i \in Nat /\ i >= 1 /\ left \in Int /\ z <= MaxPayload
  BY DEF Mcu!McuLinkAssumption
<1>3. CASE left < 6
  BY <1>3, Zenon DEF Mcu!Stops, Mcu!Overhead
<1>4. CASE left >= 6
  <2>1. b[i] = Base - 1 /\ b[i + 1] = 2 /\ b[i + 3] = z
    <3>1. /\ 1 \in 1..Len(p) /\ 2 \in 1..Len(p) /\ 4 \in 1..Len(p)
          /\ i + 1 - 1 = i /\ i + 2 - 1 = i + 1 /\ i + 4 - 1 = i + 3
          /\ i <= Len(b) /\ i + 1 <= Len(b) /\ i + 3 <= Len(b)
      BY <1>1, <1>2, <1>4
    <3> QED
      BY <3>1, <1>1
  <2>2. SubSeq(b, i, i + 1) = Mcu!Header
    <3>1. \A j \in i..i + 1 : b[j] \in Mcu!Byte
      BY <1>2, <1>4
    <3>2. /\ SubSeq(b, i, i + 1) \in Seq(Mcu!Byte) /\ Len(SubSeq(b, i, i + 1)) = 2
          /\ SubSeq(b, i, i + 1)[1] = b[i] /\ SubSeq(b, i, i + 1)[2] = b[i + 1]
      <4>1. /\ SubSeq(b, i, i + 1) \in Seq(Mcu!Byte) /\ Len(SubSeq(b, i, i + 1)) = i + 1 - i + 1
            /\ \A j \in 1..i + 1 - i + 1 : SubSeq(b, i, i + 1)[j] = b[i + j - 1]
        BY <3>1, <1>2, SubSeqProperties
      <4>2. i + 1 - i + 1 = 2 /\ i + 1 - 1 = i /\ i + 2 - 1 = i + 1 /\ 1 \in 1..2 /\ 2 \in 1..2
        BY <1>2
      <4> QED
        BY <4>1, <4>2, Zenon
    <3>3. /\ Mcu!Header \in Seq(Mcu!Byte) /\ Len(Mcu!Header) = 2
          /\ Mcu!Header[1] = Base - 1 /\ Mcu!Header[2] = 2
      BY <1>2 DEF Mcu!Header, Mcu!Byte
    <3>4. \A j \in 1..2 : SubSeq(b, i, i + 1)[j] = Mcu!Header[j]
      BY <3>2, <3>3, <2>1
    <3> HIDE DEF left
    <3> QED
      BY <3>2, <3>3, <3>4, SeqEqual
  <2>3. Mcu!LooksRight(b, i)
    BY <2>1, <2>2, <1>2, Zenon DEF Mcu!LooksRight
  <2>4. Mcu!SizeAt(b, i) = z + 6
    BY <2>1 DEF Mcu!SizeAt, Mcu!Overhead
  <2>5. CASE left < z + 6
    BY <2>3, <2>4, <2>5, Zenon DEF Mcu!Stops
  <2>6. CASE left >= z + 6
    <3>1. \A j \in 1..z + 6 : b[i + j - 1] = p[j]
      BY <1>1, <1>2, <2>6
    <3>2. SubSeq(b, i, i + (z + 6) - 3) = SubSeq(p, 1, z + 4)
      <4>1. \A j \in i..i + (z + 6) - 3 : b[j] \in Mcu!Byte
        BY <1>2, <2>6
      <4>2. \A j \in 1..z + 4 : p[j] \in Mcu!Byte
        BY <1>1, <1>2
      <4>3. /\ SubSeq(b, i, i + (z + 6) - 3) \in Seq(Mcu!Byte)
            /\ Len(SubSeq(b, i, i + (z + 6) - 3)) = z + 4
            /\ \A j \in 1..z + 4 : SubSeq(b, i, i + (z + 6) - 3)[j] = b[i + j - 1]
        <5> DEFINE e == i + (z + 6) - 3
        <5>1. e \in Int /\ i <= e + 1 /\ e - i + 1 = z + 4
          BY <1>2
        <5> HIDE DEF e
        <5>2. /\ SubSeq(b, i, e) \in Seq(Mcu!Byte) /\ Len(SubSeq(b, i, e)) = e - i + 1
              /\ \A j \in 1..e - i + 1 : SubSeq(b, i, e)[j] = b[i + j - 1]
          <6>1. \A j \in i..e : b[j] \in Mcu!Byte
            BY <4>1 DEF e
          <6> QED
            BY <6>1, <5>1, <1>2, SubSeqProperties
        <5> QED
          BY <5>1, <5>2 DEF e
      <4>4. /\ SubSeq(p, 1, z + 4) \in Seq(Mcu!Byte) /\ Len(SubSeq(p, 1, z + 4)) = z + 4
            /\ \A j \in 1..z + 4 : SubSeq(p, 1, z + 4)[j] = p[j]
        BY <4>2, <1>2, SubSeqProperties
      <4>5. \A j \in 1..z + 4 :
              SubSeq(b, i, i + (z + 6) - 3)[j] = SubSeq(p, 1, z + 4)[j]
        BY <4>3, <4>4, <3>1, <1>2
      <4> DEFINE u == SubSeq(b, i, i + (z + 6) - 3)
                 v == SubSeq(p, 1, z + 4)
      <4>6. /\ u \in Seq(Mcu!Byte) /\ v \in Seq(Mcu!Byte) /\ Len(u) = z + 4 /\ Len(v) = z + 4
            /\ \A j \in 1..z + 4 : u[j] = v[j]
        BY <4>3, <4>4, <4>5, Zenon
      <4> HIDE DEF u, v
      <4>7. u = v
        <5>1. Len(u) = Len(v) /\ \A j \in 1..Len(u) : u[j] = v[j]
          BY <4>6, Zenon
        <5> QED
          BY <4>6, <5>1, SeqEqual, Zenon
      <4> QED
        BY <4>7 DEF u, v
    <3>3. b[i + (z + 6) - 2] = p[z + 5] /\ b[i + (z + 6) - 1] = p[z + 6]
      <4>1. /\ z + 5 \in 1..z + 6 /\ z + 6 \in 1..z + 6
            /\ i + (z + 6) - 2 = i + (z + 5) - 1
        BY <1>2
      <4> QED
        BY <4>1, <3>1, Zenon
    <3>4. Mcu!SumAgrees(b, i)
      BY <3>2, <3>3, <2>4, <1>1, Zenon DEF Mcu!SumAgrees
    <3> QED
      BY <3>4, <2>3, Zenon DEF Mcu!Stops
  <2> QED
    BY <2>5, <2>6, <1>2
<1> QED
  BY <1>3, <1>4, <1>2

\* While nothing was taken for a packet by chance, what is unread holds every
\* packet that came whole and is still to be taken, and no command of another.
unread == rx \o line
McuInv ==
  /\ Mcu!TypeOK /\ SoundPackets(packets)
  /\ ~chance => /\ got \subseteq DOMAIN packets
                /\ OwnMarks(unread, Len(packets), got) /\ KeptIn(unread, packets, got)

LEMMA McuBegins ==
  ASSUME SmallAssumption, Mcu!Init
  PROVE  McuInv
<1>1. Mcu!TypeOK
  <2>1. /\ <<>> \in Seq([bytes : Seq(Mcu!Byte), whole : BOOLEAN]) /\ <<>> \in Seq(Mcu!Byte)
        /\ {} \subseteq Mcu!Byte
    OBVIOUS
  <2> QED
    BY <2>1, Zenon DEF Mcu!Init, Mcu!TypeOK
<1>2. unread = <<>> /\ Len(unread) = 0 /\ Len(packets) = 0 /\ DOMAIN packets = {} /\ got = {}
  BY DEF Mcu!Init, unread
<1>3. SoundPackets(packets)
  BY <1>2 DEF SoundPackets, SmallAssumption, Mcu!McuLinkAssumption
<1>4. OwnMarks(unread, Len(packets), got) /\ KeptIn(unread, packets, got)
  BY <1>2 DEF OwnMarks, KeptIn
<1> QED
  BY <1>1, <1>2, <1>3, <1>4, Zenon DEF McuInv

LEMMA McuAnswers ==
  ASSUME SmallAssumption, McuInv, Mcu!Answer
  PROVE  McuInv'
<1>1. PICK size \in 0..MaxPayload :
        LET packet == Mcu!McuPacket(Len(packets) + 1, [i \in 1..size |-> i])
        IN  \E n \in 1..Len(packet) :
              /\ line' = line \o SubSeq(packet, 1, n)
              /\ packets' = Append(packets, [bytes |-> packet, whole |-> n = Len(packet)])
  BY Zenon DEF Mcu!Answer
<1> DEFINE p == Mcu!McuPacket(Len(packets) + 1, [i \in 1..size |-> i])
           c == Len(packets) + 1
<1>2. PICK n \in 1..Len(p) :
        /\ line' = line \o SubSeq(p, 1, n)
        /\ packets' = Append(packets, [bytes |-> p, whole |-> n = Len(p)])
  BY <1>1, Zenon
<1>3. /\ Mcu!McuLinkAssumption /\ Mcu!TypeOK /\ SoundPackets(packets)
      /\ Len(packets) < MaxPackets /\ rx' = rx /\ parsing' = parsing /\ got' = got
      /\ chance' = chance
  BY Zenon DEF SmallAssumption, McuInv, Mcu!Answer
<1>4. c \in 1..MaxPackets /\ Len(packets) \in Nat
  BY <1>3 DEF Mcu!McuLinkAssumption, Mcu!TypeOK
<1>5. IsPacket(p, c) /\ Len(p) = size + 6
  BY <1>3, <1>4, PacketsArePackets, Zenon
<1>6. p \in Seq(Mcu!Byte) /\ size \in Nat
  BY <1>3, <1>5 DEF IsPacket, Mcu!McuLinkAssumption
<1> HIDE DEF p
<1> DEFINE front == SubSeq(p, 1, n)
<1>7. /\ front \in Seq(Mcu!Byte) /\ Len(front) = n /\ n \in Nat
      /\ \A j \in 1..n : front[j] = p[j]
  <2>1. /\ n \in Nat /\ n <= Len(p) /\ 1 <= n + 1 /\ n - 1 + 1 = n
        /\ \A j \in 1..n : p[j] \in Mcu!Byte
    BY <1>5, <1>6
  <2> QED
    BY <2>1, SubSeqProperties
<1> HIDE DEF front
<1>8. /\ line \in Seq(Mcu!Byte) /\ rx \in Seq(Mcu!Byte)
      /\ packets \in Seq([bytes : Seq(Mcu!Byte), whole : BOOLEAN])
  BY <1>3 DEF Mcu!TypeOK
<1>9. line' = line \o front /\ line' \in Seq(Mcu!Byte)
  <2>1. line' = line \o front
    BY <1>2 DEF front
  <2> QED
    BY <2>1, <1>7, <1>8, ConcatProperties
<1> DEFINE new == [bytes |-> p, whole |-> n = Len(p)]
<1>10. packets' \in Seq([bytes : Seq(Mcu!Byte), whole : BOOLEAN]) /\ Len(packets') = c
  <2>1. new \in [bytes : Seq(Mcu!Byte), whole : BOOLEAN]
    BY <1>6
  <2>2. packets' = Append(packets, new)
    BY <1>2
  <2> HIDE DEF new
  <2> QED
    BY <2>1, <2>2, <1>8, AppendProperties
<1>11. Mcu!TypeOK'
  BY <1>3, <1>8, <1>9, <1>10 DEF Mcu!TypeOK
<1>12. unread' = unread \o front /\ unread \in Seq(Mcu!Byte)
  <2>1. rx \o (line \o front) = (rx \o line) \o front
    BY <1>7, <1>8, ConcatAssociative
  <2>2. rx \o line \in Seq(Mcu!Byte)
    BY <1>8, ConcatProperties
  <2> QED
    BY <2>1, <2>2, <1>3, <1>9 DEF unread
<1>13. /\ unread' \in Seq(Mcu!Byte) /\ Len(unread') = Len(unread) + n
       /\ \A i \in 1..Len(unread) : unread'[i] = unread[i]
       /\ \A j \in 1..n : unread'[Len(unread) + j] = p[j]
  <2> DEFINE s == unread
             t == s \o front
  <2>1. /\ t \in Seq(Mcu!Byte) /\ Len(t) = Len(s) + Len(front)
        /\ \A i \in 1..Len(s) + Len(front) :
             t[i] = IF i <= Len(s) THEN s[i] ELSE front[i - Len(s)]
    BY <1>7, <1>12, ConcatProperties
  <2>2. Len(s) \in Nat
    BY <1>12
  <2> HIDE DEF s, t
  <2>3. \A i \in 1..Len(s) : t[i] = s[i]
    BY <2>1, <2>2, <1>7
  <2>4. \A j \in 1..n : t[Len(s) + j] = p[j]
    <3>1. ASSUME NEW j \in 1..n
          PROVE  t[Len(s) + j] = p[j]
      <4>1. /\ Len(s) + j \in 1..Len(s) + Len(front) /\ ~(Len(s) + j <= Len(s))
            /\ (Len(s) + j) - Len(s) = j
        BY <2>2, <1>7
      <4> QED
        BY <4>1, <2>1, <1>7
    <3> QED
      BY <3>1
  <2> QED
    BY <2>1, <2>3, <2>4, <1>7, <1>12 DEF s, t
<1>14. SoundPackets(packets') /\ IsPacket(p, Len(packets) + 1)
  <2>1. SoundPackets(Append(packets, new))
    <3>1. Len(Append(packets, new)) = c
      BY <1>2, <1>10
    <3>2. ASSUME NEW k \in DOMAIN Append(packets, new)
          PROVE  IsPacket(Append(packets, new)[k].bytes, k)
      <4>0. new \in [bytes : Seq(Mcu!Byte), whole : BOOLEAN] /\ new.bytes = p
        BY <1>6
      <4> HIDE DEF new
      <4>1. CASE k = c
        BY <4>0, <4>1, <1>5, <1>8, AppendProperties
      <4>2. CASE k # c
        <5>1. k \in DOMAIN packets /\ Append(packets, new)[k] = packets[k]
          BY <4>0, <4>2, <1>8, AppendProperties
        <5> QED
          BY <5>1, <1>3, Zenon DEF SoundPackets
      <4> QED
        BY <4>1, <4>2
    <3> HIDE DEF new
    <3> QED
      BY <3>1, <3>2, <1>4 DEF SoundPackets
  <2> QED
    BY <2>1, <1>2, <1>5
<1>15. ASSUME ~chance'
       PROVE  /\ got' \subseteq DOMAIN packets'
              /\ OwnMarks(unread', Len(packets'), got') /\ KeptIn(unread', packets', got')
  <2>1. /\ got \subseteq DOMAIN packets
        /\ OwnMarks(unread, Len(packets), got) /\ KeptIn(unread, packets, got)
    BY <1>3, <1>15, Zenon DEF McuInv
  <2>2. DOMAIN packets = 1..Len(packets) /\ DOMAIN packets' = 1..c
    BY <1>8, <1>10
  <2>3. got \subseteq 1..Len(packets) /\ got \subseteq DOMAIN packets'
    BY <2>1, <2>2, <1>4
  <2> DEFINE s == unread
             t == unread'
  <2>4. /\ s \in Seq(Mcu!Byte) /\ t \in Seq(Mcu!Byte) /\ Len(t) = Len(s) + n
        /\ \A i \in 1..Len(s) : t[i] = s[i]
        /\ \A j \in 1..n : t[Len(s) + j] = p[j]
        /\ OwnMarks(s, Len(packets), got) /\ KeptIn(s, packets, got)
    BY <1>12, <1>13, <2>1
  <2> HIDE DEF s, t
  <2>5. /\ OwnMarks(t, Len(packets) + 1, got)
        /\ KeptIn(t, Append(packets, [bytes |-> p, whole |-> n = Len(p)]), got)
    BY <2>3, <2>4, <1>3, <1>8, <1>14, SentKeeps, Zenon
  <2> QED
    BY <2>3, <2>5, <1>2, <1>3, <1>10, Zenon DEF t
<1> QED
  BY <1>11, <1>14, <1>15, Zenon DEF McuInv

LEMMA McuReads ==
  ASSUME SmallAssumption, McuInv, Mcu!Read
  PROVE  McuInv'
<1>1. PICK n \in 1..Len(line) :
        rx' = rx \o SubSeq(line, 1, n) /\ line' = SubSeq(line, n + 1, Len(line))
  BY Zenon DEF Mcu!Read
<1>2. /\ parsing' = TRUE /\ packets' = packets /\ got' = got /\ chance' = chance
      /\ line \in Seq(Mcu!Byte) /\ rx \in Seq(Mcu!Byte)
  BY DEF Mcu!Read, McuInv, Mcu!TypeOK
<1> DEFINE front == SubSeq(line, 1, n)
           back == SubSeq(line, n + 1, Len(line))
<1>3. front \in Seq(Mcu!Byte) /\ back \in Seq(Mcu!Byte)
  BY <1>2
<1>4. front \o back = line
  <2>1. /\ n \in 1 - 1..Len(line) /\ Len(line) \in n..Len(line) /\ 1 \in 1..Len(line) + 1
    BY <1>2
  <2>2. SubSeq(line, 1, Len(line)) = line
    BY <1>2, SubSeqFull
  <2> HIDE DEF front, back
  <2>3. SubSeq(line, 1, n) \o SubSeq(line, n + 1, Len(line)) = SubSeq(line, 1, Len(line))
    BY <2>1, <1>2, ConcatAdjacentSubSeq
  <2> QED
    BY <2>2, <2>3 DEF front, back
<1> HIDE DEF front, back
<1>5. unread' = unread
  <2> DEFINE S == Seq(Mcu!Byte)
  <2>0. rx \in S /\ front \in S /\ back \in S
    BY <1>2, <1>3
  <2>1. (rx \o front) \o back = rx \o (front \o back)
    BY <2>0, ConcatAssociative
  <2> QED
    BY <2>1, <1>1, <1>4 DEF unread, front, back
<1>6. rx' \in Seq(Mcu!Byte) /\ line' \in Seq(Mcu!Byte)
  <2>1. rx \o front \in Seq(Mcu!Byte)
    BY <1>2, <1>3, ConcatProperties
  <2> QED
    BY <2>1, <1>1, <1>3 DEF front, back
<1>7. Mcu!TypeOK'
  BY <1>2, <1>6, Zenon DEF McuInv, Mcu!TypeOK
<1> QED
  BY <1>2, <1>5, <1>7, Zenon DEF McuInv

\* Parsing goes past no packet that stands in what is unread.
LEMMA ParsePassesNone ==
  ASSUME Mcu!McuLinkAssumption, rx \in Seq(Mcu!Byte), line \in Seq(Mcu!Byte),
         NEW c \in 1..MaxPackets, NEW p, IsPacket(p, c),
         NEW i \in Places(unread, p), Stands(unread, p, i)
  PROVE  i >= Mcu!Parse(rx)
<1> DEFINE first == Mcu!Parse(rx)
<1>1. /\ first \in 1..Len(rx) + 1 /\ \A j \in 1..first - 1 : ~Mcu!Stops(rx, j)
      /\ Len(rx) \in Nat
  BY ParseStops
<1>2. /\ unread \in Seq(Mcu!Byte) /\ Len(unread) = Len(rx) + Len(line)
      /\ \A j \in 1..Len(rx) : unread[j] = rx[j]
  <2> DEFINE s == rx \o line
  <2>1. /\ s \in Seq(Mcu!Byte) /\ Len(s) = Len(rx) + Len(line)
        /\ \A j \in 1..Len(rx) + Len(line) :
             s[j] = IF j <= Len(rx) THEN rx[j] ELSE line[j - Len(rx)]
    BY ConcatProperties
  <2>2. Len(rx) \in Nat /\ Len(line) \in Nat
    OBVIOUS
  <2> HIDE DEF s
  <2> QED
    BY <2>1, <2>2 DEF s, unread
<1>3. i \in Nat /\ i >= 1 /\ Len(p) \in Nat
  BY <1>2, CommandStands
<1> HIDE DEF first
<1>4. CASE i < first
  <2>1. i \in 1..Len(rx) + 1 /\ i \in 1..first - 1
    BY <1>1, <1>3, <1>4
  <2>2. ASSUME NEW j \in 1..Len(p), i + j - 1 <= Len(rx)
        PROVE  rx[i + j - 1] = p[j]
    <3>1. i + j - 1 \in 1..Len(rx)
      BY <2>2, <1>1, <1>3
    <3> QED
      BY <3>1, <1>2 DEF Stands
  <2>3. Mcu!Stops(rx, i)
    BY <2>1, <2>2, StopsAtPacket
  <2> QED
    BY <2>1, <2>3, <1>1
<1> QED
  BY <1>1, <1>3, <1>4 DEF first

\* What is left of rx without its first bytes leaves that much less unread.
LEMMA UnreadBehind ==
  ASSUME rx \in Seq(Mcu!Byte), line \in Seq(Mcu!Byte), NEW t \in Seq(Mcu!Byte),
         NEW d \in 0..Len(rx), Len(t) = Len(rx) - d, \A i \in 1..Len(t) : t[i] = rx[i + d]
  PROVE  Behind(t \o line, unread, d)
<1> DEFINE s == rx \o line
           u == t \o line
<1>1. /\ s \in Seq(Mcu!Byte) /\ Len(s) = Len(rx) + Len(line)
      /\ \A j \in 1..Len(rx) + Len(line) :
           s[j] = IF j <= Len(rx) THEN rx[j] ELSE line[j - Len(rx)]
  BY ConcatProperties
<1>2. /\ u \in Seq(Mcu!Byte) /\ Len(u) = Len(t) + Len(line)
      /\ \A j \in 1..Len(t) + Len(line) :
           u[j] = IF j <= Len(t) THEN t[j] ELSE line[j - Len(t)]
  BY ConcatProperties
<1>3. Len(rx) \in Nat /\ Len(line) \in Nat /\ Len(t) \in Nat /\ d \in Nat
  OBVIOUS
<1> HIDE DEF s, u
<1>4. ASSUME NEW i \in 1..Len(u)
      PROVE  u[i] = s[i + d]
  <2>1. /\ i \in 1..Len(t) + Len(line) /\ i + d \in 1..Len(rx) + Len(line)
        /\ (i <= Len(t) <=> i + d <= Len(rx)) /\ (i + d) - Len(rx) = i - Len(t)
    BY <1>2, <1>3
  <2>2. CASE i <= Len(t)
    <3>1. i \in 1..Len(t)
      BY <2>2, <1>2, <1>3
    <3> QED
      BY <3>1, <2>1, <2>2, <1>1, <1>2
  <2>3. CASE ~(i <= Len(t))
    BY <2>1, <2>3, <1>1, <1>2
  <2> QED
    BY <2>2, <2>3
<1>5. d \in 0..Len(s) /\ Len(u) = Len(s) - d
  BY <1>1, <1>2, <1>3
<1>6. Behind(u, s, d)
  BY <1>1, <1>2, <1>4, <1>5, Zenon DEF Behind
<1> QED
  BY <1>6, Zenon DEF u, s, unread

LEMMA McuTakes ==
  ASSUME SmallAssumption, McuInv, Mcu!Take
  PROVE  McuInv'
<1> DEFINE first == Mcu!Parse(rx)
           left == SubSeq(rx, first, Len(rx))
           m == Mcu!SizeAt(left, 1)
           there == Len(left) >= Mcu!Overhead /\ Len(left) >= m
           taken == SubSeq(left, 1, m)
<1>1. /\ Mcu!McuLinkAssumption /\ Mcu!TypeOK /\ SoundPackets(packets)
      /\ packets' = packets /\ line' = line
  BY Zenon DEF SmallAssumption, McuInv, Mcu!Take
<1>2. \/ there /\ got' = got \cup {left[3]} /\ (chance' <=> chance \/ taken \notin Mcu!Whole)
         /\ rx' = SubSeq(left, m + 1, Len(left)) /\ parsing' = parsing
         /\ chance' \in BOOLEAN
      \/ ~there /\ rx' = (IF Len(left) > RxLimit THEN <<>> ELSE left) /\ parsing' = FALSE
         /\ got' = got /\ chance' = chance
  BY <1>1, Zenon DEF Mcu!Take, Mcu!TypeOK
<1>3. /\ rx \in Seq(Mcu!Byte) /\ line \in Seq(Mcu!Byte) /\ got \subseteq Mcu!Byte
      /\ packets \in Seq([bytes : Seq(Mcu!Byte), whole : BOOLEAN]) /\ parsing \in BOOLEAN
      /\ Base \in Nat /\ RxLimit \in Nat /\ MaxPayload \in Nat /\ RxLimit >= MaxPayload + 6
      /\ chance \in BOOLEAN
  BY <1>1 DEF Mcu!TypeOK, Mcu!McuLinkAssumption, Mcu!Overhead
<1>4. first \in 1..Len(rx) + 1 /\ Mcu!Stops(rx, first) /\ Len(rx) \in Nat
  BY <1>3, ParseStops
<1> HIDE DEF first
<1>5. /\ left \in Seq(Mcu!Byte) /\ Len(left) = Len(rx) - (first - 1) /\ first \in Nat
      /\ first >= 1 /\ \A i \in 1..Len(left) : left[i] = rx[i + (first - 1)]
  <2>1. \A i \in first..Len(rx) : rx[i] \in Mcu!Byte
    BY <1>3, <1>4
  <2>2. first \in Int /\ Len(rx) \in Int /\ first <= Len(rx) + 1
    BY <1>4
  <2> DEFINE u == SubSeq(rx, first, Len(rx))
  <2>3. /\ u \in Seq(Mcu!Byte) /\ Len(u) = Len(rx) - first + 1
        /\ \A i \in 1..Len(rx) - first + 1 : u[i] = rx[first + i - 1]
    BY <2>1, <2>2, SubSeqProperties
  <2> HIDE DEF u
  <2>4. /\ u \in Seq(Mcu!Byte) /\ Len(u) = Len(rx) - (first - 1) /\ first \in Nat
        /\ first >= 1 /\ \A i \in 1..Len(u) : u[i] = rx[i + (first - 1)]
    <3>1. ASSUME NEW i \in 1..Len(u)
          PROVE  u[i] = rx[i + (first - 1)]
      <4>1. i \in 1..Len(rx) - first + 1 /\ first + i - 1 = i + (first - 1)
        BY <2>2, <2>3
      <4> QED
        BY <4>1, <2>3
    <3> QED
      BY <3>1, <2>3, <1>4
  <2> QED
    BY <2>4 DEF u
<1> HIDE DEF left
<1>6. ASSUME NEW k \in DOMAIN packets
      PROVE  k \in 1..MaxPackets /\ IsPacket(packets[k].bytes, k)
  BY <1>1, <1>3 DEF SoundPackets, Mcu!McuLinkAssumption
<1>7. /\ unread \in Seq(Mcu!Byte) /\ Len(unread) = Len(rx) + Len(line) /\ Len(unread) \in Nat
      /\ \A j \in 1..Len(rx) : unread[j] = rx[j]
  <2> DEFINE s == rx \o line
  <2>1. /\ s \in Seq(Mcu!Byte) /\ Len(s) = Len(rx) + Len(line)
        /\ \A j \in 1..Len(rx) + Len(line) :
             s[j] = IF j <= Len(rx) THEN rx[j] ELSE line[j - Len(rx)]
    BY <1>3, ConcatProperties
  <2>2. Len(rx) \in Nat /\ Len(line) \in Nat
    BY <1>3
  <2> HIDE DEF s
  <2> QED
    BY <2>1, <2>2 DEF s, unread
<1>8. ASSUME ~chance
      PROVE  /\ got \subseteq DOMAIN packets
             /\ OwnMarks(unread, Len(packets), got) /\ KeptIn(unread, packets, got)
  BY <1>8, Zenon DEF McuInv
<1>9. ASSUME NEW k \in DOMAIN packets, NEW i \in Places(unread, packets[k].bytes),
             Stands(unread, packets[k].bytes, i)
      PROVE  i >= first /\ i \in 1..Len(unread) - 2 /\ Mark(unread, i, k)
  <2>1. k \in 1..MaxPackets /\ IsPacket(packets[k].bytes, k)
    BY <1>6
  <2>2. i >= first
    BY <2>1, <1>1, <1>3, <1>9, ParsePassesNone DEF first
  <2>3. i \in 1..Len(unread) - 2 /\ Mark(unread, i, k)
    BY <2>1, <1>1, <1>7, <1>9, CommandStands
  <2> QED
    BY <2>2, <2>3
<1>10. CASE there
  <2>1. /\ got' = got \cup {left[3]} /\ (chance' <=> chance \/ taken \notin Mcu!Whole)
        /\ rx' = SubSeq(left, m + 1, Len(left)) /\ parsing' = parsing /\ chance' \in BOOLEAN
    BY <1>2, <1>10, Zenon
  <2>2. /\ Len(left) >= 6 /\ Len(left) >= m /\ m \in Nat /\ m >= 6 /\ Len(left) \in Nat
        /\ left[3] \in Mcu!Byte
    <3>1. Len(left) >= 6 /\ Len(left) >= m /\ Len(left) \in Nat
      BY <1>5, <1>10 DEF Mcu!Overhead
    <3>2. left[3] \in Mcu!Byte /\ left[4] \in Mcu!Byte
      BY <3>1, <1>5
    <3>3. m = left[4] + 6 /\ left[4] \in Nat
      BY <3>2, <1>3 DEF Mcu!SizeAt, Mcu!Overhead, Mcu!Byte
    <3> QED
      BY <3>1, <3>2, <3>3
  <2> HIDE DEF m
  <2> DEFINE d == (first - 1) + m
             tail == SubSeq(left, m + 1, Len(left))
  <2>3. /\ tail \in Seq(Mcu!Byte) /\ Len(tail) = Len(left) - m
        /\ \A i \in 1..Len(tail) : tail[i] = left[i + m]
    <3>1. /\ m + 1 \in Int /\ Len(left) \in Int /\ m + 1 <= Len(left) + 1
          /\ \A i \in m + 1..Len(left) : left[i] \in Mcu!Byte
      BY <1>5, <2>2
    <3>2. /\ tail \in Seq(Mcu!Byte) /\ Len(tail) = Len(left) - (m + 1) + 1
          /\ \A i \in 1..Len(left) - (m + 1) + 1 : tail[i] = left[(m + 1) + i - 1]
      BY <3>1, SubSeqProperties
    <3> HIDE DEF tail
    <3>3. Len(left) - (m + 1) + 1 = Len(left) - m
      BY <2>2
    <3>4. ASSUME NEW i \in 1..Len(tail)
          PROVE  tail[i] = left[i + m]
      <4>1. i \in 1..Len(left) - (m + 1) + 1 /\ (m + 1) + i - 1 = i + m
        BY <2>2, <3>2
      <4> QED
        BY <4>1, <3>2
    <3> QED
      BY <3>2, <3>3, <3>4
  <2>4. rx' = tail
    BY <2>1
  <2> HIDE DEF tail
  <2>5. d \in 0..Len(rx) /\ Len(tail) = Len(rx) - d /\ \A i \in 1..Len(tail) : tail[i] = rx[i + d]
    <3>1. ASSUME NEW i \in 1..Len(tail)
          PROVE  tail[i] = rx[i + d]
      <4>1. i + m \in 1..Len(left) /\ (i + m) + (first - 1) = i + d
        BY <1>5, <2>2, <2>3
      <4>2. tail[i] = left[i + m] /\ left[i + m] = rx[(i + m) + (first - 1)]
        BY <4>1, <1>5, <2>3
      <4> QED
        BY <4>1, <4>2, Zenon
    <3> QED
      BY <3>1, <1>4, <1>5, <2>2, <2>3
  <2>6. Behind(unread', unread, d)
    <3> HIDE DEF d
    <3>1. Behind(tail \o line, unread, d)
      BY <2>3, <2>5, <1>3, UnreadBehind, Zenon
    <3> QED
      BY <3>1, <2>4, <1>1, Zenon DEF unread
  <2>7. Mcu!TypeOK'
    <3>1. got' \subseteq Mcu!Byte
      BY <2>1, <2>2, <1>3
    <3> QED
      BY <3>1, <2>1, <2>3, <2>4, <1>1, <1>3, Zenon DEF Mcu!TypeOK
  <2>8. ASSUME ~chance'
        PROVE  /\ got' \subseteq DOMAIN packets'
               /\ OwnMarks(unread', Len(packets'), got') /\ KeptIn(unread', packets', got')
    <3>1. ~chance /\ taken \in Mcu!Whole
      BY <2>1, <2>8, Zenon
    <3>2. PICK j \in DOMAIN packets : packets[j].whole /\ taken = packets[j].bytes
      BY <3>1 DEF Mcu!Whole
    <3>3. /\ taken \in Seq(Mcu!Byte) /\ Len(taken) = m
          /\ \A i \in 1..m : taken[i] = left[i]
      <4>1. /\ m \in Int /\ 1 <= m + 1 /\ m - 1 + 1 = m
            /\ \A i \in 1..m : left[i] \in Mcu!Byte
        BY <2>2, <1>5
      <4>2. /\ taken \in Seq(Mcu!Byte) /\ Len(taken) = m - 1 + 1
            /\ \A i \in 1..m - 1 + 1 : taken[i] = left[1 + i - 1]
        BY <4>1, SubSeqProperties
      <4> HIDE DEF taken
      <4>3. \A i \in 1..m : 1 + i - 1 = i
        BY <2>2
      <4> QED
        BY <4>1, <4>2, <4>3
    <3> HIDE DEF taken
    <3>4. IsPacket(taken, j) /\ j \in 1..MaxPackets
      BY <3>2, <1>6
    <3>5. first \in Places(unread, taken)
      BY <3>3, <1>5, <1>7, <2>2, <1>3 DEF Places
    <3>6. Stands(unread, taken, first)
      <4>1. ASSUME NEW i \in 1..Len(taken)
            PROVE  unread[first + i - 1] = taken[i]
        <5>1. i \in 1..m /\ i \in 1..Len(left) /\ first + i - 1 = i + (first - 1)
              /\ first + i - 1 \in 1..Len(rx)
          BY <3>3, <2>2, <1>4, <1>5
        <5>2. taken[i] = left[i] /\ left[i] = rx[i + (first - 1)]
          BY <5>1, <3>3, <1>5
        <5> QED
          BY <5>1, <5>2, <1>7
      <4> QED
        BY <4>1, Zenon DEF Stands
    <3>7. first \in 1..Len(unread) - 2 /\ Mark(unread, first, j)
      BY <3>2, <3>5, <3>6, <1>9
    <3>8. left[3] = j /\ got' = got \cup {j}
      <4>1. taken[3] = j
        BY <3>4 DEF IsPacket
      <4> QED
        BY <4>1, <3>3, <2>1, <2>2
    <3>9. /\ got \subseteq DOMAIN packets
          /\ OwnMarks(unread, Len(packets), got) /\ KeptIn(unread, packets, got)
      BY <3>1, <1>8
    <3>10. j \notin got
      BY <3>4, <3>7, <3>9, Zenon DEF OwnMarks
    <3>11. Alone(unread, taken, first)
      <4>1. PICK i \in Places(unread, taken) : Stands(unread, taken, i) /\ Alone(unread, taken, i)
        BY <3>2, <3>9, <3>10, Zenon DEF KeptIn
      <4>2. i \in 1..Len(unread) - 2 /\ Mark(unread, i, j)
        BY <4>1, <3>2, <1>9, Zenon
      <4>3. i = first
        BY <4>2, <3>4, <3>7, <3>9, Zenon DEF OwnMarks
      <4> QED
        BY <4>1, <4>3
    <3>12. ASSUME NEW c \in 1..MaxPackets, NEW i \in d + 1..Len(unread) - 2, Mark(unread, i, c)
           PROVE  c \notin got'
      <4>1. i \in 1..Len(unread) - 2 /\ i # first
        BY <2>2, <1>5, <1>7
      <4>2. c \notin got
        BY <4>1, <3>9, <3>12, Zenon DEF OwnMarks
      <4>3. c # j
        BY <4>1, <3>4, <3>7, <3>9, <3>12, Zenon DEF OwnMarks
      <4> QED
        BY <4>2, <4>3, <3>8
    <3>13. ASSUME NEW k \in DOMAIN packets, packets[k].whole, k \notin got',
                  NEW i \in Places(unread, packets[k].bytes),
                  Stands(unread, packets[k].bytes, i), ~(i > d)
           PROVE  FALSE
      <4>1. /\ i >= first /\ i \in 1..Len(unread) - 2 /\ Mark(unread, i, k)
            /\ k \in 1..MaxPackets
        BY <3>13, <1>6, <1>9
      <4>2. i # first
        <5>1. Mark(unread, first, k) /\ Mark(unread, first, j) => k = j
          BY DEF Mark
        <5> QED
          BY <5>1, <4>1, <3>7, <3>8, <3>13
      <4>3. i \in first + 1..first + Len(taken) - 1 /\ i + 2 <= Len(unread)
        <5>1. /\ Len(taken) = m /\ m \in Nat /\ first \in Nat
              /\ Len(unread) \in Nat /\ i \in Nat
          BY <4>1, <3>3, <2>2, <1>5, <1>7
        <5>2. /\ ~(i > d) /\ i >= first /\ i # first
              /\ 1 <= i /\ i <= Len(unread) - 2
          BY <4>1, <4>2, <3>13, <5>1
        <5> HIDE DEF taken, left, unread, m, first
        <5> QED
          BY <5>1, <5>2
      <4> QED
        BY <4>1, <4>3, <3>11, Zenon DEF Alone
    <3>14. Len(packets) \in Nat /\ got \subseteq got'
      BY <1>3, <3>8
    <3>15. OwnMarks(unread', Len(packets), got') /\ KeptIn(unread', packets, got')
      <4> DEFINE s == unread
                 t == unread'
                 more == got'
      <4>1. /\ Behind(t, s, d) /\ OwnMarks(s, Len(packets), got) /\ KeptIn(s, packets, got)
            /\ got \subseteq more
            /\ \A c \in 1..MaxPackets, i \in d + 1..Len(s) - 2 : Mark(s, i, c) => c \notin more
            /\ \A k \in DOMAIN packets : packets[k].whole /\ k \notin more =>
                 \A i \in Places(s, packets[k].bytes) :
                   Stands(s, packets[k].bytes, i) /\ Alone(s, packets[k].bytes, i) => i > d
        BY <2>6, <3>9, <3>12, <3>13, <3>14, Zenon
      <4> HIDE DEF s, t, d, more
      <4>2. OwnMarks(t, Len(packets), more) /\ KeptIn(t, packets, more)
        BY <4>1, <3>14, <1>1, <1>3, DropKeeps, Zenon
      <4> QED
        BY <4>2, Zenon DEF t, more
    <3>16. got' \subseteq DOMAIN packets
      BY <3>2, <3>8, <3>9
    <3> QED
      BY <3>15, <3>16, <1>1, Zenon
  <2> QED
    BY <2>7, <2>8, <1>1, Zenon DEF McuInv
<1>11. CASE ~there
  <2> DEFINE d == first - 1
  <2>1. /\ rx' = (IF Len(left) > RxLimit THEN <<>> ELSE left) /\ parsing' = FALSE
        /\ got' = got /\ chance' = chance
    BY <1>2, <1>11, Zenon
  <2>2. Len(left) <= RxLimit
    <3>1. left = LeftOf(rx) /\ ~Complete(LeftOf(rx))
      BY <1>11, Zenon DEF left, first, m, LeftOf, Complete
    <3>2. Len(LeftOf(rx)) \in Nat /\ Len(LeftOf(rx)) < MaxPayload + 6
      BY <3>1, <1>1, <1>3, IncompleteIsShort DEF Mcu!Overhead
    <3> QED
      BY <3>1, <3>2, <1>3
  <2>3. rx' = left
    BY <2>1, <2>2, <1>3, <1>5
  <2>4. Mcu!TypeOK'
    BY <2>1, <2>3, <1>1, <1>3, <1>5, Zenon DEF Mcu!TypeOK
  <2>5. d \in 0..Len(rx) /\ Len(left) = Len(rx) - d
    BY <1>4, <1>5
  <2>6. Behind(unread', unread, d)
    <3>1. \A i \in 1..Len(left) : left[i] = rx[i + d]
      BY <1>5
    <3> HIDE DEF d
    <3>2. Behind(left \o line, unread, d)
      BY <3>1, <2>5, <1>3, <1>5, UnreadBehind, Zenon
    <3> QED
      BY <3>2, <2>3, <1>1, Zenon DEF unread
  <2>7. ASSUME ~chance'
        PROVE  /\ got' \subseteq DOMAIN packets'
               /\ OwnMarks(unread', Len(packets'), got') /\ KeptIn(unread', packets', got')
    <3>1. /\ got \subseteq DOMAIN packets
          /\ OwnMarks(unread, Len(packets), got) /\ KeptIn(unread, packets, got)
      BY <2>1, <2>7, <1>8
    <3>2. ASSUME NEW c \in 1..MaxPackets, NEW i \in d + 1..Len(unread) - 2, Mark(unread, i, c)
          PROVE  c \notin got
      <4>1. i \in 1..Len(unread) - 2
        BY <1>5, <1>7
      <4> QED
        BY <4>1, <3>1, <3>2, Zenon DEF OwnMarks
    <3>3. ASSUME NEW k \in DOMAIN packets, NEW i \in Places(unread, packets[k].bytes),
                 Stands(unread, packets[k].bytes, i)
          PROVE  i > d
      <4>1. i >= first /\ i \in 1..Len(unread) - 2
        BY <3>3, <1>9
      <4> QED
        BY <4>1, <1>5, <1>7
    <3>4. Len(packets) \in Nat
      BY <1>3
    <3> DEFINE s == unread
               t == unread'
    <3>5. /\ Behind(t, s, d) /\ OwnMarks(s, Len(packets), got) /\ KeptIn(s, packets, got)
          /\ got \subseteq got
          /\ \A c \in 1..MaxPackets, i \in d + 1..Len(s) - 2 : Mark(s, i, c) => c \notin got
          /\ \A k \in DOMAIN packets : packets[k].whole /\ k \notin got =>
               \A i \in Places(s, packets[k].bytes) :
                 Stands(s, packets[k].bytes, i) /\ Alone(s, packets[k].bytes, i) => i > d
      BY <2>6, <3>1, <3>2, <3>3, Zenon
    <3> HIDE DEF s, t, d
    <3>6. OwnMarks(t, Len(packets), got) /\ KeptIn(t, packets, got)
      BY <3>4, <3>5, <1>1, <1>3, DropKeeps, Zenon
    <3> QED
      BY <3>1, <3>6, <2>1, <1>1, Zenon DEF t
  <2> QED
    BY <2>4, <2>7, <1>1, Zenon DEF McuInv
<1> QED
  BY <1>10, <1>11

LEMMA McuSteps ==
  ASSUME SmallAssumption, McuInv, Mcu!Next \/ UNCHANGED mcuVars
  PROVE  McuInv'
<1>1. CASE Mcu!Answer
  BY <1>1, McuAnswers
<1>2. CASE Mcu!Read
  BY <1>2, McuReads
<1>3. CASE Mcu!Take
  BY <1>3, McuTakes
<1>4. CASE UNCHANGED mcuVars
  <2>1. /\ packets' = packets /\ line' = line /\ rx' = rx /\ parsing' = parsing /\ got' = got
        /\ chance' = chance
    BY <1>4, Zenon DEF mcuVars
  <2> QED
    BY <2>1, Zenon DEF McuInv, Mcu!TypeOK, unread
<1> QED
  BY <1>1, <1>2, <1>3, <1>4, Zenon DEF Mcu!Next

LEMMA McuInvKeeps ==
  ASSUME SmallAssumption, McuInv
  PROVE  IntactIsKept
<1>1. SUFFICES ASSUME ~chance, NEW k \in DOMAIN packets, packets[k].whole, k \notin got
               PROVE  \E i \in 0..Len(unread) - Len(packets[k].bytes) :
                        SubSeq(unread, i + 1, i + Len(packets[k].bytes)) = packets[k].bytes
  BY Zenon DEF IntactIsKept, Mcu!IntactIsKept, unread
<1> DEFINE p == packets[k].bytes
<1>2. PICK i \in Places(unread, p) : Stands(unread, p, i)
  BY <1>1, Zenon DEF McuInv, KeptIn
<1>3. /\ rx \in Seq(Mcu!Byte) /\ line \in Seq(Mcu!Byte)
      /\ packets \in Seq([bytes : Seq(Mcu!Byte), whole : BOOLEAN])
  BY DEF McuInv, Mcu!TypeOK
<1>4. p \in Seq(Mcu!Byte) /\ unread \in Seq(Mcu!Byte)
  <2> DEFINE S == [bytes : Seq(Mcu!Byte), whole : BOOLEAN]
  <2>0. packets \in Seq(S)
    BY <1>3
  <2> HIDE DEF S
  <2>1. packets[k] \in S
    BY <1>1, <2>0
  <2>2. p \in Seq(Mcu!Byte)
    BY <2>1 DEF S
  <2> QED
    BY <2>2, <1>3, ConcatProperties DEF unread
<1> HIDE DEF p
<1>5. Len(p) \in Nat /\ Len(unread) \in Nat /\ i \in 1..Len(unread) - Len(p) + 1
  BY <1>2, <1>4 DEF Places
<1>6. i - 1 \in 0..Len(unread) - Len(p) /\ (i - 1) + 1 = i
  BY <1>5
<1> DEFINE e == (i - 1) + Len(p)
           u == SubSeq(unread, i, e)
<1>7. /\ e \in Int /\ i \in Int /\ i <= e + 1 /\ e - i + 1 = Len(p)
      /\ \A j \in i..e : unread[j] \in Mcu!Byte
  BY <1>4, <1>5
<1> HIDE DEF e
<1>8. u \in Seq(Mcu!Byte) /\ Len(u) = Len(p) /\ \A j \in 1..Len(p) : u[j] = unread[i + j - 1]
  <2>1. /\ u \in Seq(Mcu!Byte) /\ Len(u) = e - i + 1
        /\ \A j \in 1..e - i + 1 : u[j] = unread[i + j - 1]
    BY <1>7, SubSeqProperties
  <2> QED
    BY <2>1, <1>7
<1>9. \A j \in 1..Len(u) : u[j] = p[j]
  BY <1>2, <1>8 DEF Stands
<1> HIDE DEF u
<1>10. u = p
  BY <1>4, <1>8, <1>9, SeqEqual
<1> QED
  BY <1>6, <1>10 DEF u, e, p

LEMMA McuHolds == FairSpec => []McuInv
<1>1. Init => McuInv
  BY SmallAssumption, McuBegins DEF Init
<1>2. McuInv /\ [Next]_vars => McuInv'
  BY SmallAssumption, Parts, McuSteps
<1> QED
  BY <1>1, <1>2, PTL DEF FairSpec

\* However the reads cut the packets, and whichever of them lost their ends, one
\* that came whole is taken or still there to be, as long as no cut one has the
\* sum of its neighbour's bytes by chance.
THEOREM PacketsAreKept == FairSpec => []IntactIsKept
<1>1. McuInv => IntactIsKept
  BY SmallAssumption, McuInvKeeps
<1> QED
  BY <1>1, McuHolds, PTL

\* Hardware::tickMcu: when the loop over packets ends, what is left is shorter than the
\* longest packet, whatever the line did to the ones before, so that the limit after it
\* throws nothing away.
THEOREM BufferStaysShort ==
  FairSpec => [](parsing /\ ~Complete(LeftOf(rx)) =>
                   Len(LeftOf(rx)) < MaxPayload + Mcu!Overhead /\ Len(LeftOf(rx)) <= RxLimit)
<1>1. ASSUME McuInv, parsing, ~Complete(LeftOf(rx))
      PROVE  Len(LeftOf(rx)) < MaxPayload + Mcu!Overhead /\ Len(LeftOf(rx)) <= RxLimit
  <2>1. Mcu!McuLinkAssumption /\ rx \in Seq(Mcu!Byte)
    BY <1>1, SmallAssumption, Zenon DEF SmallAssumption, McuInv, Mcu!TypeOK
  <2>2. MaxPayload + Mcu!Overhead <= RxLimit /\ MaxPayload \in Nat /\ RxLimit \in Nat
    BY <2>1 DEF Mcu!McuLinkAssumption, Mcu!Overhead
  <2>3. Len(LeftOf(rx)) \in Nat /\ Len(LeftOf(rx)) < MaxPayload + Mcu!Overhead
    BY <1>1, <2>1, IncompleteIsShort
  <2> QED
    BY <2>2, <2>3 DEF Mcu!Overhead
<1> QED
  BY <1>1, McuHolds, PTL

-----------------------------------------------------------------------------
(* Digest, VendorGate                                                      *)

LEMMA HashRuns == FairSpec => Inputs!Spec
<1>1. Init => Inputs!Init
  BY Zenon DEF Init, Hash!Init, Inputs!Init
<1>2. [Next]_vars => [Inputs!Next]_Inputs!vars
  <2> SUFFICES ASSUME Hash!Next \/ UNCHANGED hashVars
               PROVE  Inputs!Next \/ UNCHANGED Inputs!vars
    BY Parts
  <2>1. CASE Hash!Next
    <3>1. Inputs!Next
      BY <2>1, Zenon DEF Hash!Next, Inputs!Next, Hash!Take, Inputs!Take, Hash!ReadPiece,
         Inputs!ReadPiece, Hash!ReadLast, Inputs!ReadLast, Hash!FinishOne, Inputs!FinishOne,
         Hash!FinishZero, Inputs!FinishZero, Hash!FinishLength, Inputs!FinishLength,
         Hash!Feed, Inputs!Feed, Hash!Pad, Inputs!Pad, Hash!Update, Inputs!Update,
         Hash!From, Inputs!From, Hash!Full, Inputs!Full, Hash!Minimum, Inputs!Minimum,
         Hash!LengthBytes, Inputs!LengthBytes
    <3> QED
      BY <3>1
  <2>2. CASE UNCHANGED hashVars
    BY <2>2, Zenon DEF hashVars, Inputs!vars
  <2> QED
    BY <2>1, <2>2
<1> QED
  BY <1>1, <1>2, PTL DEF FairSpec, Inputs!Spec

LEMMA SameDigestAssumption == Inputs!DigestAssumption
BY SmallAssumption, Zenon DEF SmallAssumption, Hash!DigestAssumption, Inputs!DigestAssumption

LEMMA SameVendorAssumption == Inputs!VendorAssumption
BY SmallAssumption, Zenon DEF SmallAssumption, Gate!VendorAssumption, Inputs!VendorAssumption

\* The samples are files.
Chars == {"a", "b", "NUL"}
SampleFiles ==
  [elf : BOOLEAN, size : Nat, shoff : Nat, digest : {"d"}, table : Seq(Inputs!Symbol),
   strings : {<<>>},
   sections : Seq([type : Inputs!SectionTypes, offset : Nat, size : Nat, link : Nat])]

LEMMA BoundedIsSequence ==
  ASSUME NEW S, NEW n \in Nat, NEW s \in BoundedSeq(S, n)
  PROVE  s \in Seq(S)
<1>1. PICK m \in 0..n : s \in [1..m -> S]
  BY Zenon DEF BoundedSeq, SeqOf
<1> QED
  BY <1>1

LEMMA SampleIsFile ==
  ASSUME NEW f \in Files
  PROVE  f \in SampleFiles
<1> DEFINE Section == [type : Inputs!SectionTypes, offset : Nat, size : Nat, link : Nat]
<1>1. \A ts, ps, zs, ls :
        ts \subseteq Inputs!SectionTypes /\ ps \subseteq Nat /\ zs \subseteq Nat /\ ls \subseteq Nat
          => Sections(ts, ps, zs, ls) \subseteq Section
  BY DEF Sections
<1>2. \A o \in Nat : \A a, b \in Section : Tables(o, a, b) \in SampleFiles
  <2> SUFFICES ASSUME NEW o \in Nat, NEW a \in Section, NEW b \in Section
               PROVE  Tables(o, a, b) \in SampleFiles
    OBVIOUS
  <2> HIDE DEF Section
  <2>1. <<a, b>> \in Seq(Section) /\ <<>> \in Seq(Inputs!Symbol)
    OBVIOUS
  <2> DEFINE two == <<a, b>>
  <2> HIDE DEF two
  <2>2. Tables(o, a, b) = [elf |-> TRUE, size |-> 4, shoff |-> o, digest |-> "d",
                           table |-> <<>>, strings |-> <<>>, sections |-> two]
    BY Zenon DEF Tables, two
  <2> QED
    BY <2>1, <2>2 DEF SampleFiles, Section, two
<1>3. Sound \in SampleFiles
  <2> DEFINE a == [type |-> "dynsym", offset |-> 2, size |-> 1, link |-> 1]
             b == [type |-> "strtab", offset |-> 3, size |-> 1, link |-> 0]
  <2>1. a \in Section /\ b \in Section
    BY DEF Inputs!SectionTypes
  <2> HIDE DEF a, b
  <2>2. Sound = Tables(0, a, b)
    BY Zenon DEF Sound, a, b
  <2> QED
    BY <2>1, <2>2, <1>2
<1>4. /\ Symbols \subseteq Inputs!Symbol /\ Null \in Inputs!Symbol
  <2>1. \A ns, bs, ts, ds :
          ns \subseteq Nat /\ bs \subseteq {"global", "weak", "local"}
            /\ ts \subseteq {"func", "data"} /\ ds \subseteq BOOLEAN
          => [name : ns, bind : bs, type : ts, defined : ds] \subseteq Inputs!Symbol
    BY DEF Inputs!Symbol
  <2>2. /\ 0..3 \subseteq Nat /\ {TRUE} \subseteq BOOLEAN /\ BOOLEAN \subseteq BOOLEAN
        /\ {"global"} \subseteq {"global", "weak", "local"}
        /\ {"weak", "local"} \subseteq {"global", "weak", "local"}
        /\ {"func"} \subseteq {"func", "data"} /\ {"func", "data"} \subseteq {"func", "data"}
    OBVIOUS
  <2>3. Symbols \subseteq Inputs!Symbol
    <3> DEFINE A == [name : 0..3, bind : {"global"}, type : {"func", "data"},
                     defined : BOOLEAN]
               B == [name : 0..3, bind : {"weak", "local"}, type : {"func"},
                     defined : {TRUE}]
    <3>1. A \subseteq Inputs!Symbol
      BY DEF Inputs!Symbol
    <3>3. B \subseteq Inputs!Symbol
      <4> DEFINE few == {"weak", "local"}
                 func == {"func"}
                 here == {TRUE}
      <4>1. /\ 0..3 \subseteq Nat /\ few \subseteq {"global", "weak", "local"}
            /\ func \subseteq {"func", "data"} /\ here \subseteq BOOLEAN
        BY <2>2
      <4> HIDE DEF few, func, here
      <4>2. [name : 0..3, bind : few, type : func, defined : here] \subseteq Inputs!Symbol
        BY <2>1, <4>1, Zenon
      <4> QED
        BY <4>2 DEF few, func, here
    <3>2. Symbols = A \cup B
      BY DEF Symbols
    <3> HIDE DEF A, B
    <3> QED
      BY <3>1, <3>2, <3>3
  <2> QED
    BY <2>3 DEF Null, Inputs!Symbol
<1> HIDE DEF Section
<1>5. CASE f \in Placed
  <2>1. /\ Sections({"dynsym"}, 0..5, 0..5, {1}) \subseteq Section
        /\ Sections({"strtab"}, 0..5, 0..5, {0}) \subseteq Section
    <3>1. /\ {"dynsym"} \subseteq Inputs!SectionTypes /\ {"strtab"} \subseteq Inputs!SectionTypes
          /\ 0..5 \subseteq Nat /\ {1} \subseteq Nat /\ {0} \subseteq Nat
      BY DEF Inputs!SectionTypes
    <3> QED
      BY <3>1, <1>1, Zenon
  <2>2. PICK o \in 0..5, a \in Section, b \in Section : f = Tables(o, a, b)
    BY <2>1, <1>5 DEF Placed
  <2> QED
    BY <2>2, <1>2
<1>6. CASE f \in Listed
  <2> DEFINE Q == Sections({"dynsym", "strtab", "other"}, {0}, {1}, 0..2)
  <2> HIDE DEF Q
  <2>1. f \in [elf : BOOLEAN, size : 0..5, shoff : {0}, digest : {"d"}, table : {<<>>},
               strings : {<<>>}, sections : BoundedSeq(Q, 2)]
    BY <1>6, Zenon DEF Listed, Q
  <2>2. BoundedSeq(Q, 2) \subseteq Seq(Section)
    <3>1. Q \subseteq Section
      <4>1. /\ {"dynsym", "strtab", "other"} \subseteq Inputs!SectionTypes
            /\ {0} \subseteq Nat /\ {1} \subseteq Nat /\ 0..2 \subseteq Nat
        BY DEF Inputs!SectionTypes
      <4> QED
        BY <4>1, <1>1, Zenon DEF Q
    <3>2. \A q \in BoundedSeq(Q, 2) : q \in Seq(Q)
      BY BoundedIsSequence
    <3> QED
      BY <3>1, <3>2, SeqMonotonic, Zenon
  <2>3. f \in [elf : BOOLEAN, size : 0..5, shoff : {0}, digest : {"d"}, table : {<<>>},
               strings : {<<>>}, sections : Seq(Section)]
    BY <2>1, <2>2
  <2>4. <<>> \in Seq(Inputs!Symbol) /\ 0..5 \subseteq Nat
    OBVIOUS
  <2> DEFINE S == Seq(Section)
  <2>5. S = Seq([type : Inputs!SectionTypes, offset : Nat, size : Nat, link : Nat])
    BY DEF Section
  <2> HIDE DEF S
  <2>6. f \in [elf : BOOLEAN, size : 0..5, shoff : {0}, digest : {"d"}, table : {<<>>},
               strings : {<<>>}, sections : S]
    BY <2>3 DEF S
  <2>7. f \in [elf : BOOLEAN, size : Nat, shoff : Nat, digest : {"d"},
               table : Seq(Inputs!Symbol), strings : {<<>>}, sections : S]
    <3>1. \A n : n \in 0..5 \/ n \in {0} => n \in Nat
      BY <2>4
    <3>2. \A t \in {<<>>} : t \in Seq(Inputs!Symbol)
      BY <2>4
    <3> QED
      BY <3>1, <3>2, <2>6, Zenon
  <2> QED
    BY <2>5, <2>7, Zenon DEF SampleFiles
<1>7. ASSUME NEW t \in Seq(Symbols)
      PROVE  /\ [Sound EXCEPT !.table = t] \in SampleFiles
             /\ [Sound EXCEPT !.table = <<Null>> \o t] \in SampleFiles
  <2>1. t \in Seq(Inputs!Symbol)
    BY <1>4, <1>7, SeqMonotonic, Zenon
  <2>2. <<Null>> \o t \in Seq(Inputs!Symbol)
    <3>1. <<Null>> \in Seq(Inputs!Symbol)
      BY <1>4
    <3> QED
      BY <2>1, <3>1, ConcatProperties
  <2> DEFINE u == <<Null>> \o t
  <2> HIDE DEF u
  <2>3. [Sound EXCEPT !.table = u] \in SampleFiles
    BY <2>2, <1>3 DEF SampleFiles, u
  <2> QED
    BY <2>1, <2>3, <1>3 DEF SampleFiles, u
<1>8. \A t : t \in BoundedSeq(Symbols, 1) \/ t \in BoundedSeq(Symbols, 2) => t \in Seq(Symbols)
  BY BoundedIsSequence
<1>9. CASE f \in First
  BY <1>7, <1>8, <1>9 DEF First
<1>10. CASE f \in Later
  BY <1>7, <1>8, <1>10 DEF Later
<1> QED
  BY <1>5, <1>6, <1>9, <1>10 DEF Files

\* For each of them, and whatever its names are, the gate judges right.
LEMMA SampleIsJudged ==
  ASSUME NEW f \in Files
  PROVE  /\ Gate!TablesAreInside(f)
         /\ \A required \in Functions, recorded \in {{}, {"d"}, {"e", ""}}, digest \in {"d", ""} :
              \A strings \in IF f.table = <<>> THEN {<<>>} ELSE Strings :
                Gate!VerdictIsRight([f EXCEPT !.digest = digest, !.strings = strings],
                                    recorded, required)
<1>1. f \in SampleFiles
  BY SampleIsFile
<1>2. ASSUME NEW g, Inputs!TablesAreInside(g)
      PROVE  Gate!TablesAreInside(g)
  BY <1>2, Zenon DEF Gate!TablesAreInside, Inputs!TablesAreInside, Gate!TablesAreThere,
     Inputs!TablesAreThere, Gate!WithinFile, Inputs!WithinFile, Gate!Reads, Inputs!Reads,
     Gate!DynSym, Inputs!DynSym, Gate!Names, Inputs!Names, Gate!TableSize, Inputs!TableSize,
     Gate!Inside, Inputs!Inside, Gate!Min, Inputs!Min
<1>3. ASSUME NEW g, NEW recorded, NEW required, Inputs!VerdictIsRight(g, recorded, required)
      PROVE  Gate!VerdictIsRight(g, recorded, required)
  <2>1. /\ Gate!TablesAreThere(g) = Inputs!TablesAreThere(g)
        /\ Gate!NamesAreThere(g.table, g.strings) = Inputs!NamesAreThere(g.table, g.strings)
        /\ Gate!Found(g.table, g.strings) = Inputs!Found(g.table, g.strings)
        /\ \A function : Gate!Defines(g, function) = Inputs!Defines(g, function)
    BY Zenon DEF Gate!TablesAreThere, Inputs!TablesAreThere, Gate!DynSym, Inputs!DynSym,
       Gate!Names, Inputs!Names, Gate!TableSize, Inputs!TableSize, Gate!Inside, Inputs!Inside,
       Gate!Min, Inputs!Min, Gate!NamesAreThere, Inputs!NamesAreThere, Gate!Ends, Inputs!Ends,
       Gate!Entries, Inputs!Entries, Gate!Found, Inputs!Found, Gate!NameAt, Inputs!NameAt,
       Gate!Counts, Inputs!Counts, Gate!Defines, Inputs!Defines
  <2>2. /\ Gate!Readable(g) = Inputs!Readable(g)
        /\ Gate!Missing(g, required) = Inputs!Missing(g, required)
    BY <2>1, Zenon DEF Gate!Readable, Inputs!Readable, Gate!Missing, Inputs!Missing
  <2>3. Gate!CheckVendorFile(g, recorded, required)
          = Inputs!CheckVendorFile(g, recorded, required)
    BY <2>2, Zenon DEF Gate!CheckVendorFile, Inputs!CheckVendorFile, Gate!Status,
       Inputs!Status
  <2> QED
    BY <1>3, <2>1, <2>2, <2>3, Zenon DEF Gate!VerdictIsRight, Inputs!VerdictIsRight
<1>4. Gate!TablesAreInside(f)
  <2>1. Inputs!IsFile(f, Chars)
    <3>1. f.strings = <<>> /\ <<>> \in Seq(Chars)
      BY <1>1 DEF SampleFiles
    <3>2. /\ f.size \in Nat /\ f.shoff \in Nat /\ f.table \in Seq(Inputs!Symbol)
          /\ f.sections
               \in Seq([type : Inputs!SectionTypes, offset : Nat, size : Nat, link : Nat])
      BY <1>1, Zenon DEF SampleFiles
    <3> QED
      BY <3>1, <3>2, Zenon DEF Inputs!IsFile
  <2> QED
    BY <2>1, <1>2, SameVendorAssumption, Inputs!TablesAreWithin, Zenon
<1>5. ASSUME NEW required \in Functions, NEW recorded, NEW digest, NEW strings \in Seq(Chars)
      PROVE  Gate!VerdictIsRight([f EXCEPT !.digest = digest, !.strings = strings],
                                 recorded, required)
  <2> DEFINE g == [f EXCEPT !.digest = digest, !.strings = strings]
  <2>1. /\ g.size = f.size /\ g.shoff = f.shoff /\ g.sections = f.sections /\ g.table = f.table
        /\ g.strings = strings
    BY <1>1 DEF SampleFiles
  <2> HIDE DEF g
  <2>2. Inputs!IsFile(g, Chars)
    BY <1>1, <2>1 DEF SampleFiles, Inputs!IsFile
  <2>3. "NUL" \in Chars /\ required \in SUBSET Seq(Chars \ {"NUL"})
    <3>1. "a" \in Chars \ {"NUL"} /\ "b" \in Chars \ {"NUL"} /\ "NUL" \in Chars
      BY DEF Chars
    <3> DEFINE C == Chars \ {"NUL"}
    <3> HIDE DEF C
    <3>2. <<"a">> \in Seq(C) /\ <<"b", "a">> \in Seq(C)
      BY <3>1 DEF C
    <3> QED
      BY <3>1, <3>2 DEF Functions, C
  <2>4. Inputs!VerdictIsRight(g, recorded, required)
    BY <2>2, <2>3, Inputs!VerdictsAreRight, Zenon
  <2> QED
    BY <2>4, <1>3 DEF g
<1>6. ASSUME NEW strings \in IF f.table = <<>> THEN {<<>>} ELSE Strings
      PROVE  strings \in Seq(Chars)
  <2>1. <<>> \in Seq(Chars)
    OBVIOUS
  <2>2. \A s \in Strings : s \in Seq(Chars)
    BY BoundedIsSequence DEF Strings, Chars
  <2> QED
    BY <2>1, <2>2
<1> QED
  BY <1>4, <1>5, <1>6, Zenon

\* fileSha256, checkVendorFile, scan: whichever way a file falls into pieces and
\* blocks its digest is the standard's; and no table of a file is read where it
\* is not, nor a file trusted or taken for compatible that should not be.
THEOREM GateJudgesRight == FairSpec => []GateIsRight
<1> DEFINE Looked == part = "gate" => sample \in Files
<1>1. Inputs!Spec => []Inputs!DigestIsStandard
  BY SameDigestAssumption, Inputs!DigestIsStandardHolds, PTL
<1>2. Inputs!DigestIsStandard => Hash!DigestIsStandard
  BY Zenon DEF Inputs!DigestIsStandard, Hash!DigestIsStandard, Inputs!IsPadding,
     Hash!IsPadding, Inputs!From, Hash!From, Inputs!LengthBytes, Hash!LengthBytes
<1>3. Init => Looked
  BY DEF Init, Samples
<1>4. Looked /\ [Next]_vars => Looked'
  BY Zenon DEF Next, vars, DnsStep, UpdateStep, HttpStep, McuStep, TouchStep, HashStep
<1>5. Looked /\ Hash!DigestIsStandard => GateIsRight
  BY SampleIsJudged, Zenon DEF GateIsRight
<1> HIDE DEF Looked
<1> QED
  BY <1>1, <1>2, <1>3, <1>4, <1>5, HashRuns, PTL DEF FairSpec

-----------------------------------------------------------------------------
(* Mdns, Mp3Probe, NtpTime                                                 *)

LEMMA SameMdnsAssumption == Inputs!MdnsAssumption
BY SmallAssumption, Zenon DEF SmallAssumption, Responder!MdnsAssumption, Inputs!MdnsAssumption

LEMMA SameMp3Assumption == Inputs!Mp3Assumption
BY SmallAssumption, Zenon DEF SmallAssumption, Probe!Mp3Assumption, Inputs!Mp3Assumption

LEMMA SameNtpAssumption == Inputs!NtpAssumption
BY SmallAssumption, Zenon DEF SmallAssumption, Ntp!NtpAssumption, Inputs!NtpAssumption

\* The names of the samples are read inside of their bytes.
LEMMA SampleOfBytes ==
  ASSUME NEW p \in BoundedSeq(Octets, 4), NEW more \in BoundedSeq(Octets, 2), NEW place \in 1..2
  PROVE  Responder!NameIsInside(p \o more, place)
<1>1. p \in Seq(Nat) /\ more \in Seq(Nat)
  <2>1. p \in Seq(Octets) /\ more \in Seq(Octets)
    BY BoundedIsSequence
  <2>2. Octets \subseteq Nat
    BY DEF Octets
  <2> QED
    BY <2>1, <2>2, SeqMonotonic, Zenon
<1> DEFINE bytes == p \o more
<1>2. bytes \in Seq(Nat) /\ place \in Nat \ {0}
  BY <1>1, ConcatProperties
<1> HIDE DEF bytes
<1>3. Inputs!NameIsInside(bytes, place)
  BY <1>2, SameMdnsAssumption, Inputs!NamesAreInside, Zenon
<1>4. Responder!NameIsInside(bytes, place)
  BY <1>3, Zenon DEF Responder!NameIsInside, Inputs!NameIsInside, Responder!ReadName,
     Inputs!ReadName, Responder!Walks, Inputs!Walks, Responder!Jump, Inputs!Jump,
     Responder!Spell, Inputs!Spell, Responder!Place, Inputs!Place, Responder!Unread,
     Inputs!Unread, Responder!Lower, Inputs!Lower, Responder!ToLower, Inputs!ToLower,
     Responder!Dot, Inputs!Dot, Responder!Pointer, Inputs!Pointer, Responder!MaxLabel,
     Inputs!MaxLabel
<1> QED
  BY <1>4 DEF bytes

\* The questions of the samples are for names of one or two letters.
Letters == {<<104>>, <<108>>, <<72>>}
LEMMA SampleIsName ==
  ASSUME NEW labels \in Seq(Letters), Len(labels) \in 1..2
  PROVE  labels \in Inputs!AskedNames
<1>1. \A l \in Letters : l \in Inputs!Label /\ Len(l) = 1
  <2>1. \A n \in Nat : <<n>> \in Seq(Nat) /\ Len(<<n>>) = 1
    OBVIOUS
  <2>2. 104 \in Nat /\ 108 \in Nat /\ 72 \in Nat /\ 1 \in 1..Inputs!MaxLabel
    BY DEF Inputs!MaxLabel
  <2> QED
    BY <2>1, <2>2, Zenon DEF Letters, Inputs!Label
<1>2. labels \in Seq(Inputs!Label)
  <2>1. Letters \subseteq Inputs!Label
    BY <1>1
  <2> QED
    BY <2>1, SeqMonotonic, Zenon
<1>3. \A i \in DOMAIN labels : Len(labels[i]) = 1
  BY <1>1
<1>4. Len(Inputs!Text(labels)) = 2 * Len(labels) - 1
  BY <1>2, <1>3, Inputs!ShortText
<1>5. labels # <<>> /\ Len(labels) + 2 <= 4 /\ 2 * Len(labels) - 1 <= 4
  <2>1. Len(labels) # 0
    OBVIOUS
  <2>2. labels # <<>>
    BY <2>1, EmptySeq
  <2> DEFINE n == Len(labels)
  <2>3. n \in 1..2
    OBVIOUS
  <2> HIDE DEF n
  <2>4. n + 2 <= 4 /\ 2 * n - 1 <= 4
    BY <2>3
  <2> QED
    BY <2>2, <2>4 DEF n
<1>6. Len(Inputs!Text(labels)) <= 4
  BY <1>4, <1>5
<1> QED
  BY <1>2, <1>5, <1>6, Zenon DEF Inputs!AskedNames

\* What is proved of questions is proved of the instance the run checks.
LEMMA SameShared ==
  ASSUME NEW a, NEW b
  PROVE  Responder!Shared(a, b) = Inputs!Shared(a, b)
  BY Zenon DEF Responder!Shared, Inputs!Shared, Responder!Ending, Inputs!Ending

LEMMA SameWire ==
  ASSUME NEW labels
  PROVE  Responder!Wire(labels) = Inputs!Wire(labels)
  BY Zenon DEF Responder!Wire, Inputs!Wire, Responder!FlattenSeq, Inputs!FlattenSeq

LEMMA SameCompressed ==
  ASSUME NEW labels, NEW first
  PROVE  Responder!Compressed(labels, first) = Inputs!Compressed(labels, first)
<1> DEFINE n == Responder!Shared(first, labels)
           own == SubSeq(labels, 1, Len(labels) - n)
           place == 1 + Len(Responder!Wire(first))
                      - Len(Responder!Wire(Responder!Ending(first, n)))
           other == 1 + Len(Inputs!Wire(first)) - Len(Inputs!Wire(Inputs!Ending(first, n)))
<1>1. n = Inputs!Shared(first, labels)
  BY SameShared, Zenon
<1>2. place = other
  <2>1. Responder!Ending(first, n) = Inputs!Ending(first, n)
    BY Zenon DEF Responder!Ending, Inputs!Ending
  <2> HIDE DEF n
  <2> QED
    BY <2>1, SameWire, Zenon
<1> HIDE DEF n, place, other
<1>3. Responder!Compressed(labels, first) =
        IF n = 0 THEN Responder!Wire(labels)
        ELSE SubSeq(Responder!Wire(own), 1, Len(Responder!Wire(own)) - 1) \o <<192, place>>
  BY Zenon DEF Responder!Compressed, n, place, Responder!Pointer
<1>4. Inputs!Compressed(labels, first) =
        IF n = 0 THEN Inputs!Wire(labels)
        ELSE SubSeq(Inputs!Wire(own), 1, Len(Inputs!Wire(own)) - 1) \o <<192, other>>
  BY <1>1, Zenon DEF Inputs!Compressed, other, Inputs!Pointer
<1>5. Responder!Wire(labels) = Inputs!Wire(labels) /\ Responder!Wire(own) = Inputs!Wire(own)
  BY SameWire, Zenon
<1> HIDE DEF own
<1> QED
  BY <1>2, <1>3, <1>4, <1>5, Zenon

LEMMA SameQuestions ==
  ASSUME NEW p, NEW start, NEW count
  PROVE  Responder!Questions(p, start, count) = Inputs!Questions(p, start, count)
    BY Zenon DEF Responder!Questions, Inputs!Questions, Responder!ReadName,
       Inputs!ReadName, Responder!Walks, Inputs!Walks, Responder!Jump, Inputs!Jump,
       Responder!Spell, Inputs!Spell, Responder!Place, Inputs!Place, Responder!Unread,
       Inputs!Unread, Responder!Lower, Inputs!Lower, Responder!ToLower, Inputs!ToLower,
       Responder!Dot, Inputs!Dot, Responder!Pointer, Inputs!Pointer, Responder!MaxLabel,
       Inputs!MaxLabel

\* The questions of the samples are answered as they should be.
LEMMA SampleOfQuestions ==
  ASSUME NEW qs \in BoundedSeq(Asked, 3), qs # <<>>, NEW elsewhere \in BOOLEAN
  PROVE  Responder!QuestionIsAnswered(qs, elsewhere)
<1>1. Asked \subseteq Inputs!Question
  <2> DEFINE N == {<<<<104>>, <<108>>>>, <<<<72>>, <<108>>>>, <<<<108>>>>, <<<<108>>, <<104>>>>}
  <2>1. \A n \in N : n \in Seq(Letters) /\ Len(n) \in 1..2
    <3>1. \A a, b \in Letters : <<a, b>> \in Seq(Letters) /\ <<a>> \in Seq(Letters)
                                /\ Len(<<a, b>>) = 2 /\ Len(<<a>>) = 1
      OBVIOUS
    <3>2. <<104>> \in Letters /\ <<108>> \in Letters /\ <<72>> \in Letters
      BY DEF Letters
    <3>3. 1 \in 1..2 /\ 2 \in 1..2
      OBVIOUS
    <3> DEFINE Fits(n) == n \in Seq(Letters) /\ Len(n) \in 1..2
    <3>4. \A a, b \in Letters : Fits(<<a, b>>) /\ Fits(<<a>>)
      BY <3>1, <3>3
    <3>5. Fits(<<<<104>>, <<108>>>>) /\ Fits(<<<<72>>, <<108>>>>)
          /\ Fits(<<<<108>>, <<104>>>>) /\ Fits(<<<<108>>>>)
      <4> HIDE DEF Fits
      <4> QED
        BY <3>2, <3>4, Zenon
    <3> HIDE DEF Fits
    <3>6. \A n \in N : Fits(n)
      BY <3>5, Zenon
    <3> QED
      BY <3>6, Zenon DEF Fits
  <2>2. N \subseteq Inputs!AskedNames
    BY <2>1, SampleIsName, Zenon
  <2>3. Asked = [labels : N, alone : BOOLEAN]
    BY DEF Asked
  <2> HIDE DEF N
  <2> QED
    BY <2>2, <2>3 DEF Inputs!Question
<1>2. qs \in Seq(Inputs!Question)
  <2>1. qs \in Seq(Asked)
    BY BoundedIsSequence
  <2> QED
    BY <2>1, <1>1, SeqMonotonic, Zenon
<1>3. Inputs!QuestionIsAnswered(qs, elsewhere)
  BY <1>2, SameMdnsAssumption, Inputs!QuestionsAreAnswered, Zenon
<1> DEFINE packet == Responder!Packet(qs, elsewhere)
<1>4. packet = Inputs!Packet(qs, elsewhere)
  <2>1. \A q : Responder!Rest(q) = Inputs!Rest(q)
    BY Zenon DEF Responder!Rest, Inputs!Rest
  <2>2. \A some, first : Responder!Encoded(some, first) = Inputs!Encoded(some, first)
    <3> SUFFICES ASSUME NEW some, NEW first
                 PROVE  Responder!Encoded(some, first) = Inputs!Encoded(some, first)
      OBVIOUS
    <3>1. [i \in DOMAIN some |-> Responder!Compressed(some[i].labels, first)
                                   \o Responder!Rest(some[i])]
            = [i \in DOMAIN some |-> Inputs!Compressed(some[i].labels, first)
                                     \o Inputs!Rest(some[i])]
      BY SameCompressed, <2>1
    <3>2. \A s : Responder!FlattenSeq(s) = Inputs!FlattenSeq(s)
      BY Zenon DEF Responder!FlattenSeq, Inputs!FlattenSeq
    <3> QED
      BY <3>1, <3>2, Zenon DEF Responder!Encoded, Inputs!Encoded
  <2> QED
    BY SameWire, <2>1, <2>2, Zenon DEF Responder!Packet, Inputs!Packet
<1> HIDE DEF packet
<1>5. Responder!Answer(packet) = Inputs!Answer(packet)
  <2>1. \A count : Responder!LookedAt(count) = Inputs!LookedAt(count)
    BY Zenon DEF Responder!LookedAt, Inputs!LookedAt
  <2> QED
    BY SameQuestions, <2>1, Zenon DEF Responder!Answer, Inputs!Answer
<1>6. \A labels : Responder!Text(labels) = Inputs!Text(labels)
  BY Zenon DEF Responder!Text, Inputs!Text, Responder!Lower, Inputs!Lower, Responder!ToLower,
     Inputs!ToLower, Responder!Dot, Inputs!Dot, Responder!FlattenSeq, Inputs!FlattenSeq
<1> DEFINE Heard == {qs[i] : i \in 1..(IF Len(qs) < 2 THEN Len(qs) ELSE 2)}
           Names == {<<104, 46, 108>>}
           Right(S, answer) ==
             answer = IF S = {} THEN "none"
                      ELSE IF elsewhere \/ \E q \in S : q.alone THEN "alone" ELSE "all"
           ByOne == {q \in Heard : \E our \in Names : Responder!Text(q.labels) = Responder!Lower(our)}
           ByOther == {q \in Heard : \E our \in Names : Inputs!Text(q.labels) = Inputs!Lower(our)}
           Reads(S, small, answer) == (small => Right(S, answer)) /\ (answer # "none" => S # {})
<1>7. \A text : Responder!Lower(text) = Inputs!Lower(text)
  BY Zenon DEF Responder!Lower, Inputs!Lower, Responder!ToLower, Inputs!ToLower
<1>8. ByOne = ByOther
  <2> HIDE DEF Heard, Names
  <2> QED
    BY <1>6, <1>7, Zenon
<1> DEFINE SmallOne == \A our \in Names : Responder!Lower(our) = our
           SmallOther == \A our \in Names : Inputs!Lower(our) = our
<1>9. SmallOne <=> SmallOther
  <2> HIDE DEF Names
  <2> QED
    BY <1>7, Zenon
<1>10. Reads(ByOther, SmallOther, Inputs!Answer(Inputs!Packet(qs, elsewhere)))
  BY <1>3, Zenon DEF Inputs!QuestionIsAnswered
<1>11. Reads(ByOne, SmallOne, Responder!Answer(Responder!Packet(qs, elsewhere)))
  <2> HIDE DEF Right, ByOne, ByOther, SmallOne, SmallOther
  <2> QED
    BY <1>4, <1>5, <1>8, <1>9, <1>10, Zenon DEF packet
<1> QED
  BY <1>11, Zenon DEF Responder!QuestionIsAnswered

\* The files of the samples are judged by their audio.
LEMMA SampleOfAudio ==
  ASSUME NEW audio \in BoundedSeq(Cells, 4), NEW pictures \in BoundedSeq(Cells, 1),
         NEW tagged \in BOOLEAN, NEW footer \in BOOLEAN
  PROVE  Probe!ProbeIsRight(tagged, pictures, footer, audio, {"mpeg1"})
<1> DEFINE Kinds == {"mpeg1", "mpeg2"}
<1>1. Cells \subseteq Inputs!AudioCells(Kinds) /\ Cells \subseteq Inputs!FileCells(Kinds)
  <2> HIDE DEF Kinds
  <2>1. {[is |-> "other"], [is |-> "sync"]} \subseteq [is : {"other", "sync"}]
    OBVIOUS
  <2>2. Cells = {[is |-> "other"], [is |-> "sync"]}
                  \cup [is : {"header"}, length : 0..2, kind : Kinds]
    BY Zenon DEF Cells, Kinds
  <2>3. Cells \subseteq Inputs!AudioCells(Kinds)
    BY <2>1, <2>2, Zenon DEF Inputs!AudioCells
  <2> QED
    BY <2>3, Zenon DEF Inputs!FileCells
<1> HIDE DEF Kinds
<1>2. audio \in Seq(Inputs!AudioCells(Kinds)) /\ pictures \in Seq(Inputs!FileCells(Kinds))
  <2>1. audio \in Seq(Cells) /\ pictures \in Seq(Cells)
    BY BoundedIsSequence
  <2> QED
    BY <2>1, <1>1, SeqMonotonic, Zenon
<1>3. Inputs!ProbeIsRight(tagged, pictures, footer, audio, {"mpeg1"})
  BY <1>2, SameMp3Assumption, Inputs!AudioIsFound, Zenon
<1> QED
  BY <1>3, Zenon DEF Probe!ProbeIsRight, Inputs!ProbeIsRight, Probe!Problem, Inputs!Problem,
     Probe!File, Inputs!File, Probe!Plays, Inputs!Plays, Probe!Unplayable, Inputs!Unplayable,
     Probe!Confirmed, Inputs!Confirmed, Probe!Visited, Inputs!Visited, Probe!Buffer,
     Inputs!Buffer, Probe!AudioOffset, Inputs!AudioOffset, Probe!Id3v2Size, Inputs!Id3v2Size,
     Probe!LooksLikeFrame, Inputs!LooksLikeFrame, Probe!IsHeader, Inputs!IsHeader,
     Probe!Other, Inputs!Other, Probe!Min, Inputs!Min

\* The times of the samples come through.
LEMMA SampleOfTime ==
  ASSUME NEW truth \in [seconds : 0..15, micro : 0..4]
  PROVE  LET now == [seconds |-> 3, micro |-> 1]
             others == Ntp!Stamp([now EXCEPT !.seconds = 4])
         IN  \A reply \in [mode : {3, 4}, leap : {0, 3}, stratum : {0, 1, 16},
                           origin : {Ntp!Stamp(now), others}, transmit : {others}] :
               Ntp!TimeIsRight(truth, reply, Ntp!Stamp(now), now)
<1> DEFINE now == [seconds |-> 3, micro |-> 1]
           others == Ntp!Stamp([now EXCEPT !.seconds = 4])
           this == Ntp!Stamp(now)
<1>1. this \in Inputs!Stamps /\ others \in Inputs!Stamps
  BY DEF Ntp!Stamp, Inputs!Stamps
<1>2. truth \in Inputs!Times
  BY DEF Inputs!Times
<1> HIDE DEF now, others, this
<1>3. ASSUME NEW reply \in [mode : {3, 4}, leap : {0, 3}, stratum : {0, 1, 16},
                            origin : {this, others}, transmit : {others}]
      PROVE  Ntp!TimeIsRight(truth, reply, this, now)
  <2>1. reply \in Inputs!Replies
    BY <1>1, <1>3 DEF Inputs!Replies
  <2>2. Inputs!TimeIsRight(truth, reply, this, now)
    BY <1>1, <1>2, <2>1, SameNtpAssumption, Inputs!TimeComesThrough, Zenon
  <2> QED
    BY <2>2, Zenon DEF Ntp!TimeIsRight, Inputs!TimeIsRight, Ntp!Set, Inputs!Set,
       Ntp!Accepted, Inputs!Accepted, Ntp!SinceEpoch, Inputs!SinceEpoch, Ntp!Stamp,
       Inputs!Stamp
<1> QED
  BY <1>3, Zenon DEF now, others, this

\* readName, Mdns::tick, probeMp3, syncTime: whatever comes from the network and
\* whatever is in a file, a name is read inside of its packet, a question for a
\* clock whose name has no capitals is answered and no other, audio is found and judged by what it is, and a
\* server's time is taken over in this era and the next.
THEOREM InputsAreRead == FairSpec => []InputIsRead
<1> DEFINE Looked == sample \in Samples
<1>1. Init => Looked
  BY DEF Init
<1>2. Looked /\ [Next]_vars => Looked'
  <2>1. [Next]_vars => UNCHANGED <<part, sample>>
    BY Zenon DEF Next, vars, DnsStep, UpdateStep, HttpStep, McuStep, TouchStep, HashStep
  <2> QED
    BY <2>1 DEF Samples
<1>3. ASSUME Looked PROVE InputIsRead
  <2>1. /\ part = "bytes" => sample \in BoundedSeq(Octets, 4)
        /\ part = "questions" => sample \in BoundedSeq(Asked, 3) /\ sample # <<>>
        /\ part = "probe" => sample \in BoundedSeq(Cells, 4)
        /\ part = "time" => sample \in [seconds : 0..15, micro : 0..4]
    BY <1>3 DEF Samples
  <2> QED
    BY <2>1, SampleOfBytes, SampleOfQuestions, SampleOfAudio, SampleOfTime, Zenon
       DEF InputIsRead
<1> HIDE DEF Looked
<1> QED
  BY <1>1, <1>2, <1>3, PTL DEF FairSpec

-----------------------------------------------------------------------------
(* All of their types                                                      *)

\* Two texts give at most two addresses.
LEMMA ConfigIsAddresses ==
  ASSUME NEW texts \in Dns!Texts \X Dns!Texts
  PROVE  /\ Dns!ResolverConfig(texts) \in Seq(Addresses)
         /\ Len(Dns!ResolverConfig(texts)) <= Dns!MaxNs
<1> DEFINE Step(before, n) ==
             IF texts[n] \notin Addresses \/ Len(before) = Dns!MaxNs
                \/ \E k \in DOMAIN before : before[k] = texts[n]
               THEN before
               ELSE Append(before, texts[n])
           Is(f) == f = [n \in 0..Len(texts) |-> IF n = 0 THEN <<>> ELSE Step(f[n - 1], n)]
           accepted == CHOOSE f : Is(f)
<1>1. Len(texts) = 2 /\ texts[1] \in Dns!Texts /\ texts[2] \in Dns!Texts
  OBVIOUS
<1>2. ASSUME NEW s \in Seq(Addresses), NEW n \in 1..2, Len(s) < n
      PROVE  Step(s, n) \in Seq(Addresses) /\ Len(Step(s, n)) < n + 1
  <2>1. CASE Step(s, n) = s
    BY <1>2, <2>1
  <2>2. CASE texts[n] \in Addresses /\ Step(s, n) = Append(s, texts[n])
    BY <1>2, <2>2, AppendProperties
  <2>3. Step(s, n) = s \/ (texts[n] \in Addresses /\ Step(s, n) = Append(s, texts[n]))
    OBVIOUS
  <2> HIDE DEF Step
  <2> QED
    BY <2>1, <2>2, <2>3
<1> HIDE DEF Step
<1>3. \E f : Is(f)
  <2> DEFINE one == Step(<<>>, 1)
             f == [n \in 0..2 |-> IF n = 0 THEN <<>> ELSE IF n = 1 THEN one ELSE Step(one, 2)]
  <2>1. /\ f[0] = <<>> /\ f[1] = Step(f[0], 1) /\ f[2] = Step(f[1], 2)
        /\ f = [n \in 0..2 |-> f[n]] /\ \A n \in 0..2 : n = 0 \/ n = 1 \/ n = 2
    OBVIOUS
  <2> HIDE DEF f
  <2>2. \A n \in 0..2 : f[n] = IF n = 0 THEN <<>> ELSE Step(f[n - 1], n)
    BY <2>1
  <2>3. f = [n \in 0..2 |-> IF n = 0 THEN <<>> ELSE Step(f[n - 1], n)]
    BY <2>1, <2>2, Zenon
  <2> QED
    BY <2>3, <1>1
<1>4. Is(accepted)
  <2> HIDE DEF Is
  <2> QED
    BY <1>3, Zenon
<1> HIDE DEF accepted
<1>5. \A n \in 0..2 : accepted[n] = IF n = 0 THEN <<>> ELSE Step(accepted[n - 1], n)
  BY <1>1, <1>4, Zenon
<1>6. accepted[0] = <<>> /\ accepted[1] = Step(accepted[0], 1) /\ accepted[2] = Step(accepted[1], 2)
  BY <1>5
<1>7. accepted[1] \in Seq(Addresses) /\ Len(accepted[1]) < 2
  <2> DEFINE none == accepted[0]
  <2>1. none \in Seq(Addresses) /\ Len(none) < 1 /\ 1 \in 1..2
    BY <1>6
  <2> HIDE DEF none
  <2>2. Step(none, 1) \in Seq(Addresses) /\ Len(Step(none, 1)) < 1 + 1
    BY <2>1, <1>2
  <2> QED
    BY <2>2, <1>6 DEF none
<1>8. accepted[2] \in Seq(Addresses) /\ Len(accepted[2]) < 3
  <2>1. Step(accepted[1], 2) \in Seq(Addresses) /\ Len(Step(accepted[1], 2)) < 2 + 1
    BY <1>2, <1>7
  <2> QED
    BY <2>1, <1>6
<1>9. Dns!ResolverConfig(texts) = accepted[2]
  BY <1>1, Zenon DEF Dns!ResolverConfig, accepted, Step
<1> QED
  BY <1>8, <1>9 DEF Dns!MaxNs

LEMMA NamedServers ==
  ASSUME Dns!TypeOK
  PROVE  /\ Dns!ConfiguredDns \in Seq(Addresses) /\ Len(Dns!ConfiguredDns) <= Dns!MaxNs
         /\ Len(Dns!ConfiguredDns) \in Nat
<1>1. \A s \in Dns!Sources : named[s] \in Dns!Texts \X Dns!Texts
  BY DEF Dns!TypeOK
<1>2. \A s \in Dns!Sources : /\ Dns!ResolverConfig(named[s]) \in Seq(Addresses)
                             /\ Len(Dns!ResolverConfig(named[s])) <= Dns!MaxNs
  BY <1>1, ConfigIsAddresses
<1>3. IF static THEN "configured" \in Dns!Sources
      ELSE "wlan0" \in Dns!Sources /\ "global" \in Dns!Sources
  BY DEF Dns!Sources
<1>4. \E s \in Dns!Sources : Dns!ConfiguredDns = Dns!ResolverConfig(named[s])
  BY <1>3, Zenon DEF Dns!ConfiguredDns
<1> QED
  BY <1>2, <1>4

LEMMA RefreshKeepsTypes ==
  ASSUME Dns!TypeOK, NEW hasPath, Dns!Refresh(hasPath)
  PROVE  /\ {mounted', settled', torn'} \subseteq BOOLEAN
         /\ {content', current'} \subseteq Seq(Addresses) /\ Len(content') <= Dns!MaxNs
<1> DEFINE wanted == Dns!ConfiguredDns
<1>1. wanted \in Seq(Addresses) /\ Len(wanted) <= Dns!MaxNs /\ Len(wanted) \in Nat
  BY NamedServers
<1>2. /\ {mounted, settled, torn} \subseteq BOOLEAN
      /\ {content, current} \subseteq Seq(Addresses) /\ Len(content) <= Dns!MaxNs
  BY DEF Dns!TypeOK
<1> HIDE DEF wanted
<1>3. CASE settled' = TRUE /\ UNCHANGED <<content, mounted, current, torn>>
  BY <1>2, <1>3
<1>4. CASE Dns!Rewrite(wanted)
  <2>1. CASE settled' = FALSE /\ UNCHANGED <<content, mounted, current, torn>>
    BY <1>2, <2>1
  <2>2. CASE /\ \E n \in 0..Len(wanted) - 1 : content' = SubSeq(wanted, 1, n)
             /\ settled' = FALSE /\ torn' = TRUE
             /\ UNCHANGED <<mounted, current>>
    <3>1. PICK n \in 0..Len(wanted) - 1 : content' = SubSeq(wanted, 1, n)
      BY <2>2
    <3>2. /\ n \in Int /\ 1 <= n + 1 /\ n - 1 + 1 = n /\ n <= Len(wanted)
          /\ \A i \in 1..n : wanted[i] \in Addresses
      BY <1>1, <3>1
    <3> DEFINE front == SubSeq(wanted, 1, n)
    <3>3. front \in Seq(Addresses) /\ Len(front) = n - 1 + 1
      BY <3>2, SubSeqProperties
    <3> HIDE DEF front
    <3>4. content' \in Seq(Addresses) /\ Len(content') = n
      BY <3>1, <3>2, <3>3 DEF front
    <3>5. Len(content') <= Dns!MaxNs
      BY <3>2, <3>4, <1>1 DEF Dns!MaxNs
    <3> QED
      BY <3>4, <3>5, <2>2, <1>2
  <2>3. CASE /\ content' = wanted
             /\ mounted' \in {mounted, TRUE}
             /\ current' = (IF mounted' THEN wanted ELSE current)
             /\ settled' = mounted' /\ torn' = FALSE
    BY <1>1, <1>2, <2>3
  <2> QED
    BY <1>4, <2>1, <2>2, <2>3, Zenon DEF Dns!Rewrite
<1> QED
  BY <1>3, <1>4, Zenon DEF Dns!Refresh, wanted

LEMMA DnsKeepsTypes ==
  ASSUME Dns!ResolverAssumption, Dns!TypeOK, Dns!Next \/ UNCHANGED dnsVars
  PROVE  Dns!TypeOK'
<1>0. /\ phase \in {"off", "begun", "stopped"} /\ static \in NetStatic
      /\ named \in [Dns!Sources -> Dns!Texts \X Dns!Texts] /\ changes \in 0..MaxChanges
      /\ {path, mounted, settled, torn} \subseteq BOOLEAN
      /\ {content, current} \subseteq Seq(Addresses) /\ Len(content) <= Dns!MaxNs
      /\ MaxChanges \in Nat
  BY DEF Dns!TypeOK, Dns!ResolverAssumption
<1>1. CASE Dns!Begin
  <2>1. /\ Dns!Refresh(path') /\ phase' = "begun" /\ path' \in BOOLEAN
        /\ UNCHANGED <<static, named, changes>>
    BY <1>1 DEF Dns!Begin
  <2>2. /\ {mounted', settled', torn'} \subseteq BOOLEAN
        /\ {content', current'} \subseteq Seq(Addresses) /\ Len(content') <= Dns!MaxNs
    BY <2>1, RefreshKeepsTypes
  <2> QED
    BY <1>0, <2>1, <2>2 DEF Dns!TypeOK, Dns!Sources
<1>2. CASE Dns!WorkerRefresh
  <2>1. Dns!Refresh(path) /\ UNCHANGED <<phase, static, named, changes, path>>
    BY <1>2 DEF Dns!WorkerRefresh
  <2>2. /\ {mounted', settled', torn'} \subseteq BOOLEAN
        /\ {content', current'} \subseteq Seq(Addresses) /\ Len(content') <= Dns!MaxNs
    BY <2>1, RefreshKeepsTypes
  <2> QED
    BY <1>0, <2>1, <2>2 DEF Dns!TypeOK, Dns!Sources
<1>3. CASE Dns!Stop
  <2>1. <<>> \in Seq(Addresses) /\ Len(<<>>) = 0 /\ 0 <= Dns!MaxNs
    BY DEF Dns!MaxNs
  <2>2. CASE Dns!StopWith(TRUE)
    <3>1. /\ phase' = "stopped" /\ mounted' = FALSE /\ path' = FALSE /\ content' = <<>>
          /\ current' = <<>> /\ torn' = FALSE /\ UNCHANGED <<static, named, changes, settled>>
      BY <2>2, Zenon DEF Dns!StopWith
    <3> QED
      BY <3>1, <2>1, <1>0 DEF Dns!TypeOK, Dns!Sources
  <2>3. CASE phase' = "stopped" /\ UNCHANGED <<static, named, changes, path, Dns!resolver>>
    BY <2>3, <1>0 DEF Dns!TypeOK, Dns!Sources, Dns!resolver
  <2> QED
    BY <1>3, <2>2, <2>3, Zenon DEF Dns!Stop
<1>4. CASE Dns!Rename
  <2>1. /\ changes' = changes + 1 /\ changes < MaxChanges
        /\ named' \in [Dns!Sources -> Dns!Texts \X Dns!Texts]
        /\ UNCHANGED <<phase, static, path, Dns!resolver>>
    BY <1>4, Zenon DEF Dns!Rename
  <2> QED
    BY <2>1, <1>0 DEF Dns!TypeOK, Dns!Sources, Dns!resolver
<1>5. CASE UNCHANGED dnsVars
  BY <1>0, <1>5 DEF dnsVars, Dns!TypeOK, Dns!Sources
<1> QED
  BY <1>1, <1>2, <1>3, <1>4, <1>5, Zenon DEF Dns!Next

LEMMA DnsHolds == FairSpec => []Dns!TypeOK
<1>1. Dns!ResolverAssumption
  BY SmallAssumption DEF SmallAssumption
<1>2. Init => Dns!TypeOK
  <2> SUFFICES ASSUME Dns!Init
               PROVE  Dns!TypeOK
    BY DEF Init
  <2>1. /\ <<>> \in Seq(Addresses) /\ Len(<<>>) <= Dns!MaxNs /\ 0 \in 0..MaxChanges
    BY <1>1 DEF Dns!MaxNs, Dns!ResolverAssumption
  <2> QED
    BY <2>1, Zenon DEF Dns!Init, Dns!TypeOK
<1>3. Dns!TypeOK /\ [Next]_vars => Dns!TypeOK'
  BY <1>1, Parts, DnsKeepsTypes
<1> QED
  BY <1>2, <1>3, PTL DEF FairSpec

\* The types of all the components (TypeOK of MCSmall): of the servers the
\* resolver's file names there are three at most, an update stands at one of its
\* steps, the packets and what is unread of them are bytes, and so on.
THEOREM TypesAreKept == FairSpec => []TypeOK
<1>1. Inputs!Spec => []Inputs!TypeOK
  BY SameDigestAssumption, Inputs!TypeCorrect, PTL
<1>2. Inputs!TypeOK => Hash!TypeOK
  BY Zenon DEF Inputs!TypeOK, Hash!TypeOK
<1>3. /\ Dns!TypeOK /\ UpdateInv /\ HttpInv /\ McuInv /\ TouchInv /\ Hash!TypeOK
      => TypeOK
  BY DEF TypeOK, UpdateInv, HttpInv, McuInv, TouchInv
<1> QED
  BY <1>1, <1>2, <1>3, UpdateHolds, HashRuns, DnsHolds, HttpHolds, McuHolds,
     TouchHolds, PTL
=============================================================================
