--------------------------- MODULE BootGuardProofs ---------------------------
(***************************************************************************)
(* Proofs about the boot guard, for every value of the constants.          *)
(*                                                                         *)
(* The bound on failing starts is not inductive: it needs to know that the *)
(* counter in the file covers the failing starts (CountCovers),            *)
(* that a start which has written its number still finds it in the file,   *)
(* and that the numbers never grow past the value the reader takes for     *)
(* damage.  Only a power cut or a kill between the recording of a fourth   *)
(* start and the clearing of the counter lets them grow, hence the bound   *)
(* in terms of those so far.  All of this holds until the clock is         *)
(* impaired.                                                               *)
(*                                                                         *)
(* That no start falls back too early rests on the other side of it: what  *)
(* the file says is not above the starts that were recorded.  And once a   *)
(* synced number is in the file it is all the flash may come back with.    *)
(***************************************************************************)
EXTENDS BootGuardRefinement, TLAPS

StorageWorks == storage = "ok"
LibraryWorks == library

\* What the launcher's local and the file have to do with each other.
RecordedIsInFile ==
  /\ pc = "open" => attempts = ReadBootAttempts(file) + 1
  /\ pc = "radio" /\ start = "counted" => attempts <= AttemptLimit

CounterBounded ==
  /\ file <= AttemptLimit + cuts + 1
  /\ pc # "decide" => file <= AttemptLimit + cuts
  /\ pc \in {"open", "write", "decide"} /\ start = "counted"
       => attempts <= AttemptLimit + cuts + 1
  /\ \A c \in flash : c <= AttemptLimit + cuts + 1

\* Only an unheld start is recorded, a trial start does not come to the
\* launcher's decision, a held one does not get past it.
HeldOrCounted ==
  /\ pc \in {"open", "write"} => start = "counted"
  /\ pc = "decide" => start # "trial"
  /\ pc = "radio" => start # "held"

Sound ==
  /\ StorageWorks
  /\ LibraryWorks
  /\ RecordedIsInFile
  /\ CounterBounded
  /\ CountCovers
  /\ failed <= AttemptLimit

IInv ==
  /\ TypeOK
  /\ HeldOrCounted
  /\ ~impaired => Sound

-----------------------------------------------------------------------------
\* A counter that reads as a number reads as itself up to the cap, and no
\* contents read as a negative number.
LEMMA ReadFacts ==
  ASSUME NEW c \in Contents
  PROVE  /\ ReadBootAttempts(c) \in Nat
         /\ c \in Nat /\ c <= CounterCap => ReadBootAttempts(c) = c
         /\ ReadBootAttempts(c) <= c \/ ReadBootAttempts(c) = 0
  BY BootAssumption DEF ReadBootAttempts, Contents, NoFile, Empty, NoDirectory

\* The variables always have their types, whatever the partition does.
THEOREM TypeCorrect == Spec => []TypeOK
<1>1. Init => TypeOK
  <2> SUFFICES ASSUME Init PROVE TypeOK
    OBVIOUS
  <2>1. library \in BOOLEAN /\ binary \in BOOLEAN /\ syncs \in BOOLEAN
    BY Zenon, BootAssumption DEF Init
  <2>4. impaired \in BOOLEAN
    BY Zenon DEF Init
  <2>2. storage \in {"ok", "full"}
    BY Zenon, BootAssumption DEF Init
  <2>3. cuts \in 0..MaxCuts /\ reboots \in 0..MaxReboots
    BY BootAssumption DEF Init
  <2>5. file \in Contents /\ flash \in SUBSET Contents
    BY DEF Init, Contents
  <2>6. QED
    BY <2>1, <2>2, <2>3, <2>4, <2>5 DEF Init, TypeOK
<1>2. TypeOK /\ [Next]_vars => TypeOK'
  <2> SUFFICES ASSUME TypeOK, [Next]_vars
               PROVE  TypeOK'
    OBVIOUS
  <2> USE DEF TypeOK, disk, setup, bounds, history
  <2>0. /\ NoFile \in Contents /\ NoDirectory \in Contents
        /\ Unlinked \in Contents
        /\ Empty \in Contents
        /\ \A n \in Nat : n \in Contents
        /\ ReadBootAttempts(file) \in Nat
        /\ \A n \in Nat : Saturated(n) \in Nat
    BY ReadFacts DEF Contents, Saturated, Unlinked
  <2>1. CASE BeginCounted
    BY <2>0, <2>1 DEF BeginCounted
  <2>2. CASE BeginHeld
    BY <2>2 DEF BeginHeld
  <2>3. CASE BeginTrial
    BY <2>3 DEF BeginTrial
  <2>4. CASE OpenCounter
    BY <2>0, <2>4 DEF OpenCounter, Issue
  <2>4a. CASE OpenFails
    BY <2>0, <2>4a DEF OpenFails
  <2>5. CASE WriteCounter
    BY <2>0, <2>5 DEF WriteCounter, Commit
  <2>6. CASE FallBack
    BY <2>0, <2>6 DEF FallBack, Commit, RunVendorApplication
  <2>7. CASE GoOn
    BY <2>7 DEF GoOn
  <2>8. CASE HandOver
    BY <2>0, <2>8 DEF HandOver
  <2>9. CASE ExecFails
    BY <2>9 DEF ExecFails, RunVendorApplication
  <2>10. CASE EnterLoop
    BY <2>0, <2>10 DEF EnterLoop, Issue
  <2>11. CASE AcknowledgeBoot
    BY <2>0, <2>11 DEF AcknowledgeBoot, Issue
  <2>12. CASE RestartApplication
    BY <2>12, BootAssumption DEF RestartApplication
  <2>12a. CASE FactoryReset
    <3>1. file' \in Contents /\ flash' \in SUBSET Contents
      BY <2>0, <2>12a DEF FactoryReset
    <3>2. reboots' \in 0..MaxReboots
      BY <2>12a, BootAssumption DEF FactoryReset
    <3>3. failed' \in Nat /\ starts' \in Nat
      BY <2>12a DEF FactoryReset
    <3> QED
      BY <2>12a, <3>1, <3>2, <3>3 DEF FactoryReset
  <2>13. CASE ApplicationEnds
    BY <2>13 DEF ApplicationEnds
  <2>14. CASE VendorEnds
    BY <2>14 DEF VendorEnds
  <2>14a. CASE KillLauncher
    BY <2>14a, BootAssumption DEF KillLauncher
  <2>15. CASE PowerOn
    BY <2>15 DEF PowerOn
  <2>16. CASE PowerCut
    <3>1. file' \in Contents /\ flash' \in SUBSET Contents
      BY <2>16 DEF PowerCut
    <3>2. cuts' \in 0..MaxCuts
      BY <2>16, BootAssumption DEF PowerCut
    <3> QED
      BY <2>16, <3>1, <3>2 DEF PowerCut
  <2>17. CASE Settle
    BY <2>17 DEF Settle
  <2>18. CASE DiskFills
    BY <2>18 DEF DiskFills
  <2>19. CASE UNCHANGED vars
    BY <2>19 DEF vars
  <2>20. QED
    BY <2>1, <2>2, <2>3, <2>4, <2>4a, <2>5, <2>6, <2>7, <2>8, <2>9, <2>10, <2>11,
       <2>12, <2>12a, <2>13, <2>14, <2>14a, <2>15, <2>16, <2>17, <2>18, <2>19
       DEF Next, Launcher, Application, Environment
<1>3. QED
  BY <1>1, <1>2, PTL DEF Spec

-----------------------------------------------------------------------------
\* A clock that is not impaired has not been before.
LEMMA ImpairedStays ==
  ASSUME [Next]_vars, impaired
  PROVE  impaired'
  BY DEF Next, Launcher, Application, Environment, vars, setup, BeginCounted,
     BeginHeld, BeginTrial, OpenCounter, WriteCounter, FallBack, GoOn, HandOver,
     ExecFails, EnterLoop, AcknowledgeBoot, RestartApplication, ApplicationEnds,
     VendorEnds, PowerOn, PowerCut, Settle, DiskFills, OpenFails, FactoryReset,
     KillLauncher

\* Held starts decide, trials do not: this holds of every clock.
LEMMA HeldOrCountedStays ==
  ASSUME TypeOK, HeldOrCounted, [Next]_vars
  PROVE  HeldOrCounted'
<1> USE DEF HeldOrCounted
<1>1. CASE BeginCounted \/ BeginHeld \/ BeginTrial
  BY <1>1 DEF BeginCounted, BeginHeld, BeginTrial
<1>2. CASE OpenCounter \/ OpenFails \/ WriteCounter
  <2>1. pc' \in {"decide", "write"} /\ start' = start
    BY <1>2 DEF OpenCounter, OpenFails, WriteCounter
  <2>2. start = "counted"
    BY <1>2 DEF OpenCounter, OpenFails, WriteCounter
  <2>3. QED
    BY <2>1, <2>2
<1>3. CASE FallBack \/ ExecFails
  <2>1. pc' \in {"vendor", "stuck"}
    BY <1>3 DEF FallBack, ExecFails, RunVendorApplication
  <2>2. QED
    BY <2>1
<1>4. CASE GoOn \/ HandOver
  BY <1>4 DEF GoOn, HandOver
<1>5. CASE Application
  BY <1>5 DEF Application, EnterLoop, AcknowledgeBoot, RestartApplication,
     FactoryReset, ApplicationEnds
<1>6. CASE Environment
  BY <1>6 DEF Environment, VendorEnds, KillLauncher, PowerOn, PowerCut, Settle, DiskFills
<1>7. CASE UNCHANGED vars
  BY <1>7 DEF vars
<1>8. QED
  BY <1>1, <1>2, <1>3, <1>4, <1>5, <1>6, <1>7 DEF Next, Launcher

\* The strengthened invariant.
LEMMA Inductive ==
  /\ Init /\ TypeOK => IInv
  /\ IInv /\ TypeOK' /\ [Next]_vars => IInv'
<1>1. Init /\ TypeOK => IInv
  <2> SUFFICES ASSUME Init, TypeOK PROVE IInv
    OBVIOUS
  <2>1. ReadBootAttempts(file) = 0
    BY DEF Init, ReadBootAttempts, NoFile, NoDirectory
  <2>2. impaired \/ (storage = "ok" /\ library)
    BY DEF Init
  <2>3. AttemptLimit \in Nat
    BY BootAssumption
  <2>4. QED
    BY <2>1, <2>2, <2>3 DEF Init, NoFile, NoDirectory, IInv, Sound, StorageWorks,
       LibraryWorks, HeldOrCounted, RecordedIsInFile, CounterBounded,
       CountCovers
<1>2. ASSUME IInv, TypeOK', [Next]_vars
      PROVE  IInv'
  <2> SUFFICES ASSUME ~impaired' PROVE Sound'
    BY <1>2, HeldOrCountedStays DEF IInv
  <2>i. Sound
    BY <1>2, ImpairedStays DEF IInv
  <2> USE <1>2, <2>i, BootAssumption DEF IInv, Sound, disk, setup, bounds, history
  <2> DEFINE Read == ReadBootAttempts(file)
  <2>0. /\ AttemptLimit \in Nat /\ CounterCap \in Nat /\ cuts \in Nat
        /\ attempts \in Nat /\ failed \in Nat /\ cuts <= MaxCuts
        /\ AttemptLimit + cuts + 1 <= CounterCap
        /\ file \in Contents /\ file \in Int
        /\ \A c \in flash : c \in Contents /\ c \in Int
    BY DEF TypeOK, Contents, NoFile, Empty, NoDirectory
  <2>u. /\ Unlinked \in Contents /\ Unlinked \in {-1, -3}
        /\ ReadBootAttempts(Unlinked) = 0 /\ ReadBootAttempts(NoDirectory) = 0
        /\ NoDirectory = -3
    BY DEF Unlinked, Contents, NoFile, NoDirectory, ReadBootAttempts
  <2>r. /\ Read \in Nat
        /\ Read <= file \/ Read = 0
        /\ file \in Nat => Read = file
    BY <2>0, ReadFacts DEF CounterBounded
  <2> USE DEF StorageWorks, LibraryWorks, HeldOrCounted, RecordedIsInFile,
              CounterBounded, CountCovers
  <2>1. CASE BeginCounted
    BY <2>0, <2>r, <2>1 DEF BeginCounted
  <2>2. CASE BeginHeld
    BY <2>0, <2>r, <2>2 DEF BeginHeld
  <2>3. CASE BeginTrial
    BY <2>0, <2>r, <2>3 DEF BeginTrial
  <2>4. CASE OpenCounter
    BY <2>0, <2>r, <2>4 DEF OpenCounter, Issue, Empty
  <2>4a. CASE OpenFails
    BY <2>4a DEF OpenFails
  <2>5. CASE WriteCounter
    BY <2>0, <2>r, <2>5 DEF WriteCounter, Commit
  <2>6. CASE FallBack
    <3>1. ReadBootAttempts(file') = 0 /\ file' = Unlinked /\ failed' = 0
      BY <2>6, <2>u DEF FallBack, Commit
    <3>2. pc' \in {"vendor", "stuck"}
      BY <2>6 DEF FallBack, RunVendorApplication
    <3>3. \A c \in flash' : c <= AttemptLimit + cuts + 1
      BY <2>0, <2>u, <2>6 DEF FallBack, Commit
    <3>4. UNCHANGED <<storage, library, cuts>> /\ file' \in {-1, -3}
      BY <2>u, <2>6, <3>1 DEF FallBack
    <3> QED
      BY <2>0, <3>1, <3>2, <3>3, <3>4
  <2>7. CASE GoOn
    BY <2>0, <2>r, <2>7 DEF GoOn, ShouldFallBack
  <2>8. CASE HandOver
    BY <2>0, <2>r, <2>8 DEF HandOver, Saturated
  <2>9. CASE ExecFails
    BY <2>0, <2>r, <2>9 DEF ExecFails, RunVendorApplication
  <2>10. CASE EnterLoop
    <3>1. CASE UNCHANGED <<file, flash>>
      BY <2>0, <2>r, <2>10, <3>1 DEF EnterLoop
    <3>2. CASE file = NoDirectory /\ Issue(NoFile)
      <4>1. ReadBootAttempts(file') = 0 /\ Read = 0 /\ file' = -1
        BY <3>2, <2>u DEF Issue, NoFile, ReadBootAttempts
      <4>2. failed' = failed /\ failed <= 0
        BY <2>0, <2>10, <4>1 DEF EnterLoop
      <4> QED
        BY <2>0, <2>10, <3>2, <4>1, <4>2 DEF EnterLoop, Issue
    <3> QED
      BY <2>10, <3>1, <3>2 DEF EnterLoop
  <2>11. CASE AcknowledgeBoot
    <3>1. CASE start = "trial"
      BY <2>0, <2>r, <2>11, <3>1 DEF AcknowledgeBoot
    <3>2. CASE start # "trial"
      <4>1. ReadBootAttempts(file') = 0 /\ file' = Unlinked /\ failed' = 0
        BY <2>11, <2>u, <3>2 DEF AcknowledgeBoot, Issue
      <4>2. \A c \in flash' : c <= AttemptLimit + cuts + 1
        BY <2>0, <2>u, <2>11, <3>2 DEF AcknowledgeBoot, Issue
      <4>3. UNCHANGED <<storage, library, cuts>> /\ file' \in {-1, -3} /\ pc' = "healthy"
        BY <2>u, <2>11, <3>2, <4>1 DEF AcknowledgeBoot
      <4> QED
        BY <2>0, <4>1, <4>2, <4>3
    <3> QED
      BY <3>1, <3>2
  <2>12. CASE RestartApplication
    BY <2>0, <2>r, <2>12 DEF RestartApplication
  <2>12a. CASE FactoryReset
    <3>1. CASE UNCHANGED <<file, flash, history>>
      BY <2>0, <2>r, <2>12a, <3>1 DEF FactoryReset
    <3>2. CASE file' \in {Unlinked, NoDirectory} /\ failed' = 0
      <4>1. ReadBootAttempts(file') = 0 /\ file' \in {-1, -3}
        BY <2>u, <3>2
      <4>2. \A c \in flash' : c \in flash \/ c \in {-1, -3}
        BY <2>u, <2>12a, <3>2 DEF FactoryReset
      <4>3. \A c \in flash' : c <= AttemptLimit + cuts + 1
        BY <2>0, <4>2
      <4>4. UNCHANGED <<storage, library, cuts>> /\ pc' = "app"
        BY <2>12a DEF FactoryReset
      <4> QED
        BY <2>0, <3>2, <4>1, <4>3, <4>4
    <3> QED
      BY <2>12a, <3>1, <3>2 DEF FactoryReset
  <2>13. CASE ApplicationEnds
    BY <2>0, <2>r, <2>13 DEF ApplicationEnds
  <2>14. CASE VendorEnds
    BY <2>0, <2>r, <2>14 DEF VendorEnds
  <2>14a. CASE KillLauncher
    <3>1. /\ file' = file /\ flash' = flash /\ storage' = storage /\ library' = library
          /\ pc' = "spawn" /\ cuts' = cuts + 1
          /\ failed' = 0 \/ (failed' = failed /\ failed <= Read)
      BY <2>0, <2>r, <2>14a DEF KillLauncher
    <3> QED
      BY <2>0, <2>r, <3>1
  <2>15. CASE PowerOn
    BY <2>0, <2>r, <2>15 DEF PowerOn
  <2>16. CASE PowerCut
    <3>1. PICK left \in flash : file' = left /\ flash' = {left}
      BY <2>16 DEF PowerCut
    <3>2. ReadBootAttempts(left) \in Nat
      BY <2>0, <3>1, ReadFacts
    <3> QED
      BY <2>0, <2>16, <3>1, <3>2 DEF PowerCut
  <2>17. CASE Settle
    BY <2>0, <2>r, <2>17 DEF Settle
  <2>18. CASE DiskFills
    BY <2>18 DEF DiskFills
  <2>19. CASE UNCHANGED vars
    BY <2>0, <2>r, <2>19 DEF vars
  <2>20. QED
    BY <2>1, <2>2, <2>3, <2>4, <2>4a, <2>5, <2>6, <2>7, <2>8, <2>9, <2>10, <2>11,
       <2>12, <2>12a, <2>13, <2>14, <2>14a, <2>15, <2>16, <2>17, <2>18, <2>19
       DEF Next, Launcher, Application, Environment
<1>3. QED
  BY <1>1, <1>2

\* As long as the clock is not impaired, AWTRIX never gets more than
\* AttemptLimit failing starts in a row, whatever crashes, restarts, kills and
\* power cuts occur, where a healthy minute, a vendor run, a factory reset, a
\* power cut and a kill amid the rewrite end the row.
THEOREM FailingStarts == Spec => []FailingStartsBounded
<1>1. IInv => FailingStartsBounded
  BY DEF IInv, Sound, FailingStartsBounded
<1>2. QED
  BY <1>1, Inductive, TypeCorrect, PTL DEF Spec
-----------------------------------------------------------------------------
(* The two promises of single steps need facts about the starts and about  *)
(* the flash that hold of every clock, impaired or not.                    *)

\* A number n does not stand for more starts than came to the decision; more
\* than the limit are not counted one by one.
Stands(n) == n <= starts \/ starts > AttemptLimit

\* What is recorded of the starts is not above them, until the power goes or a
\* launcher is killed.  The number of a start that is not yet at its decision is
\* one more than that.
Recorded ==
  /\ Stands(ReadBootAttempts(file))
  /\ pc \in {"open", "write"} => Stands(attempts - 1)
  /\ pc = "decide" /\ start = "counted" => Stands(attempts)

StartsStand == cuts = 0 => Recorded

\* A number that has been written is on the flash and nothing else is.
MarkIsOnFlash == syncs /\ start = "counted" /\ file = attempts => flash = {file}

\* A start that falls back by its number stands for more than AttemptLimit.
LEMMA StartsStandStays ==
  ASSUME TypeOK, TypeOK', HeldOrCounted, StartsStand, [Next]_vars
  PROVE  StartsStand'
<1> SUFFICES ASSUME cuts' = 0 PROVE Recorded'
  BY DEF StartsStand
<1> USE DEF Recorded, Stands, disk, setup, bounds, history
<1>0. /\ AttemptLimit \in Nat /\ starts \in Nat /\ attempts \in Nat
      /\ ReadBootAttempts(file) \in Nat
      /\ ReadBootAttempts(NoFile) = 0 /\ ReadBootAttempts(Empty) = 0
      /\ ReadBootAttempts(NoDirectory) = 0 /\ ReadBootAttempts(Unlinked) = 0
      /\ \A n \in Nat : ReadBootAttempts(n) \in Nat /\ ReadBootAttempts(n) <= n
  BY BootAssumption, ReadFacts
     DEF TypeOK, ReadBootAttempts, NoFile, Empty, NoDirectory, Unlinked, Contents
<1>1. CASE PowerCut \/ KillLauncher
  BY <1>1 DEF PowerCut, KillLauncher, TypeOK
<1>2. CASE ~(PowerCut \/ KillLauncher)
  <2>1. cuts = 0
    BY <1>2 DEF Next, Launcher, Application, Environment, vars, BeginCounted,
       BeginHeld, BeginTrial, OpenCounter, OpenFails, WriteCounter, FallBack, GoOn,
       HandOver, ExecFails, EnterLoop, AcknowledgeBoot, RestartApplication,
       FactoryReset, ApplicationEnds, VendorEnds, PowerOn, Settle, DiskFills
  <2>i. Recorded
    BY <2>1 DEF StartsStand
  <2>2. CASE BeginCounted
    <3>1. /\ pc' = "open" /\ attempts' = ReadBootAttempts(file) + 1 /\ file' = file
          /\ starts' = starts
      BY <2>2 DEF BeginCounted
    <3> QED
      BY <1>0, <2>i, <3>1
  <2>3. CASE BeginHeld \/ BeginTrial
    BY <2>i, <2>3 DEF BeginHeld, BeginTrial
  <2>4. CASE OpenCounter
    BY <1>0, <2>i, <2>4 DEF OpenCounter, Issue
  <2>4a. CASE OpenFails
    <3>1. /\ pc = "open" /\ pc' = "decide" /\ starts' = Saturated(starts)
          /\ UNCHANGED <<attempts, file>>
      BY <2>4a DEF OpenFails
    <3> QED
      BY <1>0, <2>i, <3>1 DEF Saturated
  <2>5. CASE WriteCounter
    <3>1. /\ pc = "write" /\ pc' = "decide" /\ file' \in {Empty, attempts}
          /\ attempts' = attempts /\ starts' = Saturated(starts)
      BY <2>5 DEF WriteCounter, Commit
    <3>2. Stands(attempts)' /\ Stands(0)'
      BY <1>0, <2>i, <3>1 DEF Saturated
    <3>3. ReadBootAttempts(file') \in 0..attempts
      BY <1>0, <3>1
    <3>4. starts' \in Nat
      BY <1>0, <3>1 DEF Saturated
    <3>5. Stands(ReadBootAttempts(file))'
      BY <1>0, <3>1, <3>2, <3>3, <3>4
    <3> QED
      BY <3>1, <3>2, <3>5
  <2>6. CASE FallBack
    BY <1>0, <2>6 DEF FallBack, Commit, RunVendorApplication
  <2>7. CASE GoOn \/ HandOver \/ ExecFails
    BY <2>i, <2>7 DEF GoOn, HandOver, ExecFails, RunVendorApplication
  <2>8. CASE AcknowledgeBoot
    BY <1>0, <2>i, <2>8 DEF AcknowledgeBoot, Issue
  <2>9. CASE EnterLoop
    BY <1>0, <2>i, <2>9 DEF EnterLoop, Issue
  <2>9a. CASE FactoryReset
    BY <1>0, <2>i, <2>9a DEF FactoryReset
  <2>9b. CASE RestartApplication \/ ApplicationEnds
    BY <2>i, <2>9b DEF RestartApplication, ApplicationEnds
  <2>10. CASE VendorEnds \/ PowerOn \/ Settle \/ DiskFills
    BY <2>i, <2>10 DEF VendorEnds, PowerOn, Settle, DiskFills
  <2>11. CASE UNCHANGED vars
    BY <2>i, <2>11 DEF vars
  <2>12. QED
    BY <1>2, <2>2, <2>3, <2>4, <2>4a, <2>5, <2>6, <2>7, <2>8, <2>9, <2>9a, <2>9b,
       <2>10, <2>11
       DEF Next, Launcher, Application, Environment
<1>3. QED
  BY <1>1, <1>2

\* A mark on the flash stays there alone: what is written or cleared otherwise
\* is not the number of the start.
LEMMA MarkStays ==
  ASSUME TypeOK, TypeOK', MarkIsOnFlash, [Next]_vars
  PROVE  MarkIsOnFlash'
<1> USE DEF MarkIsOnFlash, disk, setup, bounds, history
<1>0. /\ attempts \in Nat /\ NoFile \notin Nat /\ Empty \notin Nat
      /\ NoDirectory \notin Nat /\ Unlinked \notin Nat
      /\ attempts' \in Nat
      /\ \A n \in Nat : n # n + 1
      /\ 1 \in 0..CounterCap
  BY BootAssumption DEF TypeOK, NoFile, Empty, NoDirectory, Unlinked
<1>1. CASE BeginCounted
  <2>1. file # ReadBootAttempts(file) + 1
    BY <1>0 DEF ReadBootAttempts
  <2> QED
    BY <1>1, <2>1 DEF BeginCounted
<1>2. CASE BeginHeld \/ BeginTrial
  BY <1>2 DEF BeginHeld, BeginTrial
<1>3. CASE OpenCounter
  BY <1>0, <1>3 DEF OpenCounter, Issue
<1>4. CASE WriteCounter
  BY <1>0, <1>4 DEF WriteCounter, Commit
<1>5. CASE FallBack
  BY <1>0, <1>5 DEF FallBack, Commit
<1>6. CASE GoOn \/ HandOver \/ ExecFails
  BY <1>6 DEF GoOn, HandOver, ExecFails
<1>7. CASE AcknowledgeBoot
  BY <1>0, <1>7 DEF AcknowledgeBoot, Issue
<1>8. CASE EnterLoop \/ FactoryReset
  BY <1>0, <1>8 DEF EnterLoop, FactoryReset, Issue
<1>9. CASE PowerCut \/ Settle
  BY <1>9 DEF PowerCut, Settle
<1>10. CASE OpenFails \/ RestartApplication \/ ApplicationEnds \/ VendorEnds
            \/ KillLauncher \/ PowerOn \/ DiskFills \/ UNCHANGED vars
  BY <1>10 DEF OpenFails, RestartApplication, ApplicationEnds, VendorEnds,
     KillLauncher, PowerOn, DiskFills, vars
<1>11. QED
  BY <1>1, <1>2, <1>3, <1>4, <1>5, <1>6, <1>7, <1>8, <1>9, <1>10
     DEF Next, Launcher, Application, Environment

\* Without the knob the vendor application replaces AWTRIX only after more than
\* AttemptLimit unheld starts, on every clock whose power stays on and whose
\* launcher is not killed: no failure of the partition, the library or the
\* binary lets it come earlier.
THEOREM FallbackIsDeserved == Spec => FallbackOnlyAfterFailures
<1>1. Init => StartsStand /\ HeldOrCounted
  BY BootAssumption
     DEF Init, StartsStand, Recorded, Stands, ReadBootAttempts, NoFile, NoDirectory,
         HeldOrCounted
<1>2. TypeOK /\ HeldOrCounted /\ [Next]_vars => HeldOrCounted'
  BY HeldOrCountedStays
<1>3. TypeOK /\ TypeOK' /\ HeldOrCounted /\ StartsStand /\ [Next]_vars => StartsStand'
  BY StartsStandStays
<1>4. TypeOK /\ StartsStand =>
        [FallBack /\ start = "counted" /\ cuts = 0 => starts > AttemptLimit]_vars
  <2> SUFFICES ASSUME TypeOK, StartsStand, FallBack, start = "counted", cuts = 0
               PROVE  starts > AttemptLimit
    OBVIOUS
  <2>1. attempts > AttemptLimit /\ Stands(attempts)
    BY DEF StartsStand, Recorded, FallBack, ShouldFallBack
  <2> QED
    BY <2>1, BootAssumption DEF Stands, TypeOK
<1>5. QED
  BY <1>1, <1>2, <1>3, <1>4, TypeCorrect, PTL DEF Spec, FallbackOnlyAfterFailures

\* If synced writes hold, a start whose number is in the counter stays counted
\* whenever the power goes, on every clock.
THEOREM MarkSurvives == Spec => PowerCutLeavesMark
<1>1. Init => MarkIsOnFlash
  BY DEF Init, MarkIsOnFlash
<1>2. TypeOK /\ TypeOK' /\ MarkIsOnFlash /\ [Next]_vars => MarkIsOnFlash'
  BY MarkStays
<1>3. MarkIsOnFlash =>
        [PowerCut /\ syncs /\ start = "counted" /\ file = attempts
           => file' = attempts]_vars
  BY DEF MarkIsOnFlash, PowerCut
<1>4. QED
  BY <1>1, <1>2, <1>3, TypeCorrect, PTL DEF Spec, PowerCutLeavesMark

-----------------------------------------------------------------------------
\* The refinement mapping only depends on the launcher's place, the kind of
\* start and the counter.
LEMMA MappedStutter ==
  ASSUME UNCHANGED <<pc, start, attempts, file, impaired, cuts>>
  PROVE  UNCHANGED Promise!vars
  BY DEF Promise!vars, PhaseOf, StrikesOf, PhaseNow, StrikesNow, Disturbed,
     ReadBootAttempts

\* Every step of the launcher, the application and init is a step of the
\* promise or leaves phase and strikes alone.
LEMMA StepImplements ==
  ASSUME IInv, TypeOK', ~Disturbed, ~Disturbed', [Next]_vars
  PROVE  [Promise!Next]_(Promise!vars)
<1>i. Sound /\ ~impaired'
  BY DEF IInv, Disturbed
<1>e. /\ PhaseOf = PhaseNow /\ PhaseOf' = PhaseNow'
      /\ StrikesOf = StrikesNow /\ StrikesOf' = StrikesNow'
  BY DEF PhaseOf, StrikesOf
<1> USE <1>i, BootAssumption DEF IInv, Sound, disk, setup, bounds, history
<1> DEFINE Read == ReadBootAttempts(file)
<1>0. /\ AttemptLimit \in Nat /\ CounterCap \in Nat /\ cuts = 0 /\ cuts' = 0
      /\ attempts \in Nat
      /\ AttemptLimit + cuts + 1 <= CounterCap
      /\ file \in Contents /\ file \in Int
      /\ ReadBootAttempts(Unlinked) = 0 /\ ReadBootAttempts(NoFile) = 0
      /\ ReadBootAttempts(NoDirectory) = 0
  BY DEF TypeOK, Contents, NoFile, Empty, NoDirectory, Unlinked, ReadBootAttempts,
     Disturbed
<1>r. /\ Read \in Nat
      /\ Read <= file \/ Read = 0
      /\ file \in Nat => Read = file
  BY <1>0, ReadFacts DEF CounterBounded
<1>s. Read <= AttemptLimit \/ pc = "decide"
  BY <1>0, <1>r DEF CounterBounded
<1> USE DEF PhaseNow, StrikesNow, RecordedIsInFile, CountCovers
<1>1. CASE BeginCounted
  <2>1. PhaseNow' = "idle" /\ PhaseNow = "idle"
    BY <1>1 DEF BeginCounted
  <2>2. StrikesNow' = StrikesNow
    BY <1>1 DEF BeginCounted, ReadBootAttempts
  <2> QED
    BY <1>e, <2>1, <2>2 DEF Promise!vars
<1>2. CASE BeginHeld
  <2>1. PhaseNow' = "idle" /\ PhaseNow = "idle"
    BY <1>2 DEF BeginHeld
  <2>2. StrikesNow' = StrikesNow
    BY <1>2 DEF BeginHeld, ReadBootAttempts
  <2> QED
    BY <1>e, <2>1, <2>2 DEF Promise!vars
<1>3. CASE BeginTrial
  <2>1. PhaseNow' = "idle" /\ PhaseNow = "idle"
    BY <1>3 DEF BeginTrial
  <2>2. StrikesNow' = StrikesNow
    BY <1>3 DEF BeginTrial, ReadBootAttempts
  <2> QED
    BY <1>e, <2>1, <2>2 DEF Promise!vars
<1>4. CASE OpenCounter
  <2>1. /\ file' = Empty /\ pc' = "write" /\ pc = "open"
        /\ attempts' = attempts /\ start = "counted" /\ start' = start
        /\ attempts = Read + 1
    BY <1>4 DEF OpenCounter, Issue, StorageWorks, HeldOrCounted
  <2>2. StrikesNow = Read /\ StrikesNow' = Read
    BY <1>r, <2>1
  <2>3. PhaseNow' = "idle" /\ PhaseNow = "idle"
    BY <2>1
  <2> QED
    BY <1>e, <2>2, <2>3 DEF Promise!vars
<1>4a. CASE OpenFails
  BY <1>4a DEF OpenFails
<1>5. CASE WriteCounter
  <2>1. /\ file' = attempts /\ pc' = "decide" /\ pc = "write"
        /\ start = "counted" /\ start' = start
    BY <1>5 DEF WriteCounter, Commit, StorageWorks, HeldOrCounted
  <2>2. attempts \in 1..AttemptLimit + 1
    BY <1>0, <2>1 DEF CounterBounded, CountCovers, TypeOK
  <2>3. StrikesNow = attempts - 1 /\ StrikesNow' = attempts
    BY <1>0, <2>1, <2>2 DEF ReadBootAttempts
  <2>4. PhaseNow = "idle" /\ PhaseNow' = "starting"
    BY <2>1
  <2> QED
    BY <1>e, <1>0, <2>2, <2>3, <2>4 DEF Promise!Next, Promise!Count
<1>6. CASE FallBack
  <2>1. /\ pc = "decide" /\ pc' = "vendor" /\ start' = start
        /\ start = "held" \/ attempts > AttemptLimit
        /\ file' = Unlinked
    BY <1>6 DEF FallBack, Commit, RunVendorApplication, LibraryWorks, ShouldFallBack
  <2>2. StrikesNow' = 0
    BY <1>0, <2>1
  <2>3. CASE start = "held"
    <3>1. PhaseNow = "idle" /\ PhaseNow' = "vendor"
      BY <2>1, <2>3
    <3> QED
      BY <1>e, <2>2, <3>1 DEF Promise!Next, Promise!Recover
  <2>4. CASE start = "trial"
    BY <2>1, <2>4 DEF HeldOrCounted
  <2>5. CASE start = "counted"
    <3>1. PhaseNow = "starting" /\ PhaseNow' = "vendor"
      BY <2>1, <2>5
    <3>2. StrikesNow > AttemptLimit
      BY <1>0, <1>r, <2>1, <2>5
    <3> QED
      BY <1>e, <2>2, <3>1, <3>2 DEF Promise!Next, Promise!FallBack
  <2> QED
    BY <2>3, <2>4, <2>5 DEF TypeOK
<1>7. CASE GoOn
  <2>1. PhaseNow = "starting" /\ PhaseNow' = "starting"
    BY <1>7 DEF GoOn
  <2>2. StrikesNow' = StrikesNow
    BY <1>7 DEF GoOn, ReadBootAttempts
  <2> QED
    BY <1>e, <2>1, <2>2 DEF Promise!vars
<1>8. CASE HandOver
  <2>1. StrikesNow' = StrikesNow /\ StrikesNow = Read
    BY <1>8 DEF HandOver, ReadBootAttempts
  <2>2. CASE start = "trial"
    <3>1. PhaseNow = "idle" /\ PhaseNow' = "idle"
      BY <1>8, <2>2 DEF HandOver
    <3> QED
      BY <1>e, <2>1, <3>1 DEF Promise!vars
  <2>3. CASE start # "trial"
    <3>1. start = "counted"
      BY <1>8, <2>3 DEF HandOver, HeldOrCounted, TypeOK
    <3>2. PhaseNow = "starting" /\ PhaseNow' = "awtrix"
      BY <1>8, <3>1 DEF HandOver
    <3>3. StrikesNow <= AttemptLimit
      BY <1>8, <1>s, <2>1 DEF HandOver
    <3> QED
      BY <1>e, <2>1, <3>2, <3>3 DEF Promise!Next, Promise!HandOver
  <2> QED
    BY <2>2, <2>3
<1>9. CASE ExecFails
  <2>1. StrikesNow' = StrikesNow /\ StrikesNow = Read
    BY <1>9 DEF ExecFails, RunVendorApplication, LibraryWorks, ReadBootAttempts
  <2>2. CASE start = "trial"
    <3>1. PhaseNow = "idle" /\ PhaseNow' = "idle"
      BY <1>9, <2>2 DEF ExecFails, RunVendorApplication, LibraryWorks
    <3> QED
      BY <1>e, <2>1, <3>1 DEF Promise!vars
  <2>3. CASE start # "trial"
    <3>1. start = "counted"
      BY <1>9, <2>3 DEF ExecFails, HeldOrCounted, TypeOK
    <3>2. PhaseNow = "starting" /\ PhaseNow' = "vendor"
      BY <1>9, <3>1 DEF ExecFails, RunVendorApplication, LibraryWorks
    <3>3. StrikesNow <= AttemptLimit
      BY <1>9, <1>s, <2>1 DEF ExecFails
    <3> QED
      BY <1>e, <2>1, <3>2, <3>3 DEF Promise!Next, Promise!CannotHandOver
  <2> QED
    BY <2>2, <2>3
<1>10. CASE EnterLoop
  <2>1. ReadBootAttempts(file') = ReadBootAttempts(file)
    BY <1>0, <1>10 DEF EnterLoop, Issue
  <2>2. StrikesNow' = StrikesNow /\ PhaseNow' = PhaseNow
    BY <1>10, <2>1 DEF EnterLoop
  <2> QED
    BY <1>e, <2>2 DEF Promise!vars
<1>11. CASE AcknowledgeBoot
  <2>1. CASE start = "trial"
    <3>1. StrikesNow' = StrikesNow /\ PhaseNow' = PhaseNow
      BY <1>11, <2>1 DEF AcknowledgeBoot, ReadBootAttempts
    <3> QED
      BY <1>e, <3>1 DEF Promise!vars
  <2>2. CASE start # "trial"
    <3>1. StrikesNow' = 0
      BY <1>0, <1>11, <2>2 DEF AcknowledgeBoot, Issue
    <3>2. PhaseNow = "awtrix" /\ PhaseNow' = "awtrix"
      BY <1>11, <2>2 DEF AcknowledgeBoot
    <3> QED
      BY <1>e, <3>1, <3>2 DEF Promise!Next, Promise!Healthy
  <2> QED
    BY <2>1, <2>2
<1>12. CASE RestartApplication
  <2>1. StrikesNow' = StrikesNow /\ PhaseNow' = PhaseNow
    BY <1>12 DEF RestartApplication, ReadBootAttempts
  <2> QED
    BY <1>e, <2>1 DEF Promise!vars
<1>12a. CASE FactoryReset
  <2>1. PhaseNow = "awtrix" /\ PhaseNow' = "awtrix"
    BY <1>12a DEF FactoryReset
  <2>2. CASE UNCHANGED file
    <3>1. StrikesNow' = StrikesNow
      BY <1>12a, <2>2 DEF FactoryReset
    <3> QED
      BY <1>e, <2>1, <3>1 DEF Promise!vars
  <2>3. CASE file' \in {Unlinked, NoDirectory}
    <3>1. StrikesNow' = 0
      BY <1>0, <1>12a, <2>3 DEF FactoryReset
    <3> QED
      BY <1>e, <2>1, <3>1 DEF Promise!Next, Promise!Healthy
  <2> QED
    BY <1>12a, <2>2, <2>3 DEF FactoryReset
<1>13. CASE ApplicationEnds \/ VendorEnds
  <2>1. StrikesNow' = StrikesNow
    BY <1>13 DEF ApplicationEnds, VendorEnds, ReadBootAttempts
  <2>2. PhaseNow' = "idle" /\ PhaseNow \in {"idle", "awtrix", "vendor"}
    BY <1>13 DEF ApplicationEnds, VendorEnds
  <2> QED
    BY <1>e, <2>1, <2>2 DEF Promise!Next, Promise!Ends, Promise!vars
<1>14. CASE PowerOn
  <2>1. StrikesNow' = StrikesNow /\ PhaseNow' = PhaseNow
    BY <1>14 DEF PowerOn, ReadBootAttempts
  <2> QED
    BY <1>e, <2>1 DEF Promise!vars
<1>15. CASE PowerCut \/ KillLauncher
  BY <1>0, <1>15 DEF PowerCut, KillLauncher
<1>16. CASE Settle \/ DiskFills \/ UNCHANGED vars
  <2>1. UNCHANGED <<pc, start, attempts, file, impaired, cuts>>
    BY <1>16 DEF Settle, DiskFills, vars
  <2> QED
    BY <2>1, MappedStutter
<1>17. QED
  BY <1>1, <1>2, <1>3, <1>4, <1>4a, <1>5, <1>6, <1>7, <1>8, <1>9, <1>10, <1>11,
     <1>12, <1>12a, <1>13, <1>14, <1>15, <1>16
     DEF Next, Launcher, Application, Environment

\* A disturbed clock stays disturbed, and nothing is promised of it.
LEMMA DisturbedStays ==
  ASSUME TypeOK, [Next]_vars, Disturbed
  PROVE  Disturbed'
<1>1. CASE impaired
  BY <1>1, ImpairedStays DEF Disturbed
<1>2. CASE cuts > 0
  BY <1>2 DEF Disturbed, TypeOK, Next, Launcher, Application, Environment, vars,
     bounds, BeginCounted, BeginHeld, BeginTrial, OpenCounter, WriteCounter,
     FallBack, GoOn, HandOver, ExecFails, EnterLoop, AcknowledgeBoot,
     RestartApplication, ApplicationEnds, VendorEnds, PowerOn, PowerCut, Settle,
     DiskFills, OpenFails, FactoryReset, KillLauncher
<1>3. QED
  BY <1>1, <1>2 DEF Disturbed

\* Launcher, counter file and application implement the three-strikes promise,
\* which holds until the power fails, a launcher is killed or the clock is
\* impaired.
THEOREM Implements == Spec => ImplementsPromise
<1>1. Init => Promise!Init
  BY DEF Init, Promise!Init, PhaseOf, StrikesOf, PhaseNow, StrikesNow,
     ReadBootAttempts, NoFile, NoDirectory
<1>2. ASSUME IInv, TypeOK', [Next]_vars
      PROVE  [Promise!Next]_(Promise!vars)
  <2>1. CASE Disturbed'
    BY <2>1 DEF PhaseOf, StrikesOf, Promise!Next, Promise!Void
  <2>2. CASE ~Disturbed'
    BY <1>2, <2>2, DisturbedStays, StepImplements DEF IInv
  <2>3. QED
    BY <2>1, <2>2
<1>3. Spec => [](IInv /\ TypeOK)
  BY Inductive, TypeCorrect, PTL DEF Spec
<1>4. QED
  BY <1>1, <1>2, <1>3, PTL DEF Spec, ImplementsPromise, Promise!Spec
=============================================================================
