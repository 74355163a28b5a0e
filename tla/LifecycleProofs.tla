----------------------------- MODULE LifecycleProofs -----------------------------
(***************************************************************************)
(* What the process leaves on flash when it ends, for every delay, save    *)
(* interval and number of edits, requests, signals and crashes.            *)
(*                                                                         *)
(* Whether the newest settings are on flash when the process has ended is  *)
(* decided when the restart branch is entered, several steps before: the   *)
(* invariant says what the file is from then on (Decided), and carries it  *)
(* over to the image that is started next (LeftBehind).  That an edit is   *)
(* saved in time rests on the flag, which is set while there is something  *)
(* to save, and on the two clocks that a frame advances alike (Timely).    *)
(***************************************************************************)
EXTENDS Lifecycle, TLAPS

\* In the restart branch the file is what the request makes of it.
Decided ==
  /\ pc = "wipe" => factory
  /\ pc \in {"dark", "asleep", "exec"} =>
       file = IF reset \/ factory THEN left ELSE settings

\* What an image finds that comes after one that ended like this.
LeftBehind ==
  pc \in {"start", "ended"} =>
    /\ last = "saved" => file = settings
    /\ last \in {"reset", "factory"} => file = left

\* What is not on flash is marked dirty, and has waited no longer than the save
\* clock has run; where a save was due this frame nothing is waiting.
Timely ==
  /\ pc \in {"loop", "ticks"} => (file # settings => dirty) /\ unsaved <= sinceSave
  /\ pc = "loop" /\ file = settings => unsaved = 0
  /\ pc = "ticks" => sinceSave <= SaveInterval \/ unsaved = 0

IInv == TypeOK /\ Decided /\ LeftBehind /\ Timely

-----------------------------------------------------------------------------
LEMMA InitIInv == LifecycleAssumption /\ Init => IInv
<1> SUFFICES ASSUME LifecycleAssumption, Init PROVE IInv
  OBVIOUS
<1>1. TypeOK
  <2>1. {sleeping, reset, factory, stop, dirty} \subseteq BOOLEAN
    BY DEF Init
  <2>2. /\ restartIn \in Int /\ restartIn >= None /\ wakeIn \in 0..SleepTime
        /\ settings \in 0..MaxEdits /\ file \in 0..MaxEdits \cup {None}
        /\ sinceSave \in 0..SaveInterval + 1
        /\ left \in 0..MaxEdits \cup {None} /\ unsaved \in 0..SaveInterval + 2
    BY SMT DEF Init, LifecycleAssumption, None
  <2>3. /\ edits \in 0..MaxEdits /\ requests \in 0..MaxRequests
        /\ signals \in 0..MaxSignals /\ crashes \in 0..MaxCrashes
    BY SMT DEF Init, LifecycleAssumption
  <2> QED BY <2>1, <2>2, <2>3 DEF Init, TypeOK
<1>2. Decided /\ LeftBehind /\ Timely
  BY DEF Init, Decided, LeftBehind, Timely, history
<1> QED BY <1>1, <1>2 DEF IInv

\* Start: a fresh image.
LEMMA StartIInv == LifecycleAssumption /\ IInv /\ Start => IInv'
<1> SUFFICES ASSUME LifecycleAssumption, IInv, Start PROVE IInv'
  OBVIOUS
<1> USE DEF IInv, Start
<1>1. TypeOK'
  <2>1. {sleeping', reset', factory', stop', dirty'} \subseteq BOOLEAN
    OBVIOUS
  <2>2. /\ restartIn' \in Int /\ restartIn' >= None /\ wakeIn' \in 0..SleepTime
        /\ settings' \in 0..MaxEdits /\ sinceSave' \in 0..SaveInterval + 1
        /\ unsaved' \in 0..SaveInterval + 2
    BY SMT DEF TypeOK, LifecycleAssumption, None
  <2>3. panel' \in {"dark", "lit", "fresh"}
    BY DEF TypeOK
  <2> QED BY <2>1, <2>2, <2>3 DEF TypeOK, bounds
<1>2. Decided' /\ LeftBehind' /\ Timely'
  BY DEF Decided, LeftBehind, Timely, history
<1> QED BY <1>1, <1>2

\* The restart branch: what it leaves on flash is decided at its beginning, or
\* by the removal of the data directory, and nothing after touches the file.
LEMMA BranchIInv ==
  LifecycleAssumption /\ IInv /\ (BeginRestart \/ Wipe \/ FallAsleep \/ Sleep) => IInv'
<1> SUFFICES ASSUME LifecycleAssumption, IInv, BeginRestart \/ Wipe \/ FallAsleep \/ Sleep
             PROVE  IInv'
  OBVIOUS
<1>1. CASE BeginRestart
  <2>1. TypeOK'
    BY <1>1, SMT DEF BeginRestart, EnterBranch, Save, RemoveSettings, Blank, IInv, TypeOK,
       request, memory, history, bounds
  <2>2. Decided' /\ LeftBehind' /\ Timely'
    BY <1>1 DEF BeginRestart, EnterBranch, Save, RemoveSettings, IInv, Decided, LeftBehind,
       Timely, history, request, memory
  <2> QED BY <2>1, <2>2 DEF IInv
<1>2. CASE Wipe
  <2>1. TypeOK'
    BY <1>2, SMT DEF Wipe, WipeData, RemoveSettings, Blank, IInv, TypeOK, request, memory,
       history, bounds
  <2>2. Decided' /\ LeftBehind' /\ Timely'
    BY <1>2 DEF Wipe, WipeData, RemoveSettings, IInv, Decided, LeftBehind, Timely, history,
       request, memory
  <2> QED BY <2>1, <2>2 DEF IInv
<1>3. CASE FallAsleep
  <2>1. TypeOK'
    BY <1>3, SMT DEF FallAsleep, IInv, TypeOK, request, memory, history, bounds,
       LifecycleAssumption
  <2>2. Decided' /\ LeftBehind' /\ Timely'
    BY <1>3 DEF FallAsleep, IInv, Decided, LeftBehind, Timely, history, request, memory
  <2> QED BY <2>1, <2>2 DEF IInv
<1>4. CASE Sleep
  <2>1. TypeOK'
    BY <1>4, SMT DEF Sleep, IInv, TypeOK, request, memory, history, bounds, LifecycleAssumption
  <2>2. Decided' /\ LeftBehind' /\ Timely'
    BY <1>4 DEF Sleep, IInv, Decided, LeftBehind, Timely, history, request, memory
  <2> QED BY <2>1, <2>2 DEF IInv
<1> QED BY <1>1, <1>2, <1>3, <1>4

\* The four ways in which an image ends, and the one in which it does not.
LEMMA EndingIInv ==
  LifecycleAssumption /\ IInv /\ (StopInBranch \/ GoOnToExec \/ Exec \/ OrderlyEnd \/ Crash)
    => IInv'
<1> SUFFICES ASSUME LifecycleAssumption, IInv,
                    StopInBranch \/ GoOnToExec \/ Exec \/ OrderlyEnd \/ Crash
             PROVE  IInv'
  OBVIOUS
<1>1. CASE StopInBranch
  <2>1. TypeOK'
    BY <1>1, SMT DEF StopInBranch, Ending, IInv, TypeOK, request, memory, history, bounds
  <2>2. Decided' /\ LeftBehind' /\ Timely'
    BY <1>1 DEF StopInBranch, Ending, IInv, Decided, LeftBehind, Timely, history, request, memory
  <2> QED BY <2>1, <2>2 DEF IInv
<1>2. CASE GoOnToExec
  <2>1. TypeOK'
    BY <1>2, SMT DEF GoOnToExec, Awake, IInv, TypeOK, request, memory, history, bounds
  <2>2. Decided' /\ LeftBehind' /\ Timely'
    BY <1>2 DEF GoOnToExec, Awake, IInv, Decided, LeftBehind, Timely, history, request, memory
  <2> QED BY <2>1, <2>2 DEF IInv
<1>3. CASE Exec
  <2>1. TypeOK'
    BY <1>3, SMT DEF Exec, Ending, IInv, TypeOK, request, memory, history, bounds
  <2>2. Decided' /\ LeftBehind' /\ Timely'
    BY <1>3 DEF Exec, Ending, IInv, Decided, LeftBehind, Timely, history, request, memory
  <2> QED BY <2>1, <2>2 DEF IInv
<1>4. CASE OrderlyEnd
  <2>1. TypeOK'
    BY <1>4, SMT DEF OrderlyEnd, Save, Blank, IInv, TypeOK, request, memory, history, bounds
  <2>2. Decided' /\ LeftBehind' /\ Timely'
    BY <1>4 DEF OrderlyEnd, Save, IInv, Decided, LeftBehind, Timely, history, request, memory
  <2> QED BY <2>1, <2>2 DEF IInv
<1>5. CASE Crash
  <2>1. TypeOK'
    BY <1>5, SMT DEF Crash, IInv, TypeOK, request, memory, history, LifecycleAssumption
  <2>2. Decided' /\ LeftBehind' /\ Timely'
    BY <1>5 DEF Crash, IInv, Decided, LeftBehind, Timely, history
  <2> QED BY <2>1, <2>2 DEF IInv
<1> QED BY <1>1, <1>2, <1>3, <1>4, <1>5

\* A frame of the loop: edits and requests are made where no image has ended and
\* no restart is under way.
LEMMA FrameIInv ==
  LifecycleAssumption /\ IInv /\ (DebouncedSave \/ EndFrame \/ Ask) => IInv'
<1> SUFFICES ASSUME LifecycleAssumption, IInv, DebouncedSave \/ EndFrame \/ Ask
             PROVE  IInv'
  OBVIOUS
<1>1. CASE DebouncedSave
  <2>1. TypeOK'
    <3>1. dirty' \in BOOLEAN
      BY <1>1 DEF DebouncedSave, SaveWhen, IInv, TypeOK
    <3>2. /\ file' \in 0..MaxEdits \cup {None} /\ sinceSave' \in 0..SaveInterval + 1
          /\ unsaved' \in 0..SaveInterval + 2 /\ left' = left
      BY <1>1, SMT DEF DebouncedSave, SaveWhen, Save, IInv, TypeOK, LifecycleAssumption
    <3> QED BY <1>1, <3>1, <3>2 DEF DebouncedSave, SaveWhen, IInv, TypeOK, request, history, bounds
  <2>2. Decided' /\ LeftBehind' /\ Timely'
    BY <1>1 DEF DebouncedSave, SaveWhen, Save, IInv, TypeOK, Decided, LeftBehind, Timely, history
  <2> QED BY <2>1, <2>2 DEF IInv
<1>2. CASE EndFrame
  <2>1. TypeOK'
    BY <1>2, SMT DEF EndFrame, LetTimePass, IInv, TypeOK, bounds, LifecycleAssumption, None
  <2>2. Decided' /\ LeftBehind' /\ Timely'
    BY <1>2, SMT DEF EndFrame, LetTimePass, IInv, TypeOK, Decided, LeftBehind, Timely,
       LifecycleAssumption
  <2> QED BY <2>1, <2>2 DEF IInv
<1>3. CASE Edit
  <2>1. TypeOK'
    BY <1>3, SMT DEF Edit, IInv, TypeOK, request, history, LifecycleAssumption
  <2>2. Decided' /\ LeftBehind' /\ Timely'
    BY <1>3 DEF Edit, IInv, Decided, LeftBehind, Timely, history
  <2> QED BY <2>1, <2>2 DEF IInv
<1>4. ASSUME NEW delay \in Nat, Asked(delay),
             {sleeping', reset', factory'} \subseteq BOOLEAN
      PROVE  IInv'
  <2>1. TypeOK'
    BY <1>4, SMT DEF Asked, IInv, TypeOK, memory, history, LifecycleAssumption, None
  <2>2. Decided' /\ LeftBehind' /\ Timely'
    BY <1>4 DEF Asked, IInv, Decided, LeftBehind, Timely, memory, history
  <2> QED BY <2>1, <2>2 DEF IInv
<1>5. CASE Reboot
  BY <1>5, <1>4 DEF Reboot, IInv, TypeOK, LifecycleAssumption
<1>6. CASE AskSleep
  BY <1>6, <1>4 DEF AskSleep, IInv, TypeOK, LifecycleAssumption
<1>7. CASE FactoryReset
  BY <1>7, <1>4 DEF FactoryReset, IInv, TypeOK, LifecycleAssumption
<1>8. CASE ResetSettings
  BY <1>8, <1>4 DEF ResetSettings, IInv, TypeOK, LifecycleAssumption
<1>9. CASE ConfigChanged
  BY <1>9, <1>4 DEF ConfigChanged, IInv, TypeOK, LifecycleAssumption
<1> QED BY <1>1, <1>2, <1>3, <1>5, <1>6, <1>7, <1>8, <1>9 DEF Ask

LEMMA AroundIInv ==
  LifecycleAssumption /\ IInv /\ (Signal \/ Respawn \/ UNCHANGED vars) => IInv'
<1> SUFFICES ASSUME LifecycleAssumption, IInv, Signal \/ Respawn \/ UNCHANGED vars
             PROVE  IInv'
  OBVIOUS
<1>1. CASE Signal
  <2>1. TypeOK'
    BY <1>1, SMT DEF Signal, IInv, TypeOK, request, memory, history, LifecycleAssumption
  <2>2. Decided' /\ LeftBehind' /\ Timely'
    BY <1>1 DEF Signal, IInv, Decided, LeftBehind, Timely, history, request, memory
  <2> QED BY <2>1, <2>2 DEF IInv
<1>2. CASE Respawn
  <2>1. TypeOK'
    BY <1>2, SMT DEF Respawn, IInv, TypeOK, request, memory, history, bounds
  <2>2. Decided' /\ LeftBehind' /\ Timely'
    BY <1>2 DEF Respawn, IInv, Decided, LeftBehind, Timely, history, request, memory
  <2> QED BY <2>1, <2>2 DEF IInv
<1>3. CASE UNCHANGED vars
  BY <1>3 DEF vars, request, memory, history, bounds, IInv, TypeOK, Decided, LeftBehind,
     Timely
<1> QED BY <1>1, <1>2, <1>3

LEMMA NextIInv == LifecycleAssumption /\ IInv /\ [Next]_vars => IInv'
  BY StartIInv, BranchIInv, EndingIInv, FrameIInv, AroundIInv DEF Next, Run

LEMMA Invariant == LifecycleAssumption /\ Spec => []IInv
<1>1. LifecycleAssumption /\ Init => IInv
  BY InitIInv
<1>2. LifecycleAssumption /\ IInv /\ [Next]_vars => IInv'
  BY NextIInv
<1> QED BY <1>1, <1>2, LifecycleAssumption, PTL DEF Spec

-----------------------------------------------------------------------------
\* main: the variables of the loop keep their types.
THEOREM TypeCorrect == LifecycleAssumption /\ Spec => []TypeOK
<1>1. IInv => TypeOK
  BY DEF IInv
<1> QED BY <1>1, Invariant, PTL

\* main: however edits, requests, signals and the debounced save come one after
\* the other, an image that ends in order leaves the newest settings on flash.
THEOREM EditsAreKept == LifecycleAssumption /\ Spec => []OrderlyEndKeepsEdits
<1>1. IInv => OrderlyEndKeepsEdits
  BY DEF IInv, LeftBehind, OrderlyEndKeepsEdits
<1> QED BY <1>1, Invariant, PTL

\* main: an edit waits no longer for the flash than the save interval and a
\* frame, while the loop runs.
THEOREM EditsAreInTime == LifecycleAssumption /\ Spec => []EditsReachFlash
<1>1. IInv => EditsReachFlash
  BY LifecycleAssumption, SMT DEF IInv, TypeOK, Timely, EditsReachFlash, LifecycleAssumption
<1> QED BY <1>1, Invariant, PTL

\* main: the image after a reset starts from the defaults, or from the file the
\* removal left, whatever the one that was reset did after it.
THEOREM ResetsHold == LifecycleAssumption /\ Spec => ResetTakesHold
<1>1. IInv /\ [Next]_vars => [Start /\ last \in {"reset", "factory"} =>
         settings' = IF left = None THEN 0 ELSE left]_vars
  BY DEF IInv, LeftBehind, Start
<1> QED BY <1>1, Invariant, PTL DEF Spec, ResetTakesHold
=============================================================================
