------------------------------ MODULE Lifecycle ------------------------------
(***************************************************************************)
(* The main loop of the application (tc002/main_tc002.cpp) as far as it    *)
(* decides when the process ends and what is on flash and on the panel     *)
(* then: restart requests and their deadline, the two resets, sleep,       *)
(* SIGTERM, the debounced save of the settings, and the panel, which takes *)
(* no frame within 15 ms of the last one (Tc002Hardware.cpp).              *)
(*                                                                         *)
(* Time passes at the end of a frame, one unit at a time; the deadline is  *)
(* kept as the time left to it.  Settings are versions: 0 stands for the   *)
(* defaults, every edit makes a new one.                                   *)
(***************************************************************************)
EXTENDS Integers

CONSTANTS
  RebootDelay,   \* tc002RestartAt of a reboot, sleep or reset: 300 ms
  ConfigDelay,   \* tc002RestartAt of a changed configuration: 500 ms
  SaveInterval,  \* settings.json is rewritten no sooner: 1500 ms
  SleepTime,     \* length of the sleeps that are asked for
  MaxEdits,      \* bound: settings edits in a behaviour
  MaxRequests,   \* bound: restarts, sleeps and resets asked for
  MaxSignals,    \* bound: SIGTERMs sent
  MaxCrashes     \* bound: crashes and power cuts

ASSUME LifecycleAssumption ==
  /\ {RebootDelay, ConfigDelay, SleepTime} \subseteq Nat \ {0}
  /\ SaveInterval \in Nat
  /\ {MaxEdits, MaxRequests, MaxSignals, MaxCrashes} \subseteq Nat

VARIABLES
  pc,         \* "start", "loop", "ticks"; in the restart branch "wipe",
              \*   "dark", "asleep", "exec"; "ended"
  restartIn,  \* time left to tc002RestartAt, None when it is 0
  sleeping,   \* tc002SleepMs # 0
  wakeIn,     \* time left to the end of the sleep
  reset, factory,   \* tc002Reset, tc002FactoryReset
  stop,       \* tc002Stop
  settings,   \* settings in memory
  dirty,      \* g_settingsDirty
  sinceSave,  \* time since g_lastSettingsSaveMs, as far as it matters
  file,       \* settings.json, None when it does not exist
  panel,      \* "dark", "lit", or "fresh": lit by a frame so recent that the
              \*   next one may be dropped
  last,       \* history: how the process image before this one ended
  left,       \* history: the file after the last removal, None if that worked
  unsaved,    \* history: time since memory first differed from the file
  edits, requests, signals, crashes

None == -1

request == <<restartIn, sleeping, reset, factory>>
memory == <<settings, dirty, sinceSave>>
bounds == <<edits, requests, signals, crashes>>
history == <<last, left, unsaved>>
vars == <<pc, request, wakeIn, stop, memory, file, panel, history, bounds>>

-----------------------------------------------------------------------------
(* Start                                                                   *)

\* Statics are fresh, the settings come from the file or are the defaults,
\* and telling the subscribers of them marks them dirty.  The save clock has
\* been at 0 since Linux booted, and so has the time of the last frame.
Start ==
  /\ pc = "start"
  /\ pc' = "loop"
  /\ restartIn' = None /\ sleeping' = FALSE /\ reset' = FALSE /\ factory' = FALSE
  /\ stop' = FALSE
  /\ settings' = IF file = None THEN 0 ELSE file
  /\ dirty' = TRUE
  /\ sinceSave' = SaveInterval + 1
  /\ panel' = IF panel = "fresh" THEN "lit" ELSE panel
  /\ unsaved' = 0
  /\ UNCHANGED <<wakeIn, file, last, left, bounds>>

-----------------------------------------------------------------------------
(* One frame of the loop                                                   *)

Due == restartIn = 0

Save == file' = settings /\ unsaved' = 0 /\ UNCHANGED left

\* Both removals ignore their error: the file may stay as it was.
RemoveSettings == file' \in {None, file} /\ left' = file' /\ UNCHANGED unsaved

\* clear and show: the black frame is dropped like any other, unless enough
\* time has passed since the last one on the way here.
Blank == panel' \in IF panel = "fresh" THEN {"fresh", "dark"} ELSE {"dark"}

\* The restart is due: audio and network worker are joined, then the Wi-Fi
\* networks are forgotten (factory reset, a step of its own for the crash that
\* can come between), or the settings are removed or saved and the panel is
\* cleared.
EnterBranch(Keep) ==
  /\ pc = "loop" /\ Due
  /\ IF factory THEN pc' = "wipe" /\ UNCHANGED <<file, panel, left, unsaved>>
                ELSE pc' = "dark" /\ Blank /\ (IF reset THEN RemoveSettings ELSE Keep)
  /\ UNCHANGED <<request, wakeIn, stop, memory, last, bounds>>

\* Variant: saving is left to the debounced save.
BeginRestartUnsaved == EnterBranch(UNCHANGED <<file, left, unsaved>>)

BeginRestart == EnterBranch(Save)

\* Factory reset, second half: the data directory goes, unless an upload that
\* still writes to it cuts the removal short (module Uploads).
WipeData(Removal) ==
  /\ pc = "wipe"
  /\ Removal
  /\ pc' = "dark"
  /\ Blank
  /\ UNCHANGED <<request, wakeIn, stop, memory, last, bounds>>

\* Variant: the settings are saved in every branch, after the removal.
WipeAndSave ==
  WipeData(left' \in {None, file} /\ file' = settings /\ UNCHANGED unsaved)

Wipe == WipeData(RemoveSettings)

\* How the restart branch will have ended.
Ending == IF factory THEN "factory" ELSE IF reset THEN "reset" ELSE "saved"

\* The panel has been cleared and the web server is gone.  A sleep waits here.
FallAsleep ==
  /\ pc = "dark" /\ sleeping
  /\ pc' = "asleep"
  /\ wakeIn' = SleepTime
  /\ UNCHANGED <<panel, request, stop, memory, file, history, bounds>>

Sleep ==
  /\ pc = "asleep" /\ ~stop /\ wakeIn > 0
  /\ wakeIn' = wakeIn - 1
  /\ UNCHANGED <<panel, pc, request, stop, memory, file, history, bounds>>

\* A signal ends the process here, without another save.
StopInBranch ==
  /\ \/ pc = "dark" /\ ~sleeping
     \/ pc = "asleep" /\ (stop \/ wakeIn = 0)
  /\ stop
  /\ pc' = "ended"
  /\ last' = Ending
  /\ UNCHANGED <<panel, request, wakeIn, stop, memory, file, left, unsaved, bounds>>

\* On to exec, which the loop around the sleep and the check after it allow
\* only when no signal has come.
Awake(stopped) ==
  /\ \/ pc = "dark" /\ ~sleeping
     \/ pc = "asleep" /\ (stop \/ wakeIn = 0)
  /\ ~stopped
  /\ pc' = "exec"
  /\ UNCHANGED <<panel, request, wakeIn, stop, memory, file, history, bounds>>

\* Variant: the check after the sleep is missing.
GoOnToExecUnchecked == Awake(FALSE)

GoOnToExec == Awake(stop)

\* execv of the same binary: a signal that arrived after the check is lost
\* with the image.  When it fails the process ends and init starts another.
Exec ==
  /\ pc = "exec"
  /\ pc' \in {"start", "ended"}
  /\ last' = Ending
  /\ UNCHANGED <<panel, request, wakeIn, stop, memory, file, left, unsaved, bounds>>

\* SIGTERM before the restart is due: the settings are saved whatever has been
\* asked for.
OrderlyEnd ==
  /\ pc = "loop" /\ ~Due /\ stop
  /\ Save
  /\ pc' = "ended"
  /\ last' = "saved"
  /\ Blank
  /\ UNCHANGED <<request, wakeIn, stop, memory, bounds>>

\* Settings writes are debounced.
SaveWhen(due, rest) ==
  /\ pc = "loop" /\ ~Due /\ ~stop
  /\ pc' = "ticks"
  /\ IF due THEN Save /\ dirty' = FALSE /\ sinceSave' = 0
            ELSE UNCHANGED <<file, sinceSave, left, unsaved>> /\ dirty' = rest
  /\ UNCHANGED <<panel, request, wakeIn, stop, settings, last, bounds>>

\* Variant: the flag is cleared before the interval is looked at.
DebouncedSaveDrops == SaveWhen(dirty /\ sinceSave > SaveInterval, FALSE)

DebouncedSave == SaveWhen(dirty /\ sinceSave > SaveInterval, dirty)

\* The ticks of a frame, any number of requests in any order.  All of them run
\* on this thread: the web server and MQTT hand theirs over.
Edit ==
  /\ pc = "ticks" /\ edits < MaxEdits
  /\ edits' = edits + 1
  /\ settings' = edits + 1
  /\ dirty' = TRUE
  /\ UNCHANGED <<panel, pc, request, wakeIn, stop, sinceSave, file, history, requests,
                 signals, crashes>>

Asked(delay) ==
  /\ pc = "ticks" /\ requests < MaxRequests
  /\ requests' = requests + 1
  /\ restartIn' = delay
  /\ UNCHANGED <<panel, pc, wakeIn, stop, memory, file, history, edits, signals, crashes>>

Reboot == Asked(RebootDelay) /\ UNCHANGED <<sleeping, reset, factory>>

\* A sleep of 0 ms is a restart, and takes the place of one asked for before.
AskSleep ==
  Asked(RebootDelay) /\ sleeping' \in BOOLEAN /\ UNCHANGED <<reset, factory>>
FactoryReset ==
  Asked(RebootDelay) /\ factory' = TRUE /\ UNCHANGED <<sleeping, reset>>
ResetSettings ==
  Asked(RebootDelay) /\ reset' = TRUE /\ UNCHANGED <<sleeping, factory>>

\* A changed configuration takes effect with a restart; it moves a deadline
\* that is set already.
ConfigChanged == Asked(ConfigDelay) /\ UNCHANGED <<sleeping, reset, factory>>

\* The frame ends on the panel, or is dropped itself; paceFrame waits for the
\* next one, unless this one took longer than it should.
LetTimePass(toGo) ==
  /\ pc = "ticks"
  /\ panel' \in {"dark", "lit", "fresh"}
  /\ pc' = "loop"
  /\ restartIn' = toGo
  /\ sinceSave' = IF sinceSave > SaveInterval THEN sinceSave ELSE sinceSave + 1
  /\ unsaved' = IF file = settings THEN 0
                ELSE IF unsaved > SaveInterval + 1 THEN unsaved ELSE unsaved + 1
  /\ UNCHANGED <<sleeping, reset, factory, wakeIn, stop, settings, dirty, file,
                 last, left, bounds>>

\* Variant: no restart is counted down as well.
EndFrameUnchecked == LetTimePass(restartIn - 1)

EndFrame == LetTimePass(IF restartIn > 0 THEN restartIn - 1 ELSE restartIn)

-----------------------------------------------------------------------------
(* Around the process                                                      *)

\* SIGTERM, SIGINT or the end of a --run-for, at any moment.
Signal ==
  /\ pc \notin {"start", "ended"} /\ signals < MaxSignals
  /\ signals' = signals + 1
  /\ stop' = TRUE
  /\ UNCHANGED <<panel, pc, request, wakeIn, memory, file, history, edits, requests,
                 crashes>>

\* A crash or a power cut: what is in memory is gone.  A signal before its
\* handler is installed is one too.
Crash ==
  /\ pc # "ended" /\ crashes < MaxCrashes
  /\ crashes' = crashes + 1
  /\ pc' = "ended"
  /\ last' = "crash"
  /\ UNCHANGED <<panel, request, wakeIn, stop, memory, file, left, unsaved, edits,
                 requests, signals>>

\* init starts the launcher again, which hands over.
Respawn ==
  /\ pc = "ended"
  /\ pc' = "start"
  /\ UNCHANGED <<panel, request, wakeIn, stop, memory, file, history, bounds>>

Init ==
  /\ pc = "start"
  /\ restartIn = None /\ sleeping = FALSE /\ reset = FALSE /\ factory = FALSE
  /\ wakeIn = 0
  /\ stop = FALSE
  /\ settings = 0 /\ dirty = FALSE /\ sinceSave = SaveInterval + 1
  /\ file = None
  /\ panel = "dark"
  /\ last = "none" /\ left = None /\ unsaved = 0
  /\ edits = 0 /\ requests = 0 /\ signals = 0 /\ crashes = 0

Ask == Edit \/ Reboot \/ AskSleep \/ FactoryReset \/ ResetSettings \/ ConfigChanged

\* What the process does by itself.
Run ==
  \/ Start \/ BeginRestart \/ Wipe \/ FallAsleep \/ Sleep \/ StopInBranch
  \/ GoOnToExec \/ Exec \/ OrderlyEnd \/ DebouncedSave \/ EndFrame

Next == Run \/ Ask \/ Signal \/ Crash \/ Respawn

Spec == Init /\ [][Next]_vars

\* The loop keeps running: no handler blocks for ever.  Nobody has to ask for
\* anything, and a process that has ended need not be started again.
FairSpec == Spec /\ WF_vars(Run)

-----------------------------------------------------------------------------
TypeOK ==
  /\ pc \in {"start", "loop", "ticks", "wipe", "dark", "asleep", "exec", "ended"}
  /\ restartIn \in Int /\ restartIn >= None
  /\ {sleeping, reset, factory, stop, dirty} \subseteq BOOLEAN
  /\ wakeIn \in 0..SleepTime
  /\ settings \in 0..MaxEdits
  /\ sinceSave \in 0..SaveInterval + 1
  /\ file \in 0..MaxEdits \cup {None}
  /\ panel \in {"dark", "lit", "fresh"}
  /\ last \in {"none", "saved", "reset", "factory", "crash"}
  /\ left \in 0..MaxEdits \cup {None}
  /\ unsaved \in 0..SaveInterval + 2
  /\ edits \in 0..MaxEdits /\ requests \in 0..MaxRequests
  /\ signals \in 0..MaxSignals /\ crashes \in 0..MaxCrashes

\* Debounced or not, no edit is lost when the process ends in order: restart,
\* sleep and SIGTERM leave the newest settings on flash, wherever between an
\* edit and its save they come.
OrderlyEndKeepsEdits ==
  pc \in {"start", "ended"} /\ last = "saved" => file = settings

\* What a reset has removed stays removed, whatever the same process does
\* afterwards, sleep and SIGTERM included: the next one starts from the
\* defaults.  Where the removal fails it starts from what the file was then,
\* not from anything saved later.
ResetTakesHold ==
  [][Start /\ last \in {"reset", "factory"} =>
       settings' = IF left = None THEN 0 ELSE left]_vars

\* SIGTERM in the loop or in a sleep ends this process; it never comes back
\* as a fresh image because a restart was due as well.
SignalHonoured ==
  (stop /\ pc \in {"loop", "ticks", "asleep"}) ~> (pc = "ended")

\* An edit is on flash once the save interval and the frame in which it ends
\* are over, while the loop runs: neither going on editing nor asking for
\* restarts puts it off, and a flag that is lost would show.
EditsReachFlash == pc \in {"loop", "ticks"} => unsaved <= SaveInterval + 1

\* README.md:83, "Sleep blanks the panel": while the application sleeps nothing
\* is lit.
SleepIsDark == pc = "asleep" => panel = "dark"
=============================================================================
