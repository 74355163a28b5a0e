------------------------------ MODULE BootGuard ------------------------------
(***************************************************************************)
(* The launcher that init starts in place of the vendor GUI                *)
(* (loader/FlyThingsLoader.c), the boot counter it keeps on the data       *)
(* partition (loader/BootGuard.h) and the part of the application's life   *)
(* that decides whether a start was healthy (tc002/main_tc002.cpp).        *)
(*                                                                         *)
(* One process at a time owns the display: the launcher, which either      *)
(* becomes the AWTRIX application through exec or runs the vendor          *)
(* application inside itself.  When that process ends init starts the      *)
(* launcher again.  The counter file has two lives: "file" is what the     *)
(* processes of this boot see, "flash" the set of contents a power cut     *)
(* taken now could leave behind.                                           *)
(***************************************************************************)
EXTENDS Integers, FiniteSets

CONSTANTS
  AttemptLimit,   \* TC002_BOOT_ATTEMPT_LIMIT, 3 in the code
  CounterCap,     \* larger counts are read as damage, 1000 in the code
  Starts,         \* kinds of start that occur: "counted", "held", "trial"
  Storages,       \* what the data partition may be like: "ok", "full"
  Installed,      \* whether the data directory may be there at first
  Libraries,      \* whether dlopen of the vendor library may succeed
  Binaries,       \* whether exec of the application may succeed
  Syncs,          \* whether a sync in a boot's first seconds survives a power cut
  MaxCuts,        \* bound: power cuts and killed launchers in a behaviour
  MaxReboots      \* bound: restarts asked for from the UI in a behaviour

ASSUME BootAssumption ==
  /\ AttemptLimit \in Nat \ {0}
  /\ CounterCap \in Nat
  /\ AttemptLimit + MaxCuts < CounterCap
  /\ Starts \subseteq {"counted", "held", "trial"} /\ Starts # {}
  /\ Storages \subseteq {"ok", "full"} /\ Storages # {}
  /\ Installed \subseteq BOOLEAN /\ Installed # {}
  /\ Libraries \subseteq BOOLEAN /\ Libraries # {}
  /\ Binaries \subseteq BOOLEAN /\ Binaries # {}
  /\ Syncs \subseteq BOOLEAN /\ Syncs # {}
  /\ MaxCuts \in Nat
  /\ MaxReboots \in Nat

VARIABLES
  pc,        \* where the process that owns the display is
  start,     \* kind of the current start
  attempts,  \* the launcher's local: the number this start recorded
  file,      \* contents of boot-attempts as this boot's processes see it
  flash,     \* contents a power cut may leave behind
  settled,   \* this boot is old enough for synced writes to stay on the flash
  storage,   \* state of the data partition
  library,   \* the vendor library loads
  binary,    \* the application can be executed
  syncs,     \* a sync in the first seconds of a boot holds as well
  impaired,  \* history: the partition was full, a start found no place for
             \*   its number, or the vendor library does not load
  cuts,      \* power cuts and killed launchers so far
  reboots,   \* UI restarts so far
  failed,    \* history: starts in a row in which the launcher handed over and
             \*   AWTRIX did not get healthy.  What takes the count away ends
             \*   the row: a healthy minute, a vendor run, a power cut, a
             \*   launcher killed amid the rewrite, a factory reset
  starts     \* history: unheld starts in a row that came to the launcher's
             \*   decision, since the last healthy minute, vendor run or
             \*   factory reset that took the counter

disk == <<file, flash, settled, storage>>
setup == <<library, binary, syncs, impaired>>
bounds == <<cuts, reboots>>
history == <<failed, starts>>
vars == <<pc, start, attempts, disk, setup, bounds, history>>

-----------------------------------------------------------------------------
(* The counter file.  A number stands for itself.                          *)

NoFile == -1        \* the file does not exist
Empty  == -2        \* truncated by fopen "w" and not written yet
NoDirectory == -3   \* nor does the data directory, in which fopen would make it

\* What is there once the counter has been unlinked.
Unlinked == IF file = NoDirectory THEN NoDirectory ELSE NoFile

\* Variant: whatever the file holds is taken for the count.
ReadUnchecked(contents) == contents

\* tc002ReadBootAttempts: a missing, empty or implausible counter is 0.
ReadBootAttempts(contents) == IF contents \in 0..CounterCap THEN contents ELSE 0

\* Variants: one start too late, one too early.
FallBackLate(n) == n > AttemptLimit + 1
FallBackEarly(n) == n >= AttemptLimit

ShouldFallBack(n) == n > AttemptLimit

\* A write or unlink that has been issued may be on the flash or not.
Issue(contents) ==
  /\ file' = contents
  /\ flash' = flash \cup {contents}

\* Variant: the counter is written but never synced.
WrittenNotSynced(contents) ==
  /\ file' = contents
  /\ flash' = flash \cup {contents}

\* fsync or sync commits.  In the first seconds of a boot the clock's flash did
\* not keep even synced writes across a power cut (docs/VALIDATION.md, step
\* 11), which is what ~syncs stands for.
Commit(contents) ==
  /\ file' = contents
  /\ flash' = IF settled \/ syncs THEN {contents} ELSE flash \cup {contents}

\* History counters stop one above the limit: nothing tells larger ones apart.
Saturated(n) == IF n > AttemptLimit THEN n ELSE n + 1

-----------------------------------------------------------------------------
(* Launcher: onEasyUIInit                                                  *)

\* The knob is sampled.  An unheld start reads the counter at once, so that
\* nothing slow happens before it is recorded.
BeginCounted ==
  /\ pc = "spawn"
  /\ "counted" \in Starts
  /\ start' = "counted"
  /\ attempts' = ReadBootAttempts(file) + 1
  /\ pc' = "open"
  /\ UNCHANGED <<disk, setup, bounds, history>>

BeginHeld ==
  /\ pc = "spawn"
  /\ "held" \in Starts
  /\ start' = "held"
  /\ attempts' = 0
  /\ pc' = "decide"
  /\ UNCHANGED <<disk, setup, bounds, history>>

\* A start with AWTRIX_TC002_TRIAL_ROOT set neither samples the knob nor
\* counts, and goes straight to the radio.
BeginTrial ==
  /\ pc = "spawn"
  /\ "trial" \in Starts
  /\ start' = "trial"
  /\ attempts' = 0
  /\ pc' = "radio"
  /\ UNCHANGED <<disk, setup, bounds, history>>

\* fopen "w" truncates the counter, on a full partition as well.
OpenCounter ==
  /\ pc = "open"
  /\ file # NoDirectory
  /\ Issue(Empty)
  /\ pc' = "write"
  /\ UNCHANGED <<start, attempts, settled, storage, setup, bounds, history>>

\* It fails without the directory, and where a full partition has no place for
\* a new file: the start goes unrecorded.
OpenFails ==
  /\ pc = "open"
  /\ file = NoDirectory \/ (storage = "full" /\ file = NoFile)
  /\ pc' = "decide"
  /\ impaired' = TRUE
  /\ starts' = Saturated(starts)
  /\ UNCHANGED <<start, attempts, disk, library, binary, syncs, bounds, failed>>

\* Variant: the number read is written back.
WriteOldCount ==
  /\ pc = "write"
  /\ Commit(attempts - 1)
  /\ pc' = "decide"
  /\ starts' = Saturated(starts)
  /\ UNCHANGED <<start, attempts, settled, storage, setup, bounds, failed>>

\* fprintf, fflush, fsync, fsync of the directory, sync.
WriteCounter ==
  /\ pc = "write"
  /\ IF storage = "full" THEN Commit(Empty) ELSE Commit(attempts)
  /\ pc' = "decide"
  /\ starts' = Saturated(starts)
  /\ UNCHANGED <<start, attempts, settled, storage, setup, bounds, failed>>

\* runVendorApplication: without the library there is nothing to run.
RunVendorApplication == pc' = IF library THEN "vendor" ELSE "stuck"

\* Counter cleared (unlink, fsync of the directory), vendor application run.
FallBack ==
  /\ pc = "decide"
  /\ start = "held" \/ ShouldFallBack(attempts)
  /\ Commit(Unlinked)
  /\ RunVendorApplication
  /\ failed' = 0
  /\ starts' = 0
  /\ UNCHANGED <<start, attempts, settled, storage, setup, bounds>>

GoOn ==
  /\ pc = "decide"
  /\ start = "counted"
  /\ ~ShouldFallBack(attempts)
  /\ pc' = "radio"
  /\ UNCHANGED <<start, attempts, disk, setup, bounds, history>>

\* The radio comes up (45 s at most, either way) and exec replaces the
\* launcher by the application.
HandOver ==
  /\ pc = "radio"
  /\ binary
  /\ pc' = "app"
  /\ failed' = IF start = "counted" THEN Saturated(failed) ELSE failed
  /\ UNCHANGED <<start, attempts, disk, setup, bounds, starts>>

\* exec returned: the vendor application runs, the counter keeps its mark.
ExecFails ==
  /\ pc = "radio"
  /\ ~binary
  /\ RunVendorApplication
  /\ UNCHANGED <<start, attempts, disk, setup, bounds, history>>

Launcher ==
  \/ BeginCounted \/ BeginHeld \/ BeginTrial
  \/ OpenCounter \/ OpenFails \/ WriteCounter
  \/ FallBack \/ GoOn \/ HandOver \/ ExecFails

-----------------------------------------------------------------------------
(* Application: main_tc002.cpp                                             *)

\* Variant: the counter is removed on the first frame, as docs/WORKLOG.md once
\* suspected of the application.
EnterLoopClears ==
  /\ pc = "app"
  /\ pc' = "loop"
  /\ Issue(NoFile)
  /\ UNCHANGED <<start, attempts, settled, storage, setup, bounds, history>>

\* Start-up reaches the main loop; mounting the data directory creates it, if
\* the partition has a place for it.
EnterLoop ==
  /\ pc = "app"
  /\ pc' = "loop"
  /\ \/ file = NoDirectory /\ start # "trial" /\ Issue(NoFile)
     \/ /\ file # NoDirectory \/ start = "trial" \/ storage = "full"
        /\ UNCHANGED <<file, flash>>
  /\ UNCHANGED <<start, attempts, settled, storage, setup, bounds, history>>

\* Variant: a trial removes the installed clock's counter.
AcknowledgeAnyBoot ==
  /\ pc = "loop"
  /\ pc' = "healthy"
  /\ Issue(Unlinked) /\ failed' = 0 /\ starts' = 0
  /\ UNCHANGED <<start, attempts, settled, storage, setup, bounds>>

\* A minute after its first frame this process image removes the counter,
\* once, without syncing the directory.  A trial has a data directory of its
\* own.
AcknowledgeBoot ==
  /\ pc = "loop"
  /\ pc' = "healthy"
  /\ IF start = "trial"
       THEN UNCHANGED <<file, flash, history>>
       ELSE Issue(Unlinked) /\ failed' = 0 /\ starts' = 0
  /\ UNCHANGED <<start, attempts, settled, storage, setup, bounds>>

\* A restart from the UI is an exec of the same binary: the launcher is not
\* involved and the minute starts again.
RestartApplication ==
  /\ pc \in {"loop", "healthy"}
  /\ reboots < MaxReboots
  /\ reboots' = reboots + 1
  /\ pc' = "app"
  /\ UNCHANGED <<start, attempts, disk, setup, cuts, history>>

\* A restart with a factory reset removes the data directory before the exec,
\* the counter in it included.  remove_all may stop anywhere, its error is not
\* looked at.  A trial has a directory of its own.
FactoryReset ==
  /\ pc \in {"loop", "healthy"}
  /\ start # "trial"
  /\ reboots < MaxReboots
  /\ reboots' = reboots + 1
  /\ pc' = "app"
  /\ \/ UNCHANGED <<file, flash, history>>
     \/ /\ file' \in {Unlinked, NoDirectory}
        /\ flash' = flash \cup {Unlinked, file'}
        /\ failed' = 0 /\ starts' = 0
  /\ UNCHANGED <<start, attempts, settled, storage, setup, cuts>>

\* The application crashes or exits; init starts the launcher again.
ApplicationEnds ==
  /\ pc \in {"app", "loop", "healthy"}
  /\ pc' = "spawn"
  /\ UNCHANGED <<start, attempts, disk, setup, bounds, history>>

VendorEnds ==
  /\ pc = "vendor"
  /\ pc' = "spawn"
  /\ UNCHANGED <<start, attempts, disk, setup, bounds, history>>

-----------------------------------------------------------------------------
(* Environment                                                             *)

\* The launcher is killed, and init starts the next one.  Once the counter is
\* truncated the strikes before are forgotten, as by a power cut.
KillLauncher ==
  /\ pc \in {"open", "write", "decide", "radio"}
  /\ cuts < MaxCuts
  /\ cuts' = cuts + 1
  /\ pc' = "spawn"
  /\ failed' = IF pc = "write" THEN 0 ELSE failed
  /\ UNCHANGED <<start, attempts, disk, setup, reboots, starts>>

PowerOn ==
  /\ pc = "off"
  /\ pc' = "spawn"
  /\ UNCHANGED <<start, attempts, disk, setup, bounds, history>>

PowerCut ==
  /\ pc # "off"
  /\ cuts < MaxCuts
  /\ cuts' = cuts + 1
  /\ pc' = "off"
  /\ \E left \in flash : file' = left /\ flash' = {left}
  /\ settled' = FALSE
  /\ failed' = 0
  /\ UNCHANGED <<start, attempts, storage, setup, reboots, starts>>

\* The boot is past its first seconds and the cache has been written back.
Settle ==
  /\ pc # "off"
  /\ ~settled \/ flash # {file}
  /\ settled' = TRUE
  /\ flash' = {file}
  /\ UNCHANGED <<pc, start, attempts, file, storage, setup, bounds, history>>

DiskFills ==
  /\ storage = "ok"
  /\ "full" \in Storages
  /\ storage' = "full"
  /\ impaired' = TRUE
  /\ UNCHANGED <<pc, start, attempts, file, flash, settled, library, binary, syncs,
                 bounds, history>>

-----------------------------------------------------------------------------
Init ==
  /\ pc = "off"
  /\ start = "counted"
  /\ attempts = 0
  /\ \E installed \in Installed : file = IF installed THEN NoFile ELSE NoDirectory
  /\ flash = {file}
  /\ settled = FALSE
  /\ storage \in Storages
  /\ library \in Libraries
  /\ binary \in Binaries
  /\ syncs \in Syncs
  /\ impaired = (storage # "ok" \/ ~library)
  /\ cuts = 0
  /\ reboots = 0
  /\ failed = 0
  /\ starts = 0

Application ==
  \/ EnterLoop \/ AcknowledgeBoot \/ RestartApplication \/ FactoryReset
  \/ ApplicationEnds
Environment ==
  \/ VendorEnds \/ KillLauncher \/ PowerOn \/ PowerCut \/ Settle \/ DiskFills
Next == Launcher \/ Application \/ Environment

Spec == Init /\ [][Next]_vars

\* The launcher and the application's start-up are sequential code that runs
\* to completion unless it is killed, and every application either reaches its
\* minute or ends.  Nobody is obliged to restart or kill it, to cut the power or
\* to stop the vendor application.
FairSpec ==
  /\ Spec
  /\ WF_vars(Launcher)
  /\ WF_vars(PowerOn)
  /\ WF_vars(EnterLoop)
  /\ WF_vars(AcknowledgeBoot \/ ApplicationEnds)

-----------------------------------------------------------------------------
Contents == {NoFile, Empty, NoDirectory} \cup Nat

TypeOK ==
  /\ pc \in {"off", "spawn", "open", "write", "decide", "radio", "app",
             "loop", "healthy", "vendor", "stuck"}
  /\ start \in {"counted", "held", "trial"}
  /\ attempts \in Nat
  /\ file \in Contents
  /\ flash \in SUBSET Contents
  /\ settled \in BOOLEAN
  /\ storage \in {"ok", "full"}
  /\ library \in BOOLEAN
  /\ binary \in BOOLEAN
  /\ syncs \in BOOLEAN
  /\ impaired \in BOOLEAN
  /\ cuts \in 0..MaxCuts
  /\ reboots \in 0..MaxReboots
  /\ failed \in Nat
  /\ starts \in Nat

\* The same of every clock, whatever its data partition is like.
FailingStartsAlwaysBounded == failed <= AttemptLimit

\* The count that decides between AWTRIX and the vendor application is not
\* below the failing starts it stands for.  It is the one in the file, which the
\* next start reads, and while this start is being decided its own number,
\* which is then above them.  Only while the file is rewritten (pc = "write") is
\* the number nowhere but in the launcher: a kill or a power cut there forgets
\* the strikes, as boot_torn shows of the latter, and ends the row.
CountCovers ==
  CASE pc = "write" -> failed < attempts
    [] pc \in {"decide", "radio"} /\ start = "counted" ->
         failed < attempts /\ file = attempts
    [] OTHER -> failed <= ReadBootAttempts(file)

\* README.md, "let three start-up crashes in a row happen": the launcher never
\* hands the clock to AWTRIX more than AttemptLimit times in a row of which none
\* was healthy, if nothing takes the count away in between.  It needs the
\* counter, the file, the re-exec that bypasses the launcher, the removal by a
\* factory reset that is cut short and the reading of damaged contents to agree
\* at every step.
FailingStartsBounded == ~impaired => failed <= AttemptLimit /\ CountCovers

\* FlyThingsLoader.c, "three consecutive AWTRIX starts never reached a healthy
\* state": without the knob the vendor application replaces AWTRIX only after
\* AttemptLimit starts that were not healthy, whatever partition, library and
\* binary are like, as long as the power stays on and no launcher is killed.
FallbackOnlyAfterFailures ==
  [][FallBack /\ start = "counted" /\ cuts = 0 => starts > AttemptLimit]_vars

\* FlyThingsLoader.c:73, a power cut "a few seconds into the boot still leaves
\* its mark": if synced writes hold, a start whose number has been written
\* stays counted whenever the power goes.
PowerCutLeavesMark ==
  [][PowerCut /\ syncs /\ start = "counted" /\ file = attempts => file' = attempts]_vars

\* BootGuard.h:22, "the counter exists precisely for boots that end in a power
\* cut seconds later": a power cut does not forget the failing starts before
\* it.
PowerCutKeepsStrikes == [][PowerCut => ReadBootAttempts(file') >= failed]_vars

\* A clock whose application never becomes healthy does not stay without a
\* working UI: from every start the vendor application or a healthy AWTRIX is
\* reached, unless the clock is impaired or somebody starts a trial.
CrashLoopEnds ==
  (pc = "spawn" /\ ~impaired) ~>
    (pc \in {"vendor", "healthy"} \/ impaired \/ start = "trial")
=============================================================================
