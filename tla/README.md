# Verification of the AWTRIX NG port for the TC002

TLA+ models of the code under `src/src`, the TLC runs that check them and the
TLAPS proofs about them.  Paths below are relative to `src/src` unless they
start with `src/`.

## 1. The system

The Ulanzi TC002 is a Linux clock: an LED panel behind a microcontroller, a
speaker, a Wi-Fi radio with a `wpa_supplicant`, a knob and a rocker, a small
jffs2 data partition and a vendor GUI (`zkswe`) that init keeps running.  The
port puts a launcher in the place of the GUI; the launcher becomes the AWTRIX
application through `exec`, or runs the vendor application inside itself.  The
AWTRIX core (CoreEngine, ScriptHost, the HTTP server, the settings store) is a
git submodule that is not part of this tree: what the code here uses of it is
modelled as external.

| Part | Source | State it keeps | Operations | Correct when |
|---|---|---|---|---|
| Launcher and boot guard | `loader/FlyThingsLoader.c`, `loader/BootGuard.h`, `tc002/main_tc002.cpp:568` | counter file, kind of start | count, fall back, hand over, acknowledge | a crash loop ends in a working UI, no fallback before three failures, no strike lost while the counter is left alone |
| Main loop and lifecycle | `tc002/main_tc002.cpp:90-128, 308-390, 535-648` | restart deadline, reset and stop flags, settings and their file, the time of the last frame | restart, sleep, two resets, signal, debounced save, frames | no orderly end loses an edit, an edit is saved in time, what a reset removed stays removed, a signal ends the process, a clock asleep is dark |
| Speaker | `tc002/Tc002Audio.*` | worker thread, mode, `playing_`, `cancel_`, driver rate, messages | play RTTTL, MP3, stream; stop; tick | one thread on the driver, what is shown is of the latest playback, a stop returns |
| Network worker | `tc002/Tc002System.cpp:158-192, 199-278` | connection, lease, access point, scan, timers | one round per second, wifiScan, time from a server, stop | the clock finds its way back into a network and to the right time |
| Supplicant control | `tc002/Tc002System.cpp:50-112, 205-229` | socket, `configured`, fingerprint file | STATUS, setNetwork, resetWifi | what is taken for configured is configured |
| Resolver file | `tc002/Tc002Dns.cpp` | private file, mount, `current_` | begin, refresh, stop | the mounted file names servers |
| mDNS responder | `tc002/Tc002Mdns.cpp` | a socket | begin, tick | answers the questions for the clock's names, however the asker writes them, and reads nothing outside the packet |
| HTTP uploads | `tc002/Tc002HttpRoutes.cpp` | `uploadMutex`, temporary files, helper process | MP3 upload, firmware upload, start-up clean-up, beside a factory reset | one install at a time, nothing left behind |
| Firmware updater | `updater/*` | flash, mounts, services | validate, preflight, install | the flash is only touched when it is safe |
| Vendor gate | `tc002/VendorLibrary.cpp`, `tc002/ElfSymbols.cpp`, `tc002/Sha256.h` | table of checked files | hash, read symbols, decide | unknown builds are not called |
| Script requests | `tc002/Tc002ScriptHttp.h` | `pending_`, a thread per request | request, exchange, result | one honest result per request |
| MCU link, hardware | `tc002/Tc002Hardware.*`, `tc002/Tc002Board.h`, `tc002/InputDevices.h` | UART buffer, battery, keys, frame time | tickMcu, poll, show | no packet is lost to a cut one |
| Buttons and sensors | `tc002/Tc002Periphery.*` | debouncer, press times | tick | taps, holds and double presses |
| MP3 probe | `tc002/Tc002Mp3Probe.*` | none | probeMp3 | only playable files are stored |
| Layouts, apps, effects | `tc002/Tc002Layout.*`, `Tc002Apps.h`, `Tc002Effects.h`, ... | none | draw | |
| Tools and installer | `src/tools`, `src/install.sh` | on the host | build, package, install | |

How they meet: the launcher and the application share the counter file and
never run at the same time; the main thread owns the core engine, the speaker's
control side and the restart; the speaker has one worker thread, the network
one, every script request one, the web server a pool, whose handlers call back
into the loop thread (`runOnLoop`); the update helper is a process of its own
that outlives the application it was started by and stops it through init;
`wpa_supplicant`, DHCP, init and the vendor GUI are other processes.  What is
hard follows from that: threads that are joined while they may be blocked,
answers that come late, requests that only ask (`setprop`), files that are
rewritten in place on a flash that loses power, and deadlines that compete.

## 2. Modules

| Module | Models | State and actions against the code |
|---|---|---|
| `BootGuard` | launcher, counter file, acknowledgement | `pc` is the process that owns the display and where it is; `file` is what this boot reads, `flash` the contents a power cut may leave; `BeginCounted`, `OpenCounter` (fopen "w" truncates), `OpenFails` (no directory, no place), `WriteCounter` (fprintf to sync), `FallBack`, `HandOver`, `ExecFails`, `EnterLoop`, `AcknowledgeBoot`, `RestartApplication`, `FactoryReset` (which takes the counter along, or not), `KillLauncher`, `PowerCut`, `DiskFills` |
| `ThreeStrikes` | the abstract promise | phase and strikes: at most `Limit` failing starts in a row, fallback only after them |
| `BootGuardRefinement` | the mapping | `ImplementsPromise`: `BootGuard` implements `ThreeStrikes` until the first power cut, killed launcher or impairment, after which the abstract state is "void" |
| `Audio` | speaker (`Tc002Audio`) | `main` is where the main thread is in stopAll, launch or tick, `worker[k]` where the thread of launch k is; `Configure`, `Send`, `CloseOutput`, `Finish` on the driver; `TickRead` and `TickPublish` are the two halves of tick; `shown`, `shownError`, `shownTitle` and `announced` are what the second publishes: the state, the messages and the notification of a title |
| `Lifecycle` | main loop and process | one frame is due-check, save, ticks, time; the restart branch is `BeginRestart`, `Wipe`, `FallAsleep`, `Sleep`, `Awake`, `GoOnToExec`, `Exec`; signals and requests fall between any two.  Either removal of a reset may fail without notice; `left` is what it left, `unsaved` how long memory has been ahead of the file.  `panel` is what is lit and whether a frame is too recent for the next (`Hardware::show` drops it) |
| `Uploads` | both upload handlers | `at[u]` is the handler's position, `holder` is `uploadMutex`, `parts` and `staged` the temporary files, `helpers` the install helpers; stop waits for handlers, `Killed` does not.  `BeginReset`, `Wipe` and `RemoveDirectory` are remove_all of a factory reset, directory by directory, with the server still running |
| `WifiService` | a round of the network worker | status, lease, access point, scan, rest; association and networks in range are the environment |
| `WpaControl` | datagrams to the supplicant | `sent` and `replies` are the two sockets; `TimeOut` gives up on an answer that comes later and is taken for another's; `entries` and `disk` are the supplicant's networks and its file; `ResetWifi` sends the commands of a factory reset one by one, `RemoveData` takes the fingerprint, or falls short and leaves it, `Crash` ends the process between any two steps; `left` is the network whose fingerprint such a reset left |
| `Resolver` | resolver file | `Rewrite` has the outcomes of open, write and mount; `settled` says refresh had nothing to do, `torn` that a write fell short |
| `Updater` | update helper | `pc` goes through `main` of `FirmwareUpdate.cpp`; `asked` holds what init was asked and has not done, `refused` that it did not take the request to start the GUI again; `flash` is one state per erase block |
| `ScriptHttp` | script requests | a thread per request, `pending` counts, `queue` is the host's |
| `McuLink` | packet parser | bytes to a small base with a two-byte sum; `Answer` may lose the end of a packet, `Read` cuts anywhere, `Take` is a call of parseMcuPacket |
| `Controls` | rocker and knob's key | a frame is one `Tick`: sample and debounce every key, then the rocker's keys, then the knob's; time stamps are kept as ages, as far as the code tells them apart |
| `Digest` | hashing of a file | `ReadPiece` and `ReadLast` are turns of fileSha256's loop, `Take` is one of update's, `FinishOne`, `FinishZero` and `FinishLength` the padding; `hashed` collects the blocks that are transformed |
| `VendorGate` | the vendor gate | operators: `Inside` and the reading of sections, symbols and names out of an untrusted file, the verdict `Status` against the table of digests and the functions that are required |
| `Mdns` | multicast DNS questions | operators: `ReadName` goes over `Walks`, what readName's loop has in hand; `Jump` and `Spell` are its turns; `Answer` whether and to whom a packet of questions is answered |
| `Mp3Probe` | MP3 probe | operators: size of the tag, the first confirmed frame (`findSync`), the verdict |
| `NtpTime` | a time server's reply | operators: `Accepted`, `SinceEpoch`, `Set` with their widths |
| `BootGuardProofs`, `AudioProofs`, `LifecycleProofs`, `UploadsProofs`, `WifiProofs`, `WpaControlProofs` | theorems about the module of that name | section 5 |
| `InputProofs` | theorems about `Digest`, `VendorGate`, `NtpTime`, `Mdns` and `Mp3Probe` | section 5 |
| `SmallProofs` | theorems about the components of `MCSmall` | section 5 |
| `MCBoot`, `MCAudio`, `MCLifecycle`, `MCUploads`, `MCWifi`, `MCWpa` | TLC instances | |
| `MCSmall` | `Resolver`, `Updater`, `ScriptHttp`, `McuLink`, `Controls`, `Digest`; `VendorGate`, `Mdns`, `Mp3Probe`, `NtpTime` | components without common state, one per behaviour (`part`), so that their sum and not their product is searched; the last four are decisions over the samples of their input |

Each module's state is split by owner; actions name the function they
translate in their comment, and `PROJECT.json` gives the lines.  Operators
called "variant" in a comment are wrong versions of the definition after them:
replacing the definition by its variant breaks the property it is listed with.

Abstractions that all modules share: a file that is read and compared is its
meaning (a number, a network, a list of servers), names and formats are left
out, times are counted in steps of the loop and scaled, and a call of the
system that can fail may fail.

## 3. Runs

| Run | Result | Question |
|---|---|---|
| `boot` | pass, 355 033 states | does launcher, file and application together keep the three-strikes promise, with every kind of start, restart and factory reset, launchers that are killed, power cuts, and any partition, library and binary? |
| `boot_no_directory` | violation | is a start counted when `/data/awtrix-ng` does not exist? |
| `boot_torn` | violation | do the strikes survive a power cut during the rewrite? |
| `audio` | pass, 16 757 states | three playbacks against one driver and one screen |
| `lifecycle` | pass, 359 763 states | restart, sleep, resets that may fall short, signal and save in any order |
| `lifecycle_lit` | violation | is the panel dark while the clock sleeps? |
| `uploads` | pass, 485 149 states | three uploads against helper, restart, factory reset and kill |
| `uploads_crash` | violation | does the start-up clean-up find every leftover? |
| `wifi` | pass, 185 632 states | association, access point, lease and scans while networks come and go |
| `wpa` | pass, 3 136 985 states | does the supplicant know the network when the worker thinks so, after crashes and resets, cut short or not, as well? |
| `wpa_unsaved` | violation | and after a power cut? |
| `small` | pass, 179 206 states | resolver, updater, script requests, MCU link, keys and hashing; vendor gate, mDNS, MP3 probe and NTP over their samples |

Properties, by hazard:

* Boot. `FailingStartsBounded`: no more failing starts in a row than the limit, and
  the number the next start would read never stands for less than the failures
  it is of.  What takes the number away ends the row: a healthy minute, the
  vendor application, a factory reset, a power cut, and a kill or cut while the
  file is truncated and not yet written, the one place where the number is
  nowhere but in the launcher.  `FallbackOnlyAfterFailures` is the other direction,
  `PowerCutLeavesMark` says what a sync is for, `CrashLoopEnds` is liveness and
  `ImplementsPromise` the refinement.  `impaired` and `cuts` are history: a clock
  whose partition does not take writes, a start that found no directory for its
  number, or a clock without a vendor library, cannot keep the first.
* Speaker. `SpeakerExclusive`, `PlayingIsTrue` (true only with a live thread,
  false only with a closed driver) relate the atomics to the threads.
  `MessagesAreCurrent` is about what tick publishes: an error, a title or the
  notification of one is never that of a playback that was replaced.
  `StopReturns` and `ShownCatchesUp` (state, error and title) are liveness.
* Lifecycle. `OrderlyEndKeepsEdits`; `ResetTakesHold`: what a reset removed is not
  written again, and where its removal failed the next image starts from the
  file as it was then; `SignalHonoured`; `EditsReachFlash`: an edit is in the file
  at the latest one frame after the save interval; `SleepIsDark` is violated.
* Uploads. `OneInstall` (with the mutex free again while the helper runs),
  `AnsweredIsCleanedUp`, `StopReturns`; `ResetClearsData`: a factory reset, which
  removes files while the server runs, leaves nothing but what an upload that
  was past the gate before it has made, and only such an upload can cut it short.
* Network. `Recovers` (both into a network and out of access point mode),
  `LeaseFollows`, `ScanAnswered`, `StopReturns`; `YourNetworkIsKnown`, from which a
  reset that fell short takes one network, the one in use then, until a
  fingerprint is written; `NetworksKept`; `MountedIsUsable`, `FollowsDhcp`.
* Updater. `FlashIsSafe`, of two parts: `ErasedOnlyWhenSafe` (image, clock and
  processes allow it) and `OneBlockAtATime` (a cut damages one block at most);
  `GivingUpLeavesGui`, if init takes the request for it (section 4).
* Script requests and MCU link. `ResultsAreHonest`, `IntactIsKept`.
* Keys. `GesturesAreDistinct`: a push, however it bounces and whenever the
  frames fall, is one tap or one hold and never both (`OneGesture`), and the
  volume is only shown after a change of the volume (`FeedbackIsVolume`).
* Vendor files. `GateIsRight`: what is transformed is the file and the standard's
  padding, defined from its length alone (`DigestIsStandard`); a table is only read
  where it lies in the file, with sums that do not wrap; the functions found are
  those a plain reading of the symbol table finds; the verdict is the one the
  table of builds asks for.
* Bytes from outside. `InputIsRead`: a name of a packet that is cut short or sends
  the reader in circles is never read outside of it (`NameIsInside`), and a
  question for a clock whose names are in small letters is answered however the
  asker writes it, in capitals or shortened by jumps, before or after others, and
  for any names no other question is (`QuestionIsAnswered`; of names with capitals
  section 4); the probe finds the first frame of the audio and not
  one in a picture (`ProbeIsRight`); an accepted reply of a time server sets the
  right time, in this era or the next, and any other leaves the clock
  (`TimeIsRight`).

### Bounds

Every bound is a constant (`Max...`) used in a guard.  Two power cuts or killed
launchers (`MaxCuts`) and one restart or factory reset let a torn counter be
followed by a damaged one; the counter's cap
is 6 with the code's limit of 3, so that both sides of every comparison occur.
Three playbacks are needed for a thread to be two launches old.  Three uploads
are one that installs, one that is admitted beside it and one that waits;
`OtherPlaces` adds directories no upload writes to, which `uploads_crash` has one
of.  In `wpa` there are two networks, one of which refuses the password; three
rounds (`MaxRounds = 2` after the first), two starts and one power cut or crash
(`MaxCuts`) let an answer arrive one round late, after a restart or after a
reset, and one extra command is enough to shift all answers by one.  Thresholds
in seconds are scaled to the smallest values that keep their order and let every
branch be taken.  Three erase blocks have a first, a middle and a last.  Three
packets are a cut one, one that is swallowed and one that brings the bytes to
tell.  `McuLinkAssumption` asks for bytes of more than three values, so that the
first of a header differs from the second, and for no more packets than there are
commands that differ from it, since a packet's command is its number.
Sums are reduced to two bytes as in the code.  A frame takes one or two units
against a debounce of one and a hold of three, so that a frame may skip a
threshold or meet it exactly.

Hashing has blocks of four bytes of which two hold the length, pieces of three
and files of up to six, so that an end falls before, on and after the end of a
piece and of a block, and the padding needs one block or two.  The samples of
the decisions: files of two tables placed anywhere in six offsets or of up to two
sections of any kind, two symbols after the null symbol and three letters of
names; packets of up to six bytes out of five that mean different things to
the reader, and packets of up to three questions, each spelt or pointed to; files
of up to four cells beside a tag with or without pictures and footer; every time
of an era of 16 seconds, of which time_t holds 12.

`CHECK_DEADLOCK FALSE` stands where a behaviour may end: a clock without any
application left (`boot`), a worker that was stopped (`wifi`), a helper that is
done (`small`), bounds that are used up (`wpa`).

### Fairness

Weak fairness of what the code runs to its end, and strong fairness only where
an outcome of somebody else is tried again and again:

* `boot`: weak for the launcher, the power coming on, the start of the
  application, and for "it reaches its minute or ends".  Nobody has to restart
  the application or cut the power.
* `audio`: weak for join, launch, the publishing half of tick and every worker
  (the driver's writes return, since the code bounds its drain).  Strong for
  the reading half of tick, which presses may come before, but not for ever.
* `lifecycle`: weak for the loop and the process, which init starts again.
* `uploads`: weak for every handler, for the client's next bytes or the read
  timeout that ends the wait for them, for the stop and the start.
* `wifi`: weak for the worker, whose steps are bounded (700 ms for a command,
  20 s for a DHCP child, 1 s of rest), and for a supplicant that has had the
  radio long enough to join a network in range; strong for the lease, which is
  asked for in round after round.
* `small`: weak for the resolver's refresh, the update helper and init; strong
  for a refresh that succeeds, since it is retried every second.

Safety runs (`wpa` and the violations of safety) assume none.

## 4. What the violations show, and what has no run

`boot_no_directory`: on a clock without `/data/awtrix-ng` an AWTRIX that
crashes before it creates the directory is started for ever.  `boot_torn`: the
counter is truncated before it is rewritten.  `uploads_crash`: the part file of
an MP3 upload is not where the clean-up looks.  `wpa_unsaved`: the answer to
SAVE_CONFIG is ignored and the fingerprint written anyway.  `lifecycle_lit`: the
black frame before a sleep comes within 15 ms of a frame that was late, is
dropped without a word, and the last picture stays lit for the whole sleep.

Seen while modelling, described by no line of the repository and so without a
run:

* The acknowledgement of a healthy minute is not synced
  (`main_tc002.cpp:577`), so a power cut can bring the old count back, which is
  why `FallbackOnlyAfterFailures` stops at the first one.  When the vendor library
  does not load after the count was cleared, the launcher runs nothing
  (`FlyThingsLoader.c:51`).
* The removals of both resets ignore their error (`main_tc002.cpp:543`, `:545`).  An
  upload that was past the gate can cut the factory reset's short (`Uploads`), and
  a file that stays is used again: the clock starts with its old settings, as
  `left` of `Lifecycle` records.
* Nor are the answers to the commands of a factory reset looked at.  A crash
  between them and the removal (`main_tc002.cpp:542`), or a removal that falls
  short, leaves the fingerprint of a network the supplicant has forgotten, and
  the worker does not configure that network again; `left` of `WpaControl` says
  which one.
* A factory reset takes the boot counter with it (`main_tc002.cpp:543`), and a
  launcher killed while the counter is truncated loses it, so either gives a
  crash loop three more starts.
* The tick compares state, title and error with what is shown, not the name
  (`Tc002Audio.cpp:240`): when one file replaces another between two ticks, the
  name of the first may stay on the screen.
* A write to the resolver file that fails leaves the mounted file short and
  `current_` as it was, so that it is not written again until DHCP names other
  servers; `torn` of `Resolver` records it.
* An MP3 upload whose connection breaks off is stored
  (`Tc002HttpRoutes.cpp:191`).
* Every network gets the same priority (`Tc002System.cpp:108`);
  `status.empty()` at `Tc002System.cpp:224` is never true, since line 223 inserts
  a key, so a dead supplicant is not restarted; SCAN_RESULTS that comes too late
  is published as an empty list (`Tc002System.cpp:264`).
* The era of a reply is chosen by a fixed pivot, 1970, and not as the one nearest
  to the clock's own time, as the comment at `Tc002System.cpp:187` may be read; a
  time_t of 32 bits ends in 2038.
* mDNS joins its group once, when its worker starts: without a route then the
  responder stays off until a restart.  The name in a question is put into small
  letters, the clock's own is not (`Tc002Mdns.cpp:60`, `:72`), so a hostname with
  capitals is never found; `QuestionIsAnswered` asks for no answer then.
  The limit of a name's length is checked before the dot is added, which lets
  254 letters pass.
* findSync may look past its limit, and takes the end of what was read for the
  end of the file (`Tc002Mp3Probe.cpp:66`).
* After the unmount a failing update leaves no GUI (`FirmwareUpdate.cpp:157`).  Nor
  does one that gives up before it, when the request to start the GUI fails:
  its result is ignored (`FirmwareUpdate.cpp:151`), and `src/docs/WORKLOG.md:821`
  tells of a clock that stayed dark after the same request, of a tool's, failed.
* A battery packet that is cut after its first payload byte can have the right
  sum together with the next header (`Tc002Hardware.cpp:43`); input events the
  kernel drops are not noticed (`Tc002Hardware.cpp:161`).

## 5. Proofs

tlapm checks eight modules of theorems.  Every theorem holds for all values of
the constants, under the assumption on them that its module names and nothing
else.

`BootGuardProofs`, for every limit, cap, set of start kinds, partition states,
libraries, binaries and numbers of power cuts and restarts:

* `TypeCorrect`: `[]TypeOK`.
* `FailingStarts`: the invariant is
  `TypeOK /\ HeldOrCounted /\ (~impaired => Sound)`.  `FailingStartsBounded` alone
  is not inductive.  A power cut chooses among the contents the flash may hold,
  so `Sound` bounds every one of them by the limit plus the power cuts so far,
  which keeps the numbers below the one the reader takes for damage
  (`CounterBounded`); it says that the launcher's local is one more than what
  it read and is in the file once written (`RecordedIsInFile`); and that
  partition and library work, which is what "not impaired" has to give.  A factory
  reset, whole or cut short, a killed launcher and a power cut are steps like
  any other here.
  `HeldOrCounted` ties the launcher's position to the kind of start.
* `FallbackIsDeserved`: until the power goes or a launcher is killed for the
  first time, the number in the file and the launcher's local are not above that of recorded starts
  (`StartsStand`).  It holds on impaired clocks too, where the count can only be
  too small.
* `MarkSurvives`: with syncs that hold, a number that is in the file is all the
  flash may come back with (`MarkIsOnFlash`).
* `Implements`: initial states map to initial states of `ThreeStrikes`, every
  step to a step or a stutter; the same invariant supplies that the number in
  the file is the number of strikes.  A factory reset that takes the counter is
  a healthy minute to the abstract clock.

`AudioProofs`, for any number of playbacks and any set of rates:

* `TypeCorrect`, `Exclusive`, `PlayingTrue`, `MessagesCurrent`.  The inductive
  invariant says that of all threads only the one launched last can be alive,
  and none between a join and the launch after it (`OneThread`); that the driver
  is open only while that thread is between configure and close
  (`DriverFollowsThread`); and that `playing_` agrees with it both ways.
  Everything follows from the join before the launch.
  For `MessagesCurrent` the messages under the mutex are of the latest launch too
  (`StoredAreCurrent`), and tick publishes those and nothing it read before.

`LifecycleProofs`, for every delay, save interval and number of events:

* `TypeCorrect`, `EditsAreKept`, `ResetsHold`, `EditsAreInTime`.  What is on flash when
  the process has ended is decided several steps before, when the restart branch is entered:
  `Decided` says what the file is from then on, `LeftBehind` carries it over to
  the image that is started next.  That an edit is saved in time rests on its
  being marked for saving and on two clocks that a frame advances alike
  (`Timely`).

`UploadsProofs`, for any number of uploads and directories:

* `TypeCorrect`, `OneInstallHolds`, `AnsweredIsCleanedUpHolds`.  The mutex is
  given back while the helper still runs, so `OneInstall` does not follow from it
  alone: the invariant adds that past the copy no helper runs, since the file of
  a running one cannot be replaced (`HelperIsFirst`).  `FilesAreOwned` says who
  removes each temporary file, `ImageIsWhole` that only a complete body gets
  that far.
* `ResetClearsDataHolds`: once a factory reset has begun the gate, which asks the
  loop thread, lets nobody past, so that only who was past it then can still
  make files (`ResetInOrder`).

`WifiProofs`, for any networks, thresholds, times and numbers of scans:

* `TypeCorrect`, `AccessPointGivesWay`, `ScansStayInOrder`.  `TypeOK` needs that the
  access point's countdown only runs while there is one.  `ApGivesWay` and
  `ScansInOrder` are the safety halves of `StopReturns` and `ScanAnswered`: no
  access point stands beside an association that a round has seen or after the
  worker, and results are shown in the order in which they were asked for.

`WpaControlProofs`, for any networks, passwords that are refused and numbers of
rounds, starts, other commands, crashes and power cuts:

* `TypeCorrect`, `YourNetworkIsKnownHolds`, `NetworksAreKept`.  An answer may be
  the one to an earlier command, so that nothing follows from a single OK.  The invariant looks ahead
  instead: at what the supplicant's networks will be once it has caught up with
  what was sent (`Will`).  `Claims` says that a number it gave is told once and
  that who is told it is the only one to use or remove it, however late;
  `Underway` that what setNetwork has sent so far will be done to its number;
  `Known` that what is taken for configured, or has its fingerprint written,
  will be known and stays so.  `Refusal` is for a password that is refused, where
  setNetwork must not reach its end: it needs five answers that say OK, and in
  the stream of answers, there or still to come, a number is followed by at most
  four in a row that do not stop it (`Window`), since the key's is a FAIL; with
  the answers counted against the command it is at (`InStep`, `Slack`) it is
  stopped in time.  For `NetworksAreKept` the invariant adds what holds as
  long as the resets on the way are whole (`Keeping`): a network that is enabled
  in the file is there, and nobody has a claim to its number any more
  (`SavedStay`); a network that may still be removed is gone, or not enabled, by
  the time the networks are saved (`SavesSafe`).

`InputProofs`, for every size of blocks, pieces, files and table entries, every
era, epoch, width of time_t and resolution, and every limit on names, questions
and what is read of audio (the assumption of the module is a
hypothesis of each theorem, since `SmallProofs` instantiates them):

* `TypeCorrect`, `DigestIsStandardHolds`.  `Whole` says that what was transformed,
  what fills the block and what is left of the piece are, one after the other,
  what was read and padded so far; `Even` that transformed is a multiple of a
  block; `Stage` what the padding is at each of the three places of finish, with
  the distance to the length's place counted modulo a block (`Distance`).
* `TablesAreWithin`: the two comparisons of `Inside`, neither of which can wrap,
  together say that offset and size add up to no more than the file.
* `VerdictsAreRight`: the functions that are found, name by name up to its NUL,
  are those a plain reading of the symbol table defines.  That a name ends at the
  first NUL is what `Least` gives.
* `SecondsComeThrough`, `TimeComesThrough`: seconds reduced modulo an era come back
  as they were while time_t holds them, and the fraction to within a
  microsecond.
* `NamesAreInside`: for any bytes.  Each turn of readName has one less of
  `MaxSteps` left, so that the function it is exists (`Iterates`); by induction
  on what is left the name never outgrows its limit, and what follows it, which
  the first jump settles, lies behind where reading began, so that the loop over
  the questions gets on too.
* `QuestionsAreAnswered`: for any names of the clock (with an answer due where they
  are in small letters, which a name that was read always is, `TextIsSmall`) and
  any number of questions whose names have labels of 1
  to 63 bytes, no more letters than `MaxName` and two labels fewer than
  `MaxSteps`, so that a jump and the end of the name still fit.  Where the wire
  of a name stands, the walk comes past its labels one by one and has their
  text; a name that shares its end with the first one jumps to where that end
  stands in it (`Shared`), and the rest is the same walk.  The wire is a sequence
  of pieces in a row, and each piece stands where the lengths before it add up to
  (`JoinedStand`).  In questions an offset is one number of any size behind the
  mark of a jump; reading takes its high bits as well.
* `AudioIsFound`: for frames of any kinds, no longer than `Margin` (8 KiB in the
  code, more than any frame).  If the audio is frames to its end, the first is the
  first cell visited, and ends within what is read, so that the second frame or
  the end of the file confirms it.  The other way round, a confirmed frame is one
  of the audio behind the tag, and what confirms it is the next of its kind or
  the end of the file or of what was read.

`SmallProofs`, under `SmallAssumption`, for the specification that run `small`
checks.  `Parts` says that a step of the whole is a step of one component or none
for each of them, so that each has an invariant of its own:

* `TypesAreKept`: `[]TypeOK` of all of them.  That the resolver's file names three
  servers at most is a fact about the loop of `ResolverConfig`
  (`ConfigIsAddresses`), that a checksum is two bytes one about the sum
  (`SumIsTwoBytes`).
* `ResolverIsUsable`: nothing is mounted before there is a file, and what a refresh
  writes names a server.
* `UpdateIsSafe`: that nothing comes back to run from the partition after it was
  unmounted rests on the order in which init carries out what it was asked: from
  the stop on the GUI is asked for nothing else until the helper gives up
  (`StoppedOnce`, `WritingIsAllowed`).
* `ResultsStayHonest`: one result stands for each thread that ended, in the queue
  or handled (`ResultsStand`), and `pending` is the number of threads still
  talking, counted by cardinality.
* `GesturesStayDistinct`: `PushIsMeasured` compares, for each key of the rocker, the
  times the code keeps with the times the key has been down by its samples; the
  hold is measured from the end of the debouncing, which is never earlier than
  the push.  It holds for every order of the thresholds.
* `PacketsAreKept`: what is unread holds, in one piece, every packet that came
  whole and was not taken, with no other command inside it (`KeptIn`), and a header
  with a command is that of a packet that was sent and not taken, once
  (`OwnMarks`).  Parsing skips a byte only where nothing can start, so it goes
  past no packet that stands (`ParsePassesNone`).
* `BufferStaysShort`: parsing stops where a packet is complete or its beginning is
  cut, which is shorter than the longest packet.  The limit of `rx_` is longer,
  so that clearing it never throws anything away; `PacketsAreKept` needs it too.
* `GateJudgesRight`: each sample is a file in the sense of `InputProofs`, so that its
  theorems apply; hashing runs as `Digest` does alone.
* `InputsAreRead`: the samples of bytes, questions, audio and time are members of
  the sets `InputProofs` speaks of, and the operators of the two instances are
  the same (`SameWire`, `SameCompressed`).

TLC checks the same properties on the runs above, and checked the invariants
before they were proved.

A recursive function is proved to exist and to have a property of its values by
induction, for which `Least` (a set of naturals that is not empty has a least
member, from the library's well-founded relations) stands in for the induction
theorems, which take operators.  `UpTo` (what holds at zero and is carried on by
one holds up to any number) and `Iterates` (a function that goes on from each
argument to one that is lower exists and is what its equation says) are made
from it once; `Flattens` says the same of the fold behind `FlattenSeq`.

Every safety property that a run checks, invariant or action property, and the
refinement, is stated by a theorem.  Model-checked only are the liveness
properties, which are out of the prover's reach (`CrashLoopEnds`, `StopReturns`,
`ShownCatchesUp`, `SignalHonoured`, `Recovers`,
`LeaseFollows`, `ScanAnswered`, `FollowsDhcp`, `GivingUpLeavesGui`).

## 6. Not modelled

Rendering, layouts, apps, effects, formatting, the host's tools and the
installer have no behaviour to check here.  The core engine, script host, web
server and settings store are not in this tree, so that a save of the settings
that fails is not modelled either.  Left out of modelled parts:

* of the process the setup of the services, MQTT and what is drawn; of the
  launcher how it brings up the radio;
* of the speaker volume, resampling and the synthesis of tones;
* of the network static addresses, roaming scans and when the time is asked for;
  of mDNS the records of an answer and the socket;
* of the web server the routes that only read or make one call on the loop
  thread, the limits of bodies and the login (upstream);
* of the vendor gate the compression of a block, which is a table of constants,
  and the report as JSON; of the updater the checks of geometry and image, one
  bit each;
* of the hardware the version handshake with the MCU, the SPI frame and the input
  nodes; of the periphery the knob's detents, which become commands at once, the
  sensors and the panel's automatic brightness.

## 7. Plan

1. Compositions: `Uploads` with `Updater` (the helper is the one that stops the
   application whose handler started it), `WifiService` with `Resolver` (refresh
   in the round), `Lifecycle` with `WpaControl` (a factory reset asked for while
   the worker is in setNetwork, which stop ends before resetWifi begins).
2. The routes that post to the loop thread, as one module of handlers that wait
   and a loop that may have stopped to serve them.
