-------------------------------- MODULE Updater --------------------------------
(***************************************************************************)
(* The update helper (updater/FirmwareUpdate.cpp): it validates an image,  *)
(* checks that this is the clock it is for, has init stop the GUI,         *)
(* unmounts /res and rewrites the flash under it block by block.  init and *)
(* the GUI it stops run beside it: setprop only asks.                      *)
(***************************************************************************)
EXTENDS Integers, Sequences

CONSTANT Blocks   \* erase blocks the image covers

UpdaterAssumption == Blocks \in Nat \ {0}

VARIABLES
  pc,       \* "open", "checks", "recognise", "stop", "helper", "unmount",
            \*   "read", "erase", "write", "verify", "finish", "exit", "off"
  mode,     \* "validate", "preflight", "install"
  force,    \* --force was given
  image,    \* the image is a valid TC002 res image
  clock,    \* this is the flash layout and device the image is for
  stock,    \* the stock firmware is recognised
  block,    \* the block being written
  flash,    \* contents of the blocks: "old", "erased", "new", "broken"
  res,      \* /res is mounted
  gui,      \* the service zkswe: "up", "down"
  asked,    \* what init has been asked to do with it and has not done yet
  bluetooth, \* hciattach runs from /res
  refused   \* history: init did not take the request to start the GUI again

args == <<mode, force, image, clock, stock>>
init == <<gui, asked, bluetooth>>
flashing == <<args, block, flash, res>>
vars == <<pc, flashing, init, refused>>

Positions == 0..Blocks - 1
Written == flash = [b \in Positions |-> "new"]

-----------------------------------------------------------------------------
(* The helper                                                              *)

Goto(from, to) == pc = from /\ pc' = to

\* validateFirmware, and --validate ends here.
Validate ==
  /\ Goto("open", IF image /\ mode # "validate" THEN "checks" ELSE "exit")
  /\ UNCHANGED <<flashing, init, refused>>

\* Variant: the flash geometry is not compared.
CheckClockBlindly ==
  /\ Goto("checks", "recognise")
  /\ UNCHANGED <<flashing, init, refused>>

\* Run from /tmp, partition named and sized as expected, NOR flash, and the
\* mount namespace of init entered.  The last can fail on any clock.
CheckClock ==
  /\ \/ clock /\ Goto("checks", "recognise")
     \/ Goto("checks", "exit")
  /\ UNCHANGED <<flashing, init, refused>>

\* Refuse to replace a stock firmware that is not known, unless told to.
Recognise ==
  /\ Goto("recognise", IF (stock \/ force) /\ mode = "install" THEN "stop" ELSE "exit")
  /\ UNCHANGED <<flashing, init, refused>>

\* setprop acknowledges a request before init has carried it out.
Ask(what) == asked' = Append(asked, what)

\* In a session of its own by now, so that it outlives the GUI.
AskStop ==
  /\ \/ Goto("stop", "helper") /\ Ask("stop")
     \/ Goto("stop", "exit") /\ UNCHANGED asked
  /\ UNCHANGED <<flashing, gui, bluetooth, refused>>

\* stopBluetoothHelper: SIGTERM, and SIGKILL two seconds later.
StopBluetooth ==
  /\ Goto("helper", "unmount")
  /\ bluetooth' = FALSE
  /\ UNCHANGED <<flashing, gui, asked, refused>>

Busy == gui = "up" \/ bluetooth

UnmountDone ==
  /\ Goto("unmount", "read") /\ ~Busy
  /\ res' = FALSE
  /\ UNCHANGED <<args, block, flash, init, refused>>

\* Variant: the GUI is not started again.
UnmountFailsQuietly ==
  /\ Goto("unmount", "exit")
  /\ UNCHANGED <<flashing, init, refused>>

\* umount fails while a process runs from /res, and may fail anyway.  Nobody looks
\* whether the request for the GUI fails, as the one to stop it may.
UnmountFails ==
  /\ Goto("unmount", "exit")
  /\ \/ Ask("start") /\ UNCHANGED refused
     \/ refused' = TRUE /\ UNCHANGED asked
  /\ UNCHANGED <<flashing, gui, bluetooth>>

\* One block: read from the image (its first 16 bytes come from the header),
\* erased, written, read back and compared.
SetBlock(contents) == flash' = [flash EXCEPT ![block] = contents]

Fail(from) == Goto(from, "exit") /\ UNCHANGED <<flashing, init, refused>>

Read == Goto("read", "erase") /\ UNCHANGED <<flashing, init, refused>>

Erase ==
  /\ Goto("erase", "write")
  /\ SetBlock("erased")
  /\ UNCHANGED <<args, block, res, init, refused>>

Write ==
  /\ Goto("write", "verify")
  /\ \E written \in {"new", "broken"} : SetBlock(written)
  /\ UNCHANGED <<args, block, res, init, refused>>

NextBlock(good) ==
  /\ good
  /\ Goto("verify", IF block + 1 < Blocks THEN "read" ELSE "finish")
  /\ block' = IF block + 1 < Blocks THEN block + 1 ELSE block
  /\ UNCHANGED <<args, flash, res, init, refused>>

\* Variant: the position runs past the end of the image.
VerifyBlockless ==
  /\ Goto("verify", IF block + 1 < Blocks THEN "read" ELSE "finish")
  /\ block' = block + 1
  /\ UNCHANGED <<args, flash, res, init, refused>>

Verify == NextBlock(flash[block] = "new")

\* reboot, or "reboot manually".
Reboot ==
  /\ pc = "finish"
  /\ pc' \in {"off", "exit"}
  /\ UNCHANGED <<flashing, init, refused>>

Helper ==
  \/ Validate \/ CheckClock \/ Recognise \/ AskStop \/ StopBluetooth
  \/ UnmountDone \/ UnmountFails \/ Read \/ Erase \/ Write \/ Verify \/ Reboot
  \/ \E from \in {"read", "erase", "write", "verify"} : Fail(from)

-----------------------------------------------------------------------------
(* Around it                                                               *)

\* init carries out what it was asked, in order.
Service ==
  /\ pc # "off" /\ asked # <<>>
  /\ gui' = IF Head(asked) = "stop" THEN "down" ELSE "up"
  /\ asked' = Tail(asked)
  /\ UNCHANGED <<pc, flashing, bluetooth, refused>>

\* The stock GUI starts its Bluetooth helper again whenever it likes.
Respawn ==
  /\ pc # "off" /\ gui = "up" /\ ~bluetooth
  /\ bluetooth' = TRUE
  /\ UNCHANGED <<pc, flashing, gui, asked, refused>>

PowerCut ==
  /\ pc # "off"
  /\ pc' = "off"
  /\ UNCHANGED <<flashing, init, refused>>

Init ==
  /\ pc = "open"
  /\ mode \in {"validate", "preflight", "install"}
  /\ force \in BOOLEAN /\ image \in BOOLEAN /\ clock \in BOOLEAN /\ stock \in BOOLEAN
  /\ block = 0
  /\ flash = [b \in Positions |-> "old"]
  /\ res = TRUE
  /\ gui = "up" /\ asked = <<>> /\ bluetooth \in BOOLEAN
  /\ refused = FALSE

Next == Helper \/ Service \/ Respawn \/ PowerCut

Spec == Init /\ [][Next]_vars

\* The helper's steps and init's are carried out; the power may stay on.
FairSpec == Spec /\ WF_vars(Helper) /\ WF_vars(Service)

-----------------------------------------------------------------------------
TypeOK ==
  /\ pc \in {"open", "checks", "recognise", "stop", "helper", "unmount", "read",
             "erase", "write", "verify", "finish", "exit", "off"}
  /\ mode \in {"validate", "preflight", "install"}
  /\ {force, image, clock, stock, res, bluetooth, refused} \subseteq BOOLEAN
  /\ block \in Positions
  /\ flash \in [Positions -> {"old", "erased", "new", "broken"}]
  /\ gui \in {"up", "down"}
  /\ asked \in {<<>>, <<"stop">>, <<"start">>, <<"stop", "start">>}

\* FirmwareUpdate.cpp:2, "It never erases a block until the complete image and
\* live partition match": whatever init, the GUI and its Bluetooth helper do
\* meanwhile, a block is only touched for an install of a valid image on the
\* clock it is for, with nothing running from the partition any more.
ErasedOnlyWhenSafe ==
  flash # [b \in Positions |-> "old"] =>
    /\ mode = "install" /\ image /\ clock /\ (stock \/ force)
    /\ ~res /\ ~Busy

\* A helper that gives up before /res is unmounted leaves a clock that has its
\* GUI, also when init has not even stopped it yet - unless init did not take the
\* one request to start it, which the helper neither notices nor repeats.
GivingUpLeavesGui ==
  (pc = "exit" /\ res /\ ~refused) ~> ((gui = "up" /\ asked = <<>>) \/ pc = "off")

\* Writing leaves whole blocks behind it and old ones before it, so a power
\* cut or a failing device damages one block at most, and the clock is only
\* rebooted when all of them were read back.
OneBlockAtATime ==
  /\ \A b \in Positions :
       /\ b < block => flash[b] = "new"
       /\ b > block => flash[b] = "old"
  /\ pc = "finish" => Written

\* Both together: whenever the power may fail, the flash is as it was or on its
\* way, block by block, to a complete image that belongs on this clock.
FlashIsSafe == ErasedOnlyWhenSafe /\ OneBlockAtATime
=============================================================================
