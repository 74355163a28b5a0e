-------------------------------- MODULE Uploads --------------------------------
(***************************************************************************)
(* The two uploads that stream to the data partition                       *)
(* (tc002/Tc002HttpRoutes.cpp): MP3 files and firmware images.  Each runs  *)
(* on a thread of the web server, uploadMutex admits one at a time, and    *)
(* the update helper of an accepted image outlives the request.            *)
(*                                                                         *)
(* The application may be stopped while uploads are running: by a restart, *)
(* which waits for the web server's threads, or by init or a crash, which  *)
(* does not.  A factory reset (main_tc002.cpp) removes the data directory  *)
(* under the feet of the threads before it stops the web server:           *)
(* remove_all empties and removes one directory after the other and stops  *)
(* at the first error.                                                     *)
(***************************************************************************)
EXTENDS Integers, FiniteSets

CONSTANTS
  OtherPlaces,  \* directories of the data directory that uploads stay out of
  MaxUploads    \* bound: uploads in a behaviour

ASSUME UploadsAssumption ==
  MaxUploads \in Nat /\ OtherPlaces \cap {"mp3", "staging"} = {}

VARIABLES
  server,    \* "running", "wiping", "wiped", "stopping", "down"
  at,        \* where the handler of each upload is
  kind,      \* "mp3" or "firmware"
  answer,    \* its response: "none", "refused", "stored" (200), "accepted" (202)
  whole,     \* its body arrived to the end
  holder,    \* uploadMutex: the upload that owns it, 0 when free
  parts,     \* uploads whose .part-XXXXXX is in the MP3 folder
  stored,    \* uploads whose file got its name in the MP3 folder since a reset
             \*   began; what was there before counts as left
  staged,    \* uploads whose image is in the staging directory
  helpers,   \* uploads whose install helper runs
  left,      \* directories that a reset has still to remove
  emptied,   \* the one of them that remove_all has been through, if any
  early      \* history: uploads past the gate when the reset began

files == <<parts, stored, staged>>
wipe == <<left, emptied, early>>
loop == <<server, wipe>>
vars == <<loop, at, kind, answer, whole, holder, files, helpers>>

Places == {"mp3", "staging"} \cup OtherPlaces

Ids == 1..MaxUploads

Resetting == {"wiping", "wiped"}

\* Handlers that are being executed, and those that hold the mutex.
Active == {"gate", "lock", "open", "receive", "check", "rename", "copy",
           "preflight", "install"}

-----------------------------------------------------------------------------
(* Handlers                                                                *)

Arrive(u) ==
  /\ server = "running"
  /\ at[u] = "none" /\ \A v \in Ids : v < u => at[v] # "none"
  /\ \E k \in {"mp3", "firmware"} : kind' = [kind EXCEPT ![u] = k]
  /\ at' = [at EXCEPT ![u] = "gate"]
  /\ UNCHANGED <<loop, answer, whole, holder, files, helpers>>

Step(u, from, to) ==
  /\ at[u] = from
  /\ at' = [at EXCEPT ![u] = to]
  /\ UNCHANGED <<loop, kind, answer, whole, holder, helpers>>

\* A response ends the handler, which gives back the mutex.
ReplyWith(u, a, owner) ==
  /\ at' = [at EXCEPT ![u] = "replied"]
  /\ answer' = [answer EXCEPT ![u] = a]
  /\ holder' = owner
  /\ UNCHANGED <<loop, kind, whole>>

Reply(u, a) == ReplyWith(u, a, IF holder = u THEN 0 ELSE holder)

\* A refusal after the temporary file was made removes it.
Refuse(u) ==
  /\ Reply(u, "refused")
  /\ parts' = parts \ {u} /\ staged' = staged \ {u}
  /\ UNCHANGED <<stored, helpers>>

\* gate runs on the loop thread, if there still is one: access point mode and
\* a missing password refuse the upload there.
GateOnLoop(u) ==
  /\ at[u] = "gate" /\ server = "running"
  /\ \/ Reply(u, "refused") /\ UNCHANGED <<files, helpers>>
     \/ Step(u, "gate", "lock") /\ UNCHANGED files

\* Variant: the handler waits for a loop that is gone.
GateWaits(u) == GateOnLoop(u)

\* Variant: the checks run on the thread of the upload.
GateOnThread(u) == at[u] = "gate" /\ Step(u, "gate", "lock") /\ UNCHANGED files

Gate(u) ==
  \/ GateOnLoop(u)
  \/ /\ at[u] = "gate" /\ server \in {"wiped", "stopping"}
     /\ Reply(u, "refused") /\ UNCHANGED <<files, helpers>>

\* try_lock, then the form of the request.
Lock(u) ==
  /\ at[u] = "lock"
  /\ \/ Reply(u, "refused") /\ UNCHANGED <<files, helpers>>
     \/ /\ holder = 0
        /\ holder' = u
        /\ at' = [at EXCEPT ![u] = "open"]
        /\ UNCHANGED <<loop, kind, answer, whole, files, helpers>>

\* A temporary file next to the target, or in the staging directory if there
\* is room.
Open(u) ==
  \/ at[u] = "open" /\ Refuse(u)
  \/ /\ Step(u, "open", "receive")
     /\ IF kind[u] = "mp3" THEN parts' = parts \cup {u} /\ UNCHANGED staged
                           ELSE staged' = staged \cup {u} /\ UNCHANGED parts
     /\ UNCHANGED stored

\* The body to its end.
Receive(u) ==
  /\ at[u] = "receive"
  /\ at' = [at EXCEPT ![u] = "check"]
  /\ whole' = [whole EXCEPT ![u] = TRUE]
  /\ UNCHANGED <<loop, kind, answer, holder, files, helpers>>

\* Wrong contents, too long, no space left.
ReceiveFails(u) == at[u] = "receive" /\ Refuse(u)

\* Variant: the handler returns without a word, which httplib answers with its
\* default.
InterruptedSilent(u) ==
  /\ at[u] = "receive" /\ kind[u] = "firmware"
  /\ Reply(u, "default") /\ staged' = staged \ {u}
  /\ UNCHANGED <<parts, stored, helpers>>

\* The client goes away or times out.  Only the firmware handler looks at what
\* the reader returns.
Interrupted(u) ==
  /\ at[u] = "receive"
  /\ IF kind[u] = "firmware" THEN Refuse(u)
     ELSE Step(u, "receive", "check") /\ UNCHANGED files

\* probeMp3, which opens the file by its name and decodes the first frames, or
\* validateFirmware, which has it open.
Check(u) ==
  /\ at[u] = "check"
  /\ \/ Refuse(u)
     \/ /\ kind[u] = "mp3" => u \in parts
        /\ Step(u, "check", IF kind[u] = "mp3" THEN "rename" ELSE "copy")
        /\ UNCHANGED files

Rename(u) ==
  \/ at[u] = "rename" /\ Refuse(u)
  \/ /\ at[u] = "rename" /\ u \in parts
     /\ Reply(u, "stored")
     /\ parts' = parts \ {u} /\ stored' = IF server \in Resetting THEN stored \cup {u} ELSE stored
     /\ UNCHANGED <<staged, helpers>>

\* Variant: the helper is copied even while it is being executed.
CopyHelperBusy(u) ==
  \/ at[u] = "copy" /\ Refuse(u)
  \/ Step(u, "copy", "preflight") /\ UNCHANGED files

\* The helper is copied to /tmp, which fails while a copy is being executed.
CopyHelper(u) ==
  \/ at[u] = "copy" /\ Refuse(u)
  \/ helpers = {} /\ Step(u, "copy", "preflight") /\ UNCHANGED files

Preflight(u) ==
  \/ at[u] = "preflight" /\ Refuse(u)
  \/ u \in staged /\ Step(u, "preflight", "install") /\ UNCHANGED files

\* Variant: an image whose helper cannot be started stays in the way.
InstallLeavesImage(u) ==
  /\ at[u] = "install"
  /\ \/ Reply(u, "accepted") /\ helpers' = helpers \cup {u}
     \/ Reply(u, "refused") /\ UNCHANGED helpers
  /\ UNCHANGED files

\* The helper runs on its own from here; the image stays for it, if a reset
\* leaves it the time to open it.
Install(u) ==
  /\ at[u] = "install"
  /\ \/ Reply(u, "accepted") /\ helpers' = helpers \cup {u} /\ UNCHANGED files
     \/ Refuse(u)

\* Steps of the handler that come without the client's doing.
Handle(u) ==
  \/ Gate(u) \/ Lock(u) \/ Open(u) \/ Check(u) \/ Rename(u) \/ CopyHelper(u)
  \/ Preflight(u) \/ Install(u)

\* The client sends, or the read timeout ends the wait.
Client(u) == Receive(u) \/ ReceiveFails(u) \/ Interrupted(u)

-----------------------------------------------------------------------------
(* Around the handlers                                                     *)

HelperEnds(u) ==
  /\ u \in helpers
  /\ helpers' = helpers \ {u}
  /\ UNCHANGED <<loop, at, kind, answer, whole, holder, files>>

\* The restart branch of the main loop: the web server stops, which waits for
\* its threads.
BeginStop ==
  /\ server = "running"
  /\ server' = "stopping"
  /\ UNCHANGED <<wipe, at, kind, answer, whole, holder, files, helpers>>

\* The same for a factory reset: from here on the loop answers no gate.
BeginReset ==
  /\ server = "running"
  /\ server' = "wiping"
  /\ early' = {u \in Ids : at[u] \in Active \ {"gate"}}
  /\ UNCHANGED <<left, emptied, at, kind, answer, whole, holder, files, helpers>>

\* remove_all goes through a directory.
Empty(d) ==
  /\ server = "wiping" /\ d \in left /\ emptied = {}
  /\ emptied' = {d}
  /\ parts' = IF d = "mp3" THEN {} ELSE parts
  /\ stored' = IF d = "mp3" THEN {} ELSE stored
  /\ staged' = IF d = "staging" THEN {} ELSE staged
  /\ UNCHANGED <<server, left, early, at, kind, answer, whole, holder, helpers>>

FilesIn(d) ==
  IF d = "mp3" THEN parts \cup stored ELSE IF d = "staging" THEN staged ELSE {}

\* Then it removes the directory itself.  When a file has been made in it since,
\* that fails, and so does remove_all, whose error nobody looks at.
RemoveDirectory(d) ==
  /\ server = "wiping" /\ d \in emptied
  /\ emptied' = {}
  /\ IF FilesIn(d) = {} THEN left' = left \ {d} ELSE UNCHANGED left
  /\ server' = IF left' = {} \/ FilesIn(d) # {} THEN "wiped" ELSE server
  /\ UNCHANGED <<early, at, kind, answer, whole, holder, files, helpers>>

\* What a reset that has ended has left no longer matters: the next image makes
\* the directories it misses again.
NoReset == left' = Places /\ emptied' = {} /\ early' = {} /\ stored' = {}

Wipe == \E d \in Places : Empty(d) \/ RemoveDirectory(d)

Stopped ==
  /\ server \in {"wiped", "stopping"}
  /\ \A u \in Ids : at[u] \notin Active
  /\ server' = "down" /\ NoReset
  /\ UNCHANGED <<at, kind, answer, whole, holder, parts, staged, helpers>>

\* SIGTERM from init, for an install helper among others, or a crash: the
\* process ends with its threads where they are.
Killed ==
  /\ server # "down"
  /\ server' = "down"
  /\ at' = [u \in Ids |-> IF at[u] \in Active THEN "killed" ELSE at[u]]
  /\ holder' = 0
  /\ NoReset
  /\ UNCHANGED <<kind, answer, whole, parts, staged, helpers>>

\* A new image of the application clears the staging directory.
Start ==
  /\ server = "down"
  /\ server' = "running"
  /\ staged' = {}
  /\ UNCHANGED <<wipe, at, kind, answer, whole, holder, parts, stored, helpers>>

Init ==
  /\ server = "running"
  /\ at = [u \in Ids |-> "none"]
  /\ kind = [u \in Ids |-> "mp3"]
  /\ answer = [u \in Ids |-> "none"]
  /\ whole = [u \in Ids |-> FALSE]
  /\ holder = 0
  /\ parts = {} /\ stored = {} /\ staged = {}
  /\ helpers = {}
  /\ left = Places /\ emptied = {} /\ early = {}

Next ==
  \/ \E u \in Ids : Arrive(u) \/ Handle(u) \/ Client(u) \/ HelperEnds(u)
  \/ BeginStop \/ BeginReset \/ Wipe \/ Stopped \/ Killed \/ Start

Spec == Init /\ [][Next]_vars

\* Threads are scheduled, the helper's preflight ends, a silent client is
\* dropped by the read timeout, and the application is started again.
FairSpec ==
  /\ Spec
  /\ \A u \in Ids : WF_vars(Handle(u)) /\ WF_vars(Client(u))
  /\ WF_vars(Wipe) /\ WF_vars(Stopped) /\ WF_vars(Start)

-----------------------------------------------------------------------------
TypeOK ==
  /\ server \in {"running", "wiping", "wiped", "stopping", "down"}
  /\ at \in [Ids -> Active \cup {"none", "replied", "killed"}]
  /\ kind \in [Ids -> {"mp3", "firmware"}]
  /\ answer \in [Ids -> {"none", "refused", "stored", "accepted"}]
  /\ whole \in [Ids -> BOOLEAN]
  /\ holder \in Ids \cup {0}
  /\ parts \subseteq Ids /\ stored \subseteq Ids /\ staged \subseteq Ids
  /\ helpers \subseteq Ids /\ early \subseteq Ids
  /\ left \subseteq Places /\ emptied \subseteq left

\* Two helpers never write the flash at the same time, although the mutex is
\* free again as soon as the first one was started, and none writes the part of
\* an image that came before its connection broke off.
OneInstall == Cardinality(helpers) <= 1 /\ \A u \in helpers : whole[u]

\* An upload that was answered does not keep others out and has left no
\* temporary file behind, unless its image waits for the helper: no early
\* return forgets to clean up.
AnsweredIsCleanedUp ==
  \A u \in Ids : at[u] = "replied" =>
    holder # u /\ u \notin parts /\ (u \in staged => answer[u] = "accepted")

\* The restart that waits for the web server's threads does not wait for
\* ever, although these may wait for the loop that is restarting.
Ending == {"wiping", "wiped", "stopping"}

StopReturns == (server \in Ending) ~> (server \notin Ending)

\* A factory reset that has run to its end leaves none of the data there was,
\* and no file but those of uploads that were under way when it began; only one
\* of these can have cut it short.  The web server is still up all the while.
ResetClearsData ==
  server = "wiped" =>
    /\ left # {} => early # {}
    /\ left = {} => parts \cup stored \cup staged \subseteq early

\* Tc002HttpRoutes.cpp:80, "Leftovers from an interrupted upload or a completed
\* install are removed at start-up".
StartClearsLeftovers == [][Start => parts' = {} /\ staged' = {}]_vars
=============================================================================
