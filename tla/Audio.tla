-------------------------------- MODULE Audio --------------------------------
(***************************************************************************)
(* The speaker (tc002/Tc002Audio.cpp): the main thread starts and stops    *)
(* playbacks, each playback is a worker thread that owns the driver until  *)
(* it ends, and atomics (mode_, playing_, cancel_) plus two strings behind *)
(* messageMutex_ are all they share.                                       *)
(*                                                                         *)
(* Every launch has a worker of its own, so that nothing in the model      *)
(* forbids two of them from living at once: that they do not is stopAll's  *)
(* doing, which joins the old thread before the new one starts.            *)
(***************************************************************************)
EXTENDS Integers, FiniteSets

CONSTANTS
  MaxLaunches,  \* bound: playbacks started in a behaviour
  Rates         \* sample rates the decoders produce

ASSUME AudioAssumption ==
  /\ MaxLaunches \in Nat \ {0}
  /\ Rates \subseteq Nat \ {0} /\ Rates # {}

Modes == {"tone", "mp3", "radio"}
Launches == 1..MaxLaunches

VARIABLES
  main,     \* where the main thread is: "loop", "join", "launch", "publish"
  target,   \* what stopAll was called for: a mode to launch, or "idle"
  mode, playing, cancel,   \* mode_, playing_, cancel_
  error,    \* error_: 0, or the launch whose worker called fail
  title,    \* title_: 0, or the launch whose stream announced one
  latest,   \* launches so far: worker_ is the thread of the latest
  worker,   \* state of each launch's thread
  rate,     \* rate_: the rate the driver is open with, 0 when closed
  seen,     \* what tick read of playing_ before it read the messages
  shown,    \* runtime.mp3Playing \/ runtime.radioPlaying, as the UI sees it
  shownError, shownTitle,   \* runtime.radioError, runtime.radioTitle
  announced \* the launch whose title was the last to be pushed as a
            \*   notification, 0 before the first

shared == <<mode, playing, cancel>>
messages == <<error, title>>
published == <<shown, shownError, shownTitle, announced>>
ui == <<seen, published>>
vars == <<main, target, shared, messages, latest, worker, rate, ui>>

\* States of a thread that is there: started and not at its end.
Running == {"setup", "decode", "configure", "send", "close", "end"}

\* The worker states in which the driver is called.
OnDriver == {"configure", "send", "close"}

-----------------------------------------------------------------------------
(* Main thread                                                             *)

\* stopAll, first half: the worker is told to stop.
StopAll(for) ==
  /\ main = "loop"
  /\ cancel' = TRUE
  /\ target' = for
  /\ main' = "join"
  /\ UNCHANGED <<mode, playing, messages, latest, worker, rate, ui>>

\* launch: playRtttl, playMp3 and playStream once their arguments are
\* accepted.  A refused one changes nothing.
Play(m) == latest < MaxLaunches /\ StopAll(m)

\* stop, stopMp3 and stopStream leave the other modes alone.
StopOwn(m) == mode = m /\ StopAll("idle")

\* Lifecycle: restart and shutdown stop whatever plays.
Shutdown == StopAll("idle")

\* Variant: the old thread is detached instead of joined.
JoinDetached ==
  /\ main = "join"
  /\ playing' = FALSE
  /\ mode' = "idle"
  /\ main' = IF target = "idle" THEN "loop" ELSE "launch"
  /\ UNCHANGED <<target, cancel, messages, latest, worker, rate, ui>>

\* stopAll, second half: join, unless no thread was started.
Join ==
  /\ main = "join"
  /\ \A l \in Launches : l = latest => worker[l] \in {"ended", "joined"}
  /\ worker' = [l \in Launches |-> IF l = latest THEN "joined" ELSE worker[l]]
  /\ playing' = FALSE
  /\ mode' = "idle"
  /\ main' = IF target = "idle" THEN "loop" ELSE "launch"
  /\ UNCHANGED <<target, cancel, messages, latest, rate, ui>>

\* Variant: the title of the stream before survives.
LaunchKeepsTitle ==
  /\ main = "launch"
  /\ cancel' = FALSE
  /\ mode' = target
  /\ playing' = TRUE
  /\ error' = 0
  /\ latest' = latest + 1
  /\ worker' = [worker EXCEPT ![latest + 1] = "setup"]
  /\ main' = "loop"
  /\ UNCHANGED <<target, title, rate, ui>>

\* launch after stopAll: the flags, then the messages, then the thread.
Launch ==
  /\ main = "launch"
  /\ cancel' = FALSE
  /\ mode' = target
  /\ playing' = TRUE
  /\ error' = 0
  /\ title' = 0
  /\ latest' = latest + 1
  /\ worker' = [worker EXCEPT ![latest + 1] = "setup"]
  /\ main' = "loop"
  /\ UNCHANGED <<target, rate, ui>>

\* tick: the flags are read first.
TickRead ==
  /\ main = "loop"
  /\ seen' = (playing /\ mode \in {"mp3", "radio"})
  /\ main' = "publish"
  /\ UNCHANGED <<target, shared, messages, latest, worker, rate, published>>

\* A title the UI has not seen becomes a notification, where the setting
\* (radioMeta) asks for it and buildAnnouncement has something to say.
Announce ==
  IF title # 0 /\ title # shownTitle THEN announced' \in {announced, title}
                                     ELSE UNCHANGED announced

\* Then the messages are read under their mutex, and what differs is published.
Publish(state) ==
  /\ main = "publish"
  /\ Announce
  /\ shown' = state /\ shownError' = error /\ shownTitle' = title
  /\ main' = "loop"
  /\ UNCHANGED <<target, shared, messages, latest, worker, rate, seen>>

\* Variant: only what has started is published.
TickPublishStarts == Publish(shown \/ seen)

TickPublish == Publish(seen)

Main ==
  \/ \E m \in Modes : Play(m) \/ StopOwn(m)
  \/ Shutdown \/ Join \/ Launch \/ TickRead \/ TickPublish

-----------------------------------------------------------------------------
(* Worker of launch l                                                      *)

Goto(l, from, to) ==
  /\ worker[l] = from
  /\ worker' = [worker EXCEPT ![l] = to]

Fail(l) == error' = l

\* Open and probe the file, fetch the playlist and connect, or nothing for a
\* melody.  A cancelled attempt ends without a message.
SetupDone(l) ==
  /\ Goto(l, "setup", "decode")
  /\ UNCHANGED <<main, target, shared, messages, latest, rate, ui>>

SetupFails(l) ==
  /\ Goto(l, "setup", "close")
  /\ Fail(l) \/ (cancel /\ UNCHANGED error)
  /\ UNCHANGED <<main, target, shared, title, latest, rate, ui>>

\* The decoding loop ends when it is cancelled, at the end of the sound, or
\* with an error; a radio stream may also bring a new title.
StopDecoding(l) ==
  /\ Goto(l, "decode", "close")
  /\ Fail(l) \/ UNCHANGED error
  /\ UNCHANGED <<main, target, shared, title, latest, rate, ui>>

NewTitle(l) ==
  /\ worker[l] = "decode"
  /\ mode = "radio" /\ ~cancel /\ title # l
  /\ title' = l
  /\ UNCHANGED <<main, target, shared, error, latest, worker, rate, ui>>

\* Variant: the decoding loop does not look at cancel_.
DecodeUncancelled(l) ==
  /\ Goto(l, "decode", "configure")
  /\ UNCHANGED <<main, target, shared, messages, latest, rate, ui>>

Decode(l) ==
  /\ ~cancel
  /\ Goto(l, "decode", "configure")
  /\ UNCHANGED <<main, target, shared, messages, latest, rate, ui>>

\* configure: an open driver is kept at its rate, or closed and opened again.
Configure(l) ==
  /\ \E r \in Rates : rate' = r
  /\ Goto(l, "configure", "send")
  /\ UNCHANGED <<main, target, shared, messages, latest, ui>>

\* Variant: the driver's error code ends up in rate_.
ConfigureKeepsCode(l) ==
  /\ rate' = -1
  /\ Goto(l, "configure", "close")
  /\ Fail(l)
  /\ UNCHANGED <<main, target, shared, title, latest, ui>>

ConfigureFails(l) ==
  /\ rate' = 0
  /\ Goto(l, "configure", "close")
  /\ Fail(l)
  /\ UNCHANGED <<main, target, shared, title, latest, ui>>

\* output: a full driver is retried for a second at most; a cancelled frame is
\* dropped.
Send(l) ==
  /\ Goto(l, "send", "decode")
  /\ UNCHANGED <<main, target, shared, messages, latest, rate, ui>>

\* Variant: a failed send reports the end before the driver is closed.
SendFailsEarly(l) ==
  /\ Goto(l, "send", "close")
  /\ playing' = FALSE
  /\ Fail(l)
  /\ UNCHANGED <<main, target, mode, cancel, title, latest, rate, ui>>

SendFails(l) ==
  /\ Goto(l, "send", "close")
  /\ IF cancel THEN UNCHANGED error ELSE Fail(l)
  /\ UNCHANGED <<main, target, shared, title, latest, rate, ui>>

\* closeOutput: drained for a second at most, not at all when cancelled.
CloseOutput(l) ==
  /\ Goto(l, "close", "end")
  /\ rate' = 0
  /\ UNCHANGED <<main, target, shared, messages, latest, ui>>

\* Variant: a thread that ends by itself leaves playing_ set.
FinishUnreported(l) ==
  /\ Goto(l, "end", "ended")
  /\ UNCHANGED <<main, target, shared, messages, latest, rate, ui>>

\* The thread's last statement.
Finish(l) ==
  /\ Goto(l, "end", "ended")
  /\ playing' = FALSE
  /\ UNCHANGED <<main, target, mode, cancel, messages, latest, rate, ui>>

Worker(l) ==
  \/ SetupDone(l) \/ SetupFails(l)
  \/ StopDecoding(l) \/ NewTitle(l) \/ Decode(l)
  \/ Configure(l) \/ ConfigureFails(l)
  \/ Send(l) \/ SendFails(l)
  \/ CloseOutput(l) \/ Finish(l)

-----------------------------------------------------------------------------
Init ==
  /\ main = "loop"
  /\ target = "idle"
  /\ mode = "idle" /\ playing = FALSE /\ cancel = FALSE
  /\ error = 0 /\ title = 0
  /\ latest = 0
  /\ worker = [l \in Launches |-> "none"]
  /\ rate = 0
  /\ seen = FALSE /\ shown = FALSE
  /\ shownError = 0 /\ shownTitle = 0 /\ announced = 0

Next == Main \/ \E l \in Launches : Worker(l)

Spec == Init /\ [][Next]_vars

\* The main loop keeps running, a join returns once the thread has ended, and
\* threads are scheduled.  Whether a sound ends by itself is not assumed: only
\* a cancelled worker has to come to its end.
FairSpec ==
  /\ Spec
  /\ WF_vars(Join) /\ WF_vars(Launch) /\ WF_vars(TickPublish)
  /\ SF_vars(TickRead)
  /\ \A l \in Launches : WF_vars(Worker(l))

-----------------------------------------------------------------------------
TypeOK ==
  /\ main \in {"loop", "join", "launch", "publish"}
  /\ target \in Modes \cup {"idle"}
  /\ mode \in Modes \cup {"idle"}
  /\ playing \in BOOLEAN /\ cancel \in BOOLEAN
  /\ error \in 0..MaxLaunches /\ title \in 0..MaxLaunches
  /\ latest \in 0..MaxLaunches
  /\ worker \in [Launches -> Running \cup {"none", "ended", "joined"}]
  /\ rate \in Rates \cup {0}
  /\ seen \in BOOLEAN /\ shown \in BOOLEAN
  /\ {shownError, shownTitle, announced} \subseteq 0..MaxLaunches

\* Two playbacks never use the driver at the same time: rate_ and the driver
\* are not protected by anything but the join in stopAll.
SpeakerExclusive ==
  \A k, l \in Launches :
    worker[k] \in OnDriver /\ worker[l] \in OnDriver => k = l

\* playing_ tells the truth.  A playback that is reported is the one that was
\* started last, and its thread is there: a late playing_ = false of an older
\* thread cannot hide it, nor can a finished one go on being reported.  When
\* nothing is, the driver is closed; the volume path and the next configure rely
\* on it.
PlayingIsTrue ==
  /\ playing => latest > 0 /\ worker[latest] \in Running
  /\ ~playing => rate = 0

\* What tick publishes, the error, the title and the notification of a new
\* title, is of the latest playback or nothing: a message of one that was
\* replaced is never put on the screen of the one after it, however late its
\* thread wrote it and wherever the replacement falls between two ticks.
MessagesAreCurrent ==
  [][TickPublish =>
       /\ {shownError', shownTitle'} \subseteq {0, latest}
       /\ announced' \in {announced, latest}]_vars

\* Restart, shutdown and every play or stop come back to the main loop: the
\* worker they wait for sees the cancellation wherever it is.
StopReturns == (main = "join") ~> (main = "loop")

\* A sound that has ended does not stay on the screen as playing, nor does the
\* screen keep messages it has not left: what it ended with comes to be shown.
ShownCatchesUp ==
  (~playing) ~>
    (playing \/ (~shown /\ shownError = error /\ shownTitle = title))
=============================================================================
