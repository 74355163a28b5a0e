----------------------------- MODULE AudioProofs -----------------------------
(***************************************************************************)
(* Proofs about the speaker, for any number of launches and any rates.     *)
(*                                                                         *)
(* All of it rests on one fact the code has no name for: of all threads    *)
(* ever started only the latest can be alive, and between a join and the   *)
(* next launch none is (OneThread).  From it the driver has one user, and  *)
(* playing_ and the messages can be left without any further protection.   *)
(***************************************************************************)
EXTENDS Audio, TLAPS

OneThread ==
  /\ \A l \in Launches : l < latest => worker[l] = "joined"
  /\ \A l \in Launches : l > latest => worker[l] = "none"
  /\ \A l \in Launches : l = latest => worker[l] # "none"
  /\ main = "launch" =>
       \A l \in Launches : l = latest => worker[l] = "joined"
  /\ main \in {"join", "launch"} /\ target # "idle" => latest < MaxLaunches
  /\ main = "launch" => target # "idle"

\* The driver is open only while the latest thread is between its first
\* configure and its closeOutput.
DriverFollowsThread ==
  rate # 0 => \E l \in Launches :
    l = latest /\ worker[l] \in {"decode", "configure", "send", "close"}

\* Only the end of the thread and a join after it reset playing_.
NotPlayingIsOver ==
  ~playing => \A l \in Launches : l = latest => worker[l] \notin Running

AliveIsPlaying ==
  playing => \E l \in Launches : l = latest /\ worker[l] \in Running

\* The strings behind the mutex are those of the thread that may write them.
StoredAreCurrent == error \in {0, latest} /\ title \in {0, latest}

IInv ==
  /\ TypeOK
  /\ OneThread
  /\ DriverFollowsThread
  /\ NotPlayingIsOver
  /\ AliveIsPlaying
  /\ StoredAreCurrent

-----------------------------------------------------------------------------
LEMMA InitInductive == Init => IInv
<1> SUFFICES ASSUME Init PROVE IInv
  OBVIOUS
<1> USE AudioAssumption DEF Init, Launches
<1>1. TypeOK
  <2>1. worker \in [Launches -> Running \cup {"none", "ended", "joined"}]
    OBVIOUS
  <2>2. /\ error \in 0..MaxLaunches /\ title \in 0..MaxLaunches
        /\ latest \in 0..MaxLaunches /\ rate \in Rates \cup {0}
    OBVIOUS
  <2>3. /\ playing \in BOOLEAN /\ cancel \in BOOLEAN
        /\ seen \in BOOLEAN /\ shown \in BOOLEAN
    OBVIOUS
  <2>3a. {shownError, shownTitle, announced} \subseteq 0..MaxLaunches
    OBVIOUS
  <2>4. /\ main \in {"loop", "join", "launch", "publish"}
        /\ target \in Modes \cup {"idle"} /\ mode \in Modes \cup {"idle"}
    OBVIOUS
  <2>5. QED
    BY <2>1, <2>2, <2>3, <2>3a, <2>4 DEF TypeOK
<1>2. OneThread
  BY DEF OneThread
<1>3. DriverFollowsThread
  BY DEF DriverFollowsThread
<1>4. NotPlayingIsOver
  BY DEF NotPlayingIsOver, Running
<1>5. AliveIsPlaying
  BY DEF AliveIsPlaying
<1>6. StoredAreCurrent
  BY DEF StoredAreCurrent
<1>7. QED
  BY <1>1, <1>2, <1>3, <1>4, <1>5, <1>6 DEF IInv

\* The main thread's steps keep the invariant.
LEMMA MainKeeps == IInv /\ Main => IInv'
<1> SUFFICES ASSUME IInv, Main PROVE IInv'
  OBVIOUS
<1> USE AudioAssumption DEF IInv, TypeOK, Launches, Modes, shared, messages,
        ui, published
<1>1. ASSUME NEW for \in Modes \cup {"idle"}, StopAll(for),
             for = "idle" \/ latest < MaxLaunches
      PROVE  IInv'
  BY <1>1 DEF StopAll, OneThread, DriverFollowsThread, NotPlayingIsOver,
     AliveIsPlaying, StoredAreCurrent
<1>2. CASE Join
  <2>1. /\ main = "join" /\ playing' = FALSE /\ mode' = "idle"
        /\ main' = IF target = "idle" THEN "loop" ELSE "launch"
        /\ worker' = [l \in Launches |-> IF l = latest THEN "joined"
                                                       ELSE worker[l]]
        /\ \A l \in Launches : l = latest => worker[l] \in {"ended", "joined"}
        /\ UNCHANGED <<target, cancel, error, title, latest, rate, ui>>
    BY <1>2 DEF Join
  <2>2. TypeOK'
    BY <2>1
  <2>3. OneThread'
    BY <2>1 DEF OneThread
  <2>4. rate = 0
    BY <2>1 DEF DriverFollowsThread
  <2>5. (DriverFollowsThread /\ NotPlayingIsOver /\ AliveIsPlaying
         /\ StoredAreCurrent)'
    BY <2>1, <2>4 DEF DriverFollowsThread, NotPlayingIsOver, AliveIsPlaying,
       StoredAreCurrent, Running
  <2>6. QED
    BY <2>2, <2>3, <2>5
<1>3. CASE Launch
  <2>1. latest < MaxLaunches /\ latest + 1 \in Launches /\ target \in Modes
    BY <1>3 DEF Launch, OneThread
  <2>2. rate = 0
    BY <1>3 DEF Launch, OneThread, DriverFollowsThread
  <2>3. /\ worker' = [worker EXCEPT ![latest + 1] = "setup"]
        /\ latest' = latest + 1 /\ playing' = TRUE /\ main' = "loop"
        /\ error' = 0 /\ title' = 0 /\ rate' = 0 /\ main = "launch"
    BY <1>3, <2>2 DEF Launch
  <2>4. TypeOK'
    <3>1. worker' \in [Launches -> Running \cup {"none", "ended", "joined"}]
      BY <2>1, <2>3 DEF Running
    <3>2. /\ error' \in 0..MaxLaunches /\ title' \in 0..MaxLaunches
          /\ latest' \in 0..MaxLaunches /\ rate' \in Rates \cup {0}
      BY <2>1, <2>3
    <3>3. UNCHANGED <<target, ui>> /\ mode' = target /\ cancel' = FALSE
      BY <1>3 DEF Launch
    <3>4. QED
      BY <2>1, <2>3, <3>1, <3>2, <3>3
  <2>5. OneThread'
    BY <2>1, <2>3 DEF OneThread
  <2>6. (DriverFollowsThread /\ NotPlayingIsOver /\ StoredAreCurrent)'
    BY <2>1, <2>3 DEF DriverFollowsThread, NotPlayingIsOver, StoredAreCurrent
  <2>7. AliveIsPlaying'
    BY <2>1, <2>3 DEF AliveIsPlaying, Running
  <2>8. QED
    BY <2>4, <2>5, <2>6, <2>7
<1>4. CASE TickRead \/ TickPublish
  <2>1. /\ UNCHANGED <<target, mode, playing, cancel, error, title, latest,
                       worker, rate>>
        /\ main' \in {"loop", "publish"}
    BY <1>4 DEF TickRead, TickPublish, Publish
  <2>2. /\ seen' \in BOOLEAN /\ shown' \in BOOLEAN
        /\ {shownError', shownTitle', announced'} \subseteq 0..MaxLaunches
    BY <1>4 DEF TickRead, TickPublish, Publish, Announce
  <2>3. QED
    BY <2>1, <2>2 DEF OneThread, DriverFollowsThread, NotPlayingIsOver,
       AliveIsPlaying, StoredAreCurrent
<1>5. ASSUME NEW m \in Modes, Play(m) \/ StopOwn(m)
      PROVE  IInv'
  BY <1>1, <1>5 DEF Play, StopOwn
<1>6. CASE Shutdown
  BY <1>1, <1>6 DEF Shutdown
<1>7. QED
  BY <1>2, <1>3, <1>4, <1>5, <1>6 DEF Main

\* What every step of a worker has in common: a thread that moves is the
\* latest one.
LEMMA MovingIsLatest ==
  ASSUME OneThread, TypeOK, NEW l \in Launches, worker[l] \in Running
  PROVE  l = latest
  BY DEF OneThread, TypeOK, Launches, Running

\* A worker's steps keep the invariant.
LEMMA WorkerKeeps ==
  ASSUME IInv, NEW l \in Launches, Worker(l)
  PROVE  IInv'
<1> USE AudioAssumption DEF IInv, TypeOK, Launches, Modes, shared, messages, ui,
        published
<1>1. worker[l] \in Running /\ UNCHANGED <<main, target, mode, cancel, latest, ui>>
  BY DEF Worker, SetupDone, SetupFails, StopDecoding, NewTitle, Decode,
     Configure, ConfigureFails, Send, SendFails, CloseOutput, Finish, Goto,
     Running
<1>2. l = latest
  BY <1>1, MovingIsLatest
<1>3. PICK to \in Running \cup {"ended"} :
        worker' = [worker EXCEPT ![l] = to]
  <2>1. CASE NewTitle(l)
    <3>1. worker' = [worker EXCEPT ![l] = worker[l]]
      BY <2>1 DEF NewTitle
    <3>2. QED
      BY <1>1, <3>1
  <2>2. CASE ~NewTitle(l)
    BY <2>2 DEF Worker, SetupDone, SetupFails, StopDecoding, Decode, Configure,
       ConfigureFails, Send, SendFails, CloseOutput, Finish, Goto, Running
  <2>3. QED
    BY <2>1, <2>2
<1>4. main # "launch" /\ playing
  BY <1>1, <1>2 DEF OneThread, NotPlayingIsOver, Running
<1>5. /\ worker'[l] = to
      /\ \A k \in Launches : k # l => worker'[k] = worker[k]
  BY <1>3
<1>6. OneThread'
  BY <1>1, <1>2, <1>4, <1>5 DEF OneThread, Running
<1>7. StoredAreCurrent' /\ error' \in 0..MaxLaunches /\ title' \in 0..MaxLaunches
  <2>1. error' \in {error, l} /\ title' \in {title, l}
    BY DEF Worker, SetupDone, SetupFails, StopDecoding, NewTitle, Decode,
       Configure, ConfigureFails, Send, SendFails, CloseOutput, Finish, Fail
  <2>2. QED
    BY <1>1, <1>2, <2>1 DEF StoredAreCurrent
<1>8. rate' \in Rates \cup {0} /\ playing' \in BOOLEAN
  BY DEF Worker, SetupDone, SetupFails, StopDecoding, NewTitle, Decode,
     Configure, ConfigureFails, Send, SendFails, CloseOutput, Finish
<1>9. DriverFollowsThread'
  <2>1. CASE rate' = 0
    BY <2>1 DEF DriverFollowsThread
  <2>2. CASE rate' # 0
    <3>1. worker[l] # "end"
      BY <1>2, <2>2 DEF DriverFollowsThread, Worker, SetupDone, SetupFails,
         StopDecoding, NewTitle, Decode, Configure, ConfigureFails, Send,
         SendFails, CloseOutput, Finish, Goto
    <3>2. worker'[l] \in {"decode", "configure", "send", "close"}
      BY <2>2, <3>1 DEF Worker, SetupDone, SetupFails, StopDecoding, NewTitle,
         Decode, Configure, ConfigureFails, Send, SendFails, CloseOutput,
         Finish, Goto
    <3>3. QED
      BY <1>1, <1>2, <3>2 DEF DriverFollowsThread
  <2>3. QED
    BY <2>1, <2>2
<1>10. NotPlayingIsOver' /\ AliveIsPlaying'
  <2>1. CASE Finish(l)
    <3>1. playing' = FALSE /\ worker'[l] = "ended"
      BY <2>1 DEF Finish, Goto
    <3>2. QED
      BY <1>1, <1>2, <3>1 DEF NotPlayingIsOver, AliveIsPlaying, Running
  <2>2. CASE ~Finish(l)
    <3>1. playing' = playing /\ worker'[l] \in Running
      BY <1>1, <2>2 DEF Worker, SetupDone, SetupFails, StopDecoding, NewTitle,
         Decode, Configure, ConfigureFails, Send, SendFails, CloseOutput,
         Goto, Running
    <3>2. QED
      BY <1>1, <1>2, <1>4, <3>1 DEF NotPlayingIsOver, AliveIsPlaying
  <2>3. QED
    BY <2>1, <2>2
<1>11. TypeOK'
  BY <1>1, <1>3, <1>7, <1>8
<1>12. QED
  BY <1>6, <1>7, <1>9, <1>10, <1>11

LEMMA Inductive == Spec => []IInv
<1>1. IInv /\ [Next]_vars => IInv'
  <2> SUFFICES ASSUME IInv, [Next]_vars PROVE IInv'
    OBVIOUS
  <2>1. CASE UNCHANGED vars
    BY <2>1 DEF vars, shared, messages, ui, published, IInv, TypeOK, OneThread,
       DriverFollowsThread, NotPlayingIsOver, AliveIsPlaying, StoredAreCurrent
  <2>2. CASE Main
    BY <2>2, MainKeeps
  <2>3. ASSUME NEW l \in Launches, Worker(l)
        PROVE  IInv'
    BY <2>3, WorkerKeeps
  <2>4. QED
    BY <2>1, <2>2, <2>3 DEF Next
<1>2. QED
  BY <1>1, InitInductive, PTL DEF Spec

-----------------------------------------------------------------------------
\* The speaker's variables have their types.
THEOREM TypeCorrect == Spec => []TypeOK
<1>1. IInv => TypeOK
  BY DEF IInv
<1>2. QED
  BY <1>1, Inductive, PTL

\* The driver has at most one user at a time.
THEOREM Exclusive == Spec => []SpeakerExclusive
<1>1. IInv => SpeakerExclusive
  <2> SUFFICES ASSUME IInv, NEW k \in Launches, NEW l \in Launches,
                      worker[k] \in OnDriver, worker[l] \in OnDriver
               PROVE  k = l
    BY DEF SpeakerExclusive
  <2>1. worker[k] \in Running /\ worker[l] \in Running
    BY DEF OnDriver, Running
  <2>2. QED
    BY <2>1, MovingIsLatest DEF IInv
<1>2. QED
  BY <1>1, Inductive, PTL

\* What is reported as playing is the latest launch, and it is alive; when
\* nothing is reported the driver is closed.
THEOREM PlayingTrue == Spec => []PlayingIsTrue
<1>1. IInv => PlayingIsTrue
  <2> SUFFICES ASSUME IInv PROVE PlayingIsTrue
    OBVIOUS
  <2>1. playing => latest > 0 /\ worker[latest] \in Running
    BY DEF IInv, AliveIsPlaying, TypeOK, Launches
  <2>2. ~playing => rate = 0
    BY DEF IInv, DriverFollowsThread, NotPlayingIsOver, Running
  <2> QED
    BY <2>1, <2>2 DEF PlayingIsTrue
<1>2. QED
  BY <1>1, Inductive, PTL

\* No message of an older playback is published as one of the latest.
THEOREM MessagesCurrent == Spec => MessagesAreCurrent
<1>1. IInv => [TickPublish =>
                 /\ {shownError', shownTitle'} \subseteq {0, latest}
                 /\ announced' \in {announced, latest}]_vars
  BY DEF IInv, StoredAreCurrent, TickPublish, Publish, Announce
<1>2. QED
  BY <1>1, Inductive, PTL DEF MessagesAreCurrent
=============================================================================
