------------------------------- MODULE Controls -------------------------------
(***************************************************************************)
(* The -/+ rocker and the knob's key (tc002/Tc002Periphery.cpp).  The loop *)
(* samples the keys once per frame, debounces the samples and makes        *)
(* gestures of them: a short push of the rocker is one step of the volume, *)
(* when it is released, a long one is steps of the brightness while it     *)
(* lasts, and two pushes of the knob switch the panel.  Frames are not     *)
(* even: uploads and icons hold the loop up.                               *)
(*                                                                         *)
(* A time stamp is kept as its age, as far as the code can tell ages       *)
(* apart.  Detents of the knob become commands at once and keep no state.  *)
(***************************************************************************)
EXTENDS Integers, FiniteSetsExt

CONSTANTS
  Debounce,  \* kDebounceMs
  Hold,      \* 700 ms
  Repeat,    \* 200 ms
  Double,    \* kDoublePressMs
  MaxGap     \* bound: time from one frame to the next

ControlsAssumption == {Debounce, Hold, Repeat, Double, MaxGap} \subseteq Nat \ {0}

Rocker == {0, 1}   \* left, right
Knob == 2          \* select
Keys == Rocker \cup {Knob}

VARIABLES
  raw,         \* raw_
  rawAge,      \* of rawChangeMs_
  stable,      \* stable_ (and prev_, which follows it within the tick)
  pressedAge,  \* of controlPressedMs_
  repeatAge,   \* of controlRepeatMs_
  long,        \* controlLong_
  edgeAge,     \* of lastSelectEdgeMs_
  feedback,    \* now < volumeFeedbackUntilMs_
  panel,       \* ~matrixOff
  gesture,     \* history: what the push of a key did, and no more than twice
  pushed,      \* history: age of the first sample of the push
  span,        \* history: how long the samples say it was pushed
  shown        \* history: what was changed last

code == <<raw, rawAge, stable, pressedAge, repeatAge, long, edgeAge, feedback, panel>>
vars == <<code, gesture, pushed, span, shown>>

Older(age, d, cap) == Min({age + d, cap})

\* The debounce lambda, on every key.
Sample(d, sample) ==
  /\ raw' = sample
  /\ rawAge' = [k \in Keys |->
       IF sample[k] # raw[k] THEN 0 ELSE Older(rawAge[k], d, Debounce)]
  /\ stable' = [k \in Keys |-> IF rawAge'[k] >= Debounce THEN sample[k] ELSE stable[k]]

Pressed(k) == stable'[k] /\ ~stable[k]
Released(k) == ~stable'[k] /\ stable[k]

\* Variant: a push begins with what is left of the one before.
WasLongForever(k) == long[k]

\* controlLong_ as the conditions of this tick see it: a new push clears it.
WasLong(k) == long[k] /\ ~Pressed(k)

\* The hold or one of its repetitions is due.
Dims(k, d) ==
  /\ stable'[k]
  /\ pressedAge'[k] >= Hold
  /\ ~WasLong(k) \/ Older(repeatAge[k], d, Repeat) >= Repeat

Taps(k) == Released(k) /\ ~WasLong(k)

\* adjustControl, left key first: the later one decides what is shown.  The
\* feedback runs out at a time of its own.
AdjustControl(d) ==
  LET acts == {k \in Rocker : Dims(k, d) \/ Taps(k)}
  IN  IF acts = {}
        THEN feedback' \in {FALSE, feedback} /\ UNCHANGED shown
        ELSE /\ feedback' = Taps(Max(acts))
             /\ shown' = IF Taps(Max(acts)) THEN "volume" ELSE "brightness"

\* The loop over the two keys of the rocker.
RockerKeys(d) ==
  /\ pressedAge' = [k \in Rocker |-> IF Pressed(k) THEN 0 ELSE Older(pressedAge[k], d, Hold)]
  /\ repeatAge' = [k \in Rocker |-> IF Dims(k, d) THEN 0 ELSE Older(repeatAge[k], d, Repeat)]
  /\ long' = [k \in Rocker |-> Dims(k, d) \/ WasLong(k)]
  /\ AdjustControl(d)

\* The knob's key.  A script may claim a push; one it does not claim switches
\* the panel if another came shortly before, unless navigation is blocked.
SelectKey(d) ==
  LET age == Older(edgeAge, d, Double + 1)
  IN  \/ ~Pressed(Knob) /\ edgeAge' = age /\ UNCHANGED panel
      \/ /\ Pressed(Knob)
         /\ \E took, blocked \in BOOLEAN :
              /\ edgeAge' = IF took THEN age ELSE 0
              /\ panel' = IF ~took /\ ~blocked /\ age <= Double THEN ~panel ELSE panel

\* What the properties look at.
History(d) ==
  /\ gesture' = [k \in Rocker |->
       LET g == IF Pressed(k) THEN [taps |-> 0, dims |-> 0] ELSE gesture[k]
       IN  [taps |-> IF Taps(k) THEN Older(g.taps, 1, 2) ELSE g.taps,
            dims |-> IF Dims(k, d) THEN Older(g.dims, 1, 2) ELSE g.dims]]
  /\ pushed' = [k \in Rocker |->
       IF raw'[k] /\ ~raw[k] /\ ~stable[k] THEN 0
       ELSE IF ~raw'[k] /\ ~stable'[k] THEN 0 ELSE Older(pushed[k], d, Hold + Debounce)]
  /\ span' = [k \in Rocker |-> IF raw'[k] \/ raw[k] THEN pushed'[k] ELSE span[k]]

Tick ==
  \E d \in 1..MaxGap, sample \in [Keys -> BOOLEAN] :
    /\ Sample(d, sample)
    /\ RockerKeys(d)
    /\ SelectKey(d)
    /\ History(d)

Init ==
  /\ raw = [k \in Keys |-> FALSE] /\ rawAge = [k \in Keys |-> Debounce]
  /\ stable = [k \in Keys |-> FALSE]
  /\ pressedAge = [k \in Rocker |-> Hold] /\ repeatAge = [k \in Rocker |-> Repeat]
  /\ long = [k \in Rocker |-> FALSE]
  /\ edgeAge = Double + 1 /\ feedback = FALSE /\ panel = TRUE
  /\ gesture = [k \in Rocker |-> [taps |-> 1, dims |-> 0]]
  /\ pushed = [k \in Rocker |-> 0] /\ span = [k \in Rocker |-> 0]
  /\ shown = "nothing"

Next == Tick

Spec == Init /\ [][Next]_vars

-----------------------------------------------------------------------------
TypeOK ==
  /\ {raw, stable} \subseteq [Keys -> BOOLEAN] /\ rawAge \in [Keys -> 0..Debounce]
  /\ pressedAge \in [Rocker -> 0..Hold] /\ repeatAge \in [Rocker -> 0..Repeat]
  /\ long \in [Rocker -> BOOLEAN] /\ {feedback, panel} \subseteq BOOLEAN
  /\ edgeAge \in 0..Double + 1
  /\ gesture \in [Rocker -> [taps : 0..2, dims : 0..2]]
  /\ {pushed, span} \subseteq [Rocker -> 0..Hold + Debounce]
  /\ shown \in {"nothing", "volume", "brightness"}

\* WORKLOG, "Long releases do not also adjust volume": a push, however it
\* bounces and whenever the frames fall, does one step of the volume and nothing
\* else, or nothing but steps of the brightness and those only if the samples
\* say it lasted as long as a hold: the debouncing of its end, which makes it
\* look longer, is outweighed by that of its beginning.
OneGesture ==
  \A k \in Rocker :
    IF stable[k]
      THEN gesture[k].taps = 0 /\ (gesture[k].dims > 0 => span[k] >= Hold)
      ELSE gesture[k].taps = (IF gesture[k].dims = 0 THEN 1 ELSE 0)

\* The volume is shown when it was the last thing that was changed, also when
\* both keys are at work.
FeedbackIsVolume == feedback => shown = "volume"

GesturesAreDistinct == OneGesture /\ FeedbackIsVolume
=============================================================================
