---------------------------- MODULE ThreeStrikes ----------------------------
(***************************************************************************)
(* What the launcher promises, without the counter file: AWTRIX gets at    *)
(* most Limit starts in a row that were not healthy, then the vendor       *)
(* application runs and the count starts again.  A healthy start, a        *)
(* factory reset and a vendor run chosen with the knob forget the strikes. *)
(* Nothing is promised any more once the power fails, a launcher is killed *)
(* or the clock is impaired.                                               *)
(***************************************************************************)
EXTENDS Naturals

CONSTANT Limit

VARIABLES phase, strikes

vars == <<phase, strikes>>

Init == phase \in {"idle", "void"} /\ strikes = 0

Count ==
  /\ phase = "idle"
  /\ strikes <= Limit
  /\ phase' = "starting"
  /\ strikes' = strikes + 1

HandOver ==
  /\ phase = "starting"
  /\ strikes <= Limit
  /\ phase' = "awtrix"
  /\ UNCHANGED strikes

FallBack ==
  /\ phase = "starting"
  /\ strikes > Limit
  /\ phase' = "vendor"
  /\ strikes' = 0

\* The knob was held.
Recover ==
  /\ phase = "idle"
  /\ phase' = "vendor"
  /\ strikes' = 0

\* AWTRIX could not be executed: the strike stays.
CannotHandOver ==
  /\ phase = "starting"
  /\ strikes <= Limit
  /\ phase' = "vendor"
  /\ UNCHANGED strikes

\* Or the counter was removed with the user's data.
Healthy ==
  /\ phase = "awtrix"
  /\ strikes' = 0
  /\ UNCHANGED phase

Ends ==
  /\ phase \in {"awtrix", "vendor"}
  /\ phase' = "idle"
  /\ UNCHANGED strikes

Void == phase' = "void" /\ strikes' = 0

Next ==
  \/ Count \/ HandOver \/ FallBack \/ Recover \/ CannotHandOver \/ Healthy \/ Ends
  \/ Void

Spec == Init /\ [][Next]_vars
=============================================================================
