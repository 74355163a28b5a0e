------------------------- MODULE BootGuardRefinement -------------------------
(***************************************************************************)
(* The launcher and its counter file implement ThreeStrikes as long as the *)
(* power stays on, no launcher is killed and the clock is not impaired.  A *)
(* start is counted when its number is in the file; until then the old     *)
(* count stands.                                                           *)
(***************************************************************************)
EXTENDS BootGuard

Disturbed == impaired \/ cuts > 0

PhaseNow ==
  IF start = "trial" /\ pc \notin {"off", "spawn"} THEN "idle"
  ELSE CASE pc \in {"off", "spawn", "open", "write"} -> "idle"
         [] pc \in {"decide", "radio"} ->
              IF start = "counted" THEN "starting" ELSE "idle"
         [] pc \in {"app", "loop", "healthy"} -> "awtrix"
         [] OTHER -> pc

StrikesNow == IF pc = "write" THEN attempts - 1 ELSE ReadBootAttempts(file)

PhaseOf == IF Disturbed THEN "void" ELSE PhaseNow
StrikesOf == IF Disturbed THEN 0 ELSE StrikesNow

Promise == INSTANCE ThreeStrikes
  WITH Limit <- AttemptLimit, phase <- PhaseOf, strikes <- StrikesOf

\* The launcher, its counter file and the application's acknowledgement take
\* no step the three-strikes promise does not allow.
ImplementsPromise == Promise!Spec
=============================================================================
