-------------------------------- MODULE NtpTime --------------------------------
(***************************************************************************)
(* What syncTime of tc002/Tc002System.cpp makes of a time server's reply.  *)
(* Timestamps of the protocol count seconds since 1900, modulo an era;     *)
(* the clock counts from 1970, in as many seconds as its time_t holds.     *)
(***************************************************************************)
EXTENDS Integers

CONSTANTS
  Era,       \* seconds of an era: 2^32
  Epoch,     \* 1970 in the protocol's seconds: 2208988800
  MaxTime,   \* the first second time_t does not hold: 2^31
  Fraction,  \* parts of a second in a timestamp: 2^32
  Micro      \* parts of a second for the clock: 1000000

NtpAssumption ==
  /\ {Era, Epoch, MaxTime, Fraction, Micro} \subseteq Nat
  /\ 0 < Epoch /\ Epoch < Era /\ 0 < MaxTime /\ MaxTime <= Era
  /\ 0 < Micro /\ Micro <= Fraction

\* A time of the clock on the wire, as in the request's transmit timestamp.
Stamp(time) ==
  [seconds |-> (time.seconds + Epoch) % Era,
   fraction |-> (time.micro * Fraction) \div Micro]

\* Of a reply: it is a server's that is synchronised, and answers this request.
Accepted(reply, request) ==
  /\ reply.mode = 4 /\ reply.leap # 3
  /\ reply.stratum \in 1..15
  /\ reply.origin = request

\* Variant: the era is the one of 1970.
FirstEra(seconds) == seconds - Epoch

\* Seconds before 1970 are of the next era.
SinceEpoch(seconds) == (IF seconds < Epoch THEN seconds + Era ELSE seconds) - Epoch

\* The clock as settimeofday leaves it, which takes no seconds that wrapped.
Set(reply, request, time) ==
  IF Accepted(reply, request) /\ SinceEpoch(reply.transmit.seconds) < MaxTime
    THEN [seconds |-> SinceEpoch(reply.transmit.seconds),
          micro |-> (reply.transmit.fraction * Micro) \div Fraction]
    ELSE time

-----------------------------------------------------------------------------
\* A server's time comes through, in this era of the protocol and the next,
\* to the microsecond, as long as the clock can hold it; otherwise, and
\* whenever the reply is not to be trusted, the clock keeps its time.
TimeIsRight(truth, reply, request, time) ==
  LET result == Set([reply EXCEPT !.transmit = Stamp(truth)], request, time)
  IN  IF Accepted(reply, request) /\ truth.seconds < MaxTime
        THEN /\ result.seconds = truth.seconds
             /\ truth.micro - result.micro \in {0, 1} /\ result.micro >= 0
        ELSE result = time
=============================================================================
