------------------------------ MODULE ScriptHttp ------------------------------
(***************************************************************************)
(* HTTP and Modbus requests of scripts (tc002/Tc002ScriptHttp.h).  The     *)
(* main thread asks; a detached thread per request talks to the server and *)
(* pushes one result into the script host's queue, which the main thread   *)
(* empties.                                                                *)
(***************************************************************************)
EXTENDS Integers, Sequences, FiniteSets

CONSTANTS
  MaxRequests,  \* bound: requests in a behaviour
  MaxPending    \* kMaxPending

ScriptHttpAssumption == MaxRequests \in Nat /\ MaxPending \in Nat \ {0}

VARIABLES
  asked,     \* requests made
  thread,    \* of each request: "none", "refused", "talking", "counted", "pushed"
  kind,      \* "http" or "modbus"
  filter,    \* the body filter: "reading", or "done" when it needs no more
  came,      \* history: what came of the response: "nothing", "part", "enough"
             \*   for the filter, "all"
  ok,        \* r.ok
  pending,   \* pending_
  queue,     \* results pushed, not handled yet
  handled    \* history: requests whose script got a result, in order

exchange == <<filter, came, ok>>
vars == <<asked, thread, kind, exchange, pending, queue, handled>>

Ids == 1..MaxRequests
Talking == {r \in Ids : thread[r] = "talking"}

-----------------------------------------------------------------------------
Room == pending < MaxPending

\* request.  One that cannot be made is refused: no server named, a Modbus
\* request that is not a read.
Request ==
  LET r == asked + 1
  IN  /\ asked < MaxRequests
      /\ asked' = r
      /\ \/ /\ thread' = [thread EXCEPT ![r] = "refused"]
            /\ UNCHANGED <<kind, pending>>
         \/ /\ Room
            /\ thread' = [thread EXCEPT ![r] = "talking"]
            /\ \E k \in {"http", "modbus"} : kind' = [kind EXCEPT ![r] = k]
            /\ pending' = pending + 1
      /\ UNCHANGED <<exchange, queue, handled>>

\* The status line, then the body, which is fed to the filter as it comes.  The
\* filter ends the transfer when it has found what it looks for.
Begins(r) ==
  /\ r \in Talking /\ kind[r] = "http" /\ came[r] = "nothing"
  /\ came' = [came EXCEPT ![r] = "part"]
  /\ UNCHANGED <<asked, thread, kind, filter, ok, pending, queue, handled>>

FilterDone(r) ==
  /\ r \in Talking /\ came[r] = "part" /\ filter[r] = "reading"
  /\ filter' = [filter EXCEPT ![r] = "done"]
  /\ came' = [came EXCEPT ![r] = "enough"]
  /\ UNCHANGED <<asked, thread, kind, ok, pending, queue, handled>>

\* Variant: a response with a status counts, however little of it came.
UsableByStatus(r, whole) == whole \/ came[r] # "nothing"

\* The exchange ended well, or the filter ended it after the status had come.
Usable(r, whole) == whole \/ (came[r] # "nothing" /\ filter[r] = "done")

\* The exchange ends, with the whole response, stopped by the filter, by an
\* error or by a timeout.  What came may not match or not fit.
ExchangeEnds(r) ==
  /\ r \in Talking
  /\ \E whole \in BOOLEAN, fits \in BOOLEAN :
       /\ whole => kind[r] = "modbus" \/ came[r] = "part"
       /\ came' = IF whole THEN [came EXCEPT ![r] = "all"] ELSE came
       /\ ok' = [ok EXCEPT ![r] = Usable(r, whole) /\ fits]
       /\ pending' = pending - 1
  /\ thread' = [thread EXCEPT ![r] = "counted"]
  /\ UNCHANGED <<asked, kind, filter, queue, handled>>

\* onResult_, after pending_ was counted down.
Push(r) ==
  /\ thread[r] = "counted"
  /\ thread' = [thread EXCEPT ![r] = "pushed"]
  /\ queue' = Append(queue, r)
  /\ UNCHANGED <<asked, kind, exchange, pending, handled>>

\* The script host's tick.
Handle ==
  /\ queue # <<>>
  /\ handled' = Append(handled, Head(queue))
  /\ queue' = Tail(queue)
  /\ UNCHANGED <<asked, thread, kind, exchange, pending>>

Init ==
  /\ asked = 0
  /\ thread = [r \in Ids |-> "none"]
  /\ kind = [r \in Ids |-> "http"]
  /\ filter = [r \in Ids |-> "reading"]
  /\ came = [r \in Ids |-> "nothing"]
  /\ ok = [r \in Ids |-> FALSE]
  /\ pending = 0
  /\ queue = <<>> /\ handled = <<>>

Next ==
  \/ Request \/ Handle
  \/ \E r \in Ids : Begins(r) \/ FilterDone(r) \/ ExchangeEnds(r) \/ Push(r)

Spec == Init /\ [][Next]_vars

-----------------------------------------------------------------------------
TypeOK ==
  /\ asked \in 0..MaxRequests
  /\ thread \in [Ids -> {"none", "refused", "talking", "counted", "pushed"}]
  /\ kind \in [Ids -> {"http", "modbus"}]
  /\ filter \in [Ids -> {"reading", "done"}]
  /\ came \in [Ids -> {"nothing", "part", "enough", "all"}]
  /\ ok \in [Ids -> BOOLEAN]
  /\ pending \in 0..MaxPending
  /\ queue \in Seq(Ids) /\ handled \in Seq(Ids)

\* pending_ is the number of exchanges under way, so that requests are refused
\* only as long as there are that many.
PendingIsLive == pending = Cardinality(Talking)

\* Of a response that is broken off no script gets a part for the whole: a
\* result is only good when all of the response came, or all the filter needs.
GoodIsComplete == \A r \in Ids : ok[r] => came[r] \in {"enough", "all"}

\* A thread that has ended has left one result.
OneResult ==
  \A r \in Ids : Cardinality({i \in DOMAIN (queue \o handled) : (queue \o handled)[i] = r})
               = IF thread[r] = "pushed" THEN 1 ELSE 0

\* Whatever becomes of an exchange, its script gets one result, good only if
\* complete, and the room it took is given back.
ResultsAreHonest == PendingIsLive /\ GoodIsComplete /\ OneResult
=============================================================================
