------------------------------ MODULE WifiService ------------------------------
(***************************************************************************)
(* The network worker of tc002/Tc002System.cpp: it watches the association *)
(* of wlan0, asks for a lease, opens and closes the access point, scans on *)
(* request and ends when the application stops.  How it hands a network to *)
(* the supplicant is WpaControl's subject; here the supplicant is up and   *)
(* answers.                                                                *)
(*                                                                         *)
(* A round of the worker is the unit of time, a second in the code or more *)
(* when something in it blocks.                                            *)
(***************************************************************************)
EXTENDS Integers

CONSTANTS
  Networks,        \* networks the supplicant may associate with
  FirstThreshold,  \* apThreshold at first: 90 rounds without association
  NextThreshold,   \* apThreshold once the access point was dropped: 30
  ApTime,          \* apRetryDue: the access point is dropped after 120
  LeaseTime,       \* dhcpDue: a lease is renewed after 1800
  ScanTime,        \* scanDue: results are fetched 3 rounds after SCAN
  JoinTime,        \* rounds with a free radio that association takes at most
  MaxMoves,        \* bound: changes of the networks in range or associated with
  MaxScans         \* bound: scans that are asked for

ASSUME WifiAssumption ==
  /\ Networks # {} /\ "" \notin Networks
  /\ {FirstThreshold, NextThreshold, LeaseTime, ScanTime, JoinTime} \subseteq Nat \ {0}
  /\ ApTime \in Nat \ {0, 1}
  /\ {MaxMoves, MaxScans} \subseteq Nat

VARIABLES
  pc,          \* "status", "dhcp", "child", "access", "scan", "rest", "close", "done"
  stop,        \* stop_
  configured,
  apMode,
  connected, was, initial, changed,   \* connected, wasConnected, initial and
               \*   networkChanged of the worker
  dhcpDue, alone, threshold, retryDue,  \* dhcpDue, disconnectedSeconds,
               \*   apThreshold and apRetryDue, as far as they matter
  requested,   \* scanRequested
  scanDue,
  asked, scanFor, shown,  \* history: the last scan asked for, the one SCAN was
               \*   sent for, and the one whose results wifiScan returns
  joined,      \* the network wlan0 is associated with, "" for none
  reach,       \* networks in range
  joining,     \* rounds the radio was free with a network in range
  radioAp,     \* the radio is an access point
  lease,       \* the network the address is from, "" for none
  moves

flags == <<configured, connected, was, initial, changed>>
counters == <<dhcpDue, alone, threshold, retryDue>>
scanning == <<requested, scanDue, asked, scanFor, shown>>
association == <<joined, reach, joining, moves>>
vars == <<pc, stop, apMode, flags, counters, scanning, association, radioAp, lease>>

Goto(from, to) == pc = from /\ pc' = to

-----------------------------------------------------------------------------
(* A round of the worker                                                   *)

\* STATUS, and setNetwork as long as it has not succeeded.
Status ==
  /\ Goto("status", "dhcp")
  /\ connected' = (joined # "")
  /\ changed' = (changed \/ ~configured)
  /\ configured' \in {configured, TRUE}
  /\ UNCHANGED <<stop, apMode, was, initial, counters, scanning, association, radioAp,
                 lease>>

\* Variant: only a new association is a reason to ask.
LeaseDueOnce == connected /\ ~was

LeaseDue == connected /\ (~was \/ dhcpDue <= 0)

\* A lease that is there at the start is kept.
MustAsk == ~initial \/ changed \/ lease = ""

LeaseSeenTo == initial' = FALSE /\ changed' = FALSE /\ dhcpDue' = LeaseTime

KeepLease ==
  /\ ~(LeaseDue /\ MustAsk)
  /\ Goto("dhcp", "access")
  /\ IF LeaseDue THEN LeaseSeenTo ELSE UNCHANGED <<initial, changed, dhcpDue>>
  /\ UNCHANGED <<stop, configured, apMode, connected, was, alone, threshold, retryDue,
                 scanning, association, radioAp, lease>>

\* boundedDhcp: a child process asks for the lease.
AskLease ==
  /\ LeaseDue /\ MustAsk
  /\ Goto("dhcp", "child")
  /\ UNCHANGED <<stop, apMode, flags, counters, scanning, association, radioAp, lease>>

ChildEnds(result) ==
  /\ Goto("child", "access")
  /\ lease' = result
  /\ LeaseSeenTo
  /\ UNCHANGED <<stop, configured, apMode, connected, was, alone, threshold, retryDue,
                 scanning, association, radioAp>>

LeaseGranted == joined # "" /\ ChildEnds(joined)

\* Variant: the child is waited for however long it takes.
LeaseAwaited == FALSE

\* It fails, or it is killed after 20 s or when the application stops.
LeaseRefused == ChildEnds(lease)

-----------------------------------------------------------------------------
(* The access point                                                        *)

\* disconnectedSeconds; beyond the thresholds it does not matter.
Alone == IF connected THEN 0 ELSE IF alone > FirstThreshold THEN alone ELSE alone + 1

Access(ap, left, limit, due) ==
  /\ Goto("access", "scan")
  /\ apMode' = ap /\ radioAp' = ap
  /\ alone' = left /\ threshold' = limit /\ retryDue' = due
  /\ UNCHANGED <<stop, flags, dhcpDue, scanning, association, lease>>

NoAp == ~apMode /\ Alone <= threshold /\ Access(FALSE, Alone, threshold, retryDue)

\* startAp may fail, and is tried again in the next round.
OpenAp ==
  /\ ~apMode /\ Alone > threshold
  /\ \/ Access(TRUE, Alone, threshold, ApTime - 1)
     \/ Access(FALSE, Alone, threshold, ApTime)

\* Variant: the access point stays when the network comes back under it.
CloseApLate == apMode /\ connected /\ Access(TRUE, Alone, threshold, retryDue)

CloseAp == apMode /\ connected /\ Access(FALSE, Alone, threshold, retryDue)

\* Variant: the access point is not given up.
KeepApOn == apMode /\ ~connected /\ Access(TRUE, Alone, threshold, retryDue - 1)

KeepAp ==
  /\ apMode /\ ~connected /\ retryDue > 1
  /\ Access(TRUE, Alone, threshold, retryDue - 1)

\* Variant: the time alone is not reset, so that the next round opens it again.
DropApBriefly ==
  /\ apMode /\ ~connected /\ retryDue <= 1
  /\ Access(FALSE, Alone, NextThreshold, retryDue - 1)

\* The access point goes for a while, so that the supplicant can retry.
DropAp ==
  /\ apMode /\ ~connected /\ retryDue <= 1
  /\ Access(FALSE, 0, NextThreshold, 0)

-----------------------------------------------------------------------------
(* Scans and the end of the round                                          *)

\* Variant: the request is taken while another scan is under way.
TakesRequestAlways == requested

TakesRequest == requested /\ scanDue = 0

Scan ==
  LET due == IF TakesRequest /\ scanDue = 0 THEN ScanTime ELSE scanDue
      for == IF TakesRequest /\ scanDue = 0 THEN asked ELSE scanFor
  IN  /\ Goto("scan", "rest")
      /\ requested' = (requested /\ ~TakesRequest)
      /\ scanFor' = for
      /\ scanDue' = IF due > 0 THEN due - 1 ELSE 0
      /\ shown' = IF due = 1 THEN for ELSE shown
      /\ UNCHANGED <<stop, apMode, flags, counters, asked, association, radioAp, lease>>

\* The wait of a second, cut short by stop.  The radio has been free for another
\* round, or has not.
Rest ==
  /\ Goto("rest", IF stop THEN "close" ELSE "status")
  /\ was' = connected
  /\ dhcpDue' = IF dhcpDue > 0 THEN dhcpDue - 1 ELSE 0
  /\ joining' = IF joined # "" \/ radioAp \/ reach = {} THEN 0 ELSE joining + 1
  /\ joining' <= JoinTime
  /\ UNCHANGED <<stop, configured, apMode, connected, initial, changed, alone, threshold,
                 retryDue, scanning, joined, reach, moves, radioAp, lease>>

\* The worker leaves no access point behind.
Close ==
  /\ Goto("close", "done")
  /\ apMode' = FALSE /\ radioAp' = FALSE
  /\ UNCHANGED <<stop, flags, counters, scanning, association, lease>>

Worker ==
  \/ Status \/ KeepLease \/ AskLease \/ LeaseGranted \/ LeaseRefused
  \/ NoAp \/ OpenAp \/ CloseAp \/ KeepAp \/ DropAp
  \/ Scan \/ Rest \/ Close

-----------------------------------------------------------------------------
(* Around it                                                               *)

\* wifiScan, for the web interface.
RequestScan ==
  /\ asked < MaxScans /\ ~stop
  /\ asked' = asked + 1
  /\ requested' = TRUE
  /\ UNCHANGED <<pc, stop, apMode, flags, counters, scanDue, scanFor, shown,
                 association, radioAp, lease>>

\* System::stop.
Stop ==
  /\ ~stop
  /\ stop' = TRUE
  /\ UNCHANGED <<pc, apMode, flags, counters, scanning, association, radioAp, lease>>

\* The supplicant associates by itself.  An access point may be in its way.
Associate ==
  /\ joined = "" /\ joined' \in reach
  /\ joining' = 0
  /\ UNCHANGED <<pc, stop, apMode, flags, counters, scanning, reach, moves, radioAp,
                 lease>>

\* It roams, loses the association, or networks come and go.
Move ==
  /\ moves < MaxMoves
  /\ moves' = moves + 1
  /\ reach' \in SUBSET Networks
  /\ joined' \in (reach' \cup {""}) \cap ({joined, ""} \cup (IF joined = "" THEN {} ELSE reach'))
  /\ UNCHANGED <<pc, stop, apMode, flags, counters, scanning, joining, radioAp, lease>>

Init ==
  /\ pc = "status" /\ stop = FALSE
  /\ configured \in BOOLEAN
  /\ apMode = FALSE /\ radioAp = FALSE
  /\ connected = FALSE /\ was = FALSE /\ initial = TRUE /\ changed = FALSE
  /\ dhcpDue = 0 /\ alone = 0 /\ threshold = FirstThreshold /\ retryDue = 0
  /\ requested = FALSE /\ scanDue = 0
  /\ asked = 0 /\ scanFor = 0 /\ shown = 0
  /\ reach \in SUBSET Networks
  /\ joined \in reach \cup {""}
  /\ lease \in {"", joined}
  /\ joining = 0 /\ moves = 0

Next == Worker \/ RequestScan \/ Stop \/ Associate \/ Move

Spec == Init /\ [][Next]_vars

\* The worker is scheduled, the supplicant associates with a network in range
\* when the radio stays free for JoinTime rounds, and a DHCP server is not
\* silent for ever.
FairSpec ==
  /\ Spec
  /\ WF_vars(Worker)
  /\ WF_vars(Associate /\ joining = JoinTime)
  /\ SF_vars(LeaseGranted)

-----------------------------------------------------------------------------
TypeOK ==
  /\ pc \in {"status", "dhcp", "child", "access", "scan", "rest", "close", "done"}
  /\ {stop, configured, apMode, connected, was, initial, changed, requested, radioAp}
       \subseteq BOOLEAN
  /\ dhcpDue \in 0..LeaseTime
  /\ alone \in 0..FirstThreshold + 1
  /\ threshold \in {FirstThreshold, NextThreshold}
  /\ retryDue \in 0..ApTime
  /\ scanDue \in 0..ScanTime
  /\ {asked, scanFor, shown} \subseteq 0..MaxScans
  /\ reach \subseteq Networks
  /\ joined \in reach \cup {""}
  /\ joining \in 0..JoinTime
  /\ lease \in Networks \cup {""}

\* A network in range is joined in the end, the application told of it and the
\* access point gone, although it takes the radio away from the supplicant.
Recovers ==
  (reach # {}) ~> ((connected /\ ~radioAp) \/ reach = {} \/ stop)

\* The address the clock has is in the end one of the network it is in, also
\* when the supplicant changed networks between two looks at it.
LeaseFollows ==
  \A n \in Networks : (joined = n) ~> (lease = n \/ joined # n \/ stop)

\* Every request for a scan is followed by results of a scan begun after it.
ScanAnswered == \A k \in 1..MaxScans : (asked >= k) ~> (shown >= k \/ stop)

\* System::stop joins the worker, whatever it is doing, and no access point that
\* anyone could join outlives the application.
StopReturns == stop ~> (pc = "done" /\ ~radioAp)
=============================================================================
