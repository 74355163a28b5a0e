------------------------------ MODULE WifiProofs ------------------------------
(***************************************************************************)
(* Proofs about the network worker, for any networks, thresholds and times *)
(* and any number of scans and of changes of the networks.                 *)
(***************************************************************************)
EXTENDS WifiService, TLAPS

\* The access point stands as the worker believes, from one ApTime on for less
\* than another, gives way as soon as a round sees an association, and does not
\* outlive the worker.
ApGivesWay ==
  /\ radioAp = apMode
  /\ apMode => retryDue \in 1..ApTime - 1
  /\ pc \in {"scan", "rest"} /\ connected => ~apMode
  /\ pc = "done" => ~apMode /\ stop
  /\ pc = "close" => stop

\* A scan is sent for a request there was, and its results are shown once there
\* are some: wifiScan never returns a later scan before an earlier one.
ScansInOrder ==
  /\ shown <= scanFor /\ scanFor <= asked
  /\ scanDue = 0 => shown = scanFor
  /\ ~requested => scanFor = asked

IInv == TypeOK /\ ApGivesWay /\ ScansInOrder

\* What the variables are, one by one.
LEMMA Numbers ==
  ASSUME TypeOK
  PROVE  /\ dhcpDue \in 0..LeaseTime /\ alone \in 0..FirstThreshold + 1
         /\ threshold \in {FirstThreshold, NextThreshold} /\ retryDue \in 0..ApTime
         /\ scanDue \in 0..ScanTime /\ joining \in 0..JoinTime
         /\ asked \in 0..MaxScans /\ scanFor \in 0..MaxScans /\ shown \in 0..MaxScans
BY DEF TypeOK

LEMMA Flags ==
  ASSUME TypeOK
  PROVE  /\ stop \in BOOLEAN /\ configured \in BOOLEAN /\ apMode \in BOOLEAN
         /\ connected \in BOOLEAN /\ was \in BOOLEAN /\ initial \in BOOLEAN
         /\ changed \in BOOLEAN /\ requested \in BOOLEAN /\ radioAp \in BOOLEAN
BY DEF TypeOK

\* What the constants are.
LEMMA Constants ==
  /\ FirstThreshold \in Nat \ {0} /\ NextThreshold \in Nat \ {0} /\ LeaseTime \in Nat \ {0}
  /\ ScanTime \in Nat \ {0} /\ JoinTime \in Nat \ {0} /\ ApTime \in Nat \ {0, 1}
  /\ MaxScans \in Nat /\ MaxMoves \in Nat /\ LeaseTime \in 0..LeaseTime
<1>1. /\ {FirstThreshold, NextThreshold, LeaseTime, ScanTime, JoinTime} \subseteq Nat \ {0}
      /\ ApTime \in Nat \ {0, 1} /\ {MaxMoves, MaxScans} \subseteq Nat
  BY WifiAssumption
<1>2. \A n \in Nat \ {0} : n \in 0..n
  OBVIOUS
<1> QED
  BY <1>1, <1>2, Zenon

LEMMA Begins == Init => IInv
<1> SUFFICES ASSUME Init PROVE IInv
  OBVIOUS
<1>0. /\ dhcpDue = 0 /\ alone = 0 /\ threshold = FirstThreshold /\ retryDue = 0
      /\ scanDue = 0 /\ joining = 0 /\ asked = 0 /\ scanFor = 0 /\ shown = 0
  BY Zenon DEF Init
<1>1. /\ dhcpDue \in 0..LeaseTime /\ alone \in 0..FirstThreshold + 1
      /\ threshold \in {FirstThreshold, NextThreshold} /\ retryDue \in 0..ApTime
      /\ scanDue \in 0..ScanTime /\ joining \in 0..JoinTime
      /\ asked \in 0..MaxScans /\ scanFor \in 0..MaxScans /\ shown \in 0..MaxScans
  BY <1>0, Constants
<1>2. /\ stop = FALSE /\ configured \in BOOLEAN /\ apMode = FALSE /\ connected = FALSE
      /\ was = FALSE /\ initial = TRUE /\ changed = FALSE /\ requested = FALSE
      /\ radioAp = FALSE /\ pc = "status"
      /\ reach \subseteq Networks /\ joined \in reach \cup {""} /\ lease \in {"", joined}
  BY Zenon DEF Init
<1>3. lease \in Networks \cup {""}
  BY <1>2
<1>4. TypeOK
  BY <1>1, <1>2, <1>3 DEF TypeOK
<1>5. ApGivesWay
  BY <1>2 DEF ApGivesWay
<1>6. ScansInOrder
  BY <1>0 DEF ScansInOrder
<1> QED
  BY <1>4, <1>5, <1>6 DEF IInv

\* The worker's steps up to the access point.
LEMMA LeaseKeeps ==
  ASSUME IInv, Status \/ KeepLease \/ AskLease \/ LeaseGranted \/ LeaseRefused
  PROVE  IInv'
<1> USE DEF IInv, flags, counters, scanning, association, Goto
<1>1. CASE Status
  <2>1. connected' \in BOOLEAN /\ changed' \in BOOLEAN /\ configured' \in BOOLEAN
    <3>1. connected' = (joined # "") /\ changed' = (changed \/ ~configured)
          /\ configured' \in {configured, TRUE}
      BY <1>1, Zenon DEF Status
    <3>2. configured \in BOOLEAN
      BY DEF TypeOK
    <3> QED
      BY <3>1, <3>2
  <2> QED
    BY <1>1, <2>1 DEF Status, TypeOK, ApGivesWay, ScansInOrder
<1>2. CASE KeepLease
  <2>1. /\ initial' \in BOOLEAN /\ changed' \in BOOLEAN /\ dhcpDue' \in 0..LeaseTime
    <3>1. \/ initial' = FALSE /\ changed' = FALSE /\ dhcpDue' = LeaseTime
          \/ initial' = initial /\ changed' = changed /\ dhcpDue' = dhcpDue
      BY <1>2, Zenon DEF KeepLease, LeaseSeenTo
    <3>2. LeaseTime \in 0..LeaseTime
      BY Constants, Zenon
    <3> QED
      BY <3>1, <3>2, Numbers, Flags
  <2> QED
    BY <1>2, <2>1 DEF KeepLease, TypeOK, ApGivesWay, ScansInOrder
<1>3. CASE AskLease
  BY <1>3 DEF AskLease, TypeOK, ApGivesWay, ScansInOrder
<1>4. ASSUME NEW result \in Networks \cup {""}, ChildEnds(result)
      PROVE  IInv'
  <2>1. LeaseTime \in 0..LeaseTime
    BY Constants, Zenon
  <2> QED
    BY <1>4, <2>1 DEF ChildEnds, LeaseSeenTo, TypeOK, ApGivesWay, ScansInOrder
<1>5. CASE LeaseGranted \/ LeaseRefused
  <2>1. joined \in Networks \cup {""} /\ lease \in Networks \cup {""}
    BY DEF TypeOK
  <2> QED
    BY <1>4, <1>5, <2>1 DEF LeaseGranted, LeaseRefused
<1> QED
  BY <1>1, <1>2, <1>3, <1>5

\* The access point.
LEMMA AccessKeeps ==
  ASSUME IInv, NoAp \/ OpenAp \/ CloseAp \/ KeepAp \/ DropAp
  PROVE  IInv'
<1> USE DEF IInv, flags, scanning, association, Goto
<1>1. /\ FirstThreshold \in Nat \ {0} /\ NextThreshold \in Nat \ {0}
      /\ ApTime \in Nat \ {0, 1}
      /\ apMode \in BOOLEAN /\ connected \in BOOLEAN
      /\ alone \in 0..FirstThreshold + 1 /\ retryDue \in 0..ApTime
      /\ threshold \in {FirstThreshold, NextThreshold}
  BY Numbers, Flags, Constants
<1>2. Alone \in 0..FirstThreshold + 1 /\ (connected => Alone = 0)
  BY <1>1 DEF Alone
<1>3. ASSUME NEW ap \in BOOLEAN, NEW left \in 0..FirstThreshold + 1,
             NEW limit \in {FirstThreshold, NextThreshold}, NEW due \in 0..ApTime,
             Access(ap, left, limit, due),
             ap => ~connected /\ due \in 1..ApTime - 1
      PROVE  IInv'
  BY <1>3 DEF Access, TypeOK, ApGivesWay, ScansInOrder
<1>4. CASE NoAp
  BY <1>1, <1>2, <1>3, <1>4 DEF NoAp
<1>5. CASE OpenAp
  <2>1. ~connected /\ Alone > threshold
    BY <1>1, <1>2, <1>5 DEF OpenAp
  <2>2. ApTime - 1 \in 1..ApTime - 1 /\ ApTime - 1 \in 0..ApTime /\ ApTime \in 0..ApTime
    BY <1>1
  <2>3. CASE Access(TRUE, Alone, threshold, ApTime - 1)
    BY <1>1, <1>2, <1>3, <2>1, <2>2, <2>3
  <2>4. CASE Access(FALSE, Alone, threshold, ApTime)
    BY <1>1, <1>2, <1>3, <2>2, <2>4
  <2> QED
    BY <1>5, <2>3, <2>4 DEF OpenAp
<1>6. CASE CloseAp
  BY <1>1, <1>2, <1>3, <1>6 DEF CloseAp
<1>7. CASE KeepAp
  <2>1. /\ Access(TRUE, Alone, threshold, retryDue - 1) /\ ~connected
        /\ retryDue - 1 \in 0..ApTime /\ retryDue - 1 \in 1..ApTime - 1
    <3>1. apMode /\ ~connected /\ retryDue > 1 /\ Access(TRUE, Alone, threshold, retryDue - 1)
      BY <1>7, Zenon DEF KeepAp
    <3>2. retryDue - 1 \in 0..ApTime /\ retryDue - 1 \in 1..ApTime - 1
      BY <1>1, <3>1
    <3> QED
      BY <3>1, <3>2, Zenon
  <2> QED
    BY <1>1, <1>2, <1>3, <2>1
<1>8. CASE DropAp
  <2>1. Access(FALSE, 0, NextThreshold, 0) /\ 0 \in 0..ApTime /\ 0 \in 0..FirstThreshold + 1
    <3>1. Access(FALSE, 0, NextThreshold, 0)
      BY <1>8, Zenon DEF DropAp
    <3>2. 0 \in 0..ApTime /\ 0 \in 0..FirstThreshold + 1
      BY <1>1
    <3> QED
      BY <3>1, <3>2, Zenon
  <2> QED
    BY <1>3, <2>1
<1> QED
  BY <1>4, <1>5, <1>6, <1>7, <1>8

\* Scans, the rest of the round, and the end.
LEMMA RestKeeps ==
  ASSUME IInv, Scan \/ Rest \/ Close
  PROVE  IInv'
<1> USE DEF IInv, flags, counters, scanning, association, Goto
<1>1. CASE Scan
  <2> DEFINE sends == requested /\ scanDue = 0
             due == IF sends THEN ScanTime ELSE scanDue
             for == IF sends THEN asked ELSE scanFor
  <2>1. /\ requested' = (requested /\ ~sends) /\ scanFor' = for
        /\ scanDue' = (IF due > 0 THEN due - 1 ELSE 0)
        /\ shown' = (IF due = 1 THEN for ELSE shown)
        /\ UNCHANGED <<stop, apMode, flags, counters, asked, association, radioAp, lease>>
        /\ pc = "scan" /\ pc' = "rest"
    <3>1. sends <=> (TakesRequest /\ scanDue = 0)
      BY DEF TakesRequest
    <3>2. sends <=> TakesRequest
      BY DEF TakesRequest
    <3> QED
      BY <1>1, Zenon DEF Scan, TakesRequest
  <2>2. /\ requested' \in BOOLEAN /\ due \in 0..ScanTime /\ for \in 0..MaxScans
        /\ shown <= for /\ for <= asked /\ (due = 0 => shown = for)
        /\ ~requested' => for = asked
    BY <2>1, Flags, Numbers, Constants DEF ScansInOrder
  <2> HIDE DEF due, for, sends
  <2>3. /\ scanDue' \in 0..ScanTime /\ scanFor' \in 0..MaxScans /\ shown' \in 0..MaxScans
        /\ ScansInOrder'
    BY <2>1, <2>2, Numbers, Constants DEF ScansInOrder
  <2> QED
    BY <2>1, <2>2, <2>3 DEF TypeOK, ApGivesWay
<1>2. CASE Rest
  <2>1. was' \in BOOLEAN /\ dhcpDue' \in 0..LeaseTime /\ joining' \in 0..JoinTime
    <3>1. /\ was' = connected /\ dhcpDue' = (IF dhcpDue > 0 THEN dhcpDue - 1 ELSE 0)
          /\ (joining' = 0 \/ joining' = joining + 1)
          /\ joining' <= JoinTime
      BY <1>2, Zenon DEF Rest
    <3> QED
      BY <3>1, Numbers, Flags, Constants
  <2> QED
    BY <1>2, <2>1 DEF Rest, TypeOK, ApGivesWay, ScansInOrder
<1>3. CASE Close
  BY <1>3, Numbers DEF Close, TypeOK, ApGivesWay, ScansInOrder
<1> QED
  BY <1>1, <1>2, <1>3

\* What happens around the worker.
LEMMA AroundKeeps ==
  ASSUME IInv, RequestScan \/ Stop \/ Associate \/ Move \/ UNCHANGED vars
  PROVE  IInv'
<1> USE DEF IInv, flags, counters, scanning, association
<1>1. CASE RequestScan
  <2>1. /\ asked' \in 0..MaxScans /\ requested' = TRUE /\ scanFor <= asked'
        /\ UNCHANGED <<pc, stop, apMode, flags, counters, scanDue, scanFor, shown,
                       association, radioAp, lease>>
    BY <1>1, Numbers, Constants DEF RequestScan, ScansInOrder
  <2> QED
    BY <2>1 DEF TypeOK, ApGivesWay, ScansInOrder
<1>2. CASE Stop
  BY <1>2 DEF Stop, TypeOK, ApGivesWay, ScansInOrder
<1>3. CASE Associate
  <2>1. /\ joined' \in reach \cup {""} /\ joining' \in 0..JoinTime
        /\ UNCHANGED <<pc, stop, apMode, flags, counters, scanning, reach, moves, radioAp, lease>>
    <3>1. 0 \in 0..JoinTime
      BY Constants
    <3>2. /\ joined' \in reach /\ joining' = 0
          /\ UNCHANGED <<pc, stop, apMode, flags, counters, scanning, reach, moves, radioAp,
                         lease>>
      BY <1>3, Zenon DEF Associate
    <3> QED
      BY <3>1, <3>2, Zenon
  <2> QED
    BY <2>1 DEF TypeOK, ApGivesWay, ScansInOrder
<1>4. CASE Move
  BY <1>4 DEF Move, TypeOK, ApGivesWay, ScansInOrder
<1>5. CASE UNCHANGED vars
  BY <1>5 DEF vars, TypeOK, ApGivesWay, ScansInOrder
<1> QED
  BY <1>1, <1>2, <1>3, <1>4, <1>5

LEMMA Steps == IInv /\ [Next]_vars => IInv'
BY LeaseKeeps, AccessKeeps, RestKeeps, AroundKeeps DEF Next, Worker

\* Every variable keeps its type; the countdown of the access point ends at 0
\* since it only runs while there is one, which starts from ApTime.
THEOREM TypeCorrect == Spec => []TypeOK
<1>1. IInv => TypeOK
  BY DEF IInv
<1> QED
  BY <1>1, Begins, Steps, PTL DEF Spec

\* Tc002System.cpp:240-256, 275: no access point stands beside an association the
\* round has seen, nor after the worker has ended, nor for ApTime rounds without
\* giving the supplicant the radio back.
THEOREM AccessPointGivesWay == Spec => []ApGivesWay
<1>1. IInv => ApGivesWay
  BY DEF IInv
<1> QED
  BY <1>1, Begins, Steps, PTL DEF Spec

\* Tc002System.cpp:262-266: scans are sent for requests and shown in their order,
\* and when none is under way or wanted the last one asked for is shown.
THEOREM ScansStayInOrder == Spec => []ScansInOrder
<1>1. IInv => ScansInOrder
  BY DEF IInv
<1> QED
  BY <1>1, Begins, Steps, PTL DEF Spec
=============================================================================
