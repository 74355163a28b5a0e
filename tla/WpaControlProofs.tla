--------------------------- MODULE WpaControlProofs ---------------------------
(***************************************************************************)
(* What WpaControl promises for any networks and any number of rounds,     *)
(* starts, other commands, power cuts and crashes.                         *)
(*                                                                         *)
(* What the worker knows comes from answers that may be those to earlier   *)
(* commands, so the invariant says what the commands under way will do to  *)
(* the supplicant's networks, and who may still use each number.  Keeping, *)
(* at the end, adds what a save may meet of networks that can still go.    *)
(***************************************************************************)
EXTENDS WpaControl, TLAPS

-----------------------------------------------------------------------------
(* The inductive invariant                                                 *)

InRound == at # "off" /\ ~Resetting

\* The supplicant numbers its networks from one, and among any of them there is
\* a last one, so that a number after all of them exists.
Ordered(D) ==
  /\ D \subseteq Nat \ {0}
  /\ \A S \in SUBSET D : \E m \in S \cup {0} : \A n \in S : n <= m

Shape ==
  /\ waiting => at \in Commands
  /\ at \in {"open", "off"} \/ ~linked => replies = <<>>
  /\ at \in Changes \cup {"reassociate"} => linked
  /\ at = "write" => id # 0
  /\ at = "forget" => id = 0
  /\ Ordered(DOMAIN entries) /\ Ordered(DOMAIN disk)
  /\ InRound => \A i \in DOMAIN sent : sent[i].net = cfg /\ sent[i].command # "forget"

\* The worker may still take network id back.
Holding == at \in Changes \cup {"reassociate"} \/ (at = "remove" /\ ~waiting)

Removal(i) == sent[i].command = "remove"
Numbers(i) == replies[i].is = "number"

\* No one is told the number k and no one is about to remove it.
Free(k) ==
  /\ k \in DOMAIN entries
  /\ \A i \in DOMAIN replies : Numbers(i) => replies[i].id # k
  /\ \A i \in DOMAIN sent : Removal(i) => sent[i].id # k

Kept(k) == Free(k) /\ (Holding => id # k)

\* Each number is told once, and who is told it is the only one to use it.
Claims ==
  /\ Holding => Free(id)
  /\ \A i \in DOMAIN replies : Numbers(i) =>
       /\ replies[i].id \in DOMAIN entries
       /\ \A j \in DOMAIN replies : Numbers(j) /\ replies[j].id = replies[i].id => j = i
       /\ \A j \in DOMAIN sent : Removal(j) => sent[j].id # replies[i].id
  /\ \A i \in DOMAIN sent : Removal(i) =>
       /\ sent[i].id \in DOMAIN entries
       /\ \A j \in DOMAIN sent : Removal(j) /\ sent[j].id = sent[i].id => j = i

\* What network k is when the supplicant has caught up.
Pending(c, k, net) ==
  \E i \in DOMAIN sent : sent[i].command = c /\ sent[i].id = k /\ sent[i].net = net

WillBeNamed(k, net) ==
  /\ entries[k].net = net \/ Pending("ssid", k, net)
  /\ \A i \in DOMAIN sent : sent[i].command = "ssid" /\ sent[i].id = k => sent[i].net = net
WillHaveKey(k, net) == entries[k].key \/ Pending("key", k, net)
WillBeFirst(k, net) == entries[k].first \/ Pending("priority", k, net)
WillBeOn(k, net) == entries[k].on \/ Pending("enable", k, net)

Will(k, net) ==
  /\ net \notin Refused
  /\ \A i \in DOMAIN sent : sent[i].command # "forget"
  /\ WillBeNamed(k, net) /\ WillHaveKey(k, net) /\ WillBeFirst(k, net) /\ WillBeOn(k, net)

WillBeKnown(net) == \E k \in DOMAIN entries : Kept(k) /\ Will(k, net)

\* The command c of setNetwork was sent.
Order == [ssid |-> 1, key |-> 2, priority |-> 3, enable |-> 4, reassociate |-> 5]
Given(c) == at \in DOMAIN Order /\ (Order[c] < Order[at] \/ (at = c /\ waiting))

Underway ==
  InRound /\ cfg \notin Refused =>
    /\ Given("ssid") => WillBeNamed(id, cfg)
    /\ Given("key") => WillHaveKey(id, cfg)
    /\ Given("priority") => WillBeFirst(id, cfg)
    /\ Given("enable") => WillBeOn(id, cfg)

\* What the worker takes for known will be.
Known ==
  "cut" \notin broken =>
    /\ applied # "" /\ left = "" /\ ~Resetting => WillBeKnown(applied)
    /\ InRound /\ cfg # "" /\ ((configured /\ cfg # left) \/ at \in {"save", "write"})
         => WillBeKnown(cfg)

-----------------------------------------------------------------------------
(* A password that is refused                                              *)

\* Answers in the order they come: those that are there, then those to what was
\* sent.  An answer stops setNetwork unless it is OK.
Length == Len(replies) + Len(sent)
Stops(p) ==
  IF p <= Len(replies) THEN replies[p] # OK
  ELSE sent[p - Len(replies)].command \in {"status", "add", "key"}
Tells(p) ==
  IF p <= Len(replies) THEN Numbers(p) ELSE sent[p - Len(replies)].command = "add"

Stopped(from, to) == \E p \in from..to : p <= Length /\ Stops(p)

\* After a number come at most four answers that do not stop, be they of a round
\* that is over: one to ssid, one to remove and two to other commands.
Window(b) ==
  \A i \in 1..Length : Tells(i) => Stopped(i + 1, i + 5) \/ Length - i <= b

Slack ==
  IF ~linked THEN 4
  ELSE CASE at = "status" -> IF waiting THEN -1 ELSE 4
         [] at = "add" -> IF waiting THEN 0 ELSE -1
         [] at = "ssid" -> IF waiting THEN 1 ELSE 0
         [] at = "key" -> IF waiting THEN -1 ELSE 1
         [] at \in {"priority", "enable", "reassociate"} -> -1
         [] at = "remove" -> IF waiting THEN 2 ELSE 1
         [] at = "retry" -> IF waiting THEN 3 ELSE 2
         [] at = "scan" -> IF waiting THEN 4 ELSE 3
         [] OTHER -> 4

\* So setNetwork is stopped before it has five.
InStep ==
  \/ at = "ssid" /\ Length = (IF waiting THEN 1 ELSE 0)
  \/ at = "key" /\ ~waiting /\ Length = 0

Refusal ==
  /\ applied \notin Refused
  /\ InRound /\ cfg \in Refused =>
       /\ ~configured /\ at \notin {"save", "write"}
       /\ Window(Slack)
       /\ at \in DOMAIN Order => InStep \/ Stopped(1, 6 - Order[at])

IInv == TypeOK /\ Shape /\ (InRound => Claims) /\ Underway /\ Known /\ Refusal

-----------------------------------------------------------------------------
(* Sequences and numbers                                                   *)

Request == [command : Commands, id : Nat, net : Networks \cup {""}]
Reply == [is : {"OK", "FAIL", "text", "number"}, id : Nat]

\* A queue without its first element.
LEMMA TailFacts ==
  ASSUME NEW S, NEW s \in Seq(S), s # <<>>
  PROVE  /\ Tail(s) \in Seq(S) /\ Len(s) \in Nat \ {0} /\ Len(Tail(s)) = Len(s) - 1
         /\ DOMAIN s = 1..Len(s) /\ DOMAIN Tail(s) = 1..Len(s) - 1
         /\ \A i \in DOMAIN Tail(s) : i + 1 \in DOMAIN s /\ Tail(s)[i] = s[i + 1]
         /\ \A i \in DOMAIN s : i = 1 \/ (i - 1 \in DOMAIN Tail(s) /\ Tail(s)[i - 1] = s[i])
         /\ 1 \in DOMAIN s /\ Head(s) = s[1] /\ Head(s) \in S
  OBVIOUS

\* A queue with one element more.
LEMMA AppendFacts ==
  ASSUME NEW S, NEW s \in Seq(S), NEW x \in S
  PROVE  /\ Append(s, x) \in Seq(S) /\ Len(s) \in Nat /\ Len(Append(s, x)) = Len(s) + 1
         /\ DOMAIN s = 1..Len(s) /\ DOMAIN Append(s, x) = 1..Len(s) + 1
         /\ \A i \in DOMAIN s : i \in DOMAIN Append(s, x) /\ Append(s, x)[i] = s[i]
         /\ Append(s, x)[Len(s) + 1] = x
         /\ \A i \in DOMAIN Append(s, x) : i \in DOMAIN s \/ i = Len(s) + 1
  OBVIOUS

\* The numbers of a set that keeps order stay in order when some go.
LEMMA OrderedSubset ==
  ASSUME NEW D, Ordered(D), NEW E \in SUBSET D
  PROVE  Ordered(E)
  BY DEF Ordered

\* A new network's number is none of those in use.
LEMMA FreshNumber ==
  ASSUME Ordered(DOMAIN entries)
  PROVE  /\ NewId \in Nat \ {0} /\ NewId \notin DOMAIN entries
         /\ Ordered(DOMAIN entries \cup {NewId})
<1> DEFINE D == DOMAIN entries
           m == Max(D \cup {0})
<1>1. D \subseteq Nat \ {0}
  BY DEF Ordered
<1>2. PICK top \in D \cup {0} : \A n \in D : n <= top
  BY DEF Ordered
<1>3. \A n \in D \cup {0} : top >= n
  BY <1>1, <1>2
<1>4. m \in D \cup {0} /\ \A n \in D \cup {0} : m >= n
  BY <1>3 DEF Max
<1>5. NewId = m + 1
  BY <1>1, <1>4 DEF NewId
<1>6. NewId \in Nat \ {0} /\ NewId \notin D
  BY <1>1, <1>4, <1>5
<1>7. ASSUME NEW S \in SUBSET (D \cup {NewId})
      PROVE  \E last \in S \cup {0} : \A n \in S : n <= last
  <2>1. CASE NewId \in S
    <3>1. \A n \in S : n <= NewId
      BY <1>1, <1>4, <1>5
    <3> QED BY <2>1, <3>1
  <2>2. CASE NewId \notin S
    <3>1. S \in SUBSET D
      BY <2>2
    <3> QED BY <3>1 DEF Ordered
  <2> QED BY <2>1, <2>2
<1> QED BY <1>1, <1>6, <1>7 DEF Ordered

-----------------------------------------------------------------------------
(* Steps                                                                   *)

\* What the order of setNetwork's commands is.
LEMMA OrderFacts ==
  /\ DOMAIN After = {"ssid", "key", "priority", "enable", "reassociate"}
  /\ DOMAIN Order = {"ssid", "key", "priority", "enable", "reassociate"}
  /\ After["ssid"] = "key" /\ After["key"] = "priority" /\ After["priority"] = "enable"
  /\ After["enable"] = "reassociate" /\ After["reassociate"] = "save"
  /\ Order["ssid"] = 1 /\ Order["key"] = 2 /\ Order["priority"] = 3
  /\ Order["enable"] = 4 /\ Order["reassociate"] = 5
  BY DEF After, Order

\* Where an answer leads.
LEMMA AnswerLeads ==
  ASSUME NEW answer, Answered(answer), waiting => at \in Commands
  PROVE  /\ at \in Commands /\ waiting /\ waiting' = FALSE
         /\ at = "status" => at' \in (IF configured THEN AfterRound ELSE {"add"})
         /\ at = "add" => at' \in (IF IsId(answer) THEN {"ssid"} ELSE AfterRound)
         /\ at = "add" => id' = answer.id
         /\ at # "add" => id' = id
         /\ at \in DOMAIN After => at' = IF answer = OK THEN After[at] ELSE "remove"
         /\ at = "forget" => at' = "save"
         /\ at = "save" => at' = IF id = 0 THEN "clear" ELSE "write"
         /\ at = "remove" => at' \in AfterRound
         /\ at = "retry" => at' \in {"scan", "rest"}
         /\ at = "scan" => at' = "rest"
         /\ configured' = (configured \/ at = "save")
         /\ UNCHANGED <<cfg, applied, linked, sent, entries, disk, broken, left, rounds, starts,
                        cuts>>
  BY OrderFacts DEF Answered, Following, Acknowledged, Commands, Changes, Harmless

Served(answer) ==
  /\ sent # <<>> /\ sent' = Tail(sent)
  /\ replies' = IF at \in {"open", "off"} \/ ~linked THEN <<>> ELSE Append(replies, answer)
  /\ answer \in Reply
  /\ UNCHANGED <<worker, left, rounds, extras, starts, cuts>>

\* What became of the first request: its answer, and its effect.
Adding(a) ==
  /\ a = Number(NewId)
  /\ DOMAIN entries' = DOMAIN entries \cup {NewId}
  /\ entries'[NewId] = Blank
  /\ \A k \in DOMAIN entries : k # NewId => entries'[k] = entries[k]
  /\ disk' = disk

Changing(c, n, net, a) ==
  /\ n \in DOMAIN entries /\ ~(c = "key" /\ net \in Refused)
  /\ entries' = Effect(c, n, net) /\ disk' = disk
  /\ a = OK

Failing(c, n, net, a) ==
  /\ n \notin DOMAIN entries \/ (c = "key" /\ net \in Refused)
  /\ UNCHANGED <<entries, disk>>
  /\ a = FAIL

Removing(n, a) ==
  /\ DOMAIN entries' = DOMAIN entries \ {n}
  /\ \A k \in DOMAIN entries \ {n} : entries'[k] = entries[k]
  /\ disk' = disk
  /\ a \in {OK, FAIL}

Saving(a) == entries' = entries /\ disk' \in {entries, disk} /\ a \in {OK, FAIL}

Reporting(c, a) ==
  /\ UNCHANGED <<entries, disk>>
  /\ a \in {OK, FAIL, Text} /\ (c = "status" => a = Text)

Outcome(c, n, net, a) ==
  \/ c = "add" /\ Adding(a)
  \/ c \in Changes /\ Changing(c, n, net, a)
  \/ c \in Changes /\ Failing(c, n, net, a)
  \/ c = "remove" /\ Removing(n, a)
  \/ c = "forget" /\ entries' = <<>> /\ disk' = disk /\ a = OK
  \/ c = "save" /\ Saving(a)
  \/ c \in Harmless /\ Reporting(c, a)

\* Each step of the supplicant serves the first request, in one of these ways.
LEMMA SupplicantServes ==
  ASSUME TypeOK, Shape, Supplicant
  PROVE  \E a \in Reply : Served(a) /\ Outcome(Head(sent).command, Head(sent).id, Head(sent).net, a)
<1> DEFINE c == Head(sent).command
           n == Head(sent).id
           net == Head(sent).net
<1>0. NewId \in Nat
  BY FreshNumber DEF Shape
<1>1. CASE Adds
  <2>1. Number(NewId) \in Reply
    BY <1>0 DEF Number, Reply
  <2>2. Adding(Number(NewId)) /\ c = "add"
    BY <1>1 DEF Adds, Carries, Adding
  <2>3. Served(Number(NewId))
    BY <1>1, <2>1 DEF Adds, Carries, Served, Supplicant
  <2> QED BY <2>1, <2>2, <2>3 DEF Outcome
<1>2. CASE Removes
  <2> DEFINE a == IF n \in DOMAIN entries THEN OK ELSE FAIL
  <2>1. a \in Reply /\ a \in {OK, FAIL}
    BY DEF OK, FAIL, Reply
  <2>2. c = "remove" /\ Removing(n, a)
    BY <1>2, <2>1 DEF Removes, Carries, Removing
  <2>3. Served(a)
    BY <1>2, <2>1 DEF Removes, Carries, Served, Supplicant
  <2> QED BY <2>1, <2>2, <2>3 DEF Outcome
<1>3. CASE Forgets
  <2>1. OK \in Reply
    BY DEF OK, Reply
  <2> QED BY <1>3, <2>1 DEF Forgets, Carries, Served, Supplicant, Outcome
<1>4. CASE Saves
  <2>1. PICK a \in {OK, FAIL}, d \in {entries, disk} : Carries("save", entries, d, a)
    BY <1>4 DEF Saves
  <2>2. a \in Reply
    BY DEF OK, FAIL, Reply
  <2>3. c = "save" /\ Saving(a)
    BY <2>1 DEF Carries, Saving
  <2>4. Served(a)
    BY <2>1, <2>2 DEF Carries, Served, Supplicant
  <2> QED BY <2>2, <2>3, <2>4 DEF Outcome
<1>5. CASE \E d \in Changes : ChangesEntry(d)
  <2>1. PICK d \in Changes : ChangesEntry(d)
    BY <1>5
  <2>2. OK \in Reply /\ FAIL \in Reply
    BY DEF OK, FAIL, Reply
  <2>3. CASE n \in DOMAIN entries /\ ~(d = "key" /\ net \in Refused)
    <3>1. Carries(d, Effect(d, n, net), disk, OK)
      BY <2>1, <2>3 DEF ChangesEntry
    <3>2. c = d /\ Changing(d, n, net, OK)
      BY <2>3, <3>1 DEF Carries, Changing
    <3>3. Served(OK)
      BY <2>2, <3>1 DEF Carries, Served, Supplicant
    <3> QED BY <2>2, <3>2, <3>3 DEF Outcome
  <2>4. CASE ~(n \in DOMAIN entries /\ ~(d = "key" /\ net \in Refused))
    <3>1. Carries(d, entries, disk, FAIL)
      BY <2>1, <2>4 DEF ChangesEntry
    <3>2. c = d /\ Failing(d, n, net, FAIL)
      BY <2>4, <3>1 DEF Carries, Failing
    <3>3. Served(FAIL)
      BY <2>2, <3>1 DEF Carries, Served, Supplicant
    <3> QED BY <2>2, <3>2, <3>3 DEF Outcome
  <2> QED BY <2>3, <2>4
<1>6. CASE \E d \in Harmless : Reports(d)
  <2>1. PICK d \in Harmless : Reports(d)
    BY <1>6
  <2>2. PICK a \in {OK, FAIL, Text} : Carries(d, entries, disk, a) /\ (d = "status" => a = Text)
    BY <2>1 DEF Reports
  <2>3. a \in Reply
    BY DEF OK, FAIL, Text, Reply
  <2>4. c = d /\ Reporting(c, a)
    BY <2>2 DEF Carries, Reporting
  <2>5. Served(a)
    BY <2>2, <2>3 DEF Carries, Served, Supplicant
  <2> QED BY <2>3, <2>4, <2>5 DEF Outcome
<1> QED BY <1>1, <1>2, <1>3, <1>4, <1>5, <1>6 DEF Supplicant
\* A change adds and removes no network.
LEMMA EffectDomain ==
  ASSUME NEW c \in Changes, NEW n, NEW net
  PROVE  DOMAIN Effect(c, n, net) = DOMAIN entries
  BY DEF Effect, Enables, Changes

\* A change of network n changes one thing of it, and of no other.
LEMMA EffectFacts ==
  ASSUME NEW c \in Changes, NEW n, NEW net \in Networks \cup {""},
         \A k \in DOMAIN entries : entries[k] \in Entry
  PROVE  /\ DOMAIN Effect(c, n, net) = DOMAIN entries
         /\ \A k \in DOMAIN entries :
              /\ Effect(c, n, net)[k] \in Entry
              /\ Effect(c, n, net)[k].net = IF c = "ssid" /\ k = n THEN net ELSE entries[k].net
              /\ entries[k].key \/ (c = "key" /\ k = n) => Effect(c, n, net)[k].key
              /\ entries[k].first \/ (c = "priority" /\ k = n) => Effect(c, n, net)[k].first
              /\ entries[k].on \/ (c = "enable" /\ k = n) => Effect(c, n, net)[k].on
<1>1. CASE c = "ssid"
  BY <1>1 DEF Effect, Entry
<1>2. CASE c = "key"
  BY <1>2 DEF Effect, Entry
<1>3. CASE c = "priority"
  BY <1>3 DEF Effect, Entry
<1>4. CASE c = "enable"
  BY <1>4 DEF Effect, Enables, Entry
<1> QED BY <1>1, <1>2, <1>3, <1>4 DEF Changes

Listed(e) == Ordered(DOMAIN e) /\ \A n \in DOMAIN e : n \in Nat /\ e[n] \in Entry

\* What networks the supplicant has after a step of its own.
LEMMA ListAfter ==
  ASSUME TypeOK, Shape, Supplicant
  PROVE  /\ Listed(entries') /\ Listed(disk')
         /\ \A k \in DOMAIN entries :
              \/ Head(sent).command = "forget"
              \/ Head(sent).command = "remove" /\ Head(sent).id = k
              \/ k \in DOMAIN entries'
<1> DEFINE c == Head(sent).command
           n == Head(sent).id
           net == Head(sent).net
<1>1. Listed(entries) /\ Listed(disk)
  BY DEF TypeOK, Shape, Listed
<1>2. Head(sent) \in Request /\ c \in Commands /\ net \in Networks \cup {""}
  <2>1. sent \in Seq(Request) /\ sent # <<>>
    BY DEF TypeOK, Supplicant, Request
  <2>2. Head(sent) \in Request
    BY <2>1, TailFacts
  <2> QED BY <2>2 DEF Request
<1>3. PICK a \in Reply : Served(a) /\ Outcome(c, n, net, a)
  BY SupplicantServes
<1>4. CASE c = "add" /\ Adding(a)
  <2>1. Ordered(DOMAIN entries') /\ NewId \in Nat
    BY <1>1, <1>4, FreshNumber DEF Adding, Listed
  <2>2. Blank \in Entry
    BY DEF Blank, Entry
  <2> QED BY <1>1, <1>4, <2>1, <2>2 DEF Adding, Listed
<1>5. CASE c \in Changes /\ Changing(c, n, net, a)
  <2>0. \A k \in DOMAIN entries : entries[k] \in Entry
    BY <1>1 DEF Listed
  <2>1. DOMAIN entries' = DOMAIN entries
    <3>1. DOMAIN Effect(c, n, net) = DOMAIN entries
      BY <1>2, <1>5, EffectDomain
    <3> QED BY <1>5, <3>1 DEF Changing
  <2>2. \A k \in DOMAIN entries : entries'[k] \in Entry
    BY <1>2, <1>5, <2>0, EffectFacts DEF Changing
  <2> QED BY <1>1, <1>5, <2>1, <2>2 DEF Changing, Listed
<1>6. CASE c \in Changes /\ Failing(c, n, net, a)
  BY <1>1, <1>6 DEF Failing
<1>7. CASE c = "remove" /\ Removing(n, a)
  <2>1. Ordered(DOMAIN entries')
    BY <1>1, <1>7, OrderedSubset DEF Removing, Listed
  <2> QED BY <1>1, <1>7, <2>1 DEF Removing, Listed
<1>8. CASE c = "forget" /\ entries' = <<>> /\ disk' = disk /\ a = OK
  <2>1. Ordered(DOMAIN entries')
    BY <1>1, <1>8, OrderedSubset DEF Listed
  <2> QED BY <1>1, <1>8, <2>1 DEF Listed
<1>9. CASE c = "save" /\ Saving(a)
  BY <1>1, <1>9 DEF Saving
<1>10. CASE c \in Harmless /\ Reporting(c, a)
  BY <1>1, <1>10 DEF Reporting
<1> QED BY <1>3, <1>4, <1>5, <1>6, <1>7, <1>8, <1>9, <1>10 DEF Outcome

-----------------------------------------------------------------------------
(* Types, and the shape of the exchange                                    *)

Counted ==
  /\ rounds \in 0..MaxRounds /\ extras \in 0..MaxExtras
  /\ starts \in 0..MaxStarts /\ cuts \in 0..MaxCuts

\* The bounds hold.
LEMMA StepCounted ==
  ASSUME Counted, [Next]_vars
  PROVE  Counted'
<1>0. MaxRounds \in Nat /\ MaxExtras \in Nat /\ MaxStarts \in Nat /\ MaxCuts \in Nat
  BY WpaAssumption
<1>1. \/ UNCHANGED rounds
      \/ rounds < MaxRounds /\ rounds' = rounds + 1
  BY DEF Next, Open, Send, Receive, TimeOut, Answered, WriteFingerprint, NextRound, Stop,
     ResetWifi, RemoveData, Start, Crash, Supplicant, PowerCut, vars, bounds
<1>2. \/ UNCHANGED extras
      \/ extras < MaxExtras /\ extras' = extras + 1
  BY DEF Next, Open, Send, Receive, TimeOut, Answered, WriteFingerprint, NextRound, Stop,
     ResetWifi, RemoveData, Start, Crash, Supplicant, PowerCut, vars, bounds, CountExtra
<1>3. \/ UNCHANGED starts
      \/ starts < MaxStarts /\ starts' = starts + 1
  BY DEF Next, Open, Send, Receive, TimeOut, Answered, WriteFingerprint, NextRound, Stop,
     ResetWifi, RemoveData, Start, Crash, Supplicant, PowerCut, vars, bounds
<1>4. \/ UNCHANGED cuts
      \/ cuts < MaxCuts /\ cuts' = cuts + 1
  BY DEF Next, Open, Send, Receive, TimeOut, Answered, WriteFingerprint, NextRound, Stop,
     ResetWifi, RemoveData, Start, Crash, Supplicant, PowerCut, vars, bounds
<1> QED BY <1>0, <1>1, <1>2, <1>3, <1>4 DEF Counted

\* An answer moves the worker on.
LEMMA AnsweredShape ==
  ASSUME TypeOK, Shape, InRound => Claims, Receive \/ TimeOut
  PROVE  TypeOK' /\ Shape'
<1>1. PICK answer \in Reply \cup {NoReply} :
        /\ Answered(answer)
        /\ answer # NoReply => replies # <<>> /\ answer = Head(replies)
        /\ replies' \in Seq(Reply)
        /\ replies = <<>> => replies' = <<>>
  <2>1. replies \in Seq(Reply)
    BY DEF TypeOK, Reply
  <2>2. CASE Receive
    BY <2>1, <2>2, TailFacts DEF Receive
  <2>3. CASE TimeOut
    BY <2>1, <2>3 DEF TimeOut
  <2> QED BY <2>2, <2>3
<1>2. /\ at \in Commands /\ waiting /\ waiting' = FALSE
      /\ at = "status" => at' \in (IF configured THEN AfterRound ELSE {"add"})
      /\ at = "add" => at' \in (IF IsId(answer) THEN {"ssid"} ELSE AfterRound)
      /\ at = "add" => id' = answer.id
      /\ at # "add" => id' = id
      /\ at \in DOMAIN After => at' = IF answer = OK THEN After[at] ELSE "remove"
      /\ at = "forget" => at' = "save"
      /\ at = "save" => at' = IF id = 0 THEN "clear" ELSE "write"
      /\ at = "remove" => at' \in AfterRound
      /\ at = "retry" => at' \in {"scan", "rest"}
      /\ at = "scan" => at' = "rest"
      /\ configured' = (configured \/ at = "save")
      /\ UNCHANGED <<cfg, applied, linked, sent, entries, disk, broken, left, rounds, starts,
                     cuts>>
  BY <1>1, AnswerLeads DEF Shape
<1>3. extras' \in 0..MaxExtras
  BY StepCounted DEF Next, Counted, TypeOK
<1>4. at = "add" /\ IsId(answer) => replies # <<>> /\ id' \in Nat \ {0}
  <2> SUFFICES ASSUME at = "add", IsId(answer) PROVE replies # <<>> /\ id' \in Nat \ {0}
    OBVIOUS
  <2>1. answer # NoReply
    BY DEF IsId, NoReply
  <2>2. replies # <<>> /\ Head(replies) = replies[1] /\ 1 \in DOMAIN replies
    BY <1>1, <2>1, TailFacts DEF TypeOK, Reply
  <2>3. Claims
    BY DEF InRound, Resetting
  <2>4. answer.id \in DOMAIN entries
    BY <1>1, <2>1, <2>2, <2>3 DEF Claims, Numbers, IsId
  <2> QED BY <1>2, <2>2, <2>4 DEF Shape, Ordered
<1>5. at' \in Commands \cup {"write", "rest", "clear"}
  BY <1>2, OrderFacts DEF Commands, Changes, Harmless, AfterRound
<1>6. id' \in Nat
  <2>1. answer.id \in Nat
    BY <1>1 DEF Reply, NoReply
  <2>2. id \in Nat
    BY DEF TypeOK
  <2> QED BY <1>2, <2>1, <2>2
<1>7. at' \in Changes \cup {"reassociate", "remove"} =>
        \/ at = "add" /\ IsId(answer)
        \/ at \in Changes \cup {"reassociate"}
  BY <1>2, OrderFacts DEF Commands, Changes, Harmless, AfterRound
<1>8. TypeOK'
  <2>1. at' \in Changes \cup {"reassociate", "remove"} => id' # 0
    BY <1>2, <1>4, <1>7 DEF TypeOK, Changes
  <2> QED BY <1>1, <1>2, <1>3, <1>5, <1>6, <2>1 DEF TypeOK, Reply
<1>9. at' \in Changes \cup {"reassociate"} => linked
  BY <1>4, <1>7 DEF Shape
<1>10. InRound' => InRound
  BY <1>2 DEF InRound, Resetting, Shape, Commands, Changes, Harmless
<1>11. at' = "write" => id' # 0
  BY <1>2, OrderFacts DEF Commands, Changes, Harmless, AfterRound
<1>12. at' # "forget"
  BY <1>2, OrderFacts DEF Commands, Changes, Harmless, AfterRound
<1>13. at' \notin {"open", "off"}
  BY <1>5 DEF Commands, Changes, Harmless
<1> QED BY <1>1, <1>2, <1>8, <1>9, <1>10, <1>11, <1>12, <1>13 DEF Shape, Commands

\* A step of the supplicant.
LEMMA SupplicantShape ==
  ASSUME TypeOK, Shape, Supplicant
  PROVE  TypeOK' /\ Shape'
<1>1. PICK a \in Reply : Served(a)
  BY SupplicantServes
<1>2. sent \in Seq(Request) /\ replies \in Seq(Reply)
  BY DEF TypeOK, Request, Reply
<1>3. /\ sent' \in Seq(Request) /\ \A i \in DOMAIN sent' : i + 1 \in DOMAIN sent /\ sent'[i] = sent[i + 1]
  BY <1>1, <1>2, TailFacts DEF Served
<1>4. replies' \in Seq(Reply) /\ (at \in {"open", "off"} \/ ~linked => replies' = <<>>)
  BY <1>1, <1>2, AppendFacts DEF Served
<1>5. UNCHANGED <<worker, left, rounds, extras, starts, cuts>>
  BY DEF Supplicant
<1>6. Listed(entries') /\ Listed(disk')
  BY ListAfter
<1>7. broken' \subseteq {"cut", "reset"}
  BY DEF Supplicant, TypeOK
<1>8. TypeOK'
  BY <1>3, <1>4, <1>5, <1>6, <1>7 DEF TypeOK, worker, Listed, Request, Reply
<1>9. InRound' = InRound
  BY <1>5 DEF InRound, Resetting, worker
<1> QED BY <1>3, <1>4, <1>5, <1>6, <1>8, <1>9 DEF Shape, worker, Listed

\* The parts of the state that most steps leave alone.
QueuesTyped ==
  /\ sent \in Seq(Request) /\ replies \in Seq(Reply)
  /\ Listed(entries) /\ Listed(disk)
Clean == \A i \in DOMAIN sent : sent[i].net = cfg /\ sent[i].command # "forget"

WorkerTyped ==
  /\ cfg \in Networks \cup {""} /\ applied \in Networks \cup {""}
  /\ {configured, linked, waiting} \subseteq BOOLEAN
  /\ broken \subseteq {"cut", "reset"} /\ left \in {"", applied}
  /\ at \in Commands \cup {"open", "write", "rest", "clear", "off"}
  /\ id \in Nat /\ (at \in Changes \cup {"reassociate", "remove"} => id # 0)
  /\ Counted
Waits ==
  /\ waiting => at \in Commands
  /\ at \in {"open", "off"} \/ ~linked => replies = <<>>
  /\ at \in Changes \cup {"reassociate"} => linked
  /\ at = "write" => id # 0
  /\ at = "forget" => id = 0

\* Types and shape, by those parts.
LEMMA Parts ==
  /\ TypeOK /\ Shape <=> WorkerTyped /\ QueuesTyped /\ Waits /\ (InRound => Clean)
  /\ TypeOK' /\ Shape' <=> WorkerTyped' /\ QueuesTyped' /\ Waits' /\ (InRound => Clean)'
<1>1. Listed(entries) /\ Listed(disk) <=>
        /\ Ordered(DOMAIN entries) /\ Ordered(DOMAIN disk)
        /\ \A e \in {entries, disk} : \A n \in DOMAIN e : n \in Nat /\ e[n] \in Entry
  BY DEF Listed
<1>2. Listed(entries') /\ Listed(disk') <=>
        /\ Ordered(DOMAIN entries') /\ Ordered(DOMAIN disk')
        /\ \A e \in {entries', disk'} : \A n \in DOMAIN e : n \in Nat /\ e[n] \in Entry
  BY DEF Listed
<1>3. TypeOK /\ Shape <=> WorkerTyped /\ QueuesTyped /\ Waits /\ (InRound => Clean)
  BY <1>1 DEF TypeOK, Shape, WorkerTyped, QueuesTyped, Waits, Clean, Counted, Request, Reply
<1>4. TypeOK' /\ Shape' <=> WorkerTyped' /\ QueuesTyped' /\ Waits' /\ (InRound => Clean)'
  BY <1>2 DEF TypeOK, Shape, WorkerTyped, QueuesTyped, Waits, Clean, Counted, Request, Reply
<1> QED BY <1>3, <1>4

\* Any step.
LEMMA StepShape ==
  ASSUME TypeOK, Shape, InRound => Claims, [Next]_vars
  PROVE  TypeOK' /\ Shape'
<1>c. Counted'
  BY StepCounted DEF TypeOK, Counted
<1>0. WorkerTyped /\ QueuesTyped /\ Waits /\ (InRound => Clean)
  BY Parts
<1> SUFFICES ASSUME ~(Receive \/ TimeOut \/ Supplicant)
             PROVE  WorkerTyped' /\ QueuesTyped' /\ Waits' /\ (InRound => Clean)'
  BY AnsweredShape, SupplicantShape, Parts
<1>1. CASE Open
  <2>1. WorkerTyped' /\ Waits'
    BY <1>0, <1>1, <1>c
       DEF Open, supplicant, bounds, WorkerTyped, Waits, Commands, Changes, Harmless
  <2>2. QueuesTyped'
    BY <1>0, <1>1 DEF Open, supplicant, bounds, QueuesTyped
  <2>3. (InRound => Clean)'
    BY <1>0, <1>1 DEF Open, supplicant, bounds, Clean, InRound, Resetting
  <2> QED BY <2>1, <2>2, <2>3
<1>2. CASE WriteFingerprint
  <2>1. WorkerTyped' /\ Waits'
    BY <1>0, <1>2, <1>c
       DEF WriteFingerprint, AfterRound, CountExtra, supplicant, WorkerTyped, Waits,
           Commands, Changes, Harmless
  <2>2. QueuesTyped'
    BY <1>0, <1>2 DEF WriteFingerprint, AfterRound, CountExtra, supplicant, QueuesTyped
  <2>3. (InRound => Clean)'
    BY <1>0, <1>2
       DEF WriteFingerprint, AfterRound, CountExtra, supplicant, Clean, InRound, Resetting
  <2> QED BY <2>1, <2>2, <2>3
<1>3. CASE NextRound
  <2>1. WorkerTyped' /\ Waits'
    BY <1>0, <1>3, <1>c DEF NextRound, WorkerTyped, Waits, Commands, Changes, Harmless
  <2>2. QueuesTyped'
    BY <1>0, <1>3 DEF NextRound, QueuesTyped
  <2>3. (InRound => Clean)'
    BY <1>0, <1>3 DEF NextRound, Clean, InRound, Resetting
  <2> QED BY <2>1, <2>2, <2>3
<1>4. CASE Stop
  <2>1. WorkerTyped' /\ Waits'
    BY <1>0, <1>4, <1>c DEF Stop, bounds, WorkerTyped, Waits, Commands, Changes, Harmless
  <2>2. QueuesTyped'
    BY <1>0, <1>4 DEF Stop, bounds, QueuesTyped
  <2>3. (InRound => Clean)'
    BY <1>0, <1>4 DEF Stop, bounds, Clean, InRound, Resetting
  <2> QED BY <2>1, <2>2, <2>3
<1>5. CASE ResetWifi
  <2>1. WorkerTyped' /\ Waits'
    BY <1>0, <1>5, <1>c DEF ResetWifi, bounds, WorkerTyped, Waits, Commands, Changes, Harmless
  <2>2. QueuesTyped'
    BY <1>0, <1>5 DEF ResetWifi, bounds, QueuesTyped
  <2>3. (InRound => Clean)'
    BY <1>0, <1>5 DEF ResetWifi, bounds, Clean, InRound, Resetting
  <2> QED BY <2>1, <2>2, <2>3
<1>6. CASE RemoveData
  <2>1. WorkerTyped' /\ Waits'
    BY <1>0, <1>6, <1>c DEF RemoveData, bounds, WorkerTyped, Waits, Commands, Changes, Harmless
  <2>2. QueuesTyped'
    <3>1. replies' = <<>> /\ UNCHANGED <<sent, entries, disk>>
      BY <1>6 DEF RemoveData
    <3> QED BY <1>0, <3>1 DEF QueuesTyped
  <2>3. (InRound => Clean)'
    BY <1>0, <1>6 DEF RemoveData, bounds, Clean, InRound, Resetting
  <2> QED BY <2>1, <2>2, <2>3
<1>7. CASE Start
  <2>1. WorkerTyped' /\ Waits'
    BY <1>0, <1>7, <1>c DEF Start, supplicant, WorkerTyped, Waits, Commands, Changes, Harmless
  <2>2. QueuesTyped'
    BY <1>0, <1>7 DEF Start, supplicant, QueuesTyped
  <2>3. (InRound => Clean)'
    <3>1. sent' = <<>>
      BY <1>7 DEF Start, supplicant
    <3> QED BY <3>1 DEF Clean
  <2> QED BY <2>1, <2>2, <2>3
<1>8. CASE Crash
  <2>1. WorkerTyped' /\ Waits'
    BY <1>0, <1>8, <1>c DEF Crash, WorkerTyped, Waits, Commands, Changes, Harmless
  <2>2. QueuesTyped'
    BY <1>0, <1>8 DEF Crash, QueuesTyped
  <2>3. (InRound => Clean)'
    BY <1>0, <1>8 DEF Crash, Clean, InRound, Resetting
  <2> QED BY <2>1, <2>2, <2>3
<1>9. CASE PowerCut
  <2>1. WorkerTyped' /\ Waits'
    BY <1>0, <1>9, <1>c DEF PowerCut, WorkerTyped, Waits, Commands, Changes, Harmless
  <2>2. QueuesTyped'
    BY <1>0, <1>9 DEF PowerCut, QueuesTyped
  <2>3. (InRound => Clean)'
    BY <1>0, <1>9 DEF PowerCut, Clean, InRound, Resetting
  <2> QED BY <2>1, <2>2, <2>3
<1>10. CASE Send
  <2>1. [command |-> at, id |-> id, net |-> cfg] \in Request
    BY <1>0, <1>10 DEF Send, Request, WorkerTyped
  <2>0. sent' = Append(sent, [command |-> at, id |-> id, net |-> cfg]) \/ sent' = sent
    BY <1>10 DEF Send
  <2>2. sent' \in Seq(Request)
    BY <1>0, <2>0, <2>1, AppendFacts DEF QueuesTyped
  <2>3. ASSUME NEW i \in DOMAIN sent'
        PROVE  \/ i \in DOMAIN sent /\ sent'[i] = sent[i]
               \/ sent'[i].command = at /\ sent'[i].net = cfg
    <3>1. CASE sent' = sent
      BY <3>1
    <3>2. CASE sent' = Append(sent, [command |-> at, id |-> id, net |-> cfg])
      <4>1. \/ i \in DOMAIN sent /\ sent'[i] = sent[i]
            \/ sent'[i] = [command |-> at, id |-> id, net |-> cfg]
        BY <1>0, <2>1, <3>2, AppendFacts DEF QueuesTyped
      <4> QED BY <4>1
    <3> QED BY <2>0, <3>1, <3>2
  <2>4. WorkerTyped' /\ Waits'
    BY <1>0, <1>c, <1>10 DEF Send, bounds, WorkerTyped, Waits, Commands, Changes, Harmless
  <2>5. QueuesTyped'
    BY <1>0, <1>10, <2>2 DEF Send, QueuesTyped
  <2>6. (InRound => Clean)'
    BY <1>0, <1>10, <2>3 DEF Send, Clean, InRound, Resetting
  <2> QED BY <2>4, <2>5, <2>6
<1>11. CASE UNCHANGED vars
  BY <1>0, <1>c, <1>11 DEF vars, worker, supplicant, bounds, WorkerTyped, QueuesTyped, Waits, Clean,
     InRound, Resetting
<1> QED BY <1>1, <1>2, <1>3, <1>4, <1>5, <1>6, <1>7, <1>8, <1>9, <1>10, <1>11 DEF Next

-----------------------------------------------------------------------------
(* Every number has one user                                               *)

\* What a step of the supplicant does to the queues.
LEMMA QueuesAfter ==
  ASSUME TypeOK, Shape, Supplicant
  PROVE  \E a \in Reply :
           /\ Outcome(sent[1].command, sent[1].id, sent[1].net, a)
           /\ sent \in Seq(Request) /\ 1 \in DOMAIN sent /\ sent[1] \in Request
           /\ sent' \in Seq(Request)
           /\ \A i \in DOMAIN sent' : i + 1 \in DOMAIN sent /\ sent'[i] = sent[i + 1]
           /\ \A i \in DOMAIN sent : i = 1 \/ (i - 1 \in DOMAIN sent' /\ sent'[i - 1] = sent[i])
           /\ DOMAIN sent = 1..Len(sent) /\ DOMAIN replies = 1..Len(replies)
           /\ replies' \in Seq(Reply)
           /\ \A i \in DOMAIN replies' :
                \/ i \in DOMAIN replies /\ replies'[i] = replies[i]
                \/ i = Len(replies) + 1 /\ replies'[i] = a
           /\ Served(a)
<1>1. PICK a \in Reply : Served(a) /\ Outcome(Head(sent).command, Head(sent).id, Head(sent).net, a)
  BY SupplicantServes
<1>2. sent \in Seq(Request) /\ replies \in Seq(Reply)
  BY DEF TypeOK, Request, Reply
<1>3. Head(sent) = sent[1] /\ 1 \in DOMAIN sent /\ sent[1] \in Request
  BY <1>1, <1>2, TailFacts DEF Served
<1>4. /\ sent' \in Seq(Request)
      /\ \A i \in DOMAIN sent' : i + 1 \in DOMAIN sent /\ sent'[i] = sent[i + 1]
      /\ \A i \in DOMAIN sent : i = 1 \/ (i - 1 \in DOMAIN sent' /\ sent'[i - 1] = sent[i])
  BY <1>1, <1>2, TailFacts DEF Served
<1>5. /\ replies' \in Seq(Reply)
      /\ \A i \in DOMAIN replies' :
           \/ i \in DOMAIN replies /\ replies'[i] = replies[i]
           \/ i = Len(replies) + 1 /\ replies'[i] = a
  <2>1. CASE replies' = <<>>
    BY <2>1
  <2>2. CASE replies' = Append(replies, a)
    BY <1>2, <2>2, AppendFacts
  <2> QED BY <1>1, <2>1, <2>2 DEF Served
<1> QED BY <1>1, <1>2, <1>3, <1>4, <1>5

\* A step of the supplicant leaves a network alone that nobody is about to remove.
LEMMA FreeStays ==
  ASSUME TypeOK, Shape, Supplicant, Head(sent).command # "forget", NEW k, Free(k)
  PROVE  Free(k)'
<1>1. PICK a \in Reply :
        /\ Outcome(sent[1].command, sent[1].id, sent[1].net, a)
        /\ sent \in Seq(Request) /\ 1 \in DOMAIN sent
        /\ \A i \in DOMAIN sent' : i + 1 \in DOMAIN sent /\ sent'[i] = sent[i + 1]
        /\ \A i \in DOMAIN replies' :
             \/ i \in DOMAIN replies /\ replies'[i] = replies[i]
             \/ i = Len(replies) + 1 /\ replies'[i] = a
  BY QueuesAfter
<1>2. Head(sent) = sent[1]
  BY <1>1
<1>3. k \in DOMAIN entries'
  BY <1>1, <1>2, ListAfter DEF Free, Removal
<1>4. a.is = "number" => a.id = NewId /\ NewId \notin DOMAIN entries
  BY <1>1, FreshNumber DEF Shape, Outcome, Adding, Changing, Failing, Removing, Saving,
     Reporting, Number, OK, FAIL, Text
<1>5. \A i \in DOMAIN replies' : Numbers(i)' => replies'[i].id # k
  BY <1>1, <1>4 DEF Free, Numbers
<1>6. \A i \in DOMAIN sent' : Removal(i)' => sent'[i].id # k
  BY <1>1 DEF Free, Removal
<1> QED BY <1>3, <1>5, <1>6 DEF Free

\* The supplicant gives no number out twice.
LEMMA SupplicantClaims ==
  ASSUME TypeOK, Shape, InRound, Claims, Supplicant
  PROVE  Claims'
<1>1. PICK a \in Reply :
        /\ Outcome(sent[1].command, sent[1].id, sent[1].net, a)
        /\ sent \in Seq(Request) /\ 1 \in DOMAIN sent
        /\ \A i \in DOMAIN sent' : i + 1 \in DOMAIN sent /\ sent'[i] = sent[i + 1]
        /\ DOMAIN sent = 1..Len(sent) /\ DOMAIN replies = 1..Len(replies)
        /\ sent' \in Seq(Request)
        /\ \A i \in DOMAIN replies' :
             \/ i \in DOMAIN replies /\ replies'[i] = replies[i]
             \/ i = Len(replies) + 1 /\ replies'[i] = a
        /\ Served(a)
  BY QueuesAfter
<1>2. Head(sent) = sent[1] /\ sent[1].command # "forget"
  BY <1>1 DEF Shape
<1>3. \A k \in DOMAIN entries : k \in DOMAIN entries' \/ (Removal(1) /\ sent[1].id = k)
  BY <1>2, ListAfter DEF Removal
<1>4. a.is = "number" => a.id = NewId /\ NewId \notin DOMAIN entries /\ NewId \in DOMAIN entries'
  BY <1>1, FreshNumber DEF Shape, Outcome, Adding, Changing, Failing, Removing, Saving,
     Reporting, Number, OK, FAIL, Text
<1>5. Holding' => Free(id)'
  <2>1. UNCHANGED <<at, id, waiting>>
    BY <1>1 DEF Served, worker
  <2> QED BY <1>2, <2>1, FreeStays DEF Claims, Holding
<1>6. ASSUME NEW i \in DOMAIN replies', Numbers(i)'
      PROVE  /\ replies'[i].id \in DOMAIN entries'
             /\ \A j \in DOMAIN replies' : Numbers(j)' /\ replies'[j].id = replies'[i].id => j = i
             /\ \A j \in DOMAIN sent' : Removal(j)' => sent'[j].id # replies'[i].id
  <2>1. CASE i \in DOMAIN replies /\ replies'[i] = replies[i]
    <3>1. Numbers(i)
      BY <1>6, <2>1 DEF Numbers
    <3>2. replies'[i].id \in DOMAIN entries /\ replies'[i].id \in DOMAIN entries'
      BY <1>1, <1>3, <2>1, <3>1 DEF Claims
    <3>3. ASSUME NEW j \in DOMAIN replies', Numbers(j)', replies'[j].id = replies'[i].id
          PROVE  j = i
      BY <1>1, <1>4, <2>1, <3>1, <3>2, <3>3 DEF Claims, Numbers
    <3>4. \A j \in DOMAIN sent' : Removal(j)' => sent'[j].id # replies'[i].id
      BY <1>1, <2>1, <3>1 DEF Claims, Removal
    <3> QED BY <3>2, <3>3, <3>4
  <2>2. CASE i = Len(replies) + 1 /\ replies'[i] = a
    <3>1. replies'[i].id = NewId /\ NewId \notin DOMAIN entries /\ NewId \in DOMAIN entries'
      BY <1>4, <1>6, <2>2 DEF Numbers
    <3>2. ASSUME NEW j \in DOMAIN replies', Numbers(j)', replies'[j].id = replies'[i].id
          PROVE  j = i
      BY <1>1, <2>2, <3>1, <3>2 DEF Claims, Numbers
    <3>3. ASSUME NEW j \in DOMAIN sent', Removal(j)'
          PROVE  sent'[j].id # replies'[i].id
      BY <1>1, <3>1, <3>3 DEF Claims, Removal
    <3> QED BY <3>1, <3>2, <3>3
  <2> QED BY <1>1, <2>1, <2>2
<1>7. ASSUME NEW i \in DOMAIN sent', Removal(i)'
      PROVE  /\ sent'[i].id \in DOMAIN entries'
             /\ \A j \in DOMAIN sent' : Removal(j)' /\ sent'[j].id = sent'[i].id => j = i
  <2>1. i + 1 \in DOMAIN sent /\ sent'[i] = sent[i + 1] /\ Removal(i + 1) /\ i \in Nat \ {0}
    BY <1>1, <1>7 DEF Removal
  <2>2. sent'[i].id \in DOMAIN entries'
    BY <1>1, <1>3, <2>1 DEF Claims
  <2>3. ASSUME NEW j \in DOMAIN sent', Removal(j)', sent'[j].id = sent'[i].id
        PROVE  j = i
    <3>1. j + 1 \in DOMAIN sent /\ sent'[j] = sent[j + 1] /\ Removal(j + 1) /\ j \in Nat \ {0}
      BY <1>1, <2>3 DEF Removal
    <3>2. j + 1 = i + 1
      BY <2>1, <2>3, <3>1 DEF Claims
    <3> QED BY <2>1, <3>1, <3>2
  <2> QED BY <2>2, <2>3
<1> QED BY <1>5, <1>6, <1>7 DEF Claims

\* What sending a command does to the queue.
LEMMA QueueSent ==
  ASSUME TypeOK, Send
  PROVE  /\ DOMAIN sent = 1..Len(sent) /\ Len(sent) \in Nat
         /\ \A i \in DOMAIN sent : i \in DOMAIN sent' /\ sent'[i] = sent[i]
         /\ \A i \in DOMAIN sent' :
              \/ i \in DOMAIN sent /\ sent'[i] = sent[i]
              \/ /\ i = Len(sent) + 1 /\ linked
                 /\ sent'[i] = [command |-> at, id |-> id, net |-> cfg]
         /\ linked => /\ Len(sent) + 1 \in DOMAIN sent'
                      /\ sent'[Len(sent) + 1] = [command |-> at, id |-> id, net |-> cfg]
                      /\ Len(sent') = Len(sent) + 1
         /\ ~linked => sent' = sent
<1> DEFINE x == [command |-> at, id |-> id, net |-> cfg]
<1>1. sent \in Seq(Request) /\ x \in Request
  BY DEF TypeOK, Request, Send
<1>2. DOMAIN sent = 1..Len(sent) /\ Len(sent) \in Nat
  BY <1>1
<1>3. CASE linked
  <2>1. sent' = Append(sent, x)
    BY <1>3 DEF Send
  <2> HIDE DEF x
  <2>2. /\ \A i \in DOMAIN sent : i \in DOMAIN sent' /\ sent'[i] = sent[i]
        /\ \A i \in DOMAIN sent' :
             (i \in DOMAIN sent /\ sent'[i] = sent[i]) \/ (i = Len(sent) + 1 /\ sent'[i] = x)
        /\ Len(sent) + 1 \in DOMAIN sent' /\ sent'[Len(sent) + 1] = x
        /\ Len(sent') = Len(sent) + 1
    BY <1>1, <2>1, AppendFacts
  <2> QED BY <1>2, <1>3, <2>2 DEF x
<1>4. CASE ~linked
  <2>1. sent' = sent
    BY <1>4 DEF Send
  <2> QED BY <1>2, <1>4, <2>1
<1> QED BY <1>3, <1>4

\* What taking an answer, or giving up, does to the answers.
LEMMA AnswerTaken ==
  ASSUME TypeOK, Receive \/ TimeOut
  PROVE  /\ DOMAIN replies = 1..Len(replies) /\ Len(replies) \in Nat
         /\ \A i \in DOMAIN replies' :
              i \in Nat \ {0} /\ i + 1 \in DOMAIN replies /\ replies'[i] = replies[i + 1]
         /\ \E answer \in Reply \cup {NoReply} :
              /\ Answered(answer)
              /\ answer # NoReply =>
                   /\ replies # <<>> /\ 1 \in DOMAIN replies /\ answer = replies[1]
                   /\ Len(replies') = Len(replies) - 1
              /\ answer = NoReply => replies = <<>> /\ replies' = <<>>
<1>1. replies \in Seq(Reply) /\ NoReply \notin Reply
  BY DEF TypeOK, Reply, NoReply
<1>2. CASE Receive
  BY <1>1, <1>2, TailFacts DEF Receive
<1>3. CASE TimeOut
  BY <1>1, <1>3 DEF TimeOut
<1> QED BY <1>2, <1>3

\* A worker that sends a removal has given its number up.
LEMMA SendClaims ==
  ASSUME TypeOK, InRound, Claims, Send
  PROVE  Claims'
<1>1. /\ DOMAIN sent = 1..Len(sent) /\ Len(sent) \in Nat
      /\ \A i \in DOMAIN sent' :
           \/ i \in DOMAIN sent /\ sent'[i] = sent[i]
           \/ /\ i = Len(sent) + 1
              /\ sent'[i] = [command |-> at, id |-> id, net |-> cfg]
  BY QueueSent
<1>2. waiting' /\ ~waiting /\ UNCHANGED <<at, id, replies, entries>>
  BY DEF Send
<1>3. at = "remove" => Free(id)
  BY <1>2 DEF Claims, Holding
<1>4. \A i \in DOMAIN sent' : Removal(i)' =>
        \/ i \in DOMAIN sent /\ sent'[i] = sent[i] /\ Removal(i)
        \/ i = Len(sent) + 1 /\ sent'[i].id = id /\ at = "remove"
  BY <1>1 DEF Removal
<1>5. Holding' => Free(id)'
  <2> SUFFICES ASSUME Holding' PROVE Free(id)'
    OBVIOUS
  <2>1. Holding /\ at # "remove"
    BY <1>2 DEF Holding, Changes
  <2> QED BY <1>2, <1>4, <2>1 DEF Claims, Free, Numbers
<1>6. ASSUME NEW i \in DOMAIN replies', Numbers(i)'
      PROVE  /\ replies'[i].id \in DOMAIN entries'
             /\ \A j \in DOMAIN replies' : Numbers(j)' /\ replies'[j].id = replies'[i].id => j = i
             /\ \A j \in DOMAIN sent' : Removal(j)' => sent'[j].id # replies'[i].id
  <2>1. i \in DOMAIN replies /\ replies' = replies /\ Numbers(i)
    BY <1>2, <1>6 DEF Numbers
  <2>2. \A j \in DOMAIN replies' : Numbers(j)' /\ replies'[j].id = replies'[i].id => j = i
    BY <2>1 DEF Claims, Numbers
  <2>3. \A j \in DOMAIN sent' : Removal(j)' => sent'[j].id # replies'[i].id
    BY <1>3, <1>4, <2>1 DEF Claims, Free
  <2> QED BY <1>2, <2>1, <2>2, <2>3 DEF Claims
<1>7. ASSUME NEW i \in DOMAIN sent', Removal(i)'
      PROVE  /\ sent'[i].id \in DOMAIN entries'
             /\ \A j \in DOMAIN sent' : Removal(j)' /\ sent'[j].id = sent'[i].id => j = i
  <2>1. sent'[i].id \in DOMAIN entries'
    BY <1>2, <1>3, <1>4, <1>7 DEF Claims, Free
  <2>2. ASSUME NEW j \in DOMAIN sent', Removal(j)', sent'[j].id = sent'[i].id
        PROVE  j = i
    BY <1>3, <1>4, <1>7, <2>2 DEF Claims, Free
  <2> QED BY <2>1, <2>2
<1> QED BY <1>5, <1>6, <1>7 DEF Claims

\* A worker that is told a number is the only one.
LEMMA AnsweredClaims ==
  ASSUME TypeOK, Shape, InRound, Claims, Receive \/ TimeOut
  PROVE  Claims'
<1>1. PICK answer \in Reply \cup {NoReply} :
        /\ Answered(answer)
        /\ answer # NoReply => 1 \in DOMAIN replies /\ answer = replies[1]
        /\ DOMAIN replies = 1..Len(replies) /\ Len(replies) \in Nat
        /\ \A i \in DOMAIN replies' :
             i \in Nat \ {0} /\ i + 1 \in DOMAIN replies /\ replies'[i] = replies[i + 1]
  BY AnswerTaken
<1>2. /\ UNCHANGED <<sent, entries>> /\ waiting /\ ~waiting'
      /\ at = "status" => at' \in (IF configured THEN AfterRound ELSE {"add"})
      /\ at = "add" => at' \in (IF IsId(answer) THEN {"ssid"} ELSE AfterRound)
      /\ at = "add" => id' = answer.id
      /\ at # "add" => id' = id
      /\ at = "save" => at' = IF id = 0 THEN "clear" ELSE "write"
      /\ at = "remove" => at' \in AfterRound
      /\ at = "retry" => at' \in {"scan", "rest"}
      /\ at = "scan" => at' = "rest"
      /\ at \in Commands
  BY <1>1, AnswerLeads DEF Shape
<1>3. \A i \in DOMAIN replies' : i \in Nat \ {0} /\ (Numbers(i)' => Numbers(i + 1))
  BY <1>1 DEF Numbers
<1>4. Holding' => Free(id)'
  <2> SUFFICES ASSUME Holding' PROVE Free(id)'
    OBVIOUS
  <2>1. (at = "add" /\ IsId(answer)) \/ at \in Changes \cup {"reassociate"}
    BY <1>2 DEF Holding, InRound, Resetting, Commands, Changes, Harmless, AfterRound
  <2>2. CASE at = "add" /\ IsId(answer)
    <3>1. 1 \in DOMAIN replies /\ Numbers(1) /\ id' = replies[1].id
      BY <1>1, <1>2, <2>2 DEF IsId, NoReply, Numbers
    <3>2. \A i \in DOMAIN replies' : Numbers(i)' => replies'[i].id # id'
      BY <1>1, <1>3, <3>1 DEF Claims
    <3> QED BY <1>2, <3>1, <3>2 DEF Claims, Free, Removal
  <2>3. CASE at \in Changes \cup {"reassociate"}
    <3>1. Free(id) /\ id' = id
      BY <1>2, <2>3 DEF Claims, Holding, Changes
    <3> QED BY <1>1, <1>2, <1>3, <3>1 DEF Free, Removal
  <2> QED BY <2>1, <2>2, <2>3
<1>5. ASSUME NEW i \in DOMAIN replies', Numbers(i)'
      PROVE  /\ replies'[i].id \in DOMAIN entries'
             /\ \A j \in DOMAIN replies' : Numbers(j)' /\ replies'[j].id = replies'[i].id => j = i
             /\ \A j \in DOMAIN sent' : Removal(j)' => sent'[j].id # replies'[i].id
  <2>1. ASSUME NEW j \in DOMAIN replies', Numbers(j)', replies'[j].id = replies'[i].id
        PROVE  j = i
    <3>1. j + 1 = i + 1
      BY <1>1, <1>3, <1>5, <2>1 DEF Claims
    <3> QED BY <1>3, <3>1
  <2> QED BY <1>1, <1>2, <1>3, <1>5, <2>1 DEF Claims, Removal
<1> QED BY <1>2, <1>4, <1>5 DEF Claims, Removal

\* Every step leaves every number one user.
LEMMA StepClaims ==
  ASSUME TypeOK, Shape, InRound => Claims, [Next]_vars, InRound'
  PROVE  Claims'
<1>1. CASE Start
  <2>1. sent' = <<>> /\ replies' = <<>> /\ ~Holding'
    BY <1>1 DEF Start, supplicant, Shape, Holding, Changes
  <2> QED BY <2>1 DEF Claims
<1>2. CASE Open \/ WriteFingerprint \/ NextRound
  <2>1. /\ InRound /\ ~Holding' /\ UNCHANGED <<sent, entries>>
        /\ replies' = replies \/ replies' = <<>>
    BY <1>2 DEF Open, WriteFingerprint, NextRound, supplicant, InRound, Resetting, Holding,
       AfterRound, Changes
  <2>2. CASE replies' = replies
    BY <2>1, <2>2 DEF Claims, Numbers, Removal
  <2>3. CASE replies' = <<>>
    BY <2>1, <2>3 DEF Claims, Numbers, Removal
  <2> QED BY <2>1, <2>2, <2>3
<1>3. CASE Send
  BY <1>3, SendClaims DEF Send, InRound, Resetting
<1>4. CASE Receive \/ TimeOut
  <2>1. InRound
    BY <1>4, AnswerLeads
       DEF Receive, TimeOut, Shape, InRound, Resetting, Commands, Changes, Harmless
  <2> QED BY <1>4, <2>1, AnsweredClaims
<1>5. CASE Supplicant
  BY <1>5, SupplicantClaims DEF Supplicant, worker, InRound, Resetting
<1>6. CASE Stop \/ ResetWifi \/ RemoveData \/ Crash \/ PowerCut
  BY <1>6 DEF Stop, ResetWifi, RemoveData, Crash, PowerCut, InRound, Resetting
<1>7. CASE UNCHANGED vars
  BY <1>7 DEF vars, worker, supplicant, InRound, Resetting, Claims, Numbers, Removal, Holding, Free
<1> QED BY <1>1, <1>2, <1>3, <1>4, <1>5, <1>6, <1>7 DEF Next

-----------------------------------------------------------------------------
(* What a network will be                                                  *)

\* What a step of the supplicant makes of network k.
LEMMA EntryAfter ==
  ASSUME TypeOK, Shape, Supplicant, sent[1].command # "forget",
         NEW k \in DOMAIN entries, k \in DOMAIN entries'
  PROVE  /\ entries'[k].net = IF sent[1].command = "ssid" /\ sent[1].id = k THEN sent[1].net
                              ELSE entries[k].net
         /\ \/ entries[k].key
            \/ sent[1].command = "key" /\ sent[1].id = k /\ sent[1].net \notin Refused
            => entries'[k].key
         /\ entries[k].first \/ (sent[1].command = "priority" /\ sent[1].id = k) => entries'[k].first
         /\ entries[k].on \/ (sent[1].command = "enable" /\ sent[1].id = k) => entries'[k].on
<1> DEFINE c == sent[1].command
           n == sent[1].id
           net == sent[1].net
<1>1. PICK a \in Reply : Outcome(c, n, net, a) /\ sent[1] \in Request
  BY QueuesAfter
<1>2. c \in Commands /\ net \in Networks \cup {""} /\ NewId \notin DOMAIN entries
  BY <1>1, FreshNumber DEF Request, Shape
<1>3. \A m \in DOMAIN entries : entries[m] \in Entry
  BY DEF TypeOK
<1> HIDE DEF c, n, net
<1>4. CASE c = "add" /\ Adding(a)
  BY <1>2, <1>4 DEF Adding, c, n, net
<1>5. CASE c \in Changes /\ Changing(c, n, net, a)
  <2>1. \A m \in DOMAIN entries :
          /\ Effect(c, n, net)[m] \in Entry
          /\ Effect(c, n, net)[m].net = IF c = "ssid" /\ m = n THEN net ELSE entries[m].net
          /\ entries[m].key \/ (c = "key" /\ m = n) => Effect(c, n, net)[m].key
          /\ entries[m].first \/ (c = "priority" /\ m = n) => Effect(c, n, net)[m].first
          /\ entries[m].on \/ (c = "enable" /\ m = n) => Effect(c, n, net)[m].on
    BY <1>2, <1>3, <1>5, EffectFacts, Zenon
  <2>2. entries' = Effect(c, n, net)
    BY <1>5 DEF Changing
  <2> QED BY <2>1, <2>2 DEF c, n, net
<1>6. CASE c \in Changes /\ Failing(c, n, net, a)
  BY <1>6 DEF Failing, c, n, net
<1>7. CASE c = "remove" /\ Removing(n, a)
  <2>1. k # n /\ entries'[k] = entries[k]
    BY <1>7 DEF Removing
  <2> QED BY <1>7, <2>1 DEF c, n, net
<1>8. CASE c = "save" /\ Saving(a)
  BY <1>8 DEF Saving, c, n, net
<1>9. CASE c \in Harmless /\ Reporting(c, a)
  BY <1>9 DEF Reporting, Harmless, c, n, net
<1> QED BY <1>1, <1>4, <1>5, <1>6, <1>7, <1>8, <1>9 DEF Outcome, c, n, net

\* What is pending stays so until it is carried out.
LEMMA PendingAfter ==
  ASSUME TypeOK, Shape, Supplicant, NEW c, NEW k, NEW net, Pending(c, k, net)
  PROVE  \/ Pending(c, k, net)'
         \/ sent[1].command = c /\ sent[1].id = k /\ sent[1].net = net
<1>1. \A i \in DOMAIN sent : i = 1 \/ (i - 1 \in DOMAIN sent' /\ sent'[i - 1] = sent[i])
  BY QueuesAfter
<1>2. PICK i \in DOMAIN sent : sent[i].command = c /\ sent[i].id = k /\ sent[i].net = net
  BY DEF Pending
<1> QED BY <1>1, <1>2 DEF Pending

\* What network k will be, it will be after a step of the supplicant as well.
LEMMA PromisesAfter ==
  ASSUME TypeOK, Shape, Supplicant, sent[1].command # "forget",
         NEW k \in DOMAIN entries, k \in DOMAIN entries', NEW net
  PROVE  /\ WillBeNamed(k, net) => WillBeNamed(k, net)'
         /\ net \notin Refused /\ WillHaveKey(k, net) => WillHaveKey(k, net)'
         /\ WillBeFirst(k, net) => WillBeFirst(k, net)'
         /\ WillBeOn(k, net) => WillBeOn(k, net)'
<1>1. ASSUME WillBeNamed(k, net)
      PROVE  WillBeNamed(k, net)'
  <2>1. /\ 1 \in DOMAIN sent
        /\ \A i \in DOMAIN sent' : i + 1 \in DOMAIN sent /\ sent'[i] = sent[i + 1]
    BY QueuesAfter
  <2>2. entries'[k].net = net \/ Pending("ssid", k, net)'
    BY <1>1, <2>1, EntryAfter, PendingAfter DEF WillBeNamed
  <2>3. \A i \in DOMAIN sent' : sent'[i].command = "ssid" /\ sent'[i].id = k => sent'[i].net = net
    BY <1>1, <2>1 DEF WillBeNamed
  <2> QED BY <2>2, <2>3 DEF WillBeNamed
<1>2. ASSUME net \notin Refused, WillHaveKey(k, net)
      PROVE  WillHaveKey(k, net)'
  BY <1>2, EntryAfter, PendingAfter DEF WillHaveKey
<1>3. ASSUME WillBeFirst(k, net)
      PROVE  WillBeFirst(k, net)'
  BY <1>3, EntryAfter, PendingAfter DEF WillBeFirst
<1>4. ASSUME WillBeOn(k, net)
      PROVE  WillBeOn(k, net)'
  BY <1>4, EntryAfter, PendingAfter DEF WillBeOn
<1> QED BY <1>1, <1>2, <1>3, <1>4

\* Sending another command takes nothing back.
LEMMA PromisesSent ==
  ASSUME TypeOK, Send, NEW k, NEW net, at = "ssid" /\ id = k => cfg = net
  PROVE  /\ WillBeNamed(k, net) => WillBeNamed(k, net)'
         /\ WillHaveKey(k, net) => WillHaveKey(k, net)'
         /\ WillBeFirst(k, net) => WillBeFirst(k, net)'
         /\ WillBeOn(k, net) => WillBeOn(k, net)'
<1>1. /\ \A i \in DOMAIN sent : i \in DOMAIN sent' /\ sent'[i] = sent[i]
      /\ \A i \in DOMAIN sent' :
           \/ i \in DOMAIN sent /\ sent'[i] = sent[i]
           \/ sent'[i] = [command |-> at, id |-> id, net |-> cfg]
  BY QueueSent
<1>2. \A c : Pending(c, k, net) => Pending(c, k, net)'
  BY <1>1 DEF Pending
<1>3. entries' = entries
  BY DEF Send
<1>4. ASSUME WillBeNamed(k, net)
      PROVE  WillBeNamed(k, net)'
  <2>1. \A i \in DOMAIN sent' : sent'[i].command = "ssid" /\ sent'[i].id = k => sent'[i].net = net
    BY <1>1, <1>4 DEF WillBeNamed
  <2> QED BY <1>2, <1>3, <1>4, <2>1 DEF WillBeNamed
<1> QED BY <1>2, <1>3, <1>4 DEF WillHaveKey, WillBeFirst, WillBeOn

\* Nor does a step that leaves requests and networks alone.
LEMMA PromisesQuiet ==
  ASSUME UNCHANGED <<sent, entries>>, NEW k, NEW net
  PROVE  /\ WillBeNamed(k, net)' = WillBeNamed(k, net)
         /\ WillHaveKey(k, net)' = WillHaveKey(k, net)
         /\ WillBeFirst(k, net)' = WillBeFirst(k, net)
         /\ WillBeOn(k, net)' = WillBeOn(k, net)
  BY DEF WillBeNamed, WillHaveKey, WillBeFirst, WillBeOn, Pending

-----------------------------------------------------------------------------
(* setNetwork on its way                                                   *)

\* What setNetwork has sent will be done to its network.
LEMMA StepUnderway ==
  ASSUME TypeOK, Shape, InRound => Claims, Underway, [Next]_vars, Shape'
  PROVE  Underway'
<1> SUFFICES ASSUME NEW k, NEW net, k = id', net = cfg', InRound', net \notin Refused
             PROVE  /\ Given("ssid")' => WillBeNamed(k, net)'
                    /\ Given("key")' => WillHaveKey(k, net)'
                    /\ Given("priority")' => WillBeFirst(k, net)'
                    /\ Given("enable")' => WillBeOn(k, net)'
  BY DEF Underway, WillBeNamed, WillHaveKey, WillBeFirst, WillBeOn, Pending
<1>0. InRound /\ k = id /\ net = cfg =>
        /\ Given("ssid") => WillBeNamed(k, net)
        /\ Given("key") => WillHaveKey(k, net)
        /\ Given("priority") => WillBeFirst(k, net)
        /\ Given("enable") => WillBeOn(k, net)
  BY DEF Underway
<1>1. CASE at' \notin DOMAIN Order
  BY <1>1 DEF Given
<1>2. CASE Supplicant
  <2>1. UNCHANGED <<at, id, waiting, cfg>> /\ InRound
    BY <1>2 DEF Supplicant, worker, InRound, Resetting
  <2>2. \A c : Given(c)' = Given(c)
    BY <2>1 DEF Given
  <2>3. \A c : Given(c) => Holding
    BY OrderFacts DEF Given, Holding, Changes
  <2>4. sent[1].command # "forget" /\ Head(sent) = sent[1]
    BY <1>2, <2>1, QueuesAfter DEF Shape
  <2>5. Holding => k \in DOMAIN entries /\ k \in DOMAIN entries'
    <3> SUFFICES ASSUME Holding PROVE k \in DOMAIN entries /\ k \in DOMAIN entries'
      OBVIOUS
    <3>1. Free(k)
      BY <2>1 DEF Claims
    <3>2. Free(k)'
      BY <1>2, <2>4, <3>1, FreeStays
    <3> QED BY <3>1, <3>2 DEF Free
  <2> QED BY <1>0, <1>2, <2>1, <2>2, <2>3, <2>4, <2>5, PromisesAfter
<1>3. CASE Send
  <2>1. UNCHANGED <<at, id, cfg, entries>> /\ ~waiting /\ InRound
    BY <1>3 DEF Send, InRound, Resetting
  <2>2. \A c : Given(c)' => Given(c) \/ (c = at /\ at \in DOMAIN Order)
    BY <2>1 DEF Given
  <2>3. at \in DOMAIN Order => Pending(at, k, net)'
    <3>1. at \in DOMAIN Order => linked
      BY OrderFacts DEF Shape, Changes
    <3>2. linked => \E i \in DOMAIN sent' : sent'[i] = [command |-> at, id |-> id, net |-> cfg]
      BY <1>3, QueueSent
    <3> QED BY <2>1, <3>1, <3>2 DEF Pending
  <2>4. \A i \in DOMAIN sent' : sent'[i].net = net
    BY <2>1 DEF Shape
  <2>5. /\ Given("ssid") => WillBeNamed(k, net)'
        /\ Given("key") => WillHaveKey(k, net)'
        /\ Given("priority") => WillBeFirst(k, net)'
        /\ Given("enable") => WillBeOn(k, net)'
    BY <1>0, <1>3, <2>1, PromisesSent
  <2> QED BY <2>1, <2>2, <2>3, <2>4, <2>5 DEF WillBeNamed, WillHaveKey, WillBeFirst, WillBeOn
<1>4. CASE (Receive \/ TimeOut) /\ at' \in DOMAIN Order
  <2>1. PICK answer : Answered(answer)
    BY <1>4 DEF Receive, TimeOut
  <2>2. /\ UNCHANGED <<sent, entries, cfg>> /\ waiting /\ ~waiting'
        /\ at = "status" => at' \in (IF configured THEN AfterRound ELSE {"add"})
        /\ at = "add" => at' \in (IF IsId(answer) THEN {"ssid"} ELSE AfterRound)
        /\ at # "add" => id' = id
        /\ at \in DOMAIN After => at' = IF answer = OK THEN After[at] ELSE "remove"
        /\ at = "forget" => at' = "save"
        /\ at = "save" => at' = IF id = 0 THEN "clear" ELSE "write"
        /\ at = "remove" => at' \in AfterRound
        /\ at = "retry" => at' \in {"scan", "rest"}
        /\ at = "scan" => at' = "rest"
        /\ at \in Commands
    BY <2>1, AnswerLeads DEF Shape
  <2>3. CASE at \in DOMAIN After
    <3>1. at' = After[at] /\ InRound /\ id' = id
      BY <1>4, <2>2, <2>3, OrderFacts DEF InRound, Resetting
    <3>2. \A c \in DOMAIN Order : Given(c)' => Given(c)
      BY <1>4, <2>2, <2>3, <3>1, OrderFacts DEF Given
    <3> QED BY <1>0, <2>2, <3>1, <3>2, OrderFacts, PromisesQuiet
  <2>4. CASE at \notin DOMAIN After
    <3>1. at' = "ssid"
      BY <1>4, <2>2, <2>4, OrderFacts DEF Commands, Changes, Harmless, AfterRound
    <3> QED BY <2>2, <3>1, OrderFacts DEF Given
  <2> QED BY <2>3, <2>4
<1>5. CASE \/ Open \/ WriteFingerprint \/ NextRound \/ Stop \/ ResetWifi \/ RemoveData \/ Start
           \/ Crash \/ PowerCut
  BY <1>1, <1>5, OrderFacts DEF Open, WriteFingerprint, NextRound, Stop, ResetWifi, RemoveData,
     Start, Crash, PowerCut, AfterRound
<1>6. CASE UNCHANGED vars
  <2>1. UNCHANGED <<sent, entries, cfg, id, at, waiting>>
    BY <1>6 DEF vars, worker, supplicant
  <2>2. InRound /\ \A c : Given(c)' = Given(c)
    BY <2>1 DEF InRound, Resetting, Given
  <2> QED BY <1>0, <2>1, <2>2, PromisesQuiet
<1> QED BY <1>1, <1>2, <1>3, <1>4, <1>5, <1>6 DEF Next

-----------------------------------------------------------------------------
(* A refused password stops setNetwork                                     *)

\* The first d answers of the stream are gone, and the rest as decisive as before.
Shifted(d) ==
  /\ d \in 0..Length /\ Length' = Length - d
  /\ \A p \in 1..(Length - d) : (Stops(p + d) => Stops(p)') /\ (Tells(p)' => Tells(p + d))

\* The two parts of the stream are sequences.
LEMMA LengthType ==
  ASSUME TypeOK
  PROVE  /\ Len(replies) \in Nat /\ Len(sent) \in Nat /\ Length \in Nat
         /\ sent \in Seq(Request) /\ replies \in Seq(Reply)
         /\ DOMAIN sent = 1..Len(sent) /\ DOMAIN replies = 1..Len(replies)
<1>1. sent \in Seq(Request) /\ replies \in Seq(Reply)
  BY DEF TypeOK, Request, Reply
<1> QED BY <1>1 DEF Length

\* A shift of the stream keeps its windows.
LEMMA WindowShift ==
  ASSUME TypeOK, NEW d, Shifted(d), NEW b \in Int, NEW e \in Int, b <= e, Window(b)
  PROVE  Window(e)'
<1> SUFFICES ASSUME NEW i \in 1..Length', Tells(i)'
             PROVE  Stopped(i + 1, i + 5)' \/ Length' - i <= e
  BY DEF Window
<1>1. Length \in Nat
  BY LengthType
<1>2. i + d \in 1..Length /\ Tells(i + d)
  BY <1>1 DEF Shifted
<1>3. CASE Stopped(i + d + 1, i + d + 5)
  <2>1. PICK p \in (i + d + 1)..(i + d + 5) : p <= Length /\ Stops(p)
    BY <1>3 DEF Stopped
  <2>2. p - d \in 1..(Length - d) /\ p - d \in (i + 1)..(i + 5) /\ (p - d) + d = p
    BY <1>1, <2>1 DEF Shifted
  <2>3. Stops(p - d)' /\ p - d <= Length'
    BY <2>1, <2>2 DEF Shifted
  <2> QED BY <2>2, <2>3 DEF Stopped
<1>4. CASE Length - (i + d) <= b
  BY <1>1, <1>4 DEF Shifted
<1> QED BY <1>2, <1>3, <1>4 DEF Window

\* A shift keeps an answer that stops, unless it is one of those gone.
LEMMA StoppedShift ==
  ASSUME TypeOK, NEW d, Shifted(d), NEW n \in Int, Stopped(d + 1, n)
  PROVE  Stopped(1, n - d)'
<1>1. Length \in Nat
  BY LengthType
<1>2. PICK p \in (d + 1)..n : p <= Length /\ Stops(p)
  BY DEF Stopped
<1>3. p - d \in 1..(Length - d) /\ p - d \in 1..(n - d) /\ (p - d) + d = p
  BY <1>1, <1>2 DEF Shifted
<1>4. Stops(p - d)' /\ p - d <= Length'
  BY <1>2, <1>3 DEF Shifted
<1> QED BY <1>3, <1>4 DEF Stopped

\* Steps that shift the stream.
LEMMA ShiftQuiet ==
  ASSUME TypeOK, UNCHANGED <<sent, replies>>
  PROVE  Shifted(0)
  BY LengthType DEF Shifted, Length, Stops, Tells, Numbers

\* The socket goes with the answers in it.
LEMMA ShiftDropped ==
  ASSUME TypeOK, sent' = sent, replies' = <<>>
  PROVE  Shifted(Len(replies))
<1>1. Len(replies') = 0 /\ Length' = Len(sent)
  BY LengthType DEF Length
<1>2. ASSUME NEW p \in 1..Len(sent)
      PROVE  /\ Stops(p)' <=> Stops(p + Len(replies))
             /\ Tells(p)' <=> Tells(p + Len(replies))
  BY <1>1, LengthType DEF Stops, Tells
<1> QED BY <1>1, <1>2, LengthType DEF Shifted, Length

\* An answer is taken.
LEMMA ShiftAnswered ==
  ASSUME TypeOK, sent' = sent, replies # <<>>, replies' = Tail(replies)
  PROVE  Shifted(1)
<1>1. /\ Len(replies) \in Nat \ {0} /\ Len(replies') = Len(replies) - 1
      /\ \A i \in 1..Len(replies) - 1 : replies'[i] = replies[i + 1]
  BY LengthType, TailFacts
<1>2. Length' = Length - 1 /\ 1 \in 0..Length
  BY <1>1, LengthType DEF Length
<1>3. ASSUME NEW p \in 1..(Length - 1)
      PROVE  (Stops(p)' <=> Stops(p + 1)) /\ (Tells(p)' <=> Tells(p + 1))
  <2>1. CASE p <= Len(replies) - 1
    BY <1>1, <2>1, LengthType DEF Stops, Tells, Numbers
  <2>2. CASE p > Len(replies) - 1
    BY <1>1, <2>2, LengthType DEF Stops, Tells, Numbers, Length
  <2> QED BY <1>1, <2>1, <2>2
<1> QED BY <1>2, <1>3 DEF Shifted

\* A request becomes an answer, which stops setNetwork if it was said to.
LEMMA ShiftServed ==
  ASSUME TypeOK, Shape, InRound, cfg \in Refused, Supplicant
  PROVE  Shifted(0) \/ (Shifted(1) /\ ~linked) \/ (Shifted(1) /\ at = "open")
<1>1. PICK a \in Reply :
        /\ Outcome(sent[1].command, sent[1].id, sent[1].net, a)
        /\ Served(a) /\ 1 \in DOMAIN sent
  BY QueuesAfter
<1>2. /\ Len(sent) \in Nat \ {0} /\ Len(sent') = Len(sent) - 1
      /\ \A i \in 1..Len(sent) - 1 : sent'[i] = sent[i + 1]
  BY <1>1, LengthType, TailFacts DEF Served
<1>3. /\ sent[1].command \in {"status", "add", "key"} => a # OK
      /\ a.is = "number" => sent[1].command = "add"
  <2>1. sent[1].net = cfg
    BY <1>1 DEF Shape
  <2> QED BY <1>1, <2>1 DEF Outcome, Adding, Changing, Failing, Removing, Saving, Reporting,
             Number, OK, FAIL, Text, Changes, Harmless
<1>4. CASE replies' = Append(replies, a)
  <2>1. /\ Len(replies') = Len(replies) + 1 /\ replies'[Len(replies) + 1] = a
        /\ \A i \in 1..Len(replies) : replies'[i] = replies[i]
    BY <1>4, LengthType, AppendFacts
  <2>2. Length' = Length
    BY <1>2, <2>1, LengthType DEF Length
  <2>3. ASSUME NEW p \in 1..Length
        PROVE  (Stops(p) => Stops(p)') /\ (Tells(p)' => Tells(p))
    <3>1. CASE p <= Len(replies)
      BY <2>1, <3>1, LengthType DEF Stops, Tells, Numbers
    <3>2. CASE p = Len(replies) + 1
      BY <1>3, <2>1, <3>2, LengthType DEF Stops, Tells, Numbers
    <3>3. CASE p > Len(replies) + 1
      <4>1. p - Len(replies') \in 1..Len(sent) - 1 /\ (p - Len(replies')) + 1 = p - Len(replies)
        BY <1>2, <2>1, <3>3, LengthType DEF Length
      <4>2. sent'[p - Len(replies')] = sent[p - Len(replies)]
        BY <1>2, <4>1
      <4>3. ~(p <= Len(replies)) /\ ~(p <= Len(replies'))
        BY <2>1, <3>3, LengthType
      <4> QED BY <4>2, <4>3 DEF Stops, Tells
    <3> QED BY <3>1, <3>2, <3>3, LengthType
  <2> QED BY <2>2, <2>3, LengthType DEF Shifted
<1>5. CASE replies' = <<>> /\ (at = "open" \/ ~linked)
  <2>1. Len(replies) = 0 /\ Len(replies') = 0
    BY <1>5 DEF Shape
  <2>2. Length' = Length - 1 /\ 1 \in 0..Length
    BY <1>2, <2>1, LengthType DEF Length
  <2>3. ASSUME NEW p \in 1..(Length - 1)
        PROVE  (Stops(p + 1) => Stops(p)') /\ (Tells(p)' => Tells(p + 1))
    BY <1>2, <2>1, LengthType DEF Stops, Tells, Length
  <2> QED BY <1>5, <2>2, <2>3 DEF Shifted
<1> QED BY <1>1, <1>4, <1>5 DEF Served, InRound

\* Sending a command puts its answer at the end of the stream.
LEMMA StreamSent ==
  ASSUME TypeOK, Send, linked
  PROVE  /\ Length \in Nat /\ Length' = Length + 1
         /\ \A p \in 1..Length : (Stops(p)' <=> Stops(p)) /\ (Tells(p)' <=> Tells(p))
         /\ \A p : p = Length + 1 =>
              /\ Stops(p)' <=> at \in {"status", "add", "key"}
              /\ Tells(p)' <=> at = "add"
<1>1. /\ \A i \in 1..Len(sent) : sent'[i] = sent[i]
      /\ sent'[Len(sent) + 1].command = at /\ Len(sent') = Len(sent) + 1
      /\ replies' = replies
  BY QueueSent DEF Send
<1>2. Length \in Nat /\ Length' = Length + 1
  BY <1>1, LengthType DEF Length
<1>3. ASSUME NEW p \in 1..Length
      PROVE  (Stops(p)' <=> Stops(p)) /\ (Tells(p)' <=> Tells(p))
  BY <1>1, LengthType DEF Stops, Tells, Numbers, Length
<1>4. ASSUME NEW p, p = Length + 1
      PROVE  /\ Stops(p)' <=> at \in {"status", "add", "key"}
             /\ Tells(p)' <=> at = "add"
  <2>1. ~(p <= Len(replies')) /\ p - Len(replies') = Len(sent) + 1
    BY <1>1, <1>4, LengthType DEF Length
  <2> QED BY <1>1, <2>1 DEF Stops, Tells
<1> QED BY <1>2, <1>3, <1>4

\* An answer that stops is still there after another request.
LEMMA StoppedSent ==
  ASSUME TypeOK, Send, linked, NEW m \in Int, NEW n \in Int, m >= 1, Stopped(m, n)
  PROVE  Stopped(m, n)'
<1>1. PICK p \in m..n : p <= Length /\ Stops(p)
  BY DEF Stopped
<1>2. p \in 1..Length /\ p <= Length' /\ Stops(p)'
  BY <1>1, StreamSent
<1> QED BY <1>1, <1>2 DEF Stopped

\* What a request adds to the windows.
LEMMA WindowSent ==
  ASSUME TypeOK, Send, linked, NEW b \in -1..4, Window(b)
  PROVE  /\ at \notin {"status", "add", "key"} => Window(b + 1)'
         /\ at \in {"status", "key"} => Window(-1)'
         /\ at # "add" /\ b = -1 => Window(-1)'
         /\ at = "add" /\ b = -1 => Window(0)'
<1>1. /\ Length \in Nat /\ Length' = Length + 1
      /\ \A p \in 1..Length : (Stops(p)' <=> Stops(p)) /\ (Tells(p)' <=> Tells(p))
      /\ \A p : p = Length + 1 =>
           /\ Stops(p)' <=> at \in {"status", "add", "key"}
           /\ Tells(p)' <=> at = "add"
  BY StreamSent
<1>2. ASSUME NEW i \in 1..Length, Tells(i)'
      PROVE  \/ Stopped(i + 1, i + 5)'
             \/ /\ Length - i <= b /\ at \notin {"status", "add", "key"}
  <2>1. CASE Stopped(i + 1, i + 5)
    BY <2>1, StoppedSent
  <2>2. CASE Length - i <= b /\ at \in {"status", "add", "key"}
    <3>1. Length + 1 \in (i + 1)..(i + 5)
      BY <1>1, <2>2
    <3>2. PICK p \in (i + 1)..(i + 5) : p = Length + 1
      BY <3>1
    <3>3. p <= Length' /\ Stops(p)'
      BY <1>1, <2>2, <3>2
    <3> QED BY <3>3 DEF Stopped
  <2> QED BY <1>1, <1>2, <2>1, <2>2 DEF Window
<1>3. ASSUME NEW e \in Int, b # -1 /\ at \notin {"status", "add", "key"} => e >= b + 1,
             at = "add" => e >= 0
      PROVE  Window(e)'
  <2> SUFFICES ASSUME NEW i \in 1..Length', Tells(i)'
               PROVE  Stopped(i + 1, i + 5)' \/ Length' - i <= e
    BY DEF Window
  <2>1. CASE i \in 1..Length
    BY <1>1, <1>2, <1>3, <2>1
  <2>2. CASE i = Length + 1
    BY <1>1, <1>3, <2>2
  <2> QED BY <1>1, <2>1, <2>2
<1> QED BY <1>3

\* With a refused password, what a round has sent leads to no more answers in a
\* row that let setNetwork go on than it takes to stop it.
LEMMA StepWindow ==
  ASSUME TypeOK, Shape, Refusal, [Next]_vars, InRound, InRound', cfg \in Refused, cfg' = cfg
  PROVE  Window(Slack)'
<1>0. Window(Slack) /\ ~configured /\ at \notin {"save", "write"}
  BY DEF Refusal
<1>1. Slack \in -1..4 /\ Slack' \in -1..4
  BY DEF Slack
<1> SUFFICES ASSUME NEW b \in -1..4, b = Slack, Window(b), NEW e \in -1..4, e = Slack'
             PROVE  Window(e)'
  <2>1. Window(Slack)' <=> \A e : e = Slack' => Window(e)'
    BY DEF Window
  <2>2. \A b : b = Slack => Window(b)
    BY <1>0
  <2> QED BY <1>1, <2>1, <2>2
<1>2. ASSUME NEW d, Shifted(d), b <= e
      PROVE  Window(e)'
  BY <1>2, WindowShift
<1>3. CASE Send
  <2>1. UNCHANGED <<at, linked>> /\ ~waiting /\ waiting' /\ at \in Commands
    BY <1>3 DEF Send
  <2>2. CASE linked
    <3>1. /\ at \in {"status", "key"} => e = -1
          /\ at = "add" => b = -1 /\ e = 0
          /\ at \in {"priority", "enable", "reassociate"} => b = -1 /\ e = -1
          /\ at \in {"ssid", "remove", "retry", "scan"} => e = b + 1
      BY <2>1, <2>2 DEF Slack
    <3>2. \/ at \in {"status", "key", "add", "priority", "enable", "reassociate"}
          \/ at \in {"ssid", "remove", "retry", "scan"}
      BY <1>0, <2>1 DEF InRound, Resetting, Commands, Changes, Harmless
    <3> QED BY <1>3, <2>2, <3>1, <3>2, WindowSent
  <2>3. CASE ~linked
    <3>1. Shifted(0)
      BY <1>3, <2>3, ShiftQuiet DEF Send
    <3>2. b = 4 /\ e = 4
      BY <2>1, <2>3 DEF Slack
    <3> QED BY <1>2, <3>1, <3>2
  <2> QED BY <2>2, <2>3
<1>4. CASE Receive \/ TimeOut
  <2>1. PICK answer : Answered(answer)
    BY <1>4 DEF Receive, TimeOut
  <2>2. /\ UNCHANGED <<sent, linked>> /\ waiting /\ ~waiting'
        /\ at = "status" => at' = "add"
        /\ at = "add" => at' \in {"ssid"} \cup AfterRound
        /\ at \in DOMAIN After => at' = IF answer = OK THEN After[at] ELSE "remove"
        /\ at = "remove" => at' \in AfterRound
        /\ at = "retry" => at' \in {"scan", "rest"}
        /\ at = "scan" => at' = "rest"
        /\ at \in Commands /\ at \notin {"forget", "save"}
    BY <1>0, <2>1, AnswerLeads DEF Shape, InRound, Resetting
  <2>3. b <= e
    BY <2>2, OrderFacts DEF Slack, Commands, Changes, Harmless, AfterRound
  <2>4. CASE Receive
    BY <1>2, <2>2, <2>3, <2>4, ShiftAnswered DEF Receive
  <2>5. CASE TimeOut
    BY <1>2, <2>2, <2>3, <2>5, ShiftQuiet DEF TimeOut
  <2> QED BY <1>4, <2>4, <2>5
<1>5. CASE Supplicant
  <2>1. UNCHANGED <<at, linked, waiting>>
    BY <1>5 DEF Supplicant, worker
  <2>2. b = e
    BY <2>1 DEF Slack
  <2> QED BY <1>2, <1>5, <2>2, ShiftServed
<1>6. CASE Open
  <2>1. b <= e
    BY <1>6 DEF Open, Slack, Shape, Commands, Changes, Harmless
  <2> QED BY <1>2, <1>6, <2>1, ShiftQuiet DEF Open, supplicant
<1>7. CASE NextRound
  <2>1. b <= e
    BY <1>7 DEF NextRound, Slack
  <2>2. Shifted(Len(replies))
    BY <1>7, ShiftDropped DEF NextRound
  <2> QED BY <1>2, <2>1, <2>2
<1>8. CASE WriteFingerprint \/ Start
  BY <1>0, <1>8 DEF WriteFingerprint, Start, InRound
<1>9. CASE Stop \/ ResetWifi \/ RemoveData \/ Crash \/ PowerCut
  BY <1>9 DEF Stop, ResetWifi, RemoveData, Crash, PowerCut, InRound, Resetting
<1>10. CASE UNCHANGED vars
  <2>1. b = e
    BY <1>10 DEF Slack, vars, worker
  <2> QED BY <1>2, <1>10, <2>1, ShiftQuiet DEF vars, supplicant
<1> QED BY <1>3, <1>4, <1>5, <1>6, <1>7, <1>8, <1>9, <1>10 DEF Next

\* So it is stopped.
LEMMA StepStopped ==
  ASSUME TypeOK, Shape, Refusal, [Next]_vars, InRound, InRound', cfg \in Refused, cfg' = cfg,
         at' \in DOMAIN Order
  PROVE  InStep' \/ Stopped(1, 6 - Order[at])'
<1> SUFFICES ASSUME NEW n, n = 6 - Order[at']
             PROVE  InStep' \/ Stopped(1, n)'
  BY DEF Stopped
<1>0. /\ ~configured /\ at \notin {"save", "write"}
      /\ at \in DOMAIN Order => InStep \/ Stopped(1, 6 - Order[at])
  BY DEF Refusal
<1>1. CASE Send
  <2>1. UNCHANGED at /\ ~waiting /\ waiting' /\ linked
    BY <1>1, OrderFacts DEF Send, Shape, Changes
  <2>2. CASE Stopped(1, n)
    BY <1>1, <2>1, <2>2, StoppedSent, OrderFacts
  <2>3. CASE InStep
    <3>1. CASE at = "ssid"
      <4>1. Length = 0
        BY <2>1, <2>3, <3>1 DEF InStep
      <4>2. Length' = 1
        BY <1>1, <2>1, <4>1, StreamSent
      <4> QED BY <2>1, <3>1, <4>2 DEF InStep
    <3>2. CASE at = "key"
      <4>1. Length = 0 /\ n = 4
        BY <2>1, <2>3, <3>2, OrderFacts DEF InStep
      <4>2. Length' = 1 /\ \A p : p = 1 => Stops(p)'
        BY <1>1, <2>1, <3>2, <4>1, StreamSent
      <4> QED BY <4>1, <4>2 DEF Stopped
    <3> QED BY <2>3, <3>1, <3>2 DEF InStep
  <2> QED BY <1>0, <2>1, <2>2, <2>3
<1>2. CASE Receive \/ TimeOut
  <2>1. PICK answer \in Reply \cup {NoReply} :
          /\ Answered(answer)
          /\ answer # NoReply => replies # <<>> /\ 1 \in DOMAIN replies /\ answer = replies[1]
          /\ answer = NoReply => replies = <<>>
    BY <1>2, AnswerTaken
  <2>2. /\ UNCHANGED sent /\ waiting /\ ~waiting'
        /\ at = "status" => at' = "add"
        /\ at = "add" => at' \in (IF IsId(answer) THEN {"ssid"} ELSE AfterRound)
        /\ at \in DOMAIN After => at' = IF answer = OK THEN After[at] ELSE "remove"
        /\ at = "remove" => at' \in AfterRound
        /\ at = "retry" => at' \in {"scan", "rest"}
        /\ at = "scan" => at' = "rest"
        /\ at \in Commands /\ at \notin {"forget", "save"}
    BY <1>0, <2>1, AnswerLeads DEF Shape, InRound, Resetting
  <2>3. \/ at = "add" /\ IsId(answer) /\ at' = "ssid"
        \/ at \in DOMAIN After /\ answer = OK /\ at' = After[at]
    BY <2>2, OrderFacts DEF Commands, Changes, Harmless, AfterRound
  <2>4. replies # <<>> /\ 1 \in DOMAIN replies /\ answer = replies[1] /\ Len(replies) \in Nat \ {0}
    BY <2>1, <2>3, LengthType, TailFacts DEF IsId, OK, NoReply
  <2>5. Shifted(1)
    BY <1>2, <2>2, <2>4, ShiftAnswered DEF Receive, TimeOut
  <2>6. Length \in Nat \ {0} /\ Length' = Length - 1
    BY <2>4, <2>5, LengthType DEF Shifted, Length
  <2>7. CASE at = "add" /\ IsId(answer)
    <3>1. 1 \in 1..Length /\ Tells(1) /\ n = 5 /\ at' = "ssid"
      BY <2>3, <2>4, <2>6, <2>7, OrderFacts DEF Tells, Numbers, IsId
    <3>2. linked
      BY <2>4 DEF Shape
    <3>3. Slack = 0
      BY <2>2, <2>7, <3>2 DEF Slack
    <3>4. Stopped(2, 6) \/ Length - 1 <= 0
      BY <3>1, <3>3 DEF Refusal, Window
    <3>5. CASE Stopped(2, 6)
      BY <2>5, <3>1, <3>5, StoppedShift
    <3>6. CASE Length - 1 <= 0
      BY <2>2, <2>6, <3>1, <3>6 DEF InStep
    <3> QED BY <3>4, <3>5, <3>6
  <2>8. CASE at \in DOMAIN After /\ answer = OK
    <3>1. at' = After[at] /\ ~Stops(1)
      BY <2>3, <2>4, <2>8, OrderFacts DEF Stops
    <3>2. n = 5 - Order[at] /\ Order[at] \in 1..4
      BY <2>8, <3>1, OrderFacts
    <3>3. CASE Stopped(1, n + 1)
      <4>1. Stopped(2, n + 1)
        BY <3>1, <3>3, <3>2 DEF Stopped
      <4> QED BY <2>5, <3>2, <4>1, StoppedShift
    <3>4. CASE InStep
      <4>1. at = "ssid" /\ Length = 1
        BY <2>2, <3>4 DEF InStep
      <4> QED BY <2>2, <2>6, <3>1, <4>1, OrderFacts DEF InStep
    <3> QED BY <1>0, <2>8, <3>2, <3>3, <3>4, OrderFacts
  <2> QED BY <2>3, <2>7, <2>8
<1>3. CASE Supplicant
  <2>1. UNCHANGED <<at, linked, waiting>>
    BY <1>3 DEF Supplicant, worker
  <2>2. linked /\ at # "open"
    BY <2>1, OrderFacts DEF Shape, Changes
  <2>3. Shifted(0)
    BY <1>3, <2>2, ShiftServed
  <2>4. InStep => InStep'
    BY <2>1, <2>3, LengthType DEF InStep, Shifted
  <2>5. Stopped(1, n) => Stopped(1, n)'
    BY <2>1, <2>3, StoppedShift, OrderFacts
  <2> QED BY <1>0, <2>1, <2>4, <2>5
<1>4. CASE UNCHANGED vars
  <2>1. UNCHANGED <<at, linked, waiting, sent, replies>>
    BY <1>4 DEF vars, worker, supplicant
  <2> QED BY <1>0, <2>1 DEF InStep, Stopped, Stops, Length
<1>5. CASE \/ Open \/ WriteFingerprint \/ NextRound \/ Stop \/ ResetWifi \/ RemoveData \/ Start
           \/ Crash \/ PowerCut
  BY <1>5, OrderFacts DEF Open, WriteFingerprint, NextRound, Stop, ResetWifi, RemoveData,
     Start, Crash, PowerCut, AfterRound
<1> QED BY <1>1, <1>2, <1>3, <1>4, <1>5 DEF Next

\* No step gets past a refused password.
LEMMA StepRefusal ==
  ASSUME TypeOK, Shape, Refusal, [Next]_vars
  PROVE  Refusal'
<1>1. applied' \notin Refused
  <2>1. UNCHANGED applied \/ applied' = "" \/ (WriteFingerprint /\ applied' = cfg)
    BY DEF Next, Open, Send, Receive, TimeOut, Answered, WriteFingerprint, NextRound, Stop,
       ResetWifi, RemoveData, Start, Crash, Supplicant, PowerCut, vars, worker
  <2>2. "" \notin Refused
    BY WpaAssumption
  <2>3. WriteFingerprint => InRound /\ at = "write"
    BY DEF WriteFingerprint, InRound, Resetting
  <2> QED BY <2>1, <2>2, <2>3 DEF Refusal
<1>2. ASSUME InRound', cfg' \in Refused
      PROVE  /\ (~configured /\ at \notin {"save", "write"})'
             /\ Window(Slack)'
             /\ (at \in DOMAIN Order => InStep \/ Stopped(1, 6 - Order[at]))'
  <2>1. CASE Start
    <3>1. sent' = <<>> /\ replies' = <<>> /\ at' = "open"
      BY <2>1 DEF Start, supplicant, Shape
    <3>2. configured' = (cfg' = "" \/ applied = cfg')
      BY <2>1 DEF Start
    <3>3. ~configured'
      BY <1>2, <3>2, WpaAssumption DEF Refusal
    <3>4. Length' = 0
      BY <3>1 DEF Length
    <3> QED BY <3>1, <3>3, <3>4, OrderFacts DEF Window
  <2>2. CASE ~Start
    <3>1. cfg' = cfg
      BY <2>2 DEF Next, Open, Send, Receive, TimeOut, Answered, WriteFingerprint, NextRound, Stop,
         ResetWifi, RemoveData, Crash, Supplicant, PowerCut, vars, worker
    <3>2. InRound
      BY <1>2, <2>2, AnswerLeads DEF Next, Open, Send, Receive, TimeOut, WriteFingerprint, NextRound,
         Stop, ResetWifi, RemoveData, Crash, Supplicant, PowerCut, vars, worker, InRound,
         Resetting, Shape, Commands, Changes, Harmless
    <3>3. ~configured /\ at \notin {"save", "write"}
      BY <1>2, <3>1, <3>2 DEF Refusal
    <3>4. Window(Slack)'
      BY <1>2, <3>1, <3>2, StepWindow
    <3>5. (at \in DOMAIN Order => InStep \/ Stopped(1, 6 - Order[at]))'
      BY <1>2, <3>1, <3>2, StepStopped
    <3>6. ~configured' /\ at' \notin {"save", "write"}
      <4>1. CASE Receive \/ TimeOut
        <5>1. PICK answer \in Reply \cup {NoReply} :
                /\ Answered(answer)
                /\ answer # NoReply => replies # <<>> /\ 1 \in DOMAIN replies /\ answer = replies[1]
                /\ answer = NoReply => replies = <<>>
          BY <4>1, AnswerTaken
        <5>2. /\ at = "status" => at' = "add"
              /\ at = "add" => at' \in (IF IsId(answer) THEN {"ssid"} ELSE AfterRound)
              /\ at \in DOMAIN After => at' = IF answer = OK THEN After[at] ELSE "remove"
              /\ at = "remove" => at' \in AfterRound
              /\ at = "retry" => at' \in {"scan", "rest"}
              /\ at = "scan" => at' = "rest"
              /\ configured' = (configured \/ at = "save") /\ waiting
              /\ at \in Commands /\ at \notin {"forget", "save"}
          BY <3>2, <3>3, <5>1, AnswerLeads DEF Shape, InRound, Resetting
        <5>3. at = "reassociate" => answer # OK
          <6> SUFFICES ASSUME at = "reassociate" PROVE answer # OK
            OBVIOUS
          <6>1. InStep \/ Stopped(1, 1)
            BY <1>2, <3>1, <3>2, OrderFacts DEF Refusal
          <6>2. 1 <= Length /\ Stops(1)
            BY <6>1 DEF InStep, Stopped
          <6>3. answer # NoReply => Len(replies) \in Nat \ {0}
            BY <5>1, LengthType, TailFacts
          <6> QED BY <5>1, <6>2, <6>3 DEF Stops, OK, NoReply
        <5> QED BY <3>3, <5>2, <5>3, OrderFacts DEF Commands, Changes, Harmless, AfterRound
      <4>2. CASE ~(Receive \/ TimeOut)
        <5>1. UNCHANGED configured
          BY <2>2, <4>2 DEF Next, Open, Send, WriteFingerprint, NextRound,
             Stop, ResetWifi, RemoveData, Crash, Supplicant, PowerCut, vars, worker
        <5>2. at' = at \/ at' \in {"status", "open", "off", "forget"} \/ at = "write"
          BY <2>2, <4>2 DEF Next, Open, Send, WriteFingerprint, NextRound,
             Stop, ResetWifi, RemoveData, Crash, Supplicant, PowerCut, vars, worker
        <5> QED BY <3>3, <5>1, <5>2
      <4> QED BY <4>1, <4>2
    <3> QED BY <3>4, <3>5, <3>6
  <2> QED BY <2>1, <2>2
<1> QED BY <1>1, <1>2 DEF Refusal

-----------------------------------------------------------------------------
(* What is taken for known                                                 *)

\* A network that will be known stays so.
LEMMA WillBeKnownStays ==
  ASSUME TypeOK, Shape, InRound => Claims, [Next]_vars, NEW net, WillBeKnown(net),
         ~Resetting', ~PowerCut, ~RemoveData
  PROVE  WillBeKnown(net)'
<1>1. PICK k \in DOMAIN entries : Kept(k) /\ Will(k, net)
  BY DEF WillBeKnown
<1>2. CASE Supplicant
  <2>1. UNCHANGED <<at, id, waiting>>
    BY <1>2 DEF Supplicant, worker
  <2>2. sent[1].command # "forget" /\ Head(sent) = sent[1]
    BY <1>1, <1>2, QueuesAfter DEF Will
  <2>3. Free(k)' /\ k \in DOMAIN entries'
    BY <1>1, <1>2, <2>2, FreeStays DEF Kept, Free
  <2>4. Kept(k)'
    BY <1>1, <2>1, <2>3 DEF Kept, Holding
  <2>5. /\ WillBeNamed(k, net)' /\ WillHaveKey(k, net)'
        /\ WillBeFirst(k, net)' /\ WillBeOn(k, net)'
    BY <1>1, <1>2, <2>2, <2>3, PromisesAfter DEF Will
  <2>6. \A i \in DOMAIN sent' : sent'[i].command # "forget"
    BY <1>1, <1>2, QueuesAfter DEF Will
  <2> QED BY <1>1, <2>3, <2>4, <2>5, <2>6 DEF WillBeKnown, Will
<1>3. CASE Send
  <2>1. UNCHANGED <<at, id, entries, replies>> /\ ~waiting /\ waiting' /\ at # "forget"
    BY <1>3 DEF Send, Resetting
  <2>2. \A i \in DOMAIN sent' :
          \/ i \in DOMAIN sent /\ sent'[i] = sent[i]
          \/ sent'[i] = [command |-> at, id |-> id, net |-> cfg]
    BY <1>3, QueueSent
  <2>3. at \in {"ssid", "remove"} => id # k
    BY <1>1, <2>1 DEF Kept, Holding, Changes
  <2>4. Kept(k)'
    <3>1. \A i \in DOMAIN sent' : Removal(i)' => sent'[i].id # k
      BY <1>1, <2>2, <2>3 DEF Kept, Free, Removal
    <3> QED BY <1>1, <2>1, <3>1 DEF Kept, Free, Holding, Numbers
  <2>5. /\ WillBeNamed(k, net)' /\ WillHaveKey(k, net)'
        /\ WillBeFirst(k, net)' /\ WillBeOn(k, net)'
    BY <1>1, <1>3, <2>3, PromisesSent DEF Will
  <2>6. \A i \in DOMAIN sent' : sent'[i].command # "forget"
    BY <1>1, <2>1, <2>2 DEF Will
  <2> QED BY <1>1, <2>1, <2>4, <2>5, <2>6 DEF WillBeKnown, Will
<1>4. CASE UNCHANGED <<sent, entries>> /\ Kept(k)'
  <2>1. /\ WillBeNamed(k, net)' /\ WillHaveKey(k, net)'
        /\ WillBeFirst(k, net)' /\ WillBeOn(k, net)'
    BY <1>1, <1>4, PromisesQuiet DEF Will
  <2> QED BY <1>1, <1>4, <2>1 DEF WillBeKnown, Will
<1>5. CASE Receive \/ TimeOut
  <2>1. PICK answer \in Reply \cup {NoReply} :
          /\ Answered(answer)
          /\ answer # NoReply => 1 \in DOMAIN replies /\ answer = replies[1]
          /\ \A i \in DOMAIN replies' :
               i \in Nat \ {0} /\ i + 1 \in DOMAIN replies /\ replies'[i] = replies[i + 1]
    BY <1>5, AnswerTaken
  <2>2. /\ UNCHANGED <<sent, entries>> /\ waiting /\ ~waiting'
        /\ at = "status" => at' \in (IF configured THEN AfterRound ELSE {"add"})
        /\ at = "add" => at' \in (IF IsId(answer) THEN {"ssid"} ELSE AfterRound)
        /\ at = "add" => id' = answer.id
        /\ at # "add" => id' = id
        /\ at = "forget" => at' = "save"
        /\ at = "save" => at' = IF id = 0 THEN "clear" ELSE "write"
        /\ at = "remove" => at' \in AfterRound
        /\ at = "retry" => at' \in {"scan", "rest"}
        /\ at = "scan" => at' = "rest"
        /\ at \in Commands
    BY <2>1, AnswerLeads DEF Shape
  <2>3. Free(k)'
    BY <1>1, <2>1, <2>2 DEF Kept, Free, Numbers, Removal
  <2>4. Holding' => id' # k
    <3> SUFFICES ASSUME Holding' PROVE id' # k
      OBVIOUS
    <3>1. (at = "add" /\ IsId(answer)) \/ at \in Changes \cup {"reassociate"}
      BY <2>2 DEF Holding, Commands, Changes, Harmless, AfterRound
    <3>2. CASE at = "add" /\ IsId(answer)
      <4>1. 1 \in DOMAIN replies /\ Numbers(1) /\ id' = replies[1].id
        BY <2>1, <2>2, <3>2 DEF IsId, NoReply, Numbers
      <4> QED BY <1>1, <4>1 DEF Kept, Free
    <3>3. CASE at \in Changes \cup {"reassociate"}
      BY <1>1, <2>2, <3>3 DEF Kept, Holding, Changes
    <3> QED BY <3>1, <3>2, <3>3
  <2> QED BY <1>4, <2>2, <2>3, <2>4 DEF Kept
<1>6. CASE \/ Open \/ WriteFingerprint \/ NextRound \/ Stop \/ ResetWifi \/ Start \/ Crash
  <2>1. /\ ~Holding' /\ UNCHANGED <<sent, entries>>
        /\ replies' = replies \/ replies' = <<>>
    BY <1>6 DEF Open, WriteFingerprint, NextRound, Stop, ResetWifi, Start, Crash, supplicant,
       Holding, AfterRound, Changes
  <2>2. Free(k)'
    <3>1. CASE replies' = replies
      BY <1>1, <2>1, <3>1 DEF Kept, Free, Numbers, Removal
    <3>2. CASE replies' = <<>>
      BY <1>1, <2>1, <3>2 DEF Kept, Free, Numbers, Removal
    <3> QED BY <2>1, <3>1, <3>2
  <2> QED BY <1>4, <2>1, <2>2 DEF Kept
<1>7. CASE UNCHANGED vars
  <2>1. UNCHANGED <<sent, replies, entries, at, id, waiting>>
    BY <1>7 DEF vars, worker, supplicant
  <2>2. Kept(k)'
    BY <1>1, <2>1 DEF Kept, Free, Holding, Numbers, Removal
  <2> QED BY <1>4, <2>1, <2>2
<1> QED BY <1>2, <1>3, <1>5, <1>6, <1>7 DEF Next

\* Before reassociate the network was given all it needs.
LEMMA AllGiven ==
  ASSUME at = "reassociate"
  PROVE  Given("ssid") /\ Given("key") /\ Given("priority") /\ Given("enable")
<1>1. at \in DOMAIN Order
  BY OrderFacts
<1>2. Order["ssid"] < Order[at]
  BY OrderFacts
<1>3. Order["key"] < Order[at]
  BY OrderFacts
<1>4. Order["priority"] < Order[at]
  BY OrderFacts
<1>5. Order["enable"] < Order[at]
  BY OrderFacts
<1> QED BY <1>1, <1>2, <1>3, <1>4, <1>5 DEF Given

\* Every step keeps what is taken for known.
LEMMA StepKnown ==
  ASSUME TypeOK, Shape, InRound => Claims, Underway, Known, Refusal, [Next]_vars, Shape', Refusal'
  PROVE  Known'
<1>0. ASSUME NEW net
      PROVE  /\ net = applied' /\ WillBeKnown(net)' => WillBeKnown(applied)'
             /\ net = cfg' /\ WillBeKnown(net)' => WillBeKnown(cfg)'
  <2>1. ASSUME NEW k
        PROVE  /\ net = applied' /\ Will(k, net)' => Will(k, applied)'
               /\ net = cfg' /\ Will(k, net)' => Will(k, cfg)'
    BY DEF Will, WillBeNamed, WillHaveKey, WillBeFirst, WillBeOn, Pending
  <2> QED BY <2>1 DEF WillBeKnown
<1> SUFFICES ASSUME "cut" \notin broken', NEW net,
                    \/ net = applied' /\ applied' # "" /\ left' = "" /\ ~Resetting'
                    \/ /\ net = cfg' /\ InRound' /\ cfg' # ""
                       /\ (configured' /\ cfg' # left') \/ at' \in {"save", "write"}
             PROVE  WillBeKnown(net)'
  BY <1>0 DEF Known
<1>1. ~Resetting' /\ ~PowerCut
  BY DEF InRound, PowerCut
<1>2. "cut" \notin broken /\ left \in {"", applied}
  <2>1. broken \subseteq broken'
    BY DEF Next, Open, Send, Receive, TimeOut, Answered, WriteFingerprint, NextRound, Stop,
       ResetWifi, RemoveData, Start, Crash, Supplicant, PowerCut, vars, bounds
  <2> QED BY <2>1 DEF TypeOK
<1>3. ~RemoveData
  BY DEF RemoveData, InRound
<1>4. SUFFICES \/ WillBeKnown(net)
               \/ WillBeKnown(net)'
  BY <1>1, <1>3, WillBeKnownStays
<1>5. /\ applied # "" /\ net = applied /\ left = "" /\ ~Resetting => WillBeKnown(net)
      /\ InRound /\ cfg # "" /\ net = cfg
           /\ ((configured /\ cfg # left) \/ at \in {"save", "write"}) => WillBeKnown(net)
  BY <1>2 DEF Known
<1>6. CASE Start
  <2>1. at = "off" /\ ~Resetting /\ at' = "open" /\ UNCHANGED <<applied, left>>
    BY <1>6 DEF Start, Resetting
  <2>2. cfg' # "" /\ configured' => cfg' = applied
    BY <1>6 DEF Start
  <2>3. applied # "" /\ net = applied /\ left = ""
    BY <1>2, <2>1, <2>2
  <2> QED BY <1>5, <2>1, <2>3
<1>7. CASE WriteFingerprint
  BY <1>5, <1>7 DEF WriteFingerprint, InRound, Resetting
<1>8. CASE Crash
  BY <1>2, <1>5, <1>8 DEF Crash, InRound
<1>9. CASE Stop \/ ResetWifi \/ Open \/ NextRound
  BY <1>1, <1>5, <1>9 DEF Stop, ResetWifi, Open, NextRound, InRound, Resetting,
     bounds
<1>10. CASE Send \/ Supplicant \/ UNCHANGED vars
  <2>1. UNCHANGED <<cfg, configured, applied, at, id, left>>
    BY <1>10 DEF Send, Supplicant, vars, worker, bounds
  <2> QED BY <1>5, <2>1 DEF InRound, Resetting
<1>11. CASE Receive \/ TimeOut
  <2>1. PICK answer : Answered(answer)
    BY <1>11 DEF Receive, TimeOut
  <2>2. /\ UNCHANGED <<cfg, applied, left, sent, entries>> /\ waiting /\ ~waiting'
        /\ at = "status" => at' \in (IF configured THEN AfterRound ELSE {"add"})
        /\ at = "add" => at' \in (IF IsId(answer) THEN {"ssid"} ELSE AfterRound)
        /\ at # "add" => id' = id
        /\ at \in DOMAIN After => at' = IF answer = OK THEN After[at] ELSE "remove"
        /\ at = "forget" => at' = "save"
        /\ at = "save" => at' = IF id = 0 THEN "clear" ELSE "write"
        /\ at = "remove" => at' \in AfterRound
        /\ at = "retry" => at' \in {"scan", "rest"}
        /\ at = "scan" => at' = "rest"
        /\ at \in Commands /\ configured' = (configured \/ at = "save")
    BY <2>1, AnswerLeads DEF Shape
  <2>3. ~Resetting /\ InRound
    BY <1>1, <2>2 DEF Resetting, InRound, Shape, Commands, Changes, Harmless
  <2>4. CASE at' = "save" /\ net = cfg' /\ at \in DOMAIN After
    <3>1. at = "reassociate" /\ id' = id
      BY <2>2, <2>4, OrderFacts
    <3>2. net = cfg /\ net \notin Refused
      <4>1. InRound'
        BY <1>1, <2>4 DEF InRound
      <4> QED BY <2>2, <2>4, <4>1 DEF Refusal
    <3>3. /\ WillBeNamed(id, cfg) /\ WillHaveKey(id, cfg)
          /\ WillBeFirst(id, cfg) /\ WillBeOn(id, cfg)
      <4>1. Given("ssid") /\ Given("key") /\ Given("priority") /\ Given("enable")
        BY <3>1, AllGiven
      <4> QED BY <2>3, <3>2, <4>1 DEF Underway
    <3>4. \A i \in DOMAIN sent : sent[i].command # "forget"
      BY <2>3 DEF Shape
    <3>5. PICK k : k = id
      OBVIOUS
    <3>6. Free(k)
      BY <2>3, <3>1, <3>5 DEF Claims, Holding
    <3>7. Free(k)'
      <4>1. \A i \in DOMAIN replies' :
               i \in Nat \ {0} /\ i + 1 \in DOMAIN replies /\ replies'[i] = replies[i + 1]
        BY <1>11, AnswerTaken
      <4> QED BY <2>2, <3>6, <4>1 DEF Free, Numbers, Removal
    <3>8. Kept(k)'
      BY <2>4, <3>7 DEF Kept, Holding, Changes
    <3>9. Will(k, net)'
      <4>1. /\ WillBeNamed(k, net) /\ WillHaveKey(k, net)
            /\ WillBeFirst(k, net) /\ WillBeOn(k, net)
        BY <3>2, <3>3, <3>5
      <4> QED BY <2>2, <3>2, <3>4, <4>1, PromisesQuiet DEF Will
    <3> QED BY <3>7, <3>8, <3>9 DEF WillBeKnown, Free
  <2>5. CASE ~(at' = "save" /\ net = cfg' /\ at \in DOMAIN After)
    <3>1. at' \in {"save", "write"} => at \in DOMAIN After \/ at = "save"
      BY <1>1, <2>2, <2>3, OrderFacts DEF Resetting, InRound, Commands, Changes, Harmless, AfterRound
    <3> QED BY <1>5, <2>2, <2>3, <2>5, <3>1, OrderFacts
  <2> QED BY <2>4, <2>5
<1> QED BY <1>1, <1>3, <1>6, <1>7, <1>8, <1>9, <1>10, <1>11 DEF Next

-----------------------------------------------------------------------------
(* Theorems                                                                *)

\* The first start finds the stock network.
LEMMA Initially ==
  ASSUME Init
  PROVE  IInv
<1>1. sent = <<>> /\ replies = <<>> /\ at = "off" /\ cfg = "" /\ applied = "" /\ ~waiting
  BY DEF Init
<1>2. DOMAIN disk = {1} /\ disk[1] \in Entry /\ entries = disk
  <2> DEFINE x == [net |-> "stock", key |-> TRUE, first |-> FALSE, on |-> TRUE]
  <2>1. disk = <<x>> /\ entries = disk
    BY DEF Init
  <2>2. x \in Entry
    BY DEF Entry
  <2> HIDE DEF x
  <2>3. DOMAIN <<x>> = {1} /\ <<x>>[1] = x
    OBVIOUS
  <2> QED BY <2>1, <2>2, <2>3
<1>3. Ordered({1})
  BY DEF Ordered
<1>4. TypeOK
  <2>1. Counted
    <3>1. MaxRounds \in Nat /\ MaxExtras \in Nat /\ MaxStarts \in Nat /\ MaxCuts \in Nat
      BY WpaAssumption
    <3>2. rounds = 0 /\ extras = 0 /\ starts = 0 /\ cuts = 0
      BY DEF Init
    <3> QED BY <3>1, <3>2 DEF Counted
  <2>2. \A e \in {entries, disk} : \A n \in DOMAIN e : n \in Nat /\ e[n] \in Entry
    BY <1>2
  <2>3. configured = TRUE /\ linked = FALSE /\ waiting = FALSE /\ id = 0 /\ broken = {} /\ left = ""
    BY DEF Init
  <2>4. at \notin Changes \cup {"reassociate", "remove"}
    BY <1>1 DEF Changes
  <2>5. \A S : <<>> \in Seq(S)
    OBVIOUS
  <2>6. /\ sent \in Seq([command : Commands, id : Nat, net : Networks \cup {""}])
        /\ replies \in Seq([is : {"OK", "FAIL", "text", "number"}, id : Nat])
    BY <1>1, <2>5, Zenon
  <2> QED BY <1>1, <2>1, <2>2, <2>3, <2>4, <2>6 DEF TypeOK, Counted
<1>5. Shape
  BY <1>1, <1>2, <1>3 DEF Shape, InRound, Changes
<1>6. ~InRound /\ applied \notin Refused
  BY <1>1, WpaAssumption DEF InRound
<1> QED BY <1>1, <1>4, <1>5, <1>6 DEF IInv, Underway, Known, Refusal

\* The invariant is inductive.
LEMMA Inductive ==
  ASSUME IInv, [Next]_vars
  PROVE  IInv'
<1>1. TypeOK /\ Shape /\ (InRound => Claims) /\ Underway /\ Known /\ Refusal
  BY DEF IInv
<1>2. TypeOK' /\ Shape'
  BY <1>1, StepShape
<1>3. InRound' => Claims'
  BY <1>1, StepClaims
<1>4. Underway'
  BY <1>1, <1>2, StepUnderway
<1>5. Refusal'
  BY <1>1, StepRefusal
<1>6. Known'
  BY <1>1, <1>2, <1>5, StepKnown
<1> QED BY <1>2, <1>3, <1>4, <1>5, <1>6 DEF IInv

\* The invariant holds.
LEMMA Invariant == Spec => []IInv
  BY Initially, Inductive, PTL DEF Spec

\* The variables of the exchange (class Wpa and the worker of Tc002System.cpp)
\* keep their types, and a network is only changed or removed under a number the
\* supplicant gave.
THEOREM TypeCorrect == Spec => []TypeOK
<1>1. IInv => TypeOK
  BY DEF IInv
<1> QED BY <1>1, Invariant, PTL

\* A caught-up supplicant knows the network that the worker (Tc002System.cpp:227)
\* takes for configured, for any number of rounds, starts, crashes and late
\* answers, as long as the power stays; a factory reset that fell short excuses
\* only the network in use then, until the next fingerprint.
THEOREM YourNetworkIsKnownHolds == Spec => []YourNetworkIsKnown
<1>1. IInv => YourNetworkIsKnown
  <2> SUFFICES ASSUME IInv, Settled, "cut" \notin broken, cfg # left
               PROVE  KnowsYours
    BY DEF YourNetworkIsKnown
  <2>1. WillBeKnown(cfg) /\ sent = <<>>
    BY DEF IInv, Known, Settled, InRound, Resetting
  <2>2. PICK k \in DOMAIN entries : Will(k, cfg)
    BY <2>1 DEF WillBeKnown
  <2>3. entries[k] \in Entry
    BY DEF IInv, TypeOK
  <2>4. entries[k].net = cfg /\ entries[k].key /\ entries[k].first /\ entries[k].on
    BY <2>1, <2>2 DEF Will, WillBeNamed, WillHaveKey, WillBeFirst, WillBeOn, Pending
  <2>5. entries[k] = Wanted(cfg)
    BY <2>3, <2>4 DEF Entry, Wanted
  <2> QED BY <2>5 DEF KnowsYours
<1> QED BY <1>1, Invariant, PTL

-----------------------------------------------------------------------------
(* What was saved stays                                                    *)

Enabling(i) == sent[i].command = "enable"
Storing(i) == sent[i].command = "save"
Forgetful(i) == sent[i].command = "forget"

\* Somebody is about to remove network k, or may be yet.
Claimed(k) ==
  \/ Holding /\ id = k
  \/ InRound /\ \E i \in DOMAIN replies : Numbers(i) /\ replies[i].id = k
  \/ \E i \in DOMAIN sent : Removal(i) /\ sent[i].id = k

\* A factory reset has said what to forget and not yet that it is to be saved.
AwaitsSave ==
  linked /\ ((at = "forget" /\ waiting) \/ (at = "save" /\ id = 0 /\ ~waiting))

\* The supplicant forgot its networks and the file is to follow.
Emptied ==
  /\ entries = <<>>
  /\ \A i \in DOMAIN sent : sent[i] = LastOfReset
  /\ sent # <<>> \/ AwaitsSave

\* The two commands of a factory reset come one after the other, and last.
ResetOrder ==
  /\ \A f \in DOMAIN sent : Forgetful(f) =>
       /\ \A j \in DOMAIN sent : j > f => sent[j] = LastOfReset
       /\ f < Len(sent) \/ AwaitsSave
  /\ \A j \in DOMAIN sent : Storing(j) /\ sent[j].id = 0 =>
       /\ sent[j] = LastOfReset
       /\ Emptied \/ \E f \in DOMAIN sent : f < j /\ Forgetful(f)
  /\ AwaitsSave => \/ Emptied /\ sent = <<>>
                   \/ sent # <<>> /\ Forgetful(Len(sent))
  /\ InRound \/ (at = "forget" /\ ~waiting) =>
       \A i \in DOMAIN sent : ~Forgetful(i) /\ ~(Storing(i) /\ sent[i].id = 0)

RemovalsOnce ==
  \A i \in DOMAIN sent : Removal(i) =>
    /\ sent[i].id \in DOMAIN entries
    /\ \A j \in DOMAIN sent : Removal(j) /\ sent[j].id = sent[i].id => j = i

\* A network is there when it is enabled, and removed only after that.
EnablesFirst ==
  \A i \in DOMAIN sent : Enabling(i) =>
    /\ sent[i].id \in DOMAIN entries
    /\ \A j \in DOMAIN sent : Removal(j) /\ sent[j].id = sent[i].id => i < j

\* A network whose number the worker has not come to is not enabled.
FreshIsOff ==
  InRound => \A i \in DOMAIN replies : Numbers(i) =>
    /\ ~entries[replies[i].id].on
    /\ \A j \in DOMAIN sent : Enabling(j) => sent[j].id # replies[i].id

\* A network that may be removed is gone, or not enabled, by the time the
\* networks are saved.
Off(k, j) ==
  ~entries[k].on /\ \A i \in DOMAIN sent : i < j /\ Enabling(i) => sent[i].id # k
Gone(k, j) == \E i \in DOMAIN sent : i < j /\ Removal(i) /\ sent[i].id = k

SavesSafe ==
  \A j \in DOMAIN sent : Storing(j) /\ sent[j].id # 0 =>
    \A k \in DOMAIN entries : Claimed(k) => Gone(k, j) \/ Off(k, j)

\* A network that was saved and is enabled in the file is there, and nobody is
\* about to remove it.
SavedStay ==
  Emptied \/ \A k \in DOMAIN disk : disk[k].on => k \in DOMAIN entries /\ ~Claimed(k)

Guarded ==
  ResetOrder /\ RemovalsOnce /\ EnablesFirst /\ FreshIsOff /\ SavesSafe /\ SavedStay

Keeping == "reset" \notin broken => Guarded

\* As long as no step touches queue, networks and file, all of this stays when
\* nobody gains a number.
LEMMA QuietStays ==
  ASSUME Guarded, UNCHANGED <<sent, entries, disk>>,
         AwaitsSave' <=> AwaitsSave, cfg' = cfg \/ sent = <<>>,
         \A k : Claimed(k)' => Claimed(k),
         InRound' => \A i \in DOMAIN replies' : Numbers(i)' =>
           InRound /\ \E j \in DOMAIN replies : Numbers(j) /\ replies[j].id = replies'[i].id,
         InRound' \/ (at' = "forget" /\ ~waiting') =>
           \A i \in DOMAIN sent : ~Forgetful(i) /\ ~(Storing(i) /\ sent[i].id = 0)
  PROVE  Guarded'
<1>0. ResetOrder /\ RemovalsOnce /\ EnablesFirst /\ FreshIsOff /\ SavesSafe /\ SavedStay
  BY DEF Guarded
<1>1. /\ \A i : (Removal(i)' <=> Removal(i)) /\ (Enabling(i)' <=> Enabling(i))
      /\ \A i : (Storing(i)' <=> Storing(i)) /\ (Forgetful(i)' <=> Forgetful(i))
      /\ sent' = sent /\ entries' = entries /\ disk' = disk
  BY DEF Removal, Enabling, Storing, Forgetful
<1>2. \A i \in DOMAIN sent : LastOfReset' = LastOfReset
  <2>1. sent = <<>> => DOMAIN sent = {}
    OBVIOUS
  <2> QED BY <2>1 DEF LastOfReset
<1>3. Emptied => Emptied'
  BY <1>1, <1>2 DEF Emptied
<1>4. ResetOrder'
  <2>1. (AwaitsSave => (Emptied /\ sent = <<>>) \/ (sent # <<>> /\ Forgetful(Len(sent))))'
    BY <1>0, <1>1, <1>3 DEF ResetOrder
  <2>2. (\A f \in DOMAIN sent : Forgetful(f) =>
           /\ \A j \in DOMAIN sent : j > f => sent[j] = LastOfReset
           /\ f < Len(sent) \/ AwaitsSave)'
    BY <1>0, <1>1, <1>2 DEF ResetOrder
  <2>3. (\A j \in DOMAIN sent : Storing(j) /\ sent[j].id = 0 =>
           /\ sent[j] = LastOfReset
           /\ Emptied \/ \E f \in DOMAIN sent : f < j /\ Forgetful(f))'
    BY <1>0, <1>1, <1>2, <1>3 DEF ResetOrder
  <2> QED BY <1>1, <2>1, <2>2, <2>3 DEF ResetOrder
<1>5. RemovalsOnce' /\ EnablesFirst'
  BY <1>0, <1>1 DEF RemovalsOnce, EnablesFirst
<1>6. FreshIsOff'
  BY <1>0, <1>1 DEF FreshIsOff
<1>7. SavesSafe'
  <2>1. \A k, j : (Gone(k, j)' <=> Gone(k, j)) /\ (Off(k, j)' <=> Off(k, j))
    BY <1>1 DEF Gone, Off
  <2> QED BY <1>0, <1>1, <2>1 DEF SavesSafe
<1>8. SavedStay'
  BY <1>0, <1>1, <1>3 DEF SavedStay
<1> QED BY <1>4, <1>5, <1>6, <1>7, <1>8 DEF Guarded

\* No forgetting and no saving of a factory reset is in the queue of a round.
LEMMA QueueOfRound ==
  ASSUME ResetOrder, InRound \/ (at = "forget" /\ ~waiting)
  PROVE  /\ \A i \in DOMAIN sent : ~Forgetful(i) /\ ~(Storing(i) /\ sent[i].id = 0)
         /\ ~AwaitsSave
         /\ sent \in Seq(Request) => ~Emptied
<1>1. \A i \in DOMAIN sent : ~Forgetful(i) /\ ~(Storing(i) /\ sent[i].id = 0)
  BY DEF ResetOrder
<1>2. ~AwaitsSave
  BY DEF AwaitsSave, InRound, Resetting
<1>3. ASSUME sent \in Seq(Request), Emptied
      PROVE  FALSE
  <2>1. sent # <<>>
    BY <1>2, <1>3 DEF Emptied
  <2>2. 1 \in DOMAIN sent /\ sent[1] = LastOfReset
    BY <1>3, <2>1, TailFacts DEF Emptied
  <2> QED BY <1>1, <2>2 DEF LastOfReset, Storing
<1> QED BY <1>1, <1>2, <1>3

\* The steps of the worker that are no exchange, and of the application.
LEMMA WorkerKeeps ==
  ASSUME TypeOK, Shape, Guarded, "reset" \notin broken',
         Open \/ WriteFingerprint \/ NextRound \/ Stop \/ ResetWifi \/ RemoveData \/ Start \/ Crash
  PROVE  Guarded'
<1>1. UNCHANGED <<sent, entries, disk>> /\ ~Holding' /\ (cfg' = cfg \/ sent = <<>>)
  BY DEF Open, WriteFingerprint, NextRound, Stop, ResetWifi, RemoveData, Start, Crash,
     supplicant, Holding, AfterRound, Changes
<1>2. ~AwaitsSave /\ ~AwaitsSave'
  <2>1. CASE Crash
    BY <2>1 DEF Crash, AwaitsSave, Resetting
  <2>2. CASE ResetWifi
    <3>1. at = "rest" /\ at' = "forget" /\ waiting' = waiting
      BY <2>2 DEF ResetWifi
    <3>2. ~waiting
      BY <3>1 DEF Shape, Commands, Changes, Harmless
    <3> QED BY <3>1, <3>2 DEF AwaitsSave
  <2>3. CASE Open \/ WriteFingerprint \/ NextRound \/ Stop \/ RemoveData \/ Start
    <3>1. {at, at'} \subseteq {"open", "write", "rest", "clear", "off", "status", "retry", "scan"}
      BY <2>3 DEF Open, WriteFingerprint, NextRound, Stop, RemoveData, Start, AfterRound
    <3> QED BY <3>1 DEF AwaitsSave
  <2> QED BY <2>1, <2>2, <2>3
<1>3. /\ replies' = <<>> \/ (InRound' => InRound /\ replies' = replies)
      /\ Start => replies' = <<>> /\ sent = <<>>
  BY DEF Open, WriteFingerprint, NextRound, Stop, ResetWifi, RemoveData, Start, Crash,
     supplicant, InRound, Resetting, Shape
<1>4. \A i \in DOMAIN replies' : InRound' /\ Numbers(i)' =>
        InRound /\ \E j \in DOMAIN replies : Numbers(j) /\ replies[j].id = replies'[i].id
  BY <1>3 DEF Numbers
<1>5. \A k : Claimed(k)' => Claimed(k)
  BY <1>1, <1>4 DEF Claimed, Removal, Numbers
<1>6. InRound' \/ (at' = "forget" /\ ~waiting') => InRound \/ sent = <<>>
  BY DEF Open, WriteFingerprint, NextRound, Stop, ResetWifi, RemoveData, Start, Crash,
     supplicant, InRound, Resetting
<1>7. InRound' \/ (at' = "forget" /\ ~waiting') =>
        \A i \in DOMAIN sent : ~Forgetful(i) /\ ~(Storing(i) /\ sent[i].id = 0)
  <2>1. sent = <<>> => DOMAIN sent = {}
    OBVIOUS
  <2> QED BY <1>6, <2>1 DEF Guarded, ResetOrder
<1> QED BY <1>1, <1>2, <1>4, <1>5, <1>7, QuietStays

\* An answer that is taken, or not waited for any longer.
LEMMA AnswerKeeps ==
  ASSUME TypeOK, Shape, Guarded, Receive \/ TimeOut
  PROVE  Guarded'
<1>1. PICK answer \in Reply \cup {NoReply} :
        /\ Answered(answer)
        /\ answer # NoReply => 1 \in DOMAIN replies /\ answer = replies[1]
        /\ \A i \in DOMAIN replies' :
             i \in Nat \ {0} /\ i + 1 \in DOMAIN replies /\ replies'[i] = replies[i + 1]
  BY AnswerTaken
<1>2. /\ at \in Commands /\ waiting /\ ~waiting'
      /\ at = "status" => at' \in (IF configured THEN AfterRound ELSE {"add"})
      /\ at = "add" => at' \in (IF IsId(answer) THEN {"ssid"} ELSE AfterRound)
      /\ at = "add" => id' = answer.id
      /\ at # "add" => id' = id
      /\ at \in DOMAIN After => at' = IF answer = OK THEN After[at] ELSE "remove"
      /\ at = "forget" => at' = "save"
      /\ at = "save" => at' = IF id = 0 THEN "clear" ELSE "write"
      /\ at = "remove" => at' \in AfterRound
      /\ at = "retry" => at' \in {"scan", "rest"}
      /\ at = "scan" => at' = "rest"
      /\ UNCHANGED <<cfg, linked, sent, entries, disk>>
  BY <1>1, AnswerLeads DEF Shape
<1>3. at \in Changes \cup {"reassociate"} => id # 0
  BY DEF TypeOK
<1>4. /\ InRound' <=> InRound
      /\ ~(at' = "forget")
  <2>1. CASE at \in Changes \cup {"reassociate"}
    BY <1>2, <1>3, <2>1, OrderFacts DEF InRound, Resetting, Changes
  <2>2. CASE at \in {"status", "add", "remove", "retry", "scan"}
    BY <1>2, <2>2 DEF InRound, Resetting, AfterRound
  <2>3. CASE at \in {"forget", "save"}
    <3>1. at = "forget" => id = 0
      BY DEF Shape
    <3> QED BY <1>2, <2>3, <3>1 DEF InRound, Resetting
  <2> QED BY <1>2, <2>1, <2>2, <2>3 DEF Commands, Harmless
<1>5. AwaitsSave' <=> AwaitsSave
  BY <1>2, <1>3, OrderFacts
     DEF AwaitsSave, Commands, Changes, Harmless, AfterRound, Shape
<1>6. \A i \in DOMAIN replies' : Numbers(i)' =>
        \E j \in DOMAIN replies : Numbers(j) /\ replies[j].id = replies'[i].id
  BY <1>1 DEF Numbers
<1>7. ASSUME NEW k, Claimed(k)'
      PROVE  Claimed(k)
  <2>1. CASE Holding' /\ id' = k
    <3>1. (at = "add" /\ IsId(answer)) \/ at \in Changes \cup {"reassociate"}
      BY <1>2, <2>1 DEF Holding, Commands, Changes, Harmless, AfterRound
    <3>2. CASE at = "add" /\ IsId(answer)
      <4>1. 1 \in DOMAIN replies /\ Numbers(1) /\ id' = replies[1].id
        BY <1>1, <1>2, <3>2 DEF IsId, NoReply, Numbers
      <4>2. InRound
        BY <3>2 DEF InRound, Resetting
      <4> QED BY <2>1, <4>1, <4>2 DEF Claimed
    <3>3. CASE at \in Changes \cup {"reassociate"}
      BY <1>2, <2>1, <3>3 DEF Claimed, Holding, Changes
    <3> QED BY <3>1, <3>2, <3>3
  <2>2. CASE InRound' /\ \E i \in DOMAIN replies' : Numbers(i)' /\ replies'[i].id = k
    BY <1>4, <1>6, <2>2 DEF Claimed
  <2>3. CASE (\E i \in DOMAIN sent : Removal(i) /\ sent[i].id = k)'
    BY <1>2, <2>3 DEF Claimed, Removal
  <2> QED BY <1>7, <2>1, <2>2, <2>3 DEF Claimed
<1>8. InRound' => \A i \in DOMAIN sent : ~Forgetful(i) /\ ~(Storing(i) /\ sent[i].id = 0)
  BY <1>4 DEF Guarded, ResetOrder
<1> QED BY <1>2, <1>4, <1>5, <1>6, <1>7, <1>8, QuietStays

\* A command that is sent.
LEMMA SendKeeps ==
  ASSUME TypeOK, Shape, InRound => Claims, InRound' => Claims', Guarded, Send
  PROVE  Guarded'
<1>0. ResetOrder /\ RemovalsOnce /\ EnablesFirst /\ FreshIsOff /\ SavesSafe /\ SavedStay
  BY DEF Guarded
<1> DEFINE x == [command |-> at, id |-> id, net |-> cfg]
<1>n. PICK last : last = Len(sent) + 1
  OBVIOUS
<1>1. /\ DOMAIN sent = 1..Len(sent) /\ Len(sent) \in Nat
      /\ \A i \in DOMAIN sent : i \in DOMAIN sent' /\ sent'[i] = sent[i]
      /\ \A i \in DOMAIN sent' :
           (i \in DOMAIN sent /\ sent'[i] = sent[i]) \/ (i = last /\ linked /\ sent'[i] = x)
      /\ linked => last \in DOMAIN sent' /\ sent'[last] = x /\ Len(sent') = last
      /\ ~linked => sent' = sent
  BY <1>n, QueueSent
<1>2. /\ waiting' /\ ~waiting /\ at \in Commands
      /\ UNCHANGED <<at, id, cfg, linked, replies, entries, disk>>
  BY DEF Send
<1>3. InRound' <=> InRound
  BY <1>2 DEF InRound, Resetting
<1>4. Holding' => Holding /\ at # "remove"
  BY <1>2 DEF Holding, Changes
<1>5. ASSUME NEW k, Claimed(k)' PROVE Claimed(k)
  <2>1. CASE Holding' /\ id' = k
    BY <1>2, <1>4, <2>1 DEF Claimed
  <2>2. CASE InRound' /\ \E i \in DOMAIN replies' : Numbers(i)' /\ replies'[i].id = k
    BY <1>2, <1>3, <2>2 DEF Claimed, Numbers
  <2>3. CASE (\E i \in DOMAIN sent : Removal(i) /\ sent[i].id = k)'
    <3>1. PICK i \in DOMAIN sent' : sent'[i].command = "remove" /\ sent'[i].id = k
      BY <2>3 DEF Removal
    <3>2. CASE i \in DOMAIN sent /\ sent'[i] = sent[i]
      BY <3>1, <3>2 DEF Claimed, Removal
    <3>3. CASE sent'[i] = x
      BY <1>2, <3>1, <3>3 DEF Claimed, Holding
    <3> QED BY <1>1, <3>2, <3>3
  <2> QED BY <1>5, <2>1, <2>2, <2>3 DEF Claimed
<1>6. CASE ~linked
  <2>1. AwaitsSave' <=> AwaitsSave
    BY <1>2, <1>6 DEF AwaitsSave
  <2>2. InRound' \/ (at' = "forget" /\ ~waiting') =>
          \A i \in DOMAIN sent : ~Forgetful(i) /\ ~(Storing(i) /\ sent[i].id = 0)
    BY <1>0, <1>2, <1>3 DEF ResetOrder
  <2>3. \A i \in DOMAIN replies' : Numbers(i)' => Numbers(i)
    BY <1>2 DEF Numbers
  <2> QED BY <1>1, <1>2, <1>3, <1>5, <1>6, <2>1, <2>2, <2>3, QuietStays
<1>7. CASE linked
  <2>1. /\ last \in DOMAIN sent' /\ sent'[last] = x /\ Len(sent') = last
        /\ DOMAIN sent' = 1..last /\ last \in Nat
    BY <1>1, <1>n, <1>7
  <2>2. \A i \in DOMAIN sent' : (i \in DOMAIN sent /\ sent'[i] = sent[i] /\ i < last)
                                  \/ (i = last /\ sent'[i] = x)
    BY <1>1, <1>n
  <2>3. LastOfReset' = LastOfReset
    BY <1>2 DEF LastOfReset
  <2>4. /\ \A i \in DOMAIN sent :
             /\ (Removal(i)' <=> Removal(i)) /\ (Enabling(i)' <=> Enabling(i))
             /\ (Storing(i)' <=> Storing(i)) /\ (Forgetful(i)' <=> Forgetful(i))
        /\ Removal(last)' <=> at = "remove"
        /\ Enabling(last)' <=> at = "enable"
        /\ Storing(last)' <=> at = "save"
        /\ Forgetful(last)' <=> at = "forget"
        /\ sent'[last].id = id
    BY <1>1, <2>1 DEF Removal, Enabling, Storing, Forgetful
  <2>5. AwaitsSave' <=> at = "forget"
    BY <1>2, <1>7 DEF AwaitsSave
  <2>6. AwaitsSave <=> at = "save" /\ id = 0
    BY <1>2, <1>7 DEF AwaitsSave
  <2>7. InRound <=> ~(at = "forget" \/ (at = "save" /\ id = 0))
    BY <1>2 DEF InRound, Resetting, Commands, Changes, Harmless
  <2>s. sent \in Seq(Request)
    BY DEF TypeOK, Request
  <2>8. Emptied => Emptied'
    <3> SUFFICES ASSUME Emptied PROVE Emptied'
      OBVIOUS
    <3>1. at = "save" /\ id = 0
      BY <1>0, <1>2, <2>7, <2>s, QueueOfRound
    <3>2. x = LastOfReset
      BY <3>1 DEF LastOfReset
    <3>3. sent' # <<>>
      BY <2>1
    <3> QED BY <1>2, <2>2, <2>3, <3>2, <3>3 DEF Emptied
  <2>9. ResetOrder'
    <3>1. CASE at = "forget"
      <4>1. \A i \in DOMAIN sent : ~Forgetful(i) /\ ~(Storing(i) /\ sent[i].id = 0)
        BY <1>0, <1>2, <3>1, QueueOfRound
      <4>2. /\ \A i \in DOMAIN sent' : Forgetful(i)' => i = last
            /\ \A i \in DOMAIN sent' : Storing(i)' => sent'[i].id # 0
        BY <2>2, <2>4, <3>1, <4>1
      <4>3. ~InRound' /\ waiting' /\ AwaitsSave' /\ Forgetful(last)' /\ sent' # <<>>
        BY <1>2, <1>3, <2>1, <2>4, <2>5, <2>7, <3>1
      <4> QED BY <2>1, <4>2, <4>3 DEF ResetOrder
    <3>2. CASE at = "save" /\ id = 0
      <4>1. ~InRound' /\ ~AwaitsSave' /\ at' # "forget" /\ AwaitsSave /\ x = LastOfReset
        BY <1>2, <1>3, <2>5, <2>6, <2>7, <3>2 DEF LastOfReset
      <4>2. ASSUME NEW f \in DOMAIN sent', Forgetful(f)'
            PROVE  /\ \A j \in DOMAIN sent' : j > f => sent'[j] = LastOfReset'
                   /\ f < Len(sent')
        <5>1. f \in DOMAIN sent /\ Forgetful(f) /\ f < last
          BY <2>2, <2>4, <3>2, <4>2
        <5> QED BY <1>0, <2>1, <2>2, <2>3, <4>1, <5>1 DEF ResetOrder
      <4>3. ASSUME NEW j \in DOMAIN sent', Storing(j)', sent'[j].id = 0
            PROVE  /\ sent'[j] = LastOfReset'
                   /\ Emptied' \/ \E f \in DOMAIN sent' : f < j /\ Forgetful(f)'
        <5>1. CASE j \in DOMAIN sent /\ sent'[j] = sent[j]
          <6>1. Storing(j) /\ sent[j].id = 0
            BY <2>4, <4>3, <5>1
          <6>2. sent[j] = LastOfReset /\ (Emptied \/ \E f \in DOMAIN sent : f < j /\ Forgetful(f))
            BY <1>0, <5>1, <6>1 DEF ResetOrder
          <6> QED BY <1>1, <2>3, <2>4, <2>8, <5>1, <6>2
        <5>2. CASE j = last
          <6>1. CASE Emptied
            BY <2>1, <2>3, <2>8, <4>1, <5>2, <6>1
          <6>2. CASE sent # <<>> /\ Forgetful(Len(sent))
            <7>0. Len(sent) \in Nat \ {0}
              BY <2>s, <6>2, TailFacts
            <7>1. DOMAIN sent = 1..Len(sent)
              BY <1>1
            <7>2. Len(sent) \in DOMAIN sent /\ Len(sent) < j
              BY <1>n, <5>2, <7>0, <7>1
            <7> QED BY <1>1, <2>1, <2>3, <2>4, <4>1, <5>2, <6>2, <7>2
          <6> QED BY <1>0, <4>1, <6>1, <6>2 DEF ResetOrder
        <5> QED BY <2>2, <5>1, <5>2
      <4> QED BY <4>1, <4>2, <4>3 DEF ResetOrder
    <3>3. CASE InRound
      <4>1. \A i \in DOMAIN sent : ~Forgetful(i) /\ ~(Storing(i) /\ sent[i].id = 0)
        BY <1>0, <3>3, QueueOfRound
      <4>2. \A i \in DOMAIN sent' : ~Forgetful(i)' /\ ~(Storing(i)' /\ sent'[i].id = 0)
        BY <2>2, <2>4, <2>7, <3>3, <4>1
      <4>3. ~AwaitsSave'
        BY <2>5, <2>7, <3>3
      <4> QED BY <4>2, <4>3 DEF ResetOrder
    <3> QED BY <2>7, <3>1, <3>2, <3>3
  <2>10. RemovalsOnce'
    <3>1. CASE InRound
      <4>1. Claims'
        BY <1>3, <3>1
      <4> QED BY <4>1 DEF Claims, RemovalsOnce
    <3>2. CASE ~InRound
      <4>1. at # "remove"
        BY <2>7, <3>2
      <4>2. \A i \in DOMAIN sent' : Removal(i)' =>
              i \in DOMAIN sent /\ sent'[i] = sent[i] /\ Removal(i)
        BY <2>2, <2>4, <4>1
      <4> QED BY <1>0, <1>2, <4>2 DEF RemovalsOnce
    <3> QED BY <3>1, <3>2
  <2>11. EnablesFirst'
    <3> SUFFICES ASSUME NEW i \in DOMAIN sent', Enabling(i)'
                 PROVE  /\ sent'[i].id \in DOMAIN entries
                        /\ \A j \in DOMAIN sent' : Removal(j)' /\ sent'[j].id = sent'[i].id => i < j
      BY <1>2 DEF EnablesFirst
    <3>1. CASE i = last
      <4>1. at = "enable" /\ InRound /\ Holding
        BY <2>4, <2>7, <3>1 DEF Holding, Changes
      <4>2. Free(id)
        BY <4>1 DEF Claims
      <4>3. \A j \in DOMAIN sent' : Removal(j)' => sent'[j].id # id
        BY <2>2, <2>4, <4>1, <4>2 DEF Free
      <4> QED BY <2>4, <3>1, <4>2, <4>3 DEF Free
    <3>2. CASE i \in DOMAIN sent /\ sent'[i] = sent[i]
      <4>1. Enabling(i) /\ i < last
        BY <1>1, <1>n, <2>4, <3>2
      <4> QED BY <1>0, <2>2, <2>4, <3>2, <4>1 DEF EnablesFirst
    <3> QED BY <2>2, <3>1, <3>2
  <2>12. FreshIsOff'
    <3> SUFFICES ASSUME InRound', NEW i \in DOMAIN replies', Numbers(i)'
                 PROVE  /\ ~entries'[replies'[i].id].on
                        /\ \A j \in DOMAIN sent' : Enabling(j)' => sent'[j].id # replies'[i].id
      BY DEF FreshIsOff
    <3>1. i \in DOMAIN replies /\ Numbers(i) /\ replies'[i] = replies[i] /\ InRound
      BY <1>2, <1>3 DEF Numbers
    <3>2. at = "enable" => replies[i].id # id
      BY <1>2, <3>1 DEF Claims, Holding, Changes, Free
    <3> QED BY <1>0, <1>2, <2>2, <2>4, <3>1, <3>2 DEF FreshIsOff
  <2>13. SavesSafe'
    <3> SUFFICES ASSUME NEW j \in DOMAIN sent', Storing(j)', sent'[j].id # 0,
                        NEW k \in DOMAIN entries, Claimed(k)
                 PROVE  Gone(k, j)' \/ Off(k, j)'
      BY <1>2, <1>5 DEF SavesSafe
    <3>1. CASE j \in DOMAIN sent /\ sent'[j] = sent[j]
      <4>1. Gone(k, j) \/ Off(k, j)
        BY <1>0, <2>4, <3>1 DEF SavesSafe
      <4>2. Gone(k, j) => Gone(k, j)'
        BY <1>1, <2>4 DEF Gone
      <4>3. \A i \in DOMAIN sent' : i < j => i \in DOMAIN sent /\ sent'[i] = sent[i]
        BY <1>1, <2>1, <2>2, <3>1
      <4>4. Off(k, j) => Off(k, j)'
        BY <1>2, <2>4, <4>3 DEF Off
      <4> QED BY <4>1, <4>2, <4>4
    <3>2. CASE j = last
      <4>1. at = "save" /\ id # 0 /\ InRound /\ ~Holding
        BY <2>4, <2>7, <3>2 DEF Holding, Changes
      <4>2. CASE \E i \in DOMAIN sent : Removal(i) /\ sent[i].id = k
        BY <1>1, <2>2, <2>4, <3>2, <4>2 DEF Gone
      <4>3. CASE \E i \in DOMAIN replies : Numbers(i) /\ replies[i].id = k
        <5>1. ~entries[k].on /\ \A i \in DOMAIN sent : Enabling(i) => sent[i].id # k
          BY <1>0, <4>1, <4>3 DEF FreshIsOff
        <5>2. \A i \in DOMAIN sent' : i < j => i \in DOMAIN sent /\ sent'[i] = sent[i]
          BY <2>1, <2>2, <3>2
        <5> QED BY <1>2, <2>4, <5>1, <5>2 DEF Off
      <4> QED BY <4>1, <4>2, <4>3 DEF Claimed
    <3> QED BY <2>2, <3>1, <3>2
  <2>14. SavedStay'
    BY <1>0, <1>2, <1>5, <2>8 DEF SavedStay
  <2> QED BY <2>9, <2>10, <2>11, <2>12, <2>13, <2>14 DEF Guarded
<1> QED BY <1>6, <1>7

\* A step of the supplicant enables no network but the one it was told to.
LEMMA OnAfter ==
  ASSUME TypeOK, Shape, NEW a,
         Outcome(sent[1].command, sent[1].id, sent[1].net, a), sent[1] \in Request,
         NEW k \in DOMAIN entries, k \in DOMAIN entries', entries'[k].on
  PROVE  entries[k].on \/ (Enabling(1) /\ sent[1].id = k)
<1> DEFINE c == sent[1].command
           n == sent[1].id
           net == sent[1].net
<1>1. entries[k] \in Entry
  BY DEF TypeOK
<1>2. CASE c = "add" /\ Adding(a)
  BY <1>2, FreshNumber DEF Adding, Shape
<1>3. CASE c \in Changes /\ Changing(c, n, net, a)
  <2>1. entries'[k] = Effect(c, n, net)[k]
    BY <1>3 DEF Changing
  <2>2. CASE c = "enable"
    BY <1>1, <2>1, <2>2 DEF Effect, Enables, Entry, Enabling
  <2>3. CASE c \in {"ssid", "key", "priority"}
    BY <1>1, <2>1, <2>3 DEF Effect, Entry
  <2> QED BY <1>3, <2>2, <2>3 DEF Changes
<1>4. CASE c \in Changes /\ Failing(c, n, net, a)
  BY <1>4 DEF Failing
<1>5. CASE c = "remove" /\ Removing(n, a)
  BY <1>5 DEF Removing
<1>6. CASE c = "forget" /\ entries' = <<>> /\ disk' = disk /\ a = OK
  BY <1>6
<1>7. CASE c = "save" /\ Saving(a)
  BY <1>7 DEF Saving
<1>8. CASE c \in Harmless /\ Reporting(c, a)
  BY <1>8 DEF Reporting
<1> QED BY <1>2, <1>3, <1>4, <1>5, <1>6, <1>7, <1>8 DEF Outcome

\* The supplicant forgets its networks.
LEMMA ForgettingKeeps ==
  ASSUME TypeOK, Shape, Guarded, Supplicant, Head(sent).command = "forget"
  PROVE  Guarded'
<1>0. ResetOrder
  BY DEF Guarded
<1>1. PICK a \in Reply :
        /\ Outcome(sent[1].command, sent[1].id, sent[1].net, a)
        /\ sent \in Seq(Request) /\ 1 \in DOMAIN sent
        /\ \A i \in DOMAIN sent' : i + 1 \in DOMAIN sent /\ sent'[i] = sent[i + 1]
        /\ \A i \in DOMAIN sent : i = 1 \/ (i - 1 \in DOMAIN sent' /\ sent'[i - 1] = sent[i])
        /\ DOMAIN sent = 1..Len(sent)
        /\ sent' \in Seq(Request)
        /\ Served(a)
  BY QueuesAfter
<1>2. Forgetful(1) /\ Head(sent) = sent[1]
  BY <1>1 DEF Forgetful
<1>3. entries' = <<>> /\ UNCHANGED <<disk, at, id, cfg, linked, waiting>>
  BY <1>1, <1>2 DEF Outcome, Forgetful, Changes, Harmless, Served, worker
<1>4. LastOfReset' = LastOfReset /\ LastOfReset.command = "save" /\ LastOfReset.id = 0
  BY <1>3 DEF LastOfReset
<1>5. \A i \in DOMAIN sent' : sent'[i] = LastOfReset
  <2>1. \A i \in DOMAIN sent' : i + 1 > 1
    BY <1>1
  <2> QED BY <1>0, <1>1, <1>2, <2>1 DEF ResetOrder
<1>6. AwaitsSave' <=> AwaitsSave
  BY <1>3 DEF AwaitsSave
<1>7. Emptied'
  <2>1. CASE 1 < Len(sent)
    <3>1. 2 \in DOMAIN sent /\ 2 - 1 \in DOMAIN sent'
      BY <1>1, <2>1
    <3>2. sent' # <<>>
      BY <3>1
    <3> QED BY <1>3, <1>4, <1>5, <3>2 DEF Emptied
  <2>2. CASE AwaitsSave
    BY <1>3, <1>4, <1>5, <1>6, <2>2 DEF Emptied
  <2> QED BY <1>0, <1>1, <1>2, <2>1, <2>2 DEF ResetOrder
<1>8. ~InRound' /\ ~(at' = "forget" /\ ~waiting')
  BY <1>0, <1>1, <1>2, <1>3 DEF ResetOrder, InRound, Resetting
<1>9. AwaitsSave' => sent' = <<>>
  <2> SUFFICES ASSUME AwaitsSave PROVE sent' = <<>>
    BY <1>6
  <2>1. Len(sent) \in DOMAIN sent /\ Forgetful(Len(sent))
    BY <1>0, <1>1 DEF ResetOrder
  <2>2. ~(Len(sent) > 1)
    <3>1. Len(sent) > 1 => sent[Len(sent)] = LastOfReset
      BY <1>0, <1>1, <1>2, <2>1 DEF ResetOrder
    <3> QED BY <1>4, <2>1, <3>1 DEF Forgetful
  <2>3. Len(sent) = 1
    BY <1>1, <2>1, <2>2
  <2> QED BY <1>1, <2>3 DEF Served
<1>10. ResetOrder'
  BY <1>4, <1>5, <1>7, <1>8, <1>9 DEF ResetOrder, Forgetful, Storing
<1>11. RemovalsOnce' /\ EnablesFirst' /\ SavesSafe'
  BY <1>4, <1>5 DEF RemovalsOnce, EnablesFirst, SavesSafe, Removal, Enabling, Storing
<1> QED BY <1>7, <1>8, <1>10, <1>11 DEF Guarded, FreshIsOff, SavedStay

\* The supplicant saves that it has no networks left, or the reset fell short.
LEMMA LastSaveKeeps ==
  ASSUME TypeOK, Shape, Guarded, Supplicant, "reset" \notin broken',
         Head(sent).command = "save", Head(sent).id = 0
  PROVE  Guarded'
<1>0. ResetOrder
  BY DEF Guarded
<1>1. PICK a \in Reply :
        /\ Outcome(sent[1].command, sent[1].id, sent[1].net, a)
        /\ sent \in Seq(Request) /\ 1 \in DOMAIN sent
        /\ \A i \in DOMAIN sent' : i + 1 \in DOMAIN sent /\ sent'[i] = sent[i + 1]
        /\ DOMAIN sent = 1..Len(sent)
        /\ sent' \in Seq(Request)
        /\ Served(a)
  BY QueuesAfter
<1>2. Storing(1) /\ sent[1].id = 0 /\ Head(sent) = sent[1]
  BY <1>1 DEF Storing
<1>3. sent[1] = LastOfReset /\ Emptied
  BY <1>0, <1>1, <1>2 DEF ResetOrder
<1>4. UNCHANGED <<at, id, cfg, linked, waiting>> /\ LastOfReset' = LastOfReset
  BY <1>1 DEF Served, worker, LastOfReset
<1>5. entries' = <<>> /\ disk' = <<>>
  <2>1. entries' = entries
    BY <1>1, <1>2 DEF Outcome, Storing, Changes, Harmless, Saving
  <2>2. disk' = entries'
    BY <1>2, <1>3 DEF Supplicant
  <2> QED BY <1>3, <2>1, <2>2 DEF Emptied
<1>6. \A i \in DOMAIN sent' : sent'[i] = LastOfReset
  BY <1>1, <1>3 DEF Emptied
<1>7. LastOfReset.command = "save" /\ LastOfReset.id = 0
  BY DEF LastOfReset
<1>8. ~AwaitsSave'
  <2>1. sent # <<>> /\ ~Forgetful(Len(sent))
    BY <1>1, <1>3, <1>7 DEF Emptied, Forgetful
  <2> QED BY <1>0, <1>4, <2>1 DEF ResetOrder, AwaitsSave
<1>9. ~InRound' /\ ~(at' = "forget" /\ ~waiting')
  BY <1>0, <1>1, <1>2, <1>4 DEF ResetOrder, InRound, Resetting
<1>10. \A i \in DOMAIN sent' : Emptied'
  <2>1. \A i \in DOMAIN sent' : sent' # <<>>
    OBVIOUS
  <2> QED BY <1>4, <1>5, <1>6, <2>1 DEF Emptied
<1>11. ResetOrder'
  BY <1>4, <1>6, <1>7, <1>8, <1>9, <1>10 DEF ResetOrder, Forgetful, Storing
<1>12. RemovalsOnce' /\ EnablesFirst' /\ SavesSafe'
  BY <1>6, <1>7 DEF RemovalsOnce, EnablesFirst, SavesSafe, Removal, Enabling, Storing
<1>13. SavedStay'
  <2>1. DOMAIN disk' = {}
    BY <1>5
  <2> QED BY <2>1 DEF SavedStay
<1> QED BY <1>9, <1>11, <1>12, <1>13 DEF Guarded, FreshIsOff

\* Any other command the supplicant carries out.
LEMMA ServingKeeps ==
  ASSUME TypeOK, Shape, InRound => Claims, Guarded, Supplicant, Head(sent).command # "forget",
         ~(Head(sent).command = "save" /\ Head(sent).id = 0)
  PROVE  Guarded'
<1>0. ResetOrder /\ RemovalsOnce /\ EnablesFirst /\ FreshIsOff /\ SavesSafe /\ SavedStay
  BY DEF Guarded
<1>1. PICK a \in Reply :
        /\ Outcome(sent[1].command, sent[1].id, sent[1].net, a)
        /\ sent \in Seq(Request) /\ 1 \in DOMAIN sent /\ sent[1] \in Request
        /\ sent' \in Seq(Request)
        /\ \A i \in DOMAIN sent' : i + 1 \in DOMAIN sent /\ sent'[i] = sent[i + 1]
        /\ \A i \in DOMAIN sent : i = 1 \/ (i - 1 \in DOMAIN sent' /\ sent'[i - 1] = sent[i])
        /\ DOMAIN sent = 1..Len(sent) /\ DOMAIN replies = 1..Len(replies)
        /\ \A i \in DOMAIN replies' :
             \/ i \in DOMAIN replies /\ replies'[i] = replies[i]
             \/ i = Len(replies) + 1 /\ replies'[i] = a
        /\ Served(a)
  BY QueuesAfter
<1>2. /\ Head(sent) = sent[1] /\ sent' = Tail(sent)
      /\ UNCHANGED <<at, id, cfg, linked, waiting>>
      /\ ~Forgetful(1) /\ ~(Storing(1) /\ sent[1].id = 0)
  BY <1>1 DEF Served, worker, Forgetful, Storing
<1>3. /\ LastOfReset' = LastOfReset /\ LastOfReset.command = "save" /\ LastOfReset.id = 0
      /\ AwaitsSave' <=> AwaitsSave
      /\ InRound' <=> InRound
      /\ Holding' <=> Holding
  BY <1>2 DEF LastOfReset, AwaitsSave, InRound, Resetting, Holding
<1>4. ASSUME NEW i \in DOMAIN sent'
      PROVE  /\ i \in Nat \ {0} /\ i + 1 \in DOMAIN sent /\ sent'[i] = sent[i + 1]
             /\ Removal(i)' <=> Removal(i + 1)
             /\ Enabling(i)' <=> Enabling(i + 1)
             /\ Storing(i)' <=> Storing(i + 1)
             /\ Forgetful(i)' <=> Forgetful(i + 1)
  BY <1>1 DEF Removal, Enabling, Storing, Forgetful
<1>5. \A k \in DOMAIN entries : k \in DOMAIN entries' \/ (Removal(1) /\ sent[1].id = k)
  BY <1>1, <1>2, ListAfter DEF Removal, Forgetful
<1>6. a.is = "number" => /\ a.id = NewId /\ NewId \notin DOMAIN entries
                         /\ entries'[NewId] = Blank
  BY <1>1, FreshNumber DEF Shape, Outcome, Adding, Changing, Failing, Removing, Saving,
     Reporting, Number, OK, FAIL, Text
<1>b. Blank.on = FALSE
  BY DEF Blank
<1>7. /\ \A k \in DOMAIN entries' : k \in DOMAIN entries \/ (k = NewId /\ entries'[k] = Blank)
      /\ Removal(1) => sent[1].id \notin DOMAIN entries'
  <2>0. sent[1].net \in Networks \cup {""} /\ \A k \in DOMAIN entries : entries[k] \in Entry
    BY <1>1 DEF Request, TypeOK
  <2>1. sent[1].command \in Changes =>
          DOMAIN Effect(sent[1].command, sent[1].id, sent[1].net) = DOMAIN entries
    BY EffectDomain
  <2> QED BY <1>1, <1>2, <2>1
        DEF Outcome, Adding, Changing, Failing, Removing, Saving, Reporting, Removal, Forgetful,
            Changes, Harmless
<1>8. /\ disk' = disk \/ (Storing(1) /\ disk' = entries /\ entries' = entries)
      /\ Storing(1) => entries' = entries
  BY <1>1 DEF Outcome, Adding, Changing, Failing, Removing, Saving, Reporting, Storing,
     Changes, Harmless
<1>9. \A k \in DOMAIN entries : k \in DOMAIN entries' /\ entries'[k].on =>
        entries[k].on \/ (Enabling(1) /\ sent[1].id = k)
  BY <1>1, OnAfter
<1>10. ~Emptied
  BY <1>1, <1>2, <1>3 DEF Emptied, Storing
<1>11. ASSUME NEW k \in DOMAIN entries, Claimed(k)'
       PROVE  Claimed(k)
  <2>1. CASE Holding' /\ id' = k
    BY <1>2, <1>3, <2>1 DEF Claimed
  <2>2. CASE InRound' /\ \E i \in DOMAIN replies' : Numbers(i)' /\ replies'[i].id = k
    <3>1. PICK i \in DOMAIN replies' : replies'[i].is = "number" /\ replies'[i].id = k
      BY <2>2 DEF Numbers
    <3>2. i \in DOMAIN replies /\ replies'[i] = replies[i]
      BY <1>1, <1>6, <3>1
    <3> QED BY <1>3, <2>2, <3>1, <3>2 DEF Claimed, Numbers
  <2>3. CASE (\E i \in DOMAIN sent : Removal(i) /\ sent[i].id = k)'
    BY <1>4, <2>3 DEF Claimed
  <2> QED BY <1>11, <2>1, <2>2, <2>3 DEF Claimed
<1>12. ResetOrder'
  <2>1. ASSUME NEW f \in DOMAIN sent', Forgetful(f)'
        PROVE  /\ \A j \in DOMAIN sent' : j > f => sent'[j] = LastOfReset'
               /\ f < Len(sent') \/ AwaitsSave'
    <3>1. f + 1 \in DOMAIN sent /\ Forgetful(f + 1)
      BY <1>4, <2>1
    <3>2. /\ \A j \in DOMAIN sent : j > f + 1 => sent[j] = LastOfReset
          /\ f + 1 < Len(sent) \/ AwaitsSave
      BY <1>0, <3>1 DEF ResetOrder
    <3>3. Len(sent') = Len(sent) - 1 /\ Len(sent) \in Nat
      BY <1>1, <1>2, TailFacts
    <3>4. ASSUME NEW j \in DOMAIN sent', j > f
          PROVE  sent'[j] = LastOfReset'
      <4>1. j + 1 \in DOMAIN sent /\ j + 1 > f + 1 /\ sent'[j] = sent[j + 1]
        BY <1>4, <3>4
      <4> QED BY <1>3, <3>2, <4>1
    <3> QED BY <1>3, <1>4, <3>2, <3>3, <3>4
  <2>2. ASSUME NEW j \in DOMAIN sent', Storing(j)', sent'[j].id = 0
        PROVE  /\ sent'[j] = LastOfReset'
               /\ \E f \in DOMAIN sent' : f < j /\ Forgetful(f)'
    <3>1. j + 1 \in DOMAIN sent /\ Storing(j + 1) /\ sent[j + 1].id = 0
      BY <1>4, <2>2
    <3>2. /\ sent[j + 1] = LastOfReset
          /\ \E f \in DOMAIN sent : f < j + 1 /\ Forgetful(f)
      BY <1>0, <1>10, <3>1 DEF ResetOrder
    <3>3. PICK f \in DOMAIN sent : f < j + 1 /\ Forgetful(f)
      BY <3>2
    <3>4. f \in Nat /\ f # 1 /\ f - 1 \in DOMAIN sent' /\ sent'[f - 1] = sent[f]
      BY <1>1, <1>2, <3>3
    <3>5. f - 1 < j /\ Forgetful(f - 1)'
      BY <1>4, <3>3, <3>4 DEF Forgetful
    <3> QED BY <1>3, <1>4, <3>2, <3>4, <3>5
  <2>3. AwaitsSave' => sent' # <<>> /\ Forgetful(Len(sent))'
    <3> SUFFICES ASSUME AwaitsSave PROVE sent' # <<>> /\ sent'[Len(sent')].command = "forget"
      BY <1>3 DEF Forgetful
    <3>1. sent # <<>> /\ Forgetful(Len(sent))
      BY <1>0, <1>10 DEF ResetOrder
    <3>2. /\ Len(sent) \in DOMAIN sent /\ Len(sent) \in Nat /\ Len(sent) # 1
          /\ Len(sent') = Len(sent) - 1
      BY <1>1, <1>2, <3>1, TailFacts
    <3>3. Len(sent') \in DOMAIN sent' /\ sent'[Len(sent')] = sent[Len(sent)]
      BY <1>1, <3>2
    <3>4. sent' # <<>>
      BY <3>3
    <3> QED BY <3>1, <3>3, <3>4 DEF Forgetful
  <2>4. InRound' \/ (at' = "forget" /\ ~waiting') =>
          \A i \in DOMAIN sent' : ~Forgetful(i)' /\ ~(Storing(i)' /\ sent'[i].id = 0)
    BY <1>0, <1>2, <1>3, <1>4 DEF ResetOrder
  <2> QED BY <2>1, <2>2, <2>3, <2>4 DEF ResetOrder
<1>13. RemovalsOnce'
  <2> SUFFICES ASSUME NEW i \in DOMAIN sent', Removal(i)'
               PROVE  /\ sent'[i].id \in DOMAIN entries'
                      /\ \A j \in DOMAIN sent' :
                           Removal(j)' /\ sent'[j].id = sent'[i].id => j = i
    BY DEF RemovalsOnce
  <2>1. i + 1 \in DOMAIN sent /\ Removal(i + 1) /\ sent'[i] = sent[i + 1] /\ i \in Nat \ {0}
    BY <1>4
  <2>2. /\ sent[i + 1].id \in DOMAIN entries
        /\ \A j \in DOMAIN sent : Removal(j) /\ sent[j].id = sent[i + 1].id => j = i + 1
    BY <1>0, <2>1 DEF RemovalsOnce
  <2>3. sent'[i].id \in DOMAIN entries'
    BY <1>1, <1>5, <2>1, <2>2
  <2>4. ASSUME NEW j \in DOMAIN sent', Removal(j)', sent'[j].id = sent'[i].id
        PROVE  j = i
    <3>1. j + 1 = i + 1 /\ j \in Nat
      BY <1>4, <2>1, <2>2, <2>4
    <3> QED BY <2>1, <3>1
  <2> QED BY <2>3, <2>4
<1>14. EnablesFirst'
  <2> SUFFICES ASSUME NEW i \in DOMAIN sent', Enabling(i)'
               PROVE  /\ sent'[i].id \in DOMAIN entries'
                      /\ \A j \in DOMAIN sent' :
                           Removal(j)' /\ sent'[j].id = sent'[i].id => i < j
    BY DEF EnablesFirst
  <2>1. i + 1 \in DOMAIN sent /\ Enabling(i + 1) /\ sent'[i] = sent[i + 1] /\ i \in Nat \ {0}
    BY <1>4
  <2>2. /\ sent[i + 1].id \in DOMAIN entries
        /\ \A j \in DOMAIN sent : Removal(j) /\ sent[j].id = sent[i + 1].id => i + 1 < j
    BY <1>0, <2>1 DEF EnablesFirst
  <2>3. sent'[i].id \in DOMAIN entries'
    BY <1>1, <1>5, <2>1, <2>2
  <2>4. ASSUME NEW j \in DOMAIN sent', Removal(j)', sent'[j].id = sent'[i].id
        PROVE  i < j
    <3>1. i + 1 < j + 1 /\ j \in Nat
      BY <1>4, <2>1, <2>2, <2>4
    <3> QED BY <2>1, <3>1
  <2> QED BY <2>3, <2>4
<1>15. FreshIsOff'
  <2> SUFFICES ASSUME InRound, NEW i \in DOMAIN replies', Numbers(i)'
               PROVE  /\ ~entries'[replies'[i].id].on
                      /\ \A j \in DOMAIN sent' : Enabling(j)' => sent'[j].id # replies'[i].id
    BY <1>3 DEF FreshIsOff
  <2>1. CASE i \in DOMAIN replies /\ replies'[i] = replies[i]
    <3>1. /\ Numbers(i) /\ replies[i].id \in DOMAIN entries
          /\ \A j \in DOMAIN sent : Removal(j) => sent[j].id # replies[i].id
      BY <2>1 DEF Numbers, Claims
    <3>2. /\ ~entries[replies[i].id].on
          /\ \A j \in DOMAIN sent : Enabling(j) => sent[j].id # replies[i].id
      BY <1>0, <2>1, <3>1 DEF FreshIsOff
    <3>3. replies[i].id \in DOMAIN entries'
      BY <1>1, <1>5, <3>1
    <3>4. ~entries'[replies[i].id].on
      BY <1>1, <1>9, <3>1, <3>2, <3>3
    <3> QED BY <1>4, <2>1, <3>2, <3>4
  <2>2. CASE replies'[i] = a
    <3>1. replies'[i].id \notin DOMAIN entries /\ entries'[replies'[i].id] = Blank
      BY <1>6, <2>2 DEF Numbers
    <3>2. \A j \in DOMAIN sent' : Enabling(j)' => sent'[j].id \in DOMAIN entries
      BY <1>0, <1>4 DEF EnablesFirst
    <3> QED BY <1>b, <3>1, <3>2
  <2> QED BY <1>1, <2>1, <2>2
<1>16. SavesSafe'
  <2> SUFFICES ASSUME NEW j \in DOMAIN sent', Storing(j)', sent'[j].id # 0,
                      NEW k \in DOMAIN entries', Claimed(k)'
               PROVE  Gone(k, j)' \/ Off(k, j)'
    BY DEF SavesSafe
  <2>1. CASE k \in DOMAIN entries
    <3>1. /\ j + 1 \in DOMAIN sent /\ Storing(j + 1) /\ sent[j + 1].id # 0
          /\ j \in Nat \ {0}
      BY <1>4
    <3>2. Gone(k, j + 1) \/ Off(k, j + 1)
      BY <1>0, <1>11, <2>1, <3>1 DEF SavesSafe
    <3>3. CASE Gone(k, j + 1)
      <4>1. PICK i \in DOMAIN sent : i < j + 1 /\ Removal(i) /\ sent[i].id = k
        BY <3>3 DEF Gone
      <4>2. i # 1
        BY <1>7, <4>1
      <4>3. i - 1 \in DOMAIN sent' /\ sent'[i - 1] = sent[i] /\ i \in Nat /\ i - 1 < j
        BY <1>1, <3>1, <4>1, <4>2
      <4> QED BY <4>1, <4>3 DEF Gone, Removal
    <3>4. CASE Off(k, j + 1)
      <4>1. ~entries'[k].on
        BY <1>1, <1>9, <2>1, <3>1, <3>4 DEF Off
      <4>2. ASSUME NEW i \in DOMAIN sent', i < j, Enabling(i)'
            PROVE  sent'[i].id # k
        <5>1. i + 1 \in DOMAIN sent /\ i + 1 < j + 1 /\ Enabling(i + 1) /\ sent'[i] = sent[i + 1]
          BY <1>4, <3>1, <4>2
        <5> QED BY <3>4, <5>1 DEF Off
      <4> QED BY <4>1, <4>2 DEF Off
    <3> QED BY <3>2, <3>3, <3>4
  <2>2. CASE k \notin DOMAIN entries
    <3>1. ~entries'[k].on
      BY <1>7, <1>b, <2>2
    <3>2. \A i \in DOMAIN sent' : Enabling(i)' => sent'[i].id # k
      BY <1>0, <1>4, <2>2 DEF EnablesFirst
    <3> QED BY <3>1, <3>2 DEF Off
  <2> QED BY <2>1, <2>2
<1>17. SavedStay'
  <2> SUFFICES ASSUME NEW k \in DOMAIN disk', disk'[k].on
               PROVE  k \in DOMAIN entries' /\ ~Claimed(k)'
    BY DEF SavedStay
  <2>1. CASE disk' = disk
    <3>1. k \in DOMAIN entries /\ ~Claimed(k)
      BY <1>0, <1>10, <2>1 DEF SavedStay
    <3> QED BY <1>1, <1>5, <1>11, <3>1 DEF Claimed
  <2>2. CASE Storing(1) /\ disk' = entries /\ entries' = entries
    <3>1. Claimed(k) => Gone(k, 1) \/ Off(k, 1)
      BY <1>0, <1>1, <1>2, <2>2 DEF SavesSafe
    <3>2. ~Gone(k, 1)
      BY <1>1 DEF Gone
    <3>3. ~Claimed(k)
      BY <2>2, <3>1, <3>2 DEF Off
    <3> QED BY <1>11, <2>2, <3>3
  <2> QED BY <1>8, <2>1, <2>2
<1> QED BY <1>12, <1>13, <1>14, <1>15, <1>16, <1>17 DEF Guarded

\* All of this holds from the first start on, until a factory reset falls short.
LEMMA KeepingInductive ==
  /\ Init => Keeping
  /\ IInv /\ IInv' /\ Keeping /\ [Next]_vars => Keeping'
<1>1. ASSUME Init PROVE Keeping
  <2>1. sent = <<>> /\ replies = <<>> /\ at = "off" /\ entries = disk
    BY <1>1 DEF Init
  <2>2. ~InRound /\ ~AwaitsSave /\ ~Holding /\ DOMAIN sent = {}
    BY <2>1 DEF InRound, AwaitsSave, Holding, Changes
  <2> QED BY <2>1, <2>2 DEF Keeping, Guarded, ResetOrder, RemovalsOnce, EnablesFirst, FreshIsOff,
          SavesSafe, SavedStay, Claimed
<1>2. ASSUME IInv, IInv', Keeping, [Next]_vars PROVE Keeping'
  <2> SUFFICES ASSUME "reset" \notin broken' PROVE Guarded'
    BY DEF Keeping
  <2>1. "reset" \notin broken
    BY <1>2 DEF Next, vars, bounds, Open, Send, Receive, TimeOut, Answered, WriteFingerprint,
       NextRound, Stop, ResetWifi, RemoveData, Start, Crash, Supplicant, PowerCut
  <2>2. Guarded /\ TypeOK /\ Shape /\ (InRound => Claims) /\ (InRound' => Claims')
    BY <1>2, <2>1 DEF Keeping, IInv
  <2>3. CASE \/ Open \/ WriteFingerprint \/ NextRound \/ Stop
             \/ ResetWifi \/ RemoveData \/ Start \/ Crash
    BY <2>2, <2>3, WorkerKeeps
  <2>4. CASE Receive \/ TimeOut
    BY <2>2, <2>4, AnswerKeeps
  <2>5. CASE Send
    BY <2>2, <2>5, SendKeeps
  <2>6. CASE Supplicant
    BY <2>2, <2>6, ForgettingKeeps, LastSaveKeeps, ServingKeeps
  <2>7. CASE PowerCut
    <3>1. sent' = <<>> /\ replies' = <<>> /\ at' = "off" /\ entries' = disk /\ disk' = disk
      BY <2>7 DEF PowerCut
    <3>2. ~InRound' /\ ~AwaitsSave' /\ ~Holding' /\ DOMAIN sent' = {}
      BY <3>1 DEF InRound, AwaitsSave, Holding, Changes
    <3> QED BY <3>1, <3>2 DEF Guarded, ResetOrder, RemovalsOnce, EnablesFirst, FreshIsOff,
            SavesSafe, SavedStay, Claimed
  <2>8. CASE UNCHANGED vars
    <3>1. UNCHANGED <<sent, entries, disk, cfg, replies, at, waiting, id, linked>>
      BY <2>8 DEF vars, worker, supplicant
    <3>2. /\ AwaitsSave' <=> AwaitsSave
          /\ InRound' <=> InRound
          /\ \A i \in DOMAIN replies' : Numbers(i)' <=> Numbers(i)
          /\ \A k : Claimed(k)' <=> Claimed(k)
      BY <3>1 DEF AwaitsSave, InRound, Resetting, Numbers, Claimed, Holding, Removal
    <3>3. InRound' \/ (at' = "forget" /\ ~waiting') =>
            \A i \in DOMAIN sent : ~Forgetful(i) /\ ~(Storing(i) /\ sent[i].id = 0)
      BY <2>2, <3>1, <3>2 DEF Guarded, ResetOrder
    <3> QED BY <2>2, <3>1, <3>2, <3>3, QuietStays
  <2> QED BY <1>2, <2>3, <2>4, <2>5, <2>6, <2>7, <2>8 DEF Next
<1> QED BY <1>1, <1>2

\* Tc002System.cpp:106, "Keep previously working networks enabled as a fallback":
\* nothing but a factory reset removes or disables a network that was saved, for
\* any networks and any number of rounds, starts, crashes and power cuts, however
\* late the answers come that setNetwork takes the number of its network from.
THEOREM NetworksAreKept == Spec => NetworksKept
<1>1. ASSUME IInv, Keeping, Next, ~Forgetting(sent), "reset" \notin broken,
             NEW n \in DOMAIN entries \cap DOMAIN disk, entries[n] = disk[n], entries[n].on
      PROVE  n \in DOMAIN entries' /\ entries'[n].on
  <2>0. TypeOK /\ Shape /\ Guarded
    BY <1>1 DEF IInv, Keeping
  <2>1. CASE Supplicant
    <3>1. PICK a \in Reply :
            /\ Outcome(sent[1].command, sent[1].id, sent[1].net, a)
            /\ 1 \in DOMAIN sent /\ sent[1] \in Request /\ Served(a)
      BY <2>0, <2>1, QueuesAfter
    <3>2. ~Emptied
      <4>1. Emptied => DOMAIN entries = {}
        BY DEF Emptied
      <4> QED BY <1>1, <4>1
    <3>3. ~Claimed(n)
      BY <1>1, <2>0, <3>2 DEF Guarded, SavedStay
    <3>4. ~(Removal(1) /\ sent[1].id = n) /\ sent[1].command # "forget"
      BY <1>1, <3>1, <3>3 DEF Claimed, Forgetting, Served
    <3>5. n \in DOMAIN entries'
      BY <1>1, <2>0, <2>1, <3>1, <3>4, ListAfter DEF Removal, Served
    <3> QED BY <1>1, <2>0, <2>1, <3>4, <3>5, EntryAfter
  <2>2. CASE PowerCut
    BY <1>1, <2>2 DEF PowerCut
  <2>3. CASE ~(Supplicant \/ PowerCut)
    <3>1. entries' = entries
      BY <1>1, <2>3 DEF Next, Open, Send, Receive, TimeOut, Answered, WriteFingerprint,
         NextRound, Stop, ResetWifi, RemoveData, Start, Crash, supplicant
    <3> QED BY <1>1, <3>1
  <2> QED BY <2>1, <2>2, <2>3
<1>2. IInv /\ Keeping /\ [Next]_vars =>
        [~Forgetting(sent) /\ "reset" \notin broken => \A n \in DOMAIN entries \cap DOMAIN disk :
           entries[n] = disk[n] /\ entries[n].on => n \in DOMAIN entries' /\ entries'[n].on]_vars
  BY <1>1
<1>3. Spec => []Keeping
  BY KeepingInductive, Invariant, PTL DEF Spec
<1> QED BY <1>2, <1>3, Invariant, PTL DEF Spec, NetworksKept
=============================================================================
