------------------------------ MODULE WpaControl ------------------------------
(***************************************************************************)
(* How the network worker hands a configured network to wpa_supplicant     *)
(* (class Wpa, setNetwork and the worker loop of tc002/Tc002System.cpp).   *)
(*                                                                         *)
(* Commands and replies are datagrams.  A command waits 700 ms for an      *)
(* answer and takes the first datagram that comes, which is the late       *)
(* answer to an earlier command when there is one: every round of the      *)
(* worker opens a new socket, but under the same name, and the supplicant  *)
(* answers to the name.                                                    *)
(***************************************************************************)
EXTENDS Integers, Sequences, FiniteSetsExt

CONSTANTS
  Networks,    \* networks the configuration may name
  Refused,     \* those whose password the supplicant does not take
  MaxRounds,   \* bound: rounds of the worker after the first
  MaxExtras,   \* bound: commands that are not setNetwork's, in a behaviour
  MaxStarts,   \* bound: starts of the application
  MaxCuts      \* bound: power cuts and crashes of the application

ASSUME WpaAssumption ==
  /\ Networks # {} /\ Networks \cap {"", "stock"} = {}
  /\ Refused \subseteq Networks
  /\ {MaxRounds, MaxExtras, MaxStarts, MaxCuts} \subseteq Nat

VARIABLES
  cfg,         \* cfg.wifiSsid and its password, "" when none is configured
  configured,  \* of the worker
  applied,     \* .wifi-applied: the network its fingerprint is of
  at,          \* the command being exchanged, "open", "write", "rest", "clear" or "off"
  linked,      \* fd_: the round's socket is connected
  waiting,     \* it was sent and an answer is waited for
  id,          \* of setNetwork
  sent,        \* commands the supplicant has not come to
  replies,     \* answers in the worker's socket
  entries,     \* the supplicant's networks
  disk,        \* its configuration file
  broken,      \* history: "cut", the power was; "reset", a factory reset fell short
  left,        \* history: the network whose fingerprint such a reset left behind
  rounds, extras, starts, cuts

worker == <<cfg, configured, applied, at, linked, waiting, id>>
supplicant == <<sent, replies, entries, disk>>
bounds == <<broken, left, rounds, extras, starts, cuts>>
vars == <<worker, supplicant, bounds>>

NoReply == [is |-> "none", id |-> 0]
OK == [is |-> "OK", id |-> 0]
FAIL == [is |-> "FAIL", id |-> 0]
Text == [is |-> "text", id |-> 0]    \* of STATUS and SCAN_RESULTS
Number(n) == [is |-> "number", id |-> n]

\* Commands that change a network, and those that leave the networks alone.
Changes == {"ssid", "key", "priority", "enable"}
Harmless == {"status", "reassociate", "retry", "scan"}
Commands == {"add", "save", "remove", "forget"} \cup Changes \cup Harmless
Forgetting(queue) == queue # <<>> /\ queue[1].command = "forget"

Entry == [net : Networks \cup {"", "stock"}, key : BOOLEAN, first : BOOLEAN, on : BOOLEAN]
Blank == [net |-> "", key |-> FALSE, first |-> FALSE, on |-> FALSE]
Wanted(net) == [net |-> net, key |-> TRUE, first |-> TRUE, on |-> TRUE]

-----------------------------------------------------------------------------
(* The worker                                                              *)

\* A round opens its socket.  Without a supplicant to connect to every command
\* of the round has an empty answer.
Open ==
  /\ at = "open"
  /\ at' = "status"
  /\ linked' \in BOOLEAN
  /\ UNCHANGED <<cfg, configured, applied, waiting, id, supplicant, bounds>>

Send ==
  /\ at \in Commands /\ ~waiting
  /\ waiting' = TRUE
  /\ sent' = IF linked THEN Append(sent, [command |-> at, id |-> id, net |-> cfg])
                       ELSE sent
  /\ UNCHANGED <<cfg, configured, applied, at, linked, id, replies, entries, disk,
                 bounds>>

\* Variants: anything but an error counts as done; any answer to ADD_NETWORK
\* is an id.
AcknowledgedUnlessFailed(answer) == answer # FAIL
IsAnyId(answer) == answer # NoReply

Acknowledged(answer) == answer = OK

IsId(answer) == answer.is = "number"

\* What comes after an answer: setNetwork goes on as long as its commands
\* succeed, and takes its network back otherwise.  The round goes on to the
\* retry of the access point and the scan, either of which may be left out.
\* A factory reset, which has no network's id, goes on in any case.
AfterRound == {"retry", "scan", "rest"}

After == [ssid |-> "key", key |-> "priority", priority |-> "enable",
          enable |-> "reassociate", reassociate |-> "save"]

Following(answer) ==
  CASE at = "status" -> IF configured THEN AfterRound ELSE {"add"}
    [] at = "add" -> IF IsId(answer) THEN {"ssid"} ELSE AfterRound
    [] at \in DOMAIN After -> {IF Acknowledged(answer) THEN After[at] ELSE "remove"}
    [] at = "forget" -> {"save"}
    [] at = "save" -> {IF id = 0 THEN "clear" ELSE "write"}
    [] at = "remove" -> AfterRound
    [] at = "retry" -> {"scan", "rest"}
    [] at = "scan" -> {"rest"}

CountExtra ==
  IF at' \in {"retry", "scan"} THEN extras < MaxExtras /\ extras' = extras + 1
                               ELSE UNCHANGED extras

Answered(answer) ==
  /\ waiting
  /\ waiting' = FALSE
  /\ at' \in Following(answer)
  /\ id' = IF at = "add" THEN answer.id ELSE id
  /\ configured' = (configured \/ at = "save")
  /\ CountExtra
  /\ UNCHANGED <<cfg, applied, linked, sent, entries, disk, broken, left, rounds, starts,
                 cuts>>

Receive ==
  /\ replies # <<>>
  /\ Answered(Head(replies))
  /\ replies' = Tail(replies)

TimeOut ==
  /\ replies = <<>>
  /\ Answered(NoReply)
  /\ UNCHANGED replies

WriteFingerprint ==
  /\ at = "write"
  /\ applied' = cfg /\ left' = ""
  /\ at' \in AfterRound
  /\ CountExtra
  /\ UNCHANGED <<cfg, configured, linked, waiting, id, supplicant, broken, rounds,
                 starts, cuts>>

\* The socket of a round goes with the answers in it.
NextRound ==
  /\ at = "rest" /\ rounds < MaxRounds
  /\ rounds' = rounds + 1
  /\ at' = "open"
  /\ replies' = <<>>
  /\ UNCHANGED <<cfg, configured, applied, linked, waiting, id, sent, entries, disk,
                 broken, left, extras, starts, cuts>>

Stop ==
  /\ at = "rest"
  /\ at' = "off"
  /\ replies' = <<>>
  /\ UNCHANGED <<cfg, configured, applied, linked, waiting, id, sent, entries, disk,
                 bounds>>

\* A factory reset, after the worker was joined: resetWifi opens a socket of its
\* own and sends two commands, whose answers nobody looks at.
ResetWifi ==
  /\ at = "rest"
  /\ at' = "forget" /\ id' = 0
  /\ linked' \in BOOLEAN
  /\ replies' = <<>>
  /\ UNCHANGED <<cfg, configured, applied, waiting, sent, entries, disk, bounds>>

\* Variant: a reset of the settings alone, which always leaves the fingerprint.
RemoveSettings ==
  /\ at = "clear"
  /\ at' = "off"
  /\ replies' = <<>>
  /\ UNCHANGED <<cfg, configured, applied, linked, waiting, id, sent, entries, disk, bounds>>

\* Then the fingerprint goes, with all of the data directory, unless the removal
\* falls short, which nobody looks at.
RemoveData ==
  /\ at = "clear"
  /\ at' = "off"
  /\ applied' \in {"", applied} /\ left' = applied'
  /\ replies' = <<>>
  /\ UNCHANGED <<cfg, configured, linked, waiting, id, sent, entries, disk, broken,
                 rounds, extras, starts, cuts>>

\* The application is killed; the supplicant still has what was sent.
Resetting == at \in {"forget", "clear"} \/ (at = "save" /\ id = 0)
Crash ==
  /\ at # "off" /\ cuts < MaxCuts
  /\ cuts' = cuts + 1
  /\ broken' = IF Resetting THEN broken \cup {"reset"} ELSE broken
  /\ left' = IF Resetting THEN applied ELSE left
  /\ at' = "off" /\ waiting' = FALSE
  /\ replies' = <<>>
  /\ UNCHANGED <<cfg, configured, applied, linked, id, sent, entries, disk, rounds,
                 extras, starts>>

\* A start of the application, maybe with another network configured: only
\* the fingerprint tells whether the supplicant knows it.  It takes seconds; the
\* supplicant is assumed to have caught up by then.
Start ==
  /\ at = "off" /\ sent = <<>> /\ starts < MaxStarts
  /\ starts' = starts + 1
  /\ cfg' \in Networks \cup {""}
  /\ configured' = (cfg' = "" \/ applied = cfg')
  /\ at' = "open" /\ waiting' = FALSE
  /\ UNCHANGED <<applied, linked, id, supplicant, broken, left, rounds, extras,
                 cuts>>

-----------------------------------------------------------------------------
(* wpa_supplicant                                                          *)

\* The next command is carried out and answered, to whatever socket has the
\* name then, if any.
Carries(c, e, d, answer) ==
  /\ Head(sent).command = c
  /\ sent' = Tail(sent)
  /\ entries' = e
  /\ disk' = d
  /\ replies' = IF at \in {"open", "off"} \/ ~linked THEN <<>> ELSE Append(replies, answer)

NewId == 1 + Max(DOMAIN entries \cup {0})

Adds ==
  Carries("add", [n \in DOMAIN entries \cup {NewId} |->
                    IF n = NewId THEN Blank ELSE entries[n]], disk, Number(NewId))

\* Variant: as SELECT_NETWORK would, which disables the others.
Selects(e, n) == [m \in DOMAIN e |-> [e[m] EXCEPT !.on = (m = n)]]

Enables(e, n) == [e EXCEPT ![n].on = TRUE]

\* The effect of a command of setNetwork on the networks.
Effect(c, n, net) ==
  CASE c = "ssid" -> [entries EXCEPT ![n].net = net]
    [] c = "key" -> [entries EXCEPT ![n].key = TRUE]
    [] c = "priority" -> [entries EXCEPT ![n].first = TRUE]
    [] c = "enable" -> Enables(entries, n)

\* A password may be refused, and so is a network that is not there.
ChangesEntry(c) ==
  LET n == Head(sent).id
      net == Head(sent).net
  IN  IF n \in DOMAIN entries /\ ~(c = "key" /\ net \in Refused)
        THEN Carries(c, Effect(c, n, net), disk, OK)
        ELSE Carries(c, entries, disk, FAIL)

Removes ==
  LET n == Head(sent).id
  IN  Carries("remove", [m \in DOMAIN entries \ {n} |-> entries[m]], disk,
              IF n \in DOMAIN entries THEN OK ELSE FAIL)

Forgets == Carries("forget", <<>>, disk, OK)

\* Saving may fail.  After a factory reset the file then still has the networks.
Saves ==
  \/ Carries("save", entries, entries, OK)
  \/ Carries("save", entries, disk, FAIL)

\* STATUS and SCAN_RESULTS, which takes part as a kind of scan, are answered
\* with text.
Reports(c) ==
  \E answer \in CASE c = "status" -> {Text} [] c = "scan" -> {OK, FAIL, Text}
                  [] OTHER -> {OK} :
    Carries(c, entries, disk, answer)

LastOfReset == [command |-> "save", id |-> 0, net |-> cfg]

Supplicant ==
  /\ sent # <<>>
  /\ \/ Adds \/ Removes \/ Forgets \/ Saves
     \/ \E c \in Changes : ChangesEntry(c)
     \/ \E c \in Harmless : Reports(c)
  /\ broken' = IF Head(sent) = LastOfReset /\ disk' # entries'
                  THEN broken \cup {"reset"} ELSE broken
  /\ UNCHANGED <<worker, left, rounds, extras, starts, cuts>>

\* The power goes, and the supplicant comes back with what it saved.
PowerCut ==
  /\ at # "off" /\ cuts < MaxCuts
  /\ cuts' = cuts + 1 /\ broken' = broken \cup {"cut"}
  /\ at' = "off" /\ waiting' = FALSE
  /\ sent' = <<>> /\ replies' = <<>>
  /\ entries' = disk
  /\ UNCHANGED <<cfg, configured, applied, linked, id, disk, left, rounds, extras,
                 starts>>

Init ==
  /\ cfg = "" /\ configured = TRUE
  /\ applied = ""
  /\ at = "off" /\ linked = FALSE /\ waiting = FALSE /\ id = 0
  /\ sent = <<>> /\ replies = <<>>
  /\ disk = <<[net |-> "stock", key |-> TRUE, first |-> FALSE, on |-> TRUE]>>
  /\ entries = disk
  /\ broken = {} /\ left = ""
  /\ rounds = 0 /\ extras = 0 /\ starts = 0 /\ cuts = 0

Next ==
  \/ Open \/ Send \/ Receive \/ TimeOut \/ WriteFingerprint \/ NextRound \/ Stop
  \/ ResetWifi \/ RemoveData \/ Start \/ Crash
  \/ Supplicant \/ PowerCut

Spec == Init /\ [][Next]_vars

-----------------------------------------------------------------------------
TypeOK ==
  /\ cfg \in Networks \cup {""} /\ applied \in Networks \cup {""}
  /\ {configured, linked, waiting} \subseteq BOOLEAN
  /\ broken \subseteq {"cut", "reset"} /\ left \in {"", applied}
  /\ at \in Commands \cup {"open", "write", "rest", "clear", "off"}
  /\ id \in Nat /\ (at \in Changes \cup {"reassociate", "remove"} => id # 0)
  /\ sent \in Seq([command : Commands, id : Nat, net : Networks \cup {""}])
  /\ replies \in Seq([is : {"OK", "FAIL", "text", "number"}, id : Nat])
  /\ \A e \in {entries, disk} : \A n \in DOMAIN e : n \in Nat /\ e[n] \in Entry
  /\ rounds \in 0..MaxRounds /\ extras \in 0..MaxExtras
  /\ starts \in 0..MaxStarts /\ cuts \in 0..MaxCuts

\* Tc002System.cpp:106, "Keep previously working networks enabled as a
\* fallback": no attempt, failed or not, removes or disables a network that was
\* saved, not even when the id it uses is one of an earlier attempt.  Only a
\* factory reset does (what the file still has after one that fell short does not
\* count).
NetworksKept ==
  [][~Forgetting(sent) /\ "reset" \notin broken => \A n \in DOMAIN entries \cap DOMAIN disk :
       entries[n] = disk[n] /\ entries[n].on => n \in DOMAIN entries' /\ entries'[n].on]_vars

\* When the worker takes the network for configured and will not configure it
\* again, the supplicant knows it as soon as it has caught up, whatever answer
\* was late, taken for the answer to another command or lost, and whenever the
\* application was killed - unless the supplicant lost what it had not saved.  A
\* factory reset that fell short makes an exception of one network alone, the
\* one that was in use then, and only until a fingerprint is written.
KnowsYours == \E n \in DOMAIN entries : entries[n] = Wanted(cfg)
Settled == at = "rest" /\ configured /\ cfg # "" /\ sent = <<>>
YourNetworkIsKnown == Settled /\ "cut" \notin broken => KnowsYours \/ cfg = left

\* docs/INSTALL.md:104, "it retries your network every two minutes": after a
\* power cut as well the network that is to be retried is one the supplicant
\* knows.
YourNetworkIsAlwaysKnown == Settled => KnowsYours
=============================================================================
