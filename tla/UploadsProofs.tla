---------------------------- MODULE UploadsProofs ----------------------------
(***************************************************************************)
(* Proofs for Uploads: of any number of uploads no two helpers write the   *)
(* flash at once, an upload that was answered left nothing behind, and a   *)
(* factory reset clears the data directory of all but the uploads it met.  *)
(***************************************************************************)
EXTENDS Uploads, FiniteSetTheorems, TLAPS

\* Where a handler has the mutex.
Locked == Active \ {"gate", "lock"}

\* The mutex is held by the handler that is past its try_lock, and by no other.
MutexHeld ==
  /\ \A u \in Ids : at[u] \in Locked => holder = u
  /\ holder # 0 => at[holder] \in Locked

\* Past the copy of the helper none is running, because a running one keeps its
\* file from being replaced and a new one needs the mutex.
HelperIsFirst ==
  /\ \A u \in Ids : at[u] \in {"preflight", "install"} => helpers = {}
  /\ \A u, v \in helpers : u = v

\* A firmware handler only gets past its reader with the whole image.
ImageIsWhole ==
  /\ \A u \in Ids : at[u] \in {"copy", "preflight", "install"} => whole[u]
  /\ \A u \in Ids : at[u] = "check" /\ kind[u] = "firmware" => whole[u]
  /\ \A u \in helpers : whole[u]

\* Each temporary file belongs to a handler that will remove it, to one that was
\* killed, or to a helper that was started.
FilesAreOwned ==
  /\ \A u \in parts : kind[u] = "mp3" /\ at[u] \in {"receive", "check", "rename", "killed"}
  /\ \A u \in staged :
       /\ kind[u] = "firmware"
       /\ \/ at[u] \in {"receive", "check", "copy", "preflight", "install", "killed"}
          \/ at[u] = "replied" /\ answer[u] = "accepted"

\* Directories a reset has been through.
Cleared == emptied \cup (Places \ left)

\* Once a reset has begun, only the uploads that were past the gate then go on,
\* and in what has been cleared there are only files of theirs.
ResetInOrder ==
  /\ server \notin Resetting => left = Places /\ emptied = {} /\ stored = {}
  /\ server = "wiped" => emptied = {}
  /\ server \in Resetting =>
       /\ \A u \in Ids : at[u] \in Active \ {"gate"} => u \in early
       /\ stored \subseteq early
       /\ "mp3" \in Cleared => parts \subseteq early
       /\ "staging" \in Cleared => staged \subseteq early
  /\ server = "wiped" /\ left # {} => early # {}

IInv ==
  TypeOK /\ MutexHeld /\ HelperIsFirst /\ ImageIsWhole /\ FilesAreOwned /\ ResetInOrder

-----------------------------------------------------------------------------
LEMMA Begins == Init => IInv
  BY DEF Init, IInv, Ids, Active, Locked, Resetting, Places, TypeOK, MutexHeld, HelperIsFirst,
         ImageIsWhole, FilesAreOwned, ResetInOrder

\* What a handler may do while a reset runs: go on when it is past the gate, and
\* then make files.
PastGate(u) == at[u] \in Active \ {"gate"}

LEMMA HandlerKeepsReset ==
  ASSUME IInv, NEW u \in Ids, NEW to, at' = [at EXCEPT ![u] = to], UNCHANGED loop,
         to \in Active \ {"gate"} => PastGate(u) \/ server = "running",
         parts' \subseteq parts \/ (PastGate(u) /\ parts' \subseteq parts \cup {u}),
         staged' \subseteq staged \/ (PastGate(u) /\ staged' \subseteq staged \cup {u}),
         \/ stored' = stored
         \/ PastGate(u) /\ server \in Resetting /\ stored' = stored \cup {u}
  PROVE  ResetInOrder'
<1> USE DEF IInv, ResetInOrder, loop, wipe
<1>1. \A v \in Ids \ {u} : at'[v] = at[v]
  BY DEF TypeOK
<1>2. at'[u] = to
  BY DEF TypeOK
<1>3. server \in Resetting => server # "running" /\ (PastGate(u) => u \in early)
  BY DEF Resetting, PastGate
<1>4. server \in Resetting => \A v \in Ids : at'[v] \in Active \ {"gate"} => v \in early
  BY <1>1, <1>2, <1>3
<1>5. Cleared' = Cleared
  BY DEF Cleared
<1> QED
  BY <1>3, <1>4, <1>5

\* A response that leaves no file behind keeps the invariant, wherever the
\* handler was.
LEMMA ReplyKeeps ==
  ASSUME IInv, NEW u \in Ids, at[u] \in Active,
         NEW a \in {"refused", "stored"}, Reply(u, a),
         parts' = parts \ {u}, staged' = staged \ {u}, helpers' = helpers,
         \/ stored' = stored
         \/ at[u] = "rename" /\ server \in Resetting /\ stored' = stored \cup {u}
  PROVE  IInv'
<1> USE UploadsAssumption DEF IInv, Ids
<1>1. /\ at' = [at EXCEPT ![u] = "replied"]
      /\ answer' = [answer EXCEPT ![u] = a]
      /\ holder' = IF holder = u THEN 0 ELSE holder
      /\ UNCHANGED <<loop, kind, whole>>
  BY DEF Reply, ReplyWith
<1>2. TypeOK'
  BY <1>1 DEF TypeOK, Active, loop, wipe
<1>3. at'[u] = "replied" /\ \A v \in Ids \ {u} : at'[v] = at[v] /\ answer'[v] = answer[v]
  BY <1>1 DEF TypeOK
<1>4. MutexHeld'
  BY <1>1, <1>3 DEF TypeOK, MutexHeld, Locked, Active
<1>5. HelperIsFirst'
  BY <1>3 DEF TypeOK, HelperIsFirst
<1>6. ImageIsWhole'
  BY <1>1, <1>3 DEF TypeOK, ImageIsWhole
<1>7. FilesAreOwned'
  BY <1>1, <1>3 DEF TypeOK, FilesAreOwned
<1>8. at[u] = "rename" => PastGate(u)
  BY DEF PastGate, Active
<1>9. "replied" \notin Active
  BY DEF Active
<1>10. ResetInOrder'
  BY <1>1, <1>8, <1>9, HandlerKeepsReset
<1> QED
  BY <1>2, <1>4, <1>5, <1>6, <1>7, <1>10

LEMMA RefuseKeeps ==
  ASSUME IInv, NEW u \in Ids, at[u] \in Active, Refuse(u)
  PROVE  IInv'
  BY ReplyKeeps DEF Refuse

\* As long as the handler has no file yet, there is none to remove.
LEMMA TurnAwayKeeps ==
  ASSUME IInv, NEW u \in Ids, at[u] \in {"gate", "lock"}, Reply(u, "refused"),
         UNCHANGED <<files, helpers>>
  PROVE  IInv'
<1>1. u \notin parts /\ u \notin staged
  BY DEF IInv, FilesAreOwned
<1>2. parts' = parts \ {u} /\ staged' = staged \ {u} /\ helpers' = helpers /\ stored' = stored
  BY <1>1 DEF files
<1>3. at[u] \in Active
  BY DEF Active
<1> QED
  BY <1>2, <1>3, ReplyKeeps

\* A handler that holds the mutex goes on to its next step: what is left to
\* show concerns the place it comes to.
LEMMA StepKeeps ==
  ASSUME IInv, NEW u \in Ids, NEW from \in Locked, NEW to \in Locked, Step(u, from, to)
  PROVE  /\ TypeOK' <=> {parts', stored', staged'} \subseteq SUBSET Ids
         /\ MutexHeld'
         /\ at' = [at EXCEPT ![u] = to]
         /\ at'[u] = to /\ \A v \in Ids \ {u} : at'[v] = at[v]
         /\ at[u] = from /\ holder = u
         /\ UNCHANGED <<loop, kind, answer, whole, holder, helpers>>
         /\ /\ parts' \subseteq parts \cup {u} /\ staged' \subseteq staged \cup {u}
            /\ stored' = stored
            => ResetInOrder'
<1> USE UploadsAssumption DEF IInv, Ids
<1>1. /\ at[u] = from /\ at' = [at EXCEPT ![u] = to]
      /\ UNCHANGED <<loop, kind, answer, whole, holder, helpers>>
  BY DEF Step
<1>2. TypeOK' <=> {parts', stored', staged'} \subseteq SUBSET Ids
  BY <1>1 DEF TypeOK, Locked, loop, wipe
<1>3. at'[u] = to /\ \A v \in Ids \ {u} : at'[v] = at[v]
  BY <1>1 DEF TypeOK
<1>4. holder = u
  BY <1>1 DEF MutexHeld
<1>5. MutexHeld'
  BY <1>1, <1>3, <1>4 DEF TypeOK, MutexHeld
<1>6. PastGate(u)
  BY <1>1 DEF PastGate, Locked
<1>7. ASSUME parts' \subseteq parts \cup {u}, staged' \subseteq staged \cup {u}, stored' = stored
      PROVE  ResetInOrder'
  BY <1>1, <1>6, <1>7, HandlerKeepsReset
<1> QED
  BY <1>1, <1>2, <1>3, <1>4, <1>5, <1>7

\* What the handler does at each place, one step per operation.
LEMMA Keeps == IInv /\ [Next]_vars => IInv'
<1> SUFFICES ASSUME IInv, [Next]_vars PROVE IInv'
  OBVIOUS
<1> USE UploadsAssumption DEF IInv, Ids
<1>1. ASSUME NEW u \in Ids, Arrive(u) PROVE IInv'
  <2>1. PICK k \in {"mp3", "firmware"} : kind' = [kind EXCEPT ![u] = k]
    BY <1>1 DEF Arrive
  <2>2. /\ at[u] = "none" /\ at' = [at EXCEPT ![u] = "gate"]
        /\ UNCHANGED <<loop, answer, whole, holder, files, helpers>>
    BY <1>1 DEF Arrive
  <2>3. /\ at'[u] = "gate"
        /\ \A v \in Ids \ {u} : at'[v] = at[v] /\ kind'[v] = kind[v]
    BY <2>1, <2>2 DEF TypeOK
  <2>4. TypeOK'
    BY <2>1, <2>2 DEF TypeOK, Active, loop, wipe, files
  <2>5. MutexHeld'
    BY <2>2, <2>3 DEF TypeOK, MutexHeld, Locked, Active
  <2>6. HelperIsFirst' /\ ImageIsWhole'
    BY <2>2, <2>3 DEF TypeOK, HelperIsFirst, ImageIsWhole
  <2>7. FilesAreOwned'
    BY <2>2, <2>3 DEF TypeOK, FilesAreOwned, files
  <2>8. ResetInOrder'
    BY <2>2, HandlerKeepsReset DEF files
  <2> QED
    BY <2>4, <2>5, <2>6, <2>7, <2>8
<1>2. ASSUME NEW u \in Ids, Gate(u) PROVE IInv'
  <2>1. CASE Reply(u, "refused") /\ UNCHANGED <<files, helpers>> /\ at[u] = "gate"
    BY <2>1, TurnAwayKeeps
  <2>2. CASE server = "running" /\ Step(u, "gate", "lock") /\ UNCHANGED files
    <3>1. /\ at[u] = "gate" /\ at' = [at EXCEPT ![u] = "lock"]
          /\ UNCHANGED <<loop, kind, answer, whole, holder, files, helpers>>
      BY <2>2 DEF Step
    <3>2. at'[u] = "lock" /\ \A v \in Ids \ {u} : at'[v] = at[v]
      BY <3>1 DEF TypeOK
    <3>3. TypeOK' /\ MutexHeld'
      BY <3>1, <3>2 DEF TypeOK, MutexHeld, Locked, Active, loop, wipe, files
    <3>4. HelperIsFirst' /\ ImageIsWhole'
      BY <3>1, <3>2 DEF TypeOK, HelperIsFirst, ImageIsWhole
    <3>5. FilesAreOwned'
      BY <3>1, <3>2 DEF TypeOK, FilesAreOwned, files
    <3>6. ResetInOrder'
      BY <2>2, <3>1, HandlerKeepsReset DEF files
    <3> QED
      BY <3>3, <3>4, <3>5, <3>6
  <2> QED
    BY <1>2, <2>1, <2>2 DEF Gate, GateOnLoop
<1>3. ASSUME NEW u \in Ids, Lock(u) PROVE IInv'
  <2>1. CASE Reply(u, "refused") /\ UNCHANGED <<files, helpers>> /\ at[u] = "lock"
    BY <2>1, TurnAwayKeeps
  <2>2. CASE holder = 0 /\ ~Reply(u, "refused")
    <3>1. /\ at[u] = "lock" /\ at' = [at EXCEPT ![u] = "open"]
          /\ holder = 0 /\ holder' = u
          /\ UNCHANGED <<loop, kind, answer, whole, files, helpers>>
      BY <1>3, <2>2 DEF Lock
    <3>2. at'[u] = "open" /\ \A v \in Ids \ {u} : at'[v] = at[v]
      BY <3>1 DEF TypeOK
    <3>3. TypeOK'
      BY <3>1 DEF TypeOK, Active, loop, wipe, files
    <3>4. MutexHeld'
      BY <3>1, <3>2 DEF TypeOK, MutexHeld, Locked, Active
    <3>5. HelperIsFirst' /\ ImageIsWhole'
      BY <3>1, <3>2 DEF TypeOK, HelperIsFirst, ImageIsWhole
    <3>6. FilesAreOwned'
      BY <3>1, <3>2 DEF TypeOK, FilesAreOwned, files
    <3>7. PastGate(u)
      BY <3>1 DEF PastGate, Active
    <3>8. ResetInOrder'
      BY <3>1, <3>7, HandlerKeepsReset DEF files
    <3> QED
      BY <3>3, <3>4, <3>5, <3>6, <3>8
  <2> QED
    BY <1>3, <2>1, <2>2 DEF Lock
<1>4. ASSUME NEW u \in Ids, Open(u) PROVE IInv'
  <2>1. CASE Refuse(u) /\ at[u] = "open"
    BY <2>1, RefuseKeeps DEF Active
  <2>2. CASE Step(u, "open", "receive") /\ ~Refuse(u)
    <3>1. "open" \in Locked /\ "receive" \in Locked
      BY DEF Locked, Active
    <3>2. /\ TypeOK' <=> {parts', stored', staged'} \subseteq SUBSET Ids
          /\ MutexHeld'
          /\ at'[u] = "receive" /\ \A v \in Ids \ {u} : at'[v] = at[v]
          /\ at[u] = "open"
          /\ UNCHANGED <<kind, answer, whole, helpers>>
          /\ /\ parts' \subseteq parts \cup {u} /\ staged' \subseteq staged \cup {u}
             /\ stored' = stored
             => ResetInOrder'
      BY <2>2, <3>1, StepKeeps
    <3>7. stored' = stored
      BY <1>4, <2>2 DEF Open
    <3>3. \/ kind[u] = "mp3" /\ parts' = parts \cup {u} /\ staged' = staged
          \/ kind[u] = "firmware" /\ staged' = staged \cup {u} /\ parts' = parts
      BY <1>4, <2>2 DEF Open, TypeOK
    <3>4. TypeOK'
      BY <3>2, <3>3, <3>7 DEF TypeOK
    <3>5. HelperIsFirst' /\ ImageIsWhole'
      BY <3>2 DEF TypeOK, HelperIsFirst, ImageIsWhole
    <3>6. FilesAreOwned'
      <4>1. CASE kind[u] = "mp3" /\ parts' = parts \cup {u} /\ staged' = staged
        BY <3>2, <4>1 DEF TypeOK, FilesAreOwned
      <4>2. CASE kind[u] = "firmware" /\ staged' = staged \cup {u} /\ parts' = parts
        BY <3>2, <4>2 DEF TypeOK, FilesAreOwned
      <4> QED
        BY <3>3, <4>1, <4>2
    <3>8. ResetInOrder'
      BY <3>2, <3>3, <3>7
    <3> QED
      BY <3>2, <3>4, <3>5, <3>6, <3>8
  <2> QED
    BY <1>4, <2>1, <2>2 DEF Open, Step
<1>5. ASSUME NEW u \in Ids, Receive(u) PROVE IInv'
  <2>1. /\ at[u] = "receive" /\ at' = [at EXCEPT ![u] = "check"]
        /\ whole' = [whole EXCEPT ![u] = TRUE]
        /\ UNCHANGED <<loop, kind, answer, holder, files, helpers>>
    BY <1>5 DEF Receive
  <2>2. /\ at'[u] = "check" /\ whole'[u]
        /\ \A v \in Ids \ {u} : at'[v] = at[v] /\ whole'[v] = whole[v]
    BY <2>1 DEF TypeOK
  <2>3. TypeOK'
    BY <2>1 DEF TypeOK, Active, loop, wipe, files
  <2>4. MutexHeld'
    BY <2>1, <2>2 DEF TypeOK, MutexHeld, Locked, Active
  <2>5. HelperIsFirst' /\ ImageIsWhole'
    BY <2>1, <2>2 DEF TypeOK, HelperIsFirst, ImageIsWhole
  <2>6. FilesAreOwned'
    BY <2>1, <2>2 DEF TypeOK, FilesAreOwned, files
  <2>7. PastGate(u)
    BY <2>1 DEF PastGate, Active
  <2>8. ResetInOrder'
    BY <2>1, <2>7, HandlerKeepsReset DEF files
  <2> QED
    BY <2>3, <2>4, <2>5, <2>6, <2>8
<1>6. ASSUME NEW u \in Ids, ReceiveFails(u) PROVE IInv'
  BY <1>6, RefuseKeeps DEF ReceiveFails, Active
<1>7. ASSUME NEW u \in Ids, Interrupted(u) PROVE IInv'
  <2>1. CASE Refuse(u) /\ at[u] = "receive"
    BY <2>1, RefuseKeeps DEF Active
  <2>2. CASE kind[u] # "firmware" /\ Step(u, "receive", "check") /\ UNCHANGED files
    <3>1. "receive" \in Locked /\ "check" \in Locked
      BY DEF Locked, Active
    <3>2. /\ TypeOK' <=> {parts', stored', staged'} \subseteq SUBSET Ids
          /\ MutexHeld'
          /\ at'[u] = "check" /\ \A v \in Ids \ {u} : at'[v] = at[v]
          /\ at[u] = "receive" /\ holder = u
          /\ UNCHANGED <<kind, answer, whole, helpers>>
          /\ ResetInOrder'
      BY <2>2, <3>1, StepKeeps DEF files
    <3>3. TypeOK'
      BY <2>2, <3>2 DEF TypeOK, files
    <3>4. HelperIsFirst'
      BY <2>2, <3>2 DEF TypeOK, HelperIsFirst
    <3>5. ImageIsWhole'
      BY <2>2, <3>2 DEF TypeOK, ImageIsWhole
    <3>6. FilesAreOwned'
      BY <2>2, <3>2 DEF TypeOK, FilesAreOwned, files
    <3> QED
      BY <3>2, <3>3, <3>4, <3>5, <3>6
  <2> QED
    BY <1>7, <2>1, <2>2 DEF Interrupted
<1>8. ASSUME NEW u \in Ids, Check(u) PROVE IInv'
  <2>1. CASE Refuse(u) /\ at[u] = "check"
    BY <2>1, RefuseKeeps DEF Active
  <2>2. CASE Step(u, "check", (IF kind[u] = "mp3" THEN "rename" ELSE "copy")) /\ UNCHANGED files
    <3>1. "check" \in Locked /\ (IF kind[u] = "mp3" THEN "rename" ELSE "copy") \in Locked
      BY DEF Locked, Active
    <3>2. /\ TypeOK' <=> {parts', stored', staged'} \subseteq SUBSET Ids
          /\ MutexHeld'
          /\ at'[u] = (IF kind[u] = "mp3" THEN "rename" ELSE "copy")
          /\ \A v \in Ids \ {u} : at'[v] = at[v]
          /\ at[u] = "check" /\ holder = u
          /\ UNCHANGED <<kind, answer, whole, helpers>>
          /\ ResetInOrder'
      BY <2>2, <3>1, StepKeeps DEF files
    <3>3. TypeOK'
      BY <2>2, <3>2 DEF TypeOK, files
    <3>4. HelperIsFirst'
      BY <2>2, <3>2 DEF TypeOK, HelperIsFirst
    <3>5. ImageIsWhole'
      BY <2>2, <3>2 DEF TypeOK, ImageIsWhole
    <3>6. FilesAreOwned'
      <4>1. UNCHANGED <<parts, staged, kind, answer>>
        BY <2>2, <3>2 DEF files
      <4>2. (u \in parts => at'[u] = "rename") /\ (u \in staged => at'[u] = "copy")
        BY <3>2 DEF FilesAreOwned
      <4> QED
        BY <3>2, <4>1, <4>2 DEF TypeOK, FilesAreOwned
    <3> QED
      BY <3>2, <3>3, <3>4, <3>5, <3>6
  <2> QED
    BY <1>8, <2>1, <2>2 DEF Check
<1>9. ASSUME NEW u \in Ids, Rename(u) PROVE IInv'
  <2>1. CASE Refuse(u) /\ at[u] = "rename"
    BY <2>1, RefuseKeeps DEF Active
  <2>2. CASE Reply(u, "stored") /\ ~Refuse(u)
    <3>1. /\ at[u] = "rename" /\ parts' = parts \ {u} /\ staged' = staged /\ helpers' = helpers
          /\ stored' = IF server \in Resetting THEN stored \cup {u} ELSE stored
      BY <1>9, <2>2 DEF Rename
    <3>2. u \notin staged
      BY <3>1 DEF FilesAreOwned
    <3>3. at[u] \in Active /\ staged' = staged \ {u}
      BY <3>1, <3>2 DEF Active
    <3> QED
      BY <2>2, <3>1, <3>3, ReplyKeeps
  <2> QED
    BY <1>9, <2>1, <2>2 DEF Rename
<1>10. ASSUME NEW u \in Ids, CopyHelper(u) PROVE IInv'
  <2>1. CASE Refuse(u) /\ at[u] = "copy"
    BY <2>1, RefuseKeeps DEF Active
  <2>2. CASE helpers = {} /\ Step(u, "copy", "preflight") /\ UNCHANGED files
    <3>1. "copy" \in Locked /\ "preflight" \in Locked
      BY DEF Locked, Active
    <3>2. /\ TypeOK' <=> {parts', stored', staged'} \subseteq SUBSET Ids
          /\ MutexHeld'
          /\ at'[u] = "preflight" /\ \A v \in Ids \ {u} : at'[v] = at[v]
          /\ at[u] = "copy" /\ holder = u
          /\ UNCHANGED <<kind, answer, whole, helpers>>
          /\ ResetInOrder'
      BY <2>2, <3>1, StepKeeps DEF files
    <3>3. TypeOK'
      BY <2>2, <3>2 DEF TypeOK, files
    <3>4. HelperIsFirst'
      BY <2>2, <3>2 DEF TypeOK, HelperIsFirst
    <3>5. ImageIsWhole'
      BY <2>2, <3>2 DEF TypeOK, ImageIsWhole
    <3>6. FilesAreOwned'
      BY <2>2, <3>2 DEF TypeOK, FilesAreOwned, files
    <3> QED
      BY <3>2, <3>3, <3>4, <3>5, <3>6
  <2> QED
    BY <1>10, <2>1, <2>2 DEF CopyHelper
<1>11. ASSUME NEW u \in Ids, Preflight(u) PROVE IInv'
  <2>1. CASE Refuse(u) /\ at[u] = "preflight"
    BY <2>1, RefuseKeeps DEF Active
  <2>2. CASE Step(u, "preflight", "install") /\ UNCHANGED files
    <3>1. "preflight" \in Locked /\ "install" \in Locked
      BY DEF Locked, Active
    <3>2. /\ TypeOK' <=> {parts', stored', staged'} \subseteq SUBSET Ids
          /\ MutexHeld'
          /\ at'[u] = "install" /\ \A v \in Ids \ {u} : at'[v] = at[v]
          /\ at[u] = "preflight" /\ holder = u
          /\ UNCHANGED <<kind, answer, whole, helpers>>
          /\ ResetInOrder'
      BY <2>2, <3>1, StepKeeps DEF files
    <3>3. TypeOK'
      BY <2>2, <3>2 DEF TypeOK, files
    <3>4. HelperIsFirst'
      BY <2>2, <3>2 DEF TypeOK, HelperIsFirst
    <3>5. ImageIsWhole'
      BY <2>2, <3>2 DEF TypeOK, ImageIsWhole
    <3>6. FilesAreOwned'
      BY <2>2, <3>2 DEF TypeOK, FilesAreOwned, files
    <3> QED
      BY <3>2, <3>3, <3>4, <3>5, <3>6
  <2> QED
    BY <1>11, <2>1, <2>2 DEF Preflight
<1>12. ASSUME NEW u \in Ids, Install(u) PROVE IInv'
  <2>1. CASE Refuse(u) /\ at[u] = "install"
    BY <2>1, RefuseKeeps DEF Active
  <2>2. CASE ~Refuse(u)
    <3>1. /\ at[u] = "install" /\ at' = [at EXCEPT ![u] = "replied"]
          /\ answer' = [answer EXCEPT ![u] = "accepted"]
          /\ holder' = (IF holder = u THEN 0 ELSE holder)
          /\ helpers' = helpers \cup {u}
          /\ UNCHANGED <<loop, kind, whole, files>>
      BY <1>12, <2>2 DEF Install, Reply, ReplyWith
    <3>2. /\ at'[u] = "replied" /\ answer'[u] = "accepted"
          /\ \A v \in Ids \ {u} : at'[v] = at[v] /\ answer'[v] = answer[v]
      BY <3>1 DEF TypeOK
    <3>3. holder = u /\ holder' = 0 /\ helpers = {} /\ whole[u]
      BY <3>1 DEF MutexHeld, Locked, Active, HelperIsFirst, ImageIsWhole
    <3>4. TypeOK'
      BY <3>1 DEF TypeOK, Active, loop, wipe, files
    <3>5. MutexHeld'
      BY <3>1, <3>2, <3>3 DEF TypeOK, MutexHeld, Locked, Active
    <3>6. \A v \in Ids : at'[v] \notin {"preflight", "install"}
      BY <3>2, <3>3 DEF MutexHeld, Locked, Active
    <3>7. HelperIsFirst' /\ ImageIsWhole'
      BY <3>1, <3>2, <3>3, <3>6 DEF TypeOK, HelperIsFirst, ImageIsWhole
    <3>8. FilesAreOwned'
      BY <3>1, <3>2 DEF TypeOK, FilesAreOwned, files
    <3>9. "replied" \notin Active
      BY DEF Active
    <3>10. ResetInOrder'
      BY <3>1, <3>9, HandlerKeepsReset DEF files
    <3> QED
      BY <3>4, <3>5, <3>7, <3>8, <3>10
  <2> QED
    BY <1>12, <2>1, <2>2 DEF Install
<1>13. ASSUME NEW u \in Ids, HelperEnds(u) PROVE IInv'
  BY <1>13 DEF HelperEnds, files, loop, wipe, TypeOK, MutexHeld, HelperIsFirst, ImageIsWhole,
               FilesAreOwned, ResetInOrder, Cleared
<1>14. CASE UNCHANGED vars
  BY <1>14 DEF vars, files, loop, wipe, TypeOK, MutexHeld, HelperIsFirst, ImageIsWhole,
               FilesAreOwned, ResetInOrder, Cleared
<1>15. ASSUME UNCHANGED <<at, kind, answer, whole, holder, helpers>>,
              parts' \subseteq parts, staged' \subseteq staged
       PROVE  MutexHeld' /\ HelperIsFirst' /\ ImageIsWhole' /\ FilesAreOwned'
  BY <1>15 DEF TypeOK, MutexHeld, HelperIsFirst, ImageIsWhole, FilesAreOwned
<1>16. CASE BeginStop
  <2>1. TypeOK' /\ ResetInOrder'
    BY <1>16 DEF BeginStop, wipe, files, Resetting, TypeOK, ResetInOrder
  <2> QED
    BY <1>15, <1>16, <2>1 DEF BeginStop, files
<1>17. CASE BeginReset
  <2>1. TypeOK'
    BY <1>17 DEF BeginReset, files, TypeOK
  <2>2. ResetInOrder'
    BY <1>17 DEF BeginReset, files, Resetting, TypeOK, ResetInOrder, Cleared
  <2> QED
    BY <1>15, <1>17, <2>1, <2>2 DEF BeginReset, files
<1>18. ASSUME NEW d \in Places, Empty(d) PROVE IInv'
  <2>1. TypeOK'
    BY <1>18 DEF Empty, TypeOK
  <2>2. server = "wiping" /\ server' = server /\ "wiping" \in Resetting
    BY <1>18 DEF Empty, Resetting
  <2>3. /\ \A v \in Ids : at'[v] \in Active \ {"gate"} => v \in early'
        /\ stored' \subseteq early'
    BY <1>18, <2>2 DEF Empty, ResetInOrder
  <2>4. /\ "mp3" \in Cleared' => parts' \subseteq early'
        /\ "staging" \in Cleared' => staged' \subseteq early'
    BY <1>18, <2>2 DEF Empty, ResetInOrder, Cleared
  <2>5. ResetInOrder'
    BY <2>2, <2>3, <2>4 DEF ResetInOrder
  <2>6. UNCHANGED <<at, kind, answer, whole, holder, helpers>>
    BY <1>18 DEF Empty
  <2>7. parts' \subseteq parts /\ staged' \subseteq staged
    BY <1>18 DEF Empty
  <2> QED
    BY <1>15, <2>1, <2>5, <2>6, <2>7
<1>19. ASSUME NEW d \in Places, RemoveDirectory(d) PROVE IInv'
  <2>1. /\ server = "wiping" /\ d \in emptied /\ emptied' = {}
        /\ left' = (IF FilesIn(d) = {} THEN left \ {d} ELSE left)
        /\ server' = IF left' = {} \/ FilesIn(d) # {} THEN "wiped" ELSE server
        /\ UNCHANGED <<early, at, kind, answer, whole, holder, parts, stored, staged, helpers>>
    BY <1>19 DEF RemoveDirectory, files
  <2>2. TypeOK'
    BY <2>1 DEF TypeOK
  <2>3. FilesIn(d) # {} => early # {}
    <3>1. "wiping" \in Resetting /\ d \in Cleared
      BY <2>1 DEF Resetting, Cleared
    <3> QED
      BY <2>1, <3>1 DEF FilesIn, ResetInOrder
  <2>4. Cleared' \subseteq Cleared \cup {d} /\ d \in Cleared
    BY <2>1 DEF Cleared
  <2>5. ResetInOrder'
    BY <2>1, <2>3, <2>4 DEF ResetInOrder, Resetting
  <2> QED
    BY <1>15, <2>1, <2>2, <2>5
<1>20. CASE Stopped
  <2>1. TypeOK' /\ ResetInOrder'
    BY <1>20 DEF Stopped, NoReset, Resetting, TypeOK, ResetInOrder
  <2> QED
    BY <1>15, <1>20, <2>1 DEF Stopped
<1>21. CASE Killed
  <2>1. /\ server' = "down" /\ holder' = 0
        /\ at' = [u \in Ids |-> IF at[u] \in Active THEN "killed" ELSE at[u]]
        /\ NoReset
        /\ UNCHANGED <<kind, answer, whole, parts, staged, helpers>>
    BY <1>21 DEF Killed
  <2>2. TypeOK'
    BY <2>1 DEF TypeOK, Active, NoReset
  <2>3. MutexHeld'
    BY <2>1 DEF TypeOK, MutexHeld, Locked, Active
  <2>4. HelperIsFirst' /\ ImageIsWhole'
    BY <2>1 DEF TypeOK, HelperIsFirst, ImageIsWhole, Active
  <2>5. FilesAreOwned'
    BY <2>1 DEF TypeOK, FilesAreOwned, Active
  <2>6. ResetInOrder'
    BY <2>1 DEF NoReset, Resetting, ResetInOrder
  <2> QED
    BY <2>2, <2>3, <2>4, <2>5, <2>6
<1>22. CASE Start
  <2>1. TypeOK' /\ ResetInOrder'
    BY <1>22 DEF Start, wipe, Resetting, TypeOK, ResetInOrder
  <2> QED
    BY <1>15, <1>22, <2>1 DEF Start
<1> QED
  BY <1>1, <1>2, <1>3, <1>4, <1>5, <1>6, <1>7, <1>8, <1>9, <1>10, <1>11, <1>12, <1>13, <1>14,
     <1>16, <1>17, <1>18, <1>19, <1>20, <1>21, <1>22 DEF Next, Handle, Client, Wipe

-----------------------------------------------------------------------------
LEMMA Invariant == Spec => []IInv
  BY Begins, Keeps, PTL DEF Spec

\* At any time at most one helper runs, and only with an image that came whole,
\* although the mutex is free again as soon as it was started.
THEOREM OneInstallHolds == Spec => []OneInstall
<1>1. IInv => OneInstall
  <2> SUFFICES ASSUME IInv PROVE OneInstall
    OBVIOUS
  <2>1. helpers = {} \/ \E u \in helpers : helpers = {u}
    BY DEF IInv, HelperIsFirst
  <2>2. Cardinality(helpers) <= 1
    <3>1. CASE helpers = {}
      BY <3>1, FS_EmptySet
    <3>2. CASE \E u \in helpers : helpers = {u}
      BY <3>2, FS_Singleton
    <3> QED
      BY <2>1, <3>1, <3>2
  <2> QED
    BY <2>2 DEF IInv, ImageIsWhole, OneInstall
<1> QED
  BY <1>1, Invariant, PTL

\* The state of the uploads keeps its types, for any number of them.
THEOREM TypeCorrect == Spec => []TypeOK
<1>1. IInv => TypeOK
  BY DEF IInv
<1> QED
  BY <1>1, Invariant, PTL

\* A factory reset clears every directory, however many there are, of all but
\* the files of uploads it met; only these can cut it short.
THEOREM ResetClearsDataHolds == Spec => []ResetClearsData
<1>1. IInv => ResetClearsData
  <2> SUFFICES ASSUME IInv, server = "wiped" PROVE ResetClearsData
    BY DEF ResetClearsData
  <2>1. ResetInOrder /\ server \in Resetting
    BY DEF IInv, Resetting
  <2>2. left = {} => "mp3" \in Cleared /\ "staging" \in Cleared
    BY DEF Cleared, Places
  <2> QED
    BY <2>1, <2>2 DEF ResetInOrder, ResetClearsData
<1> QED
  BY <1>1, Invariant, PTL

\* An answered upload holds no mutex and has left no file that nobody removes.
THEOREM AnsweredIsCleanedUpHolds == Spec => []AnsweredIsCleanedUp
<1>1. IInv => AnsweredIsCleanedUp
  BY UploadsAssumption DEF IInv, TypeOK, Ids, MutexHeld, Locked, Active, FilesAreOwned,
                           AnsweredIsCleanedUp
<1> QED
  BY <1>1, Invariant, PTL
=============================================================================
