------------------------------ MODULE InputProofs ------------------------------
(***************************************************************************)
(* What the program makes of a file and of the network, for every size and *)
(* width: how a file is hashed (Digest), which vendor libraries are        *)
(* trusted or compatible (VendorGate), the time of a server (NtpTime),     *)
(* what a multicast DNS packet asks (Mdns) and where the audio of an MP3   *)
(* file is (Mp3Probe).                                                     *)
(***************************************************************************)
EXTENDS Digest, VendorGate, NtpTime, Mdns, Mp3Probe,
        SequenceTheorems, WellFoundedInduction, TLAPS

-----------------------------------------------------------------------------
(* Induction and sequences                                                 *)

\* Induction over the naturals: a set of them that is not empty has a least.
LessThan == {p \in Nat \X Nat : p[1] < p[2]}
LEMMA Least ==
  ASSUME NEW T \in SUBSET Nat, T # {}
  PROVE  \E x \in T : \A y \in T : x <= y
<1>1. IsWellFoundedOn(LessThan, Nat)
  BY NatLessThanWellFounded DEF OpToRel, LessThan
<1>2. PICK x \in T : \A y \in T : ~(<<y, x>> \in LessThan)
  <2>1. T \subseteq Nat /\ T # {}
    OBVIOUS
  <2> QED
    BY <2>1, <1>1, WFMin, Zenon
<1>3. \A y \in T : ~(y < x)
  BY <1>2 DEF LessThan
<1> QED
  BY <1>3

\* Induction up to a bound: what holds of 0, and of the next number with each, holds
\* of all.
LEMMA UpTo ==
  ASSUME NEW N \in Nat, NEW T, 0 \in T,
         \A n \in 0..N - 1 : n \in T => n + 1 \in T
  PROVE  \A n \in 0..N : n \in T
<1> DEFINE F == {n \in 0..N : n \notin T}
<1> SUFFICES ASSUME F # {} PROVE FALSE
  OBVIOUS
<1>1. F \in SUBSET Nat
  OBVIOUS
<1>2. PICK n \in F : \A m \in F : n <= m
  <2> HIDE DEF F
  <2> QED BY <1>1, Least
<1>3. n # 0 /\ n - 1 \in 0..N - 1
  BY <1>2
<1>4. n - 1 \in T
  <2> SUFFICES ASSUME n - 1 \notin T PROVE FALSE
    OBVIOUS
  <2>1. n - 1 \in F
    BY <1>3
  <2> QED BY <2>1, <1>2, <1>3
<1> QED
  BY <1>2, <1>3, <1>4

\* A function that goes on from each argument to one that is lower, unless it is done,
\* exists.
Iterable(S, R, done, out, next, comb, m, N) ==
  /\ N \in Nat /\ \A s \in S : m[s] \in 0..N
  /\ \A s \in S \cap done : out[s] \in R
  /\ \A s \in S \ done : next[s] \in S /\ m[next[s]] < m[s]
  /\ \A s \in S \ done, v \in R : comb[s][v] \in R
IsIterated(f, S, R, done, out, next, comb) ==
  /\ f \in [S -> R]
  /\ \A s \in S : f[s] = IF s \in done THEN out[s] ELSE comb[s][f[next[s]]]
LEMMA Iterates ==
  ASSUME NEW S, NEW R, NEW done, NEW out, NEW next, NEW comb, NEW m, NEW N,
         Iterable(S, R, done, out, next, comb, m, N)
  PROVE  \E f : IsIterated(f, S, R, done, out, next, comb)
<1>0. /\ N \in Nat /\ \A s \in S : m[s] \in 0..N
      /\ \A s \in S \cap done : out[s] \in R
      /\ \A s \in S \ done : next[s] \in S /\ m[next[s]] < m[s]
      /\ \A s \in S \ done, v \in R : comb[s][v] \in R
  BY Zenon DEF Iterable
<1> USE <1>0
<1> DEFINE Low(n) == {s \in S : m[s] < n}
           Good(f, n) == /\ f \in [Low(n) -> R]
                         /\ \A s \in Low(n) :
                              f[s] = IF s \in done THEN out[s] ELSE comb[s][f[next[s]]]
           T == {n \in Nat : \E f : Good(f, n)}
<1>1. 0 \in T
  <2>1. Low(0) = {}
    OBVIOUS
  <2>2. Good([s \in {} |-> 0], 0)
    BY <2>1
  <2> HIDE DEF Good
  <2> QED BY <2>2
<1>2. ASSUME NEW n \in Nat, n \in T
      PROVE  n + 1 \in T
  <2>1. PICK f : Good(f, n)
    BY <1>2
  <2> DEFINE g == [s \in Low(n + 1) |-> IF s \in done THEN out[s] ELSE comb[s][f[next[s]]]]
  <2>2. ASSUME NEW s \in Low(n + 1), s \notin done
        PROVE  next[s] \in Low(n) /\ next[s] \in Low(n + 1)
    <3>1. next[s] \in S /\ m[next[s]] < m[s] /\ m[s] \in 0..N /\ m[next[s]] \in 0..N /\ m[s] < n + 1
      BY <2>2
    <3> QED BY <3>1
  <2>3. \A s \in Low(n) : g[s] = f[s]
    <3>1. \A s \in Low(n) : s \in Low(n + 1)
      OBVIOUS
    <3>2. \A s \in Low(n + 1) : g[s] = IF s \in done THEN out[s] ELSE comb[s][f[next[s]]]
      OBVIOUS
    <3> HIDE DEF g, Low
    <3> QED BY <3>1, <3>2, <2>1, Zenon
  <2>4. g \in [Low(n + 1) -> R]
    <3>1. ASSUME NEW s \in Low(n + 1)
          PROVE  (IF s \in done THEN out[s] ELSE comb[s][f[next[s]]]) \in R
      <4>1. CASE s \in done
        BY <4>1
      <4>2. CASE s \notin done
        <5>1. f[next[s]] \in R
          BY <2>1, <2>2, <4>2
        <5>2. s \in S \ done
          BY <4>2
        <5> QED BY <5>1, <5>2, <4>2, Zenon
      <4> QED BY <4>1, <4>2
    <3> QED BY <3>1
  <2>5. \A s \in Low(n + 1) : g[s] = IF s \in done THEN out[s] ELSE comb[s][g[next[s]]]
    <3>2. \A s \in Low(n + 1) : g[s] = IF s \in done THEN out[s] ELSE comb[s][f[next[s]]]
      OBVIOUS
    <3> HIDE DEF g, Low
    <3> QED BY <3>2, <2>2, <2>3, Zenon
  <2> HIDE DEF g, Low
  <2>6. Good(g, n + 1)
    BY <2>4, <2>5, Zenon
  <2> QED BY <2>6
<1>3. N + 1 \in T
  <2> HIDE DEF T
  <2>1. \A n \in 0..N + 1 : n \in T
    BY <1>1, <1>2, UpTo
  <2> QED BY <2>1
<1>4. PICK f : Good(f, N + 1)
  BY <1>3
<1>5. Low(N + 1) = S
  OBVIOUS
<1> QED BY <1>4, <1>5 DEF IsIterated

-----------------------------------------------------------------------------
(* Sequences of sequences, one after the other                             *)

\* f[i] is the first i of the sequences of s in one.
Joins(f, s, X) ==
  /\ f \in [0..Len(s) -> Seq(X)] /\ f[0] = <<>>
  /\ \A i \in 1..Len(s) : f[i] = f[i - 1] \o s[i]
  /\ FlattenSeq(s) = f[Len(s)]

\* The first i of some sequences in one, for each i.
LEMMA Flattens ==
  ASSUME NEW X, NEW s \in Seq(Seq(X))
  PROVE  \E f : Joins(f, s, X)
<1>0. Len(s) \in Nat /\ \A i \in 1..Len(s) : s[i] \in Seq(X)
  BY LenProperties
<1>1. CASE Len(s) = 0
  <2>1. s = <<>> /\ FlattenSeq(s) = s
    BY <1>1, EmptySeq DEF FlattenSeq
  <2>2. Joins([i \in {0} |-> <<>>], s, X)
    BY <1>1, <2>1 DEF Joins
  <2> QED BY <2>2
<1>2. CASE Len(s) # 0
  <2> DEFINE n == Len(s)
             Is(f) == f = [i \in 1..n |-> IF i = 1 THEN s[i] ELSE f[i - 1] \o s[i]]
             R == Seq(X)
             S == 1..n
             done == {1}
             out == [i \in S |-> s[i]]
             next == [i \in S |-> i - 1]
             comb == [i \in S |-> [t \in R |-> t \o s[i]]]
             m == [i \in S |-> i]
  <2>0. n \in Nat \ {0} /\ \A i \in 1..n : s[i] \in R
    BY <1>0, <1>2
  <2> HIDE DEF n
  <2>1. Iterable(S, R, done, out, next, comb, m, n)
    <3>1. n \in Nat /\ \A i \in S : m[i] \in 0..n
      BY <2>0
    <3>2. \A i \in S \cap done : out[i] \in R
      BY <2>0
    <3>3. \A i \in S \ done : next[i] \in S /\ m[next[i]] < m[i]
      BY <2>0
    <3>4. \A i \in S \ done, t \in R : comb[i][t] \in R
      <4>1. \A i \in S, t \in R : t \o s[i] \in R
        BY <2>0, ConcatProperties
      <4> QED BY <4>1
    <3> HIDE DEF S, R, done, out, next, comb, m
    <3> QED BY <3>1, <3>2, <3>3, <3>4, Zenon DEF Iterable
  <2>2. PICK g : IsIterated(g, S, R, done, out, next, comb)
    <3> HIDE DEF S, R, done, out, next, comb, m
    <3> QED BY <2>1, Iterates, Zenon
  <2>3. /\ g \in [1..n -> R]
        /\ \A i \in 1..n : g[i] = IF i = 1 THEN s[i] ELSE g[i - 1] \o s[i]
    <3>1. /\ g \in [1..n -> R]
          /\ \A i \in S : g[i] = IF i \in done THEN out[i] ELSE comb[i][g[next[i]]]
      BY <2>2 DEF IsIterated
    <3>2. ASSUME NEW i \in 1..n, i # 1
          PROVE  comb[i][g[next[i]]] = g[i - 1] \o s[i]
      <4>1. next[i] = i - 1 /\ i - 1 \in 1..n
        BY <3>2, <2>0
      <4>2. g[i - 1] \in R
        BY <4>1, <3>1
      <4> QED BY <4>1, <4>2
    <3>3. \A i \in 1..n : (i \in done <=> i = 1) /\ out[i] = s[i] /\ S = 1..n
      OBVIOUS
    <3> HIDE DEF S, R, done, out, next, comb
    <3> QED BY <3>1, <3>2, <3>3, Zenon
  <2>4. Is(g)
    BY <2>3
  <2> DEFINE h == CHOOSE f : Is(f)
  <2>5. Is(h)
    <3> HIDE DEF Is
    <3> QED BY <2>4
  <2>6. FlattenSeq(s) = h[n]
    BY <1>2 DEF FlattenSeq, n
  <2> HIDE DEF h
  <2>7. \A i \in 1..n : h[i] = IF i = 1 THEN s[i] ELSE h[i - 1] \o s[i]
    BY <2>5
  <2> DEFINE T == {k \in Nat : k \in 1..n => h[k] \in R}
  <2>8. \A i \in 0..n : i \in T
    <3>1. 0 \in T
      OBVIOUS
    <3>2. ASSUME NEW k \in 0..n - 1, k \in T
          PROVE  k + 1 \in T
      <4>1. k + 1 \in Nat /\ k + 1 \in 1..n /\ k \in Nat
        BY <2>0
      <4>2. CASE k = 0
        <5>1. h[1] = s[1] /\ s[1] \in R
          BY <2>7, <2>0
        <5> QED BY <5>1, <4>2
      <4>3. CASE k # 0
        <5>1. h[k + 1] = h[k] \o s[k + 1] /\ h[k] \in R /\ s[k + 1] \in R
          <6>1. k + 1 # 1 /\ (k + 1) - 1 = k /\ k \in 1..n
            BY <4>1, <4>3, <2>0
          <6>2. h[k + 1] = IF k + 1 = 1 THEN s[k + 1] ELSE h[(k + 1) - 1] \o s[k + 1]
            BY <4>1, <2>7, Zenon
          <6> QED BY <6>1, <6>2, <3>2, <2>0, <4>1
        <5>2. h[k + 1] \in R
          BY <5>1, ConcatProperties
        <5> QED BY <5>2, <4>1
      <4> QED BY <4>2, <4>3
    <3> HIDE DEF T
    <3> QED BY <3>1, <3>2, <2>0, UpTo
  <2> DEFINE j == [i \in 0..n |-> IF i = 0 THEN <<>> ELSE h[i]]
  <2>9. j \in [0..n -> R] /\ j[0] = <<>> /\ FlattenSeq(s) = j[n]
    BY <2>0, <2>6, <2>8
  <2>10. ASSUME NEW i \in 1..n
         PROVE  j[i] = j[i - 1] \o s[i]
    <3>1. CASE i = 1
      <4>1. j[1] = s[1] /\ j[0] = <<>> /\ s[1] \in Seq(X)
        BY <2>0, <2>7
      <4>2. s[1] = <<>> \o s[1]
        BY <4>1, ConcatEmptySeq
      <4>3. i - 1 = 0
        BY <3>1
      <4> HIDE DEF j
      <4> QED BY <4>1, <4>2, <4>3, <3>1, Zenon
    <3>2. CASE i # 1
      <4>1. i - 1 \in 1..n /\ i - 1 # 0
        BY <3>2, <2>0
      <4>2. j[i] = h[i] /\ j[i - 1] = h[i - 1]
        <5> HIDE DEF Is, T
        <5> QED BY <4>1, <2>0
      <4>3. h[i] = h[i - 1] \o s[i]
        BY <3>2, <2>7, Zenon
      <4> HIDE DEF j
      <4> QED BY <4>2, <4>3, Zenon
    <3> QED BY <3>1, <3>2
  <2> HIDE DEF j
  <2>11. Joins(j, s, X)
    BY <2>9, <2>10 DEF Joins, n
  <2> QED BY <2>11
<1> QED BY <1>1, <1>2

LEMMA AddMore ==
  ASSUME NEW a \in Nat, NEW b \in Nat, NEW c \in Nat, a <= b
  PROVE  a <= b + c
OBVIOUS

\* Each of the sequences stands where those before it end.
Stacks(f, s, X) ==
  /\ \A k \in 0..Len(s) : f[k] \in Seq(X) /\ Len(f[k]) \in 0..Len(f[Len(s)])
  /\ Len(f[0]) = 0
  /\ \A k \in 1..Len(s) : Len(f[k]) = Len(f[k - 1]) + Len(s[k])
  /\ \A k \in 1..Len(s) : \A j \in 1..Len(s[k]) :
       f[Len(s)][Len(f[k - 1]) + j] = s[k][j]
LEMMA JoinedStand ==
  ASSUME NEW X, NEW s \in Seq(Seq(X)), NEW f, Joins(f, s, X)
  PROVE  Stacks(f, s, X)
<1> DEFINE n == Len(s)
<1>0. /\ n \in Nat /\ \A i \in 1..n : s[i] \in Seq(X) /\ Len(s[i]) \in Nat
      /\ \A i \in 0..n : f[i] \in Seq(X) /\ Len(f[i]) \in Nat
      /\ f[0] = <<>> /\ \A i \in 1..n : f[i] = f[i - 1] \o s[i] /\ i - 1 \in 0..n
  <2>1. n \in Nat /\ \A i \in 1..n : s[i] \in Seq(X)
    BY LenProperties
  <2>2. f \in [0..n -> Seq(X)] /\ f[0] = <<>> /\ \A i \in 1..n : f[i] = f[i - 1] \o s[i]
    BY Zenon DEF Joins
  <2> HIDE DEF n
  <2>3. \A i \in 1..n : i - 1 \in 0..n
    BY <2>1
  <2>4. \A t \in Seq(X) : Len(t) \in Nat
    BY LenProperties
  <2>5. \A i \in 0..n : f[i] \in Seq(X)
    BY <2>2
  <2> QED BY <2>1, <2>2, <2>3, <2>4, <2>5, Zenon
<1> HIDE DEF n
<1>1. ASSUME NEW i \in 1..n
      PROVE  /\ Len(f[i]) = Len(f[i - 1]) + Len(s[i])
             /\ \A j \in 1..Len(f[i - 1]) : f[i][j] = f[i - 1][j]
             /\ \A j \in 1..Len(s[i]) : f[i][Len(f[i - 1]) + j] = s[i][j]
  <2>1. f[i - 1] \in Seq(X) /\ s[i] \in Seq(X) /\ f[i] = f[i - 1] \o s[i]
        /\ Len(f[i - 1]) \in Nat /\ Len(s[i]) \in Nat
    BY <1>0
  <2> DEFINE a == f[i - 1]
             b == s[i]
  <2> HIDE DEF a, b
  <2>2. /\ Len(a \o b) = Len(a) + Len(b)
        /\ \A j \in 1..Len(a) + Len(b) :
             (a \o b)[j] = IF j <= Len(a) THEN a[j] ELSE b[j - Len(a)]
    BY <2>1, ConcatProperties, Zenon DEF a, b
  <2>3. Len(a) \in Nat /\ Len(b) \in Nat
    BY <2>1 DEF a, b
  <2>4. \A j \in 1..Len(a) : (a \o b)[j] = a[j]
    BY <2>2, <2>3
  <2>5. ASSUME NEW j \in 1..Len(b)
        PROVE  (a \o b)[Len(a) + j] = b[j]
    <3>1. Len(a) + j \in 1..Len(a) + Len(b) /\ ~(Len(a) + j <= Len(a)) /\ (Len(a) + j) - Len(a) = j
      BY <2>3
    <3> QED BY <3>1, <2>2
  <2> QED BY <2>1, <2>2, <2>4, <2>5 DEF a, b
<1> DEFINE Holds(m) ==
             /\ \A k \in 0..m : Len(f[k]) <= Len(f[m])
             /\ \A k \in 1..m : \A j \in 1..Len(s[k]) : f[m][Len(f[k - 1]) + j] = s[k][j]
           T == {m \in Nat : Holds(m)}
<1>2. 0 \in T
  BY <1>0
<1>3. ASSUME NEW m \in 0..n - 1, m \in T
      PROVE  m + 1 \in T
  <2>1. m + 1 \in 1..n /\ (m + 1) - 1 = m /\ m \in Nat /\ m + 1 \in Nat /\ m \in 0..n
    BY <1>0
  <2>2. /\ Len(f[m + 1]) = Len(f[m]) + Len(s[m + 1])
        /\ \A j \in 1..Len(f[m]) : f[m + 1][j] = f[m][j]
        /\ \A j \in 1..Len(s[m + 1]) : f[m + 1][Len(f[m]) + j] = s[m + 1][j]
    <3> DEFINE i == m + 1
    <3> HIDE DEF i
    <3>1. /\ Len(f[i]) = Len(f[i - 1]) + Len(s[i])
          /\ \A j \in 1..Len(f[i - 1]) : f[i][j] = f[i - 1][j]
          /\ \A j \in 1..Len(s[i]) : f[i][Len(f[i - 1]) + j] = s[i][j]
      BY <2>1, <1>1, Zenon DEF i
    <3> QED BY <3>1, <2>1, Zenon DEF i
  <2>3. Len(f[m]) \in Nat /\ Len(s[m + 1]) \in Nat
    BY <2>1, <1>0
  <2>4. ASSUME NEW k \in 0..m + 1
        PROVE  Len(f[k]) <= Len(f[m + 1])
    <3>1. CASE k = m + 1
      BY <3>1, <2>2, <2>3
    <3>2. CASE k # m + 1
      <4>1. k \in 0..m /\ k \in 0..n
        BY <3>2, <2>1, <1>0
      <4>2. Len(f[k]) <= Len(f[m]) /\ Len(f[k]) \in Nat
        BY <4>1, <1>3, <1>0
      <4> QED BY <4>2, <2>2, <2>3, AddMore, Zenon
    <3> QED BY <3>1, <3>2
  <2>5. ASSUME NEW k \in 1..m + 1, NEW j \in 1..Len(s[k])
        PROVE  f[m + 1][Len(f[k - 1]) + j] = s[k][j]
    <3>1. CASE k = m + 1
      BY <3>1, <2>1, <2>2
    <3>2. CASE k # m + 1
      <4>1. k \in 1..m /\ k \in 0..m /\ k \in 1..n /\ k - 1 \in 0..n
        BY <3>2, <2>1, <1>0
      <4>2. f[m][Len(f[k - 1]) + j] = s[k][j]
        BY <4>1, <1>3
      <4>3. /\ Len(f[k]) <= Len(f[m]) /\ Len(f[k]) = Len(f[k - 1]) + Len(s[k])
            /\ Len(f[k - 1]) \in Nat /\ Len(s[k]) \in Nat
        BY <4>1, <1>3, <1>1, <1>0
      <4>4. Len(f[k - 1]) + j \in 1..Len(f[m])
        <5> DEFINE a == Len(f[k - 1])
                   b == Len(s[k])
                   c == Len(f[m])
        <5>1. a \in Nat /\ b \in Nat /\ c \in Nat /\ a + b <= c /\ j \in 1..b
          BY <4>3, <2>3
        <5> HIDE DEF a, b, c
        <5>2. a + j \in 1..c
          BY <5>1
        <5> QED BY <5>2 DEF a, c
      <4> QED BY <4>2, <4>4, <2>2
    <3> QED BY <3>1, <3>2
  <2> HIDE DEF Holds
  <2>6. Holds(m + 1)
    BY <2>4, <2>5, Zenon DEF Holds
  <2> QED BY <2>1, <2>6
<1>4. Holds(n)
  <2>1. \A m \in 0..n : m \in T
    <3> HIDE DEF T
    <3> QED BY <1>0, <1>2, <1>3, UpTo
  <2>2. n \in 0..n
    BY <1>0
  <2> HIDE DEF Holds
  <2> QED BY <2>1, <2>2
<1>5. \A k \in 0..n : f[k] \in Seq(X) /\ Len(f[k]) \in 0..Len(f[n])
  <2> SUFFICES ASSUME NEW k \in 0..n PROVE f[k] \in Seq(X) /\ Len(f[k]) \in 0..Len(f[n])
    OBVIOUS
  <2>1. f[k] \in Seq(X) /\ Len(f[k]) \in Nat /\ Len(f[k]) <= Len(f[n]) /\ Len(f[n]) \in Nat
    BY <1>0, <1>4
  <2> QED BY <2>1
<1>6. Len(f[0]) = 0
  BY <1>0
<1> QED BY <1>1, <1>4, <1>5, <1>6, Zenon DEF n, Stacks

\* The first of two sequences loses the first element of both.
LEMMA TailOfConcat ==
  ASSUME NEW X, NEW a \in Seq(X), a # <<>>, NEW b \in Seq(X)
  PROVE  Tail(a \o b) = Tail(a) \o b
<1>1. /\ Len(a) \in Nat \ {0} /\ Len(b) \in Nat
      /\ Tail(a) \in Seq(X) /\ Len(Tail(a)) = Len(a) - 1
      /\ \A i \in 1..Len(Tail(a)) : Tail(a)[i] = a[i + 1]
  BY HeadTailProperties, EmptySeq, LenProperties
<1>2. /\ a \o b \in Seq(X) /\ Len(a \o b) = Len(a) + Len(b)
      /\ \A i \in 1..Len(a) + Len(b) : (a \o b)[i] = IF i <= Len(a) THEN a[i] ELSE b[i - Len(a)]
  BY ConcatProperties
<1> DEFINE c == a \o b
           t == Tail(a)
           l == Tail(c)
           r == t \o b
<1>3. c # <<>>
  BY <1>1, <1>2, EmptySeq
<1>4. l \in Seq(X) /\ Len(l) = Len(c) - 1 /\ \A i \in 1..Len(l) : l[i] = c[i + 1]
  <2>1. c \in Seq(X)
    BY <1>2
  <2> HIDE DEF c
  <2> QED BY <2>1, <1>3, HeadTailProperties
<1>5. /\ r \in Seq(X) /\ Len(r) = Len(t) + Len(b)
      /\ \A i \in 1..Len(t) + Len(b) : r[i] = IF i <= Len(t) THEN t[i] ELSE b[i - Len(t)]
  BY <1>1, ConcatProperties
<1>6. /\ Len(c) = Len(a) + Len(b) /\ Len(t) = Len(a) - 1
      /\ \A i \in 1..Len(a) + Len(b) : c[i] = IF i <= Len(a) THEN a[i] ELSE b[i - Len(a)]
      /\ \A i \in 1..Len(t) : t[i] = a[i + 1]
  BY <1>1, <1>2
<1> HIDE DEF l, r, c, t
<1>7. ASSUME NEW i \in 1..Len(l)
      PROVE  l[i] = r[i]
  <2>1. l[i] = c[i + 1] /\ i + 1 \in 1..Len(a) + Len(b) /\ i \in 1..Len(t) + Len(b)
    BY <1>1, <1>4, <1>6
  <2>2. CASE i <= Len(t)
    <3>1. i + 1 <= Len(a) /\ i \in 1..Len(t)
      BY <2>2, <1>1, <1>6
    <3> QED BY <3>1, <2>1, <2>2, <1>5, <1>6
  <2>3. CASE ~(i <= Len(t))
    <3>1. ~(i + 1 <= Len(a)) /\ (i + 1) - Len(a) = i - Len(t)
      BY <2>1, <2>3, <1>1, <1>6
    <3>2. c[i + 1] = b[(i + 1) - Len(a)] /\ r[i] = b[i - Len(t)]
      BY <3>1, <2>1, <2>3, <1>5, <1>6, Zenon
    <3> QED BY <3>1, <3>2, <2>1
  <2> QED BY <2>2, <2>3
<1>8. Len(l) = Len(r)
  BY <1>1, <1>4, <1>5, <1>6
<1>9. l = r
  BY <1>4, <1>5, <1>7, <1>8, SeqEqual
<1> QED BY <1>9, Zenon DEF l, r, c, t

LEMMA Regroups ==
  ASSUME NEW a \in Seq(Nat), NEW b \in Seq(Nat), NEW c \in Seq(Nat)
  PROVE  (a \o b) \o c = a \o (b \o c)
BY ConcatAssociative

-----------------------------------------------------------------------------
(* Digest                                                                  *)
(*                                                                         *)
(* At any time what was transformed, what is in the block and what is      *)
(* still to be taken make up, in this order, what was given to update      *)
(* (Whole); and while zeros are given, their number and the distance to    *)
(* the place of the length together stay below a block (Stage).            *)

LB == Len(Weights)

\* Bytes from a fill to the place of the length in this block or the next.
Distance(fill) ==
  IF fill <= Block - LB THEN Block - LB - fill ELSE 2 * Block - LB - fill

Whole == (hashed \o block) \o data = read \o padding

Even == \E q \in Nat : Len(hashed) = q * Block

OneAndZeros(p, zeros) == p[1] = 128 /\ \A i \in 2..1 + zeros : p[i] = 0

Reading == padding = <<>> /\ length = Len(read)

Zeros ==
  /\ Len(padding) > 0 /\ OneAndZeros(padding, Len(padding) - 1)
  /\ bits = 8 * Len(read)
  /\ Len(data) <= 1
  /\ Len(padding) + Distance(Len(block) + Len(data)) <= Block

Closing ==
  LET zeros == Len(padding) - 1 - LB
  IN  /\ 0 <= zeros /\ zeros < Block
      /\ OneAndZeros(padding, zeros)
      /\ From(padding, 1 + zeros) = LengthBytes(8 * Len(read))
      /\ \/ data = <<>> /\ block = <<>>
         \/ Len(data) = LB /\ Len(block) = Block - LB

Stage ==
  /\ at \in {"read", "one"} => Reading
  /\ at = "zeros" => Zeros
  /\ at = "length" => Closing

Inv == TypeOK /\ Whole /\ Even /\ Stage

-----------------------------------------------------------------------------
LEMMA Sizes ==
  ASSUME DigestAssumption
  PROVE  /\ Block \in Nat \ {0} /\ Piece \in Nat \ {0}
         /\ LB \in Nat \ {0} /\ LB < Block
  BY LenProperties DEF DigestAssumption, LB

LEMMA LengthBytesType ==
  ASSUME DigestAssumption, NEW n \in Nat
  PROVE  LengthBytes(n) \in Seq(Int) /\ Len(LengthBytes(n)) = LB
<1>1. \A i \in 1..LB : Weights[i] \in Nat \ {0}
  BY LenProperties DEF DigestAssumption, LB
<1>2. \A i \in 1..LB : (n \div Weights[i]) % 256 \in Int
  BY <1>1, SMT
<1>3. LB \in Nat
  BY Sizes
<1> QED BY <1>2, <1>3, SMT DEF LengthBytes, LB

\* What is cut off a sequence and what remains make it up.
LEMMA Cut ==
  ASSUME NEW s \in Seq(Int), NEW n \in 0..Len(s)
  PROVE  /\ SubSeq(s, 1, n) \in Seq(Int) /\ Len(SubSeq(s, 1, n)) = n
         /\ From(s, n) \in Seq(Int) /\ Len(From(s, n)) = Len(s) - n
         /\ SubSeq(s, 1, n) \o From(s, n) = s
<1>1. Len(s) \in Nat /\ \A i \in 1..Len(s) : s[i] \in Int
  BY LenProperties
<1>2. SubSeq(s, 1, n) \in Seq(Int) /\ Len(SubSeq(s, 1, n)) = n
  <2>1. \A i \in 1..n : s[i] \in Int
    BY <1>1, SMT
  <2>2. Len(SubSeq(s, 1, n)) = IF 1 <= n THEN n - 1 + 1 ELSE 0
    BY <1>1, <2>1, SubSeqProperties
  <2>3. SubSeq(s, 1, n) \in Seq(Int)
    BY <1>1, <2>1, SubSeqProperties
  <2> QED BY <2>2, <2>3, <1>1, SMT
<1>3. From(s, n) \in Seq(Int) /\ Len(From(s, n)) = Len(s) - n
  <2>1. \A i \in n + 1..Len(s) : s[i] \in Int
    BY <1>1, SMT
  <2>2. n + 1 \in Int /\ Len(s) \in Int
    BY <1>1, SMT
  <2>3. Len(SubSeq(s, n + 1, Len(s))) = IF n + 1 <= Len(s) THEN Len(s) - (n + 1) + 1 ELSE 0
    BY <2>1, <2>2, SubSeqProperties
  <2>4. SubSeq(s, n + 1, Len(s)) \in Seq(Int)
    BY <2>1, <2>2, SubSeqProperties
  <2> QED BY <2>3, <2>4, <1>1, SMT DEF From
<1>4. SubSeq(s, 1, n) \o From(s, n) = s
  <2>1. SubSeq(s, 1, n) \o SubSeq(s, n + 1, Len(s)) = SubSeq(s, 1, Len(s))
    <3>1. 1 \in 1..Len(s) + 1 /\ n \in 1 - 1..Len(s) /\ Len(s) \in n..Len(s)
      BY <1>1, SMT
    <3> QED BY <3>1, ConcatAdjacentSubSeq
  <2> QED BY <2>1, SubSeqFull DEF From
<1> QED BY <1>2, <1>3, <1>4

LEMMA Regroup ==
  ASSUME NEW a \in Seq(Int), NEW b \in Seq(Int), NEW c \in Seq(Int)
  PROVE  (a \o b) \o c = a \o (b \o c)
  BY ConcatAssociative

LEMMA MinimumOfTwo ==
  ASSUME NEW a \in Nat \ {0}, NEW b \in Nat \ {0}
  PROVE  /\ Minimum(a, b) \in 1..a /\ Minimum(a, b) <= b
         /\ Minimum(a, b) = a \/ Minimum(a, b) = b
  BY SMT DEF Minimum

\* A byte brings the place of the length nearer, unless it is reached.
LEMMA Nearer ==
  ASSUME DigestAssumption, NEW fill \in Nat, fill # Block - LB
  PROVE  1 + Distance(fill + 1) <= Distance(fill)
<1>1. Block - LB \in Int /\ Block \in Int
  BY Sizes, SMT
<1>2. CASE fill + 1 <= Block - LB
  <2>1. Distance(fill + 1) = Block - LB - (fill + 1) /\ Distance(fill) = Block - LB - fill
    BY <1>2, Sizes, SMT DEF Distance
  <2> QED BY <2>1, Sizes, SMT
<1>3. CASE ~(fill <= Block - LB)
  <2>1. /\ Distance(fill + 1) = 2 * Block - LB - (fill + 1)
        /\ Distance(fill) = 2 * Block - LB - fill
    BY <1>3, Sizes, SMT DEF Distance
  <2> QED BY <2>1, Sizes, SMT
<1> QED BY <1>1, <1>2, <1>3, SMT

-----------------------------------------------------------------------------
LEMMA InitInv == DigestAssumption /\ Init => Inv
<1> SUFFICES ASSUME DigestAssumption, Init PROVE Inv
  OBVIOUS
<1>1. rest \in Seq(Int)
  <2>1. PICK n \in 0..MaxFile : rest \in [1..n -> Bytes]
    BY DEF Init
  <2>2. n \in Nat /\ Bytes \subseteq Int
    BY <2>1, SMT DEF DigestAssumption
  <2>3. rest \in [1..n -> Int]
    BY <2>1, <2>2
  <2> QED BY <2>2, <2>3, SeqDef
<1>2. TypeOK
  BY <1>1, Sizes, EmptySeq, SMT DEF Init, TypeOK
<1>3. Whole
  BY DEF Init, Whole
<1>4. Even
  <2>1. Len(hashed) = 0 * Block
    BY EmptySeq, Sizes, SMT DEF Init
  <2> QED BY <2>1 DEF Even
<1>5. Stage
  BY EmptySeq DEF Init, Stage, Reading
<1> QED BY <1>2, <1>3, <1>4, <1>5 DEF Inv

\* The turn of update's loop that takes bytes moves them from one part of Whole
\* to the next, and fills a block up or uses all of them.
LEMMA TakeInv ==
  ASSUME DigestAssumption, Inv, Take
  PROVE  Inv'
<1> DEFINE taken == Minimum(Len(data), Block - Len(block))
           first == SubSeq(data, 1, taken)
           after == From(data, taken)
           filled == block \o first
<1>1. /\ data \in Seq(Int) /\ block \in Seq(Int) /\ hashed \in Seq(Int)
      /\ read \in Seq(Int) /\ padding \in Seq(Int)
      /\ Len(data) \in Nat \ {0} /\ Len(block) \in Nat /\ Len(block) < Block
  BY LenProperties, EmptySeq DEF Inv, TypeOK, Take
<1>2. taken \in 1..Len(data) /\ taken <= Block - Len(block)
      /\ (taken = Len(data) \/ taken = Block - Len(block))
  <2>1. Block - Len(block) \in Nat \ {0}
    BY <1>1, Sizes, SMT
  <2> QED BY <1>1, <2>1, MinimumOfTwo
<1> HIDE DEF taken
<1>3. taken \in 0..Len(data)
  BY <1>2, SMT
<1>4. /\ first \in Seq(Int) /\ Len(first) = taken
      /\ after \in Seq(Int) /\ Len(after) = Len(data) - taken
      /\ first \o after = data
  BY <1>1, <1>3, Cut
<1> HIDE DEF first, after
<1>5. filled \in Seq(Int) /\ Len(filled) = Len(block) + taken
  BY <1>1, <1>4, ConcatProperties
<1>6. /\ data' = after
      /\ hashed' = IF Full(filled) THEN hashed \o filled ELSE hashed
      /\ block' = IF Full(filled) THEN <<>> ELSE filled
      /\ UNCHANGED <<rest, at, length, bits, read, padding>>
  BY DEF Take, taken, first, after
<1>7. (hashed \o filled) \o data' = read \o padding
  <2>1. hashed \o filled = (hashed \o block) \o first
    <3>1. (hashed \o block) \o first
            = hashed \o (block \o first)
      <4>1. hashed \in Seq(Int) /\ block \in Seq(Int) /\ first \in Seq(Int)
        BY <1>1, <1>4
      <4> QED BY <4>1, Regroup
    <3> QED BY <3>1
  <2>2. hashed \o block \in Seq(Int)
    BY <1>1, ConcatProperties
  <2>3. ((hashed \o block) \o first) \o after
          = (hashed \o block) \o data
    <3>1. ((hashed \o block) \o first) \o after
            = (hashed \o block) \o (first \o after)
      BY <2>2, <1>4, Regroup
    <3> QED BY <3>1, <1>4
  <2> QED BY <2>1, <2>3, <1>6 DEF Inv, Whole
<1>8. hashed \o filled \in Seq(Int) /\ Len(hashed \o filled) = Len(hashed) + Len(filled)
  BY <1>1, <1>5, ConcatProperties
<1> HIDE DEF filled
<1>9. TypeOK'
  <2>1. block' \in Seq(Int) /\ Len(block') < Block
    <3>1. CASE Full(filled)
      BY <3>1, <1>6, EmptySeq, Sizes, SMT
    <3>2. CASE ~Full(filled)
      <4>1. Len(filled) # Block /\ Len(filled) <= Block
        BY <3>2, <1>1, <1>2, <1>5, Sizes, SMT DEF Full
      <4>2. block' = filled
        BY <3>2, <1>6
      <4>3. Len(filled) < Block
        <5>1. taken \in Int /\ Len(block) \in Int /\ Block \in Int
          BY <1>1, <1>2, Sizes, SMT
        <5> QED BY <5>1, <4>1, SMT
      <4> QED BY <4>2, <4>3, <1>5
    <3> QED BY <3>1, <3>2
  <2>2. hashed' \in Seq(Int)
    BY <1>1, <1>6, <1>8
  <2> QED BY <1>4, <1>6, <2>1, <2>2 DEF Inv, TypeOK
<1>10. Whole'
  <2>1. CASE Full(filled)
    <3>1. hashed' \o block' = hashed \o filled
      BY <2>1, <1>6, <1>8, ConcatEmptySeq
    <3> QED BY <3>1, <1>7, <1>6 DEF Whole
  <2>2. CASE ~Full(filled)
    BY <2>2, <1>6, <1>7 DEF Whole
  <2> QED BY <2>1, <2>2
<1>11. Even'
  <2>1. PICK q \in Nat : Len(hashed) = q * Block
    BY DEF Inv, Even
  <2>2. CASE Full(filled)
    <3>1. Len(hashed') = (q + 1) * Block
      BY <2>1, <2>2, <1>6, <1>8, Sizes, SMT DEF Full
    <3> QED BY <3>1 DEF Even
  <2>3. CASE ~Full(filled)
    BY <2>1, <2>3, <1>6 DEF Even
  <2> QED BY <2>2, <2>3
<1>12. Stage'
  <2>1. ASSUME at \in {"read", "one"} PROVE Reading'
    BY <2>1, <1>6 DEF Inv, Stage, Reading
  <2>2. ASSUME at = "zeros" PROVE Zeros'
    <3>1. Zeros
      BY <2>2 DEF Inv, Stage
    <3>2. taken = 1 /\ Len(data) = 1 /\ Len(data') = 0
      <4>1. Len(data) <= 1
        BY <3>1 DEF Zeros
      <4> QED BY <4>1, <1>1, <1>2, <1>4, <1>6, SMT
    <3>3. Distance(Len(block') + Len(data')) = Distance(Len(block) + Len(data))
      <4>1. CASE Full(filled)
        <5>1. Len(block') = 0 /\ Len(block) + Len(data) = Block
          BY <4>1, <3>2, <1>5, <1>6, EmptySeq DEF Full
        <5> QED BY <5>1, <3>2, Sizes, SMT DEF Distance
      <4>2. CASE ~Full(filled)
        <5>1. Len(block') = Len(block) + 1
          BY <4>2, <3>2, <1>5, <1>6 DEF Full
        <5>2. Len(block') + Len(data') = Len(block) + Len(data)
          BY <5>1, <3>2, <1>1, SMT
        <5> QED BY <5>2
      <4> QED BY <4>1, <4>2
    <3> QED BY <3>1, <3>2, <3>3, <1>6, SMT DEF Zeros, OneAndZeros
  <2>3. ASSUME at = "length" PROVE Closing'
    <3>1. Closing
      BY <2>3 DEF Inv, Stage
    <3>2. Len(data) = LB /\ Len(block) = Block - LB
      BY <3>1, <1>1, EmptySeq DEF Closing
    <3>3. taken = LB /\ Full(filled)
      <4>1. taken = LB
        BY <3>2, <1>2, Sizes, SMT
      <4> QED BY <4>1, <3>2, <1>5, Sizes, SMT DEF Full
    <3>4. block' = <<>> /\ data' = <<>>
      <4>1. Len(data') = 0
        BY <3>2, <3>3, <1>4, <1>6, Sizes, SMT
      <4> QED BY <4>1, <3>3, <1>4, <1>6, EmptySeq, SMT
    <3> QED BY <3>1, <3>4, <1>6 DEF Closing, OneAndZeros
  <2> QED BY <2>1, <2>2, <2>3, <1>6 DEF Stage
<1> QED BY <1>9, <1>10, <1>11, <1>12 DEF Inv

LEMMA FeedInv ==
  ASSUME DigestAssumption, Inv, NEW n \in Nat, n <= Len(rest), Feed(n),
         at = "read", at' \in {"read", "one"}
  PROVE  Inv'
<1> DEFINE new == SubSeq(rest, 1, n)
<1>1. /\ rest \in Seq(Int) /\ block \in Seq(Int) /\ hashed \in Seq(Int)
      /\ read \in Seq(Int) /\ padding = <<>> /\ length = Len(read)
      /\ Len(rest) \in Nat /\ Len(read) \in Nat
  BY LenProperties DEF Inv, TypeOK, Stage, Reading
<1>2. new \in Seq(Int) /\ Len(new) = n /\ From(rest, n) \in Seq(Int)
  <2>1. n \in 0..Len(rest)
    BY <1>1, SMT
  <2> QED BY <2>1, <1>1, Cut
<1>3. /\ data = <<>> /\ data' = new /\ length' = length + n
      /\ read' = read \o new /\ rest' = From(rest, n)
      /\ UNCHANGED <<bits, padding, block, hashed>>
  BY <1>2 DEF Feed, Update
<1> HIDE DEF new
<1>4. read \o new \in Seq(Int) /\ Len(read \o new) = Len(read) + n
  BY <1>1, <1>2, ConcatProperties
<1>5. TypeOK'
  BY <1>1, <1>2, <1>3, <1>4, SMT DEF Inv, TypeOK
<1>6. Whole'
  <2>1. (hashed \o block) \o <<>> = read \o <<>>
    BY <1>1, <1>3 DEF Inv, Whole
  <2>2. hashed \o block = read
    <3>1. hashed \o block \in Seq(Int) /\ read \in Seq(Int)
      BY <1>1, ConcatProperties
    <3> QED BY <2>1, <3>1, ConcatEmptySeq
  <2>3. (read \o new) \o <<>> = read \o new
    BY <1>4, ConcatEmptySeq
  <2> QED BY <2>2, <2>3, <1>1, <1>3 DEF Whole
<1>7. Even'
  BY <1>3 DEF Inv, Even
<1>8. Stage'
  BY <1>1, <1>3, <1>4 DEF Stage, Reading
<1> QED BY <1>5, <1>6, <1>7, <1>8 DEF Inv

\* What all three steps of finish do to Whole and the types.
LEMMA PadInv ==
  ASSUME DigestAssumption, Inv, NEW bytes \in Seq(Int), Pad(bytes), bits' \in Nat,
         at' \in {"zeros", "length"}
  PROVE  /\ TypeOK' /\ Whole' /\ Even'
         /\ data = <<>> /\ data' = bytes /\ padding' = padding \o bytes
         /\ UNCHANGED <<read, block, hashed>>
         /\ padding' \in Seq(Int) /\ Len(padding') = Len(padding) + Len(bytes)
         /\ Len(padding) \in Nat /\ Len(block) \in Nat /\ Len(read) \in Nat
<1>1. /\ block \in Seq(Int) /\ hashed \in Seq(Int)
      /\ read \in Seq(Int) /\ padding \in Seq(Int)
      /\ Len(padding) \in Nat /\ Len(block) \in Nat /\ Len(bytes) \in Nat /\ Len(read) \in Nat
  BY LenProperties DEF Inv, TypeOK
<1>2. /\ data = <<>> /\ data' = bytes /\ padding' = padding \o bytes
      /\ length' = length + Len(bytes)
      /\ UNCHANGED <<rest, read, block, hashed>>
  BY DEF Pad, Update
<1>3. padding' \in Seq(Int) /\ Len(padding') = Len(padding) + Len(bytes)
  BY <1>1, <1>2, ConcatProperties
<1>4. TypeOK'
  BY <1>1, <1>2, <1>3, SMT DEF Inv, TypeOK
<1>5. Whole'
  <2>1. (hashed \o block) \o <<>> = read \o padding
    BY <1>2 DEF Inv, Whole
  <2>2. (hashed \o block) \o bytes = read \o (padding \o bytes)
    <3>1. hashed \in Seq(Int) /\ block \in Seq(Int) /\ read \in Seq(Int) /\ padding \in Seq(Int)
      BY <1>1
    <3>2. hashed \o block = read \o padding
      <4>1. hashed \o block \in Seq(Int)
        BY <3>1, ConcatProperties
      <4> QED BY <2>1, <4>1, ConcatEmptySeq
    <3>3. (read \o padding) \o bytes = read \o (padding \o bytes)
      BY <3>1, Regroup
    <3> QED BY <3>2, <3>3
  <2> QED BY <2>2, <1>2 DEF Whole
<1>6. Even'
  BY <1>2 DEF Inv, Even
<1> QED BY <1>1, <1>2, <1>3, <1>4, <1>5, <1>6

LEMMA FinishOneInv ==
  ASSUME DigestAssumption, Inv, FinishOne
  PROVE  Inv'
<1>1. /\ at = "one" /\ at' = "zeros" /\ Pad(<<128>>) /\ bits' = length * 8
      /\ Reading /\ length \in Nat
  BY DEF FinishOne, Inv, Stage, TypeOK
<1>2. <<128>> \in Seq(Int) /\ Len(<<128>>) = 1 /\ bits' \in Nat
  BY <1>1, SMT
<1>3. /\ TypeOK' /\ Whole' /\ Even'
      /\ data' = <<128>> /\ padding' = padding \o <<128>>
      /\ UNCHANGED <<read, block, hashed>> /\ Len(padding') = Len(padding) + 1
      /\ Len(block) \in Nat /\ Len(read) \in Nat
  BY <1>1, <1>2, PadInv
<1>4. padding' = <<128>> /\ Len(padding') = 1
  BY <1>1, <1>2, <1>3, ConcatEmptySeq, EmptySeq DEF Reading
<1>5. Len(block) < Block
  BY DEF Inv, TypeOK
<1>6. 1 + Distance(Len(block) + 1) <= Block
  BY <1>3, <1>5, Sizes, SMT DEF Distance
<1>7. Zeros'
  <2>1. Len(block') + Len(data') = Len(block) + 1
    BY <1>2, <1>3
  <2>2. OneAndZeros(padding', 0)
    BY <1>4, SMT DEF OneAndZeros
  <2>3. bits' = 8 * Len(read')
    BY <1>1, <1>3, SMT DEF Reading
  <2> QED BY <2>1, <2>2, <2>3, <1>2, <1>3, <1>4, <1>6 DEF Zeros
<1> QED BY <1>1, <1>3, <1>7 DEF Inv, Stage

LEMMA FinishZeroInv ==
  ASSUME DigestAssumption, Inv, FinishZero
  PROVE  Inv'
<1>1. /\ at = "zeros" /\ at' = "zeros" /\ Pad(<<0>>) /\ bits' = bits
      /\ Zeros /\ bits \in Nat /\ Len(block) # Block - LB
  BY DEF FinishZero, Inv, Stage, TypeOK, LB
<1>2. <<0>> \in Seq(Int) /\ Len(<<0>>) = 1 /\ <<0>>[1] = 0
  BY SMT
<1>3. /\ TypeOK' /\ Whole' /\ Even'
      /\ data = <<>> /\ data' = <<0>> /\ padding' = padding \o <<0>>
      /\ UNCHANGED <<read, block, hashed>> /\ Len(padding') = Len(padding) + 1
      /\ Len(padding) \in Nat /\ Len(block) \in Nat
  BY <1>1, <1>2, PadInv
<1>4. padding \in Seq(Int) /\ Len(block) < Block
  BY DEF Inv, TypeOK
<1>5. OneAndZeros(padding', Len(padding') - 1)
  <2>1. \A i \in 1..Len(padding) + 1 :
          padding'[i] = IF i <= Len(padding) THEN padding[i] ELSE <<0>>[i - Len(padding)]
    BY <1>2, <1>3, <1>4, ConcatProperties
  <2>2. padding'[Len(padding) + 1] = 0
    <3>1. Len(padding) + 1 \in 1..Len(padding) + 1 /\ ~(Len(padding) + 1 <= Len(padding))
          /\ Len(padding) + 1 - Len(padding) = 1
      BY <1>3, SMT
    <3> QED BY <2>1, <3>1, <1>2
  <2>3. \A i \in 1..Len(padding) : padding'[i] = padding[i]
    BY <2>1, <1>3, SMT
  <2>4. padding[1] = 128 /\ \A i \in 2..Len(padding) : padding[i] = 0
    BY <1>1, <1>3, SMT DEF Zeros, OneAndZeros
  <2> QED BY <2>2, <2>3, <2>4, <1>1, <1>3, SMT DEF OneAndZeros, Zeros
<1>6. 1 + Distance(Len(block) + 1) <= Distance(Len(block))
  BY <1>1, <1>3, Nearer
<1>7. Zeros'
  <2>1. Len(block') + Len(data') = Len(block) + 1 /\ Len(block) + Len(data) = Len(block)
    BY <1>2, <1>3, EmptySeq, SMT
  <2>2. Distance(Len(block) + 1) \in Int /\ Distance(Len(block)) \in Int
    BY <1>3, Sizes, SMT DEF Distance
  <2>3. Len(padding') + Distance(Len(block') + Len(data')) <= Block
    BY <2>1, <2>2, <1>1, <1>3, <1>6, Sizes, SMT DEF Zeros
  <2> QED BY <2>3, <1>1, <1>2, <1>3, <1>5, SMT DEF Zeros
<1> QED BY <1>1, <1>3, <1>7 DEF Inv, Stage

LEMMA FinishLengthInv ==
  ASSUME DigestAssumption, Inv, FinishLength
  PROVE  Inv'
<1> DEFINE bytes == LengthBytes(bits)
<1>1. /\ at = "zeros" /\ at' = "length" /\ Pad(bytes) /\ bits' = bits
      /\ Zeros /\ bits \in Nat /\ Len(block) = Block - LB
  BY DEF FinishLength, Inv, Stage, TypeOK, LB
<1>2. bytes \in Seq(Int) /\ Len(bytes) = LB
  BY <1>1, LengthBytesType
<1> HIDE DEF bytes
<1>3. /\ TypeOK' /\ Whole' /\ Even'
      /\ data = <<>> /\ data' = bytes /\ padding' = padding \o bytes
      /\ UNCHANGED <<read, block, hashed>> /\ Len(padding') = Len(padding) + LB
      /\ Len(padding) \in Nat /\ padding' \in Seq(Int)
  BY <1>1, <1>2, PadInv
<1>4. padding \in Seq(Int)
  BY DEF Inv, TypeOK
<1>5. Len(padding) <= Block /\ Len(padding) > 0
  <2>1. Len(block) + Len(data) = Block - LB
    BY <1>1, <1>3, EmptySeq, Sizes, SMT
  <2>2. Distance(Block - LB) = 0
    BY Sizes, SMT DEF Distance
  <2> QED BY <2>1, <2>2, <1>1, <1>3, Sizes, SMT DEF Zeros
<1>6. Len(padding') - 1 - LB = Len(padding) - 1
  BY <1>3, Sizes, SMT
<1>7. OneAndZeros(padding', Len(padding) - 1)
  <2>1. \A i \in 1..Len(padding) + LB :
          padding'[i] = IF i <= Len(padding) THEN padding[i] ELSE bytes[i - Len(padding)]
    BY <1>2, <1>3, <1>4, ConcatProperties
  <2>2. \A i \in 1..Len(padding) : padding'[i] = padding[i]
    BY <2>1, <1>3, Sizes, SMT
  <2> QED BY <2>2, <1>1, <1>3, <1>5, SMT DEF Zeros, OneAndZeros
<1>8. From(padding', Len(padding)) = bytes
  <2>1. /\ Len(padding) + 1 \in Len(padding) + 1..Len(padding) + Len(bytes)
        /\ Len(padding) + LB \in Len(padding) + 1..Len(padding) + Len(bytes)
        /\ Len(padding) + 1 - Len(padding) = 1 /\ Len(padding) + LB - Len(padding) = LB
    BY <1>2, <1>3, Sizes, SMT
  <2>2. SubSeq(padding \o bytes, Len(padding) + 1, Len(padding) + LB)
          = SubSeq(bytes, Len(padding) + 1 - Len(padding), Len(padding) + LB - Len(padding))
    BY <2>1, <1>2, <1>3, <1>4, SubSeqOfConcat2, SMTT(30)
  <2>3. SubSeq(bytes, 1, LB) = bytes
    BY <1>2, SubSeqFull
  <2> QED BY <2>1, <2>2, <2>3, <1>3 DEF From
<1>9. bytes = LengthBytes(8 * Len(read'))
  BY <1>1, <1>3 DEF bytes, Zeros
<1>10. Closing'
  <2>1. 1 + (Len(padding) - 1) = Len(padding) /\ 0 <= Len(padding) - 1
        /\ Len(padding) - 1 < Block
    BY <1>3, <1>5, Sizes, SMT
  <2>2. Len(data') = LB /\ Len(block') = Block - LB
    BY <1>1, <1>2, <1>3
  <2> QED BY <2>1, <2>2, <1>6, <1>7, <1>8, <1>9 DEF Closing
<1> QED BY <1>1, <1>3, <1>10 DEF Inv, Stage

LEMMA NextInv ==
  ASSUME DigestAssumption, Inv, [Next]_vars
  PROVE  Inv'
<1>1. CASE Take
  BY <1>1, TakeInv
<1>2. CASE ReadPiece
  <2>1. Piece \in Nat /\ Piece <= Len(rest) /\ Feed(Piece) /\ at = "read" /\ at' = "read"
    <3>1. Len(rest) \in Nat
      BY LenProperties DEF Inv, TypeOK
    <3> QED BY <1>2, <3>1, Sizes, SMT DEF ReadPiece
  <2> QED BY <2>1, FeedInv
<1>3. CASE ReadLast
  <2>1. PICK n \in 0..Minimum(Len(rest), Piece - 1) : Feed(n)
    BY <1>3 DEF ReadLast
  <2>2. n \in Nat /\ n <= Len(rest)
    <3>1. Len(rest) \in Nat
      BY LenProperties DEF Inv, TypeOK
    <3> QED BY <3>1, Sizes, SMT DEF Minimum
  <2>3. at = "read" /\ at' = "one"
    BY <1>3 DEF ReadLast
  <2> QED BY <2>1, <2>2, <2>3, FeedInv
<1>4. CASE FinishOne
  BY <1>4, FinishOneInv
<1>5. CASE FinishZero
  BY <1>5, FinishZeroInv
<1>6. CASE FinishLength
  BY <1>6, FinishLengthInv
<1>7. CASE UNCHANGED vars
  BY <1>7 DEF vars, Inv, TypeOK, Whole, Even, Stage, Reading, Zeros, Closing, OneAndZeros,
              Distance
<1> QED BY <1>1, <1>2, <1>3, <1>4, <1>5, <1>6, <1>7 DEF Next

-----------------------------------------------------------------------------
\* A multiple of the block leaves no remainder.
LEMMA NoRemainder ==
  ASSUME NEW b \in Nat \ {0}, NEW q \in Nat, NEW n \in Nat, n = q * b
  PROVE  n % b = 0
<1>1. n % b \in 0..b - 1 /\ n = b * (n \div b) + (n % b) /\ n \div b \in Int
  BY SMT
<1> DEFINE d == n \div b
<1>2. d \in Int /\ q * b = b * d + (n % b)
  BY <1>1
<1> HIDE DEF d
<1>3. CASE d = q
  BY <1>1, <1>2, <1>3, SMT
<1>4. CASE d <= q - 1
  <2>1. b * d <= b * (q - 1)
    BY <1>2, <1>4, SMT
  <2> QED BY <2>1, <1>1, <1>2, SMT
<1>5. CASE d >= q + 1
  <2>1. b * d >= b * (q + 1)
    BY <1>2, <1>5, SMT
  <2> QED BY <2>1, <1>1, <1>2, SMT
<1> QED BY <1>2, <1>3, <1>4, <1>5, SMT

LEMMA InvImplies == DigestAssumption /\ Inv => DigestIsStandard
<1> SUFFICES ASSUME DigestAssumption, Inv, at = "length", data = <<>>
             PROVE  /\ hashed = read \o padding /\ block = <<>>
                    /\ IsPadding(padding, Len(read))
  BY DEF DigestIsStandard
<1>1. Closing
  BY DEF Inv, Stage
<1>2. block = <<>>
  BY <1>1, EmptySeq, Sizes, SMT DEF Closing
<1>3. hashed \in Seq(Int) /\ read \in Seq(Int) /\ padding \in Seq(Int)
  BY DEF Inv, TypeOK
<1>4. hashed = read \o padding
  BY <1>2, <1>3, ConcatEmptySeq DEF Inv, Whole
<1>5. (Len(read) + Len(padding)) % Block = 0
  <2>1. Len(hashed) = Len(read) + Len(padding) /\ Len(hashed) \in Nat
    BY <1>3, <1>4, ConcatProperties, LenProperties
  <2>2. PICK q \in Nat : Len(hashed) = q * Block
    BY DEF Inv, Even
  <2> QED BY <2>1, <2>2, Sizes, NoRemainder
<1> QED BY <1>1, <1>2, <1>4, <1>5 DEF Closing, IsPadding, OneAndZeros, LB

\* Sha256.h and fileSha256: the variables keep their types, and no block is full
\* between two turns of the loop.
THEOREM TypeCorrect == DigestAssumption => (Spec => []TypeOK)
<1> SUFFICES ASSUME DigestAssumption PROVE Spec => []TypeOK
  OBVIOUS
<1>1. Init => Inv
  BY InitInv
<1>2. Inv /\ [Next]_vars => Inv'
  BY NextInv
<1>3. Inv => TypeOK
  BY DEF Inv
<1> QED BY <1>1, <1>2, <1>3, PTL DEF Spec

\* The digest of a file is the standard's of what was read of it, for files,
\* pieces and blocks of any size.
THEOREM DigestIsStandardHolds == DigestAssumption => (Spec => []DigestIsStandard)
<1> SUFFICES ASSUME DigestAssumption PROVE Spec => []DigestIsStandard
  OBVIOUS
<1>1. Init => Inv
  BY InitInv
<1>2. Inv /\ [Next]_vars => Inv'
  BY NextInv
<1>3. Inv => DigestIsStandard
  BY InvImplies
<1> QED BY <1>1, <1>2, <1>3, PTL DEF Spec

-----------------------------------------------------------------------------
(* VendorGate                                                              *)

\* A file as the reader may find it: any numbers in its tables, and in its names
\* any characters.
SectionTypes == {"dynsym", "strtab", "other"}
Symbol == [name : Nat, bind : {"global", "weak", "local"}, type : {"func", "data"},
           defined : BOOLEAN]
IsFile(f, Chars) ==
  /\ f.size \in Nat /\ f.shoff \in Nat
  /\ f.sections \in Seq([type : SectionTypes, offset : Nat, size : Nat, link : Nat])
  /\ f.table \in Seq(Symbol) /\ f.strings \in Seq(Chars)

\* An end is no end when there is one before it.
LEMMA EarliestIsLeast ==
  ASSUME NEW T \in SUBSET Nat, T # {}
  PROVE  Min(T) \in T /\ \A y \in T : Min(T) <= y
BY Least, Zenon DEF Min

LEMMA InsideIsSum ==
  ASSUME NEW o \in Nat, NEW l \in Nat, NEW s \in Nat
  PROVE  Inside(o, l, s) <=> o + l <= s
BY DEF Inside

\* scan (ElfSymbols.cpp:70-110): however the tables lie about their places and
\* sizes, those of them that are read are in the file, and no file is turned
\* away whose tables are.
THEOREM TablesAreWithin ==
  ASSUME VendorAssumption, NEW f, NEW Chars, IsFile(f, Chars)
  PROVE  TablesAreInside(f)
<1> DEFINE Section == [type : SectionTypes, offset : Nat, size : Nat, link : Nat]
<1> SUFFICES ASSUME f.elf, f.size <= MaxSize, f.sections # <<>>, DynSym(f) # 0,
                    f.sections[DynSym(f)].link < Len(f.sections),
                    f.sections[DynSym(f)].size % SymbolSize = 0, Names(f).type = "strtab"
             PROVE  TablesAreThere(f) <=> WithinFile(f)
  BY Zenon DEF TablesAreInside
<1>1. /\ f.sections \in Seq(Section) /\ f.size \in Nat /\ f.shoff \in Nat
      /\ SectionSize \in Nat
  BY DEF IsFile, VendorAssumption
<1> HIDE DEF Section
<1>2. DynSym(f) \in 1..Len(f.sections) /\ Len(f.sections) \in Nat
  <2> DEFINE those == {i \in DOMAIN f.sections : f.sections[i].type = "dynsym"}
  <2>1. DynSym(f) = (IF those = {} THEN 0 ELSE Min(those))
    BY Zenon DEF DynSym
  <2>2. those # {} /\ DynSym(f) = Min(those)
    BY <2>1
  <2>3. those \in SUBSET Nat /\ those \subseteq 1..Len(f.sections)
    BY <1>1
  <2> HIDE DEF those
  <2>4. Min(those) \in those
    BY <2>2, <2>3, EarliestIsLeast
  <2>5. DynSym(f) \in 1..Len(f.sections)
    BY <2>2, <2>3, <2>4, Zenon
  <2> QED
    BY <2>5, <1>1
<1> DEFINE symbols == f.sections[DynSym(f)]
<1>3. symbols \in Section
  BY <1>1, <1>2
<1>4. symbols.link \in Nat /\ symbols.offset \in Nat /\ symbols.size \in Nat
  BY <1>3 DEF Section
<1>5. Names(f) \in Section
  <2>1. symbols.link + 1 \in 1..Len(f.sections)
    BY <1>2, <1>4
  <2> QED
    BY <2>1, <1>1 DEF Names
<1>6. Names(f).offset \in Nat /\ Names(f).size \in Nat
  BY <1>5 DEF Section
<1>7. TableSize(f) \in Nat
  BY <1>1, <1>2 DEF TableSize
<1>8. /\ Inside(f.shoff, TableSize(f), f.size) <=> f.shoff + TableSize(f) <= f.size
      /\ Inside(symbols.offset, symbols.size, f.size)
           <=> symbols.offset + symbols.size <= f.size
      /\ Inside(Names(f).offset, Names(f).size, f.size)
           <=> Names(f).offset + Names(f).size <= f.size
  BY <1>1, <1>4, <1>6, <1>7, InsideIsSum
<1>9. TablesAreThere(f)
        <=> /\ Inside(f.shoff, TableSize(f), f.size)
            /\ Inside(symbols.offset, symbols.size, f.size)
            /\ Inside(Names(f).offset, Names(f).size, f.size)
  BY Zenon DEF TablesAreThere
<1>10. WithinFile(f)
         <=> /\ f.shoff + TableSize(f) <= f.size
             /\ symbols.offset + symbols.size <= f.size
             /\ Names(f).offset + Names(f).size <= f.size
  <2>1. Reads(f) = {<<f.shoff, TableSize(f)>>, <<symbols.offset, symbols.size>>,
                    <<Names(f).offset, Names(f).size>>}
    BY Zenon DEF Reads
  <2> HIDE DEF symbols
  <2> QED
    BY <2>1 DEF WithinFile
<1> QED
  BY <1>8, <1>9, <1>10, Zenon

-----------------------------------------------------------------------------
\* A name that ends at the next NUL is the text before it, and no other.
LEMMA NameIsText ==
  ASSUME NEW Chars, NEW strings \in Seq(Chars), NEW place \in Nat,
         NEW text \in Seq(Chars), \A i \in 1..Len(text) : text[i] # "NUL",
         place + Len(text) + 1 <= Len(strings),
         \A i \in 1..Len(text) : strings[place + i] = text[i],
         strings[place + Len(text) + 1] = "NUL"
  PROVE  NameAt(strings, place) = text
<1> DEFINE T == Ends(strings, place)
           last == place + Len(text) + 1
<1>0. Len(text) \in Nat /\ Len(strings) \in Nat /\ last \in Nat
  OBVIOUS
<1>1. last \in T /\ T \subseteq Nat
  BY <1>0 DEF Ends
<1>2. \A y \in T : last <= y
  <2> SUFFICES ASSUME NEW y \in T, y < last
               PROVE  FALSE
    BY <1>0, <1>1
  <2>1. y \in place + 1..Len(strings) /\ strings[y] = "NUL"
    BY DEF Ends
  <2>2. y - place \in 1..Len(text) /\ place + (y - place) = y
    BY <2>1, <1>0
  <2> QED
    BY <2>1, <2>2
<1>3. Min(T) = last
  <2>1. Min(T) \in T /\ \A y \in T : Min(T) <= y
    <3> HIDE DEF T
    <3> QED
      BY <1>1, EarliestIsLeast
  <2>2. Min(T) <= last /\ last <= Min(T) /\ Min(T) \in Nat
    BY <2>1, <1>1, <1>2
  <2> HIDE DEF last, T
  <2> QED
    BY <2>2, <1>0
<1> DEFINE e == place + Len(text)
           u == SubSeq(strings, place + 1, e)
<1>4. Min(T) - 1 = e
  BY <1>0, <1>3
<1>5. NameAt(strings, place) = u
  BY <1>4, Zenon DEF NameAt
<1>6. /\ place + 1 \in Int /\ e \in Int /\ place + 1 <= e + 1 /\ e - (place + 1) + 1 = Len(text)
      /\ \A i \in place + 1..e : strings[i] \in Chars
  BY <1>0
<1> HIDE DEF e
<1>7. u \in Seq(Chars) /\ Len(u) = Len(text) /\ \A i \in 1..Len(text) : u[i] = strings[place + i]
  <2>1. /\ u \in Seq(Chars) /\ Len(u) = e - (place + 1) + 1
        /\ \A i \in 1..e - (place + 1) + 1 : u[i] = strings[(place + 1) + i - 1]
    BY <1>6, SubSeqProperties
  <2> HIDE DEF u
  <2>2. \A i \in 1..Len(text) : (place + 1) + i - 1 = place + i
    BY <1>0
  <2> QED
    BY <2>1, <2>2, <1>6
<1>8. \A i \in 1..Len(u) : u[i] = text[i]
  BY <1>7
<1> HIDE DEF u
<1>9. u = text
  BY <1>7, <1>8, SeqEqual
<1> QED
  BY <1>5, <1>9

\* The name at a place that ends is followed by NUL.
LEMMA TextIsThere ==
  ASSUME NEW Chars, "NUL" \in Chars, NEW strings \in Seq(Chars), NEW place \in Nat,
         Ends(strings, place) # {}
  PROVE  LET text == NameAt(strings, place) \o <<"NUL">>
         IN  /\ place + Len(text) <= Len(strings)
             /\ SubSeq(strings, place + 1, place + Len(text)) = text
<1> DEFINE T == Ends(strings, place)
           last == Min(T)
           name == SubSeq(strings, place + 1, last - 1)
           text == name \o <<"NUL">>
<1>0. Len(strings) \in Nat
  OBVIOUS
<1>1. last \in T
  <2>1. T \in SUBSET Nat /\ T # {}
    BY DEF Ends
  <2> HIDE DEF T
  <2> QED
    BY <2>1, EarliestIsLeast, Zenon
<1>2. last \in place + 1..Len(strings) /\ strings[last] = "NUL"
  BY <1>1 DEF Ends
<1> HIDE DEF last
<1>3. /\ name \in Seq(Chars) /\ Len(name) = last - 1 - place
      /\ \A i \in 1..last - 1 - place : name[i] = strings[place + i]
  <2>1. /\ place + 1 \in Int /\ last - 1 \in Int /\ place + 1 <= (last - 1) + 1
        /\ \A i \in place + 1..last - 1 : strings[i] \in Chars
        /\ (last - 1) - (place + 1) + 1 = last - 1 - place
    BY <1>0, <1>2
  <2>2. /\ name \in Seq(Chars) /\ Len(name) = (last - 1) - (place + 1) + 1
        /\ \A i \in 1..(last - 1) - (place + 1) + 1 : name[i] = strings[(place + 1) + i - 1]
    BY <2>1, SubSeqProperties
  <2> HIDE DEF name
  <2>3. \A i \in 1..last - 1 - place : (place + 1) + i - 1 = place + i
    BY <1>2
  <2> QED
    BY <2>1, <2>2, <2>3
<1>4. NameAt(strings, place) = name
  BY Zenon DEF NameAt, last
<1> HIDE DEF name
<1>5. /\ text \in Seq(Chars) /\ Len(text) = last - place
      /\ \A i \in 1..last - place :
           text[i] = IF i <= last - 1 - place THEN name[i] ELSE "NUL"
  <2>0. <<"NUL">> \in Seq(Chars) /\ Len(<<"NUL">>) = 1 /\ <<"NUL">>[1] = "NUL"
    OBVIOUS
  <2> DEFINE end == <<"NUL">>
  <2> HIDE DEF end
  <2>1. /\ text \in Seq(Chars) /\ Len(text) = Len(name) + Len(end)
        /\ \A i \in 1..Len(name) + Len(end) :
             text[i] = IF i <= Len(name) THEN name[i] ELSE end[i - Len(name)]
    BY <2>0, <1>3, ConcatProperties DEF end
  <2>2. Len(end) = 1 /\ end[1] = "NUL"
    BY <2>0 DEF end
  <2> HIDE DEF text
  <2>3. Len(name) + Len(end) = last - place
    BY <2>2, <1>2, <1>3
  <2>4. ASSUME NEW i \in 1..last - place
        PROVE  text[i] = IF i <= last - 1 - place THEN name[i] ELSE "NUL"
    <3>1. ~(i <= last - 1 - place) => i - Len(name) = 1
      BY <1>2, <1>3
    <3> QED
      BY <3>1, <2>1, <2>2, <2>3, <1>3
  <2> QED
    BY <2>1, <2>3, <2>4
<1> HIDE DEF text
<1> DEFINE u == SubSeq(strings, place + 1, last)
<1>6. /\ u \in Seq(Chars) /\ Len(u) = last - place
      /\ \A i \in 1..last - place : u[i] = strings[place + i]
  <2>1. /\ place + 1 \in Int /\ last \in Int /\ place + 1 <= last + 1
        /\ \A i \in place + 1..last : strings[i] \in Chars
        /\ last - (place + 1) + 1 = last - place
    BY <1>0, <1>2
  <2>2. /\ u \in Seq(Chars) /\ Len(u) = last - (place + 1) + 1
        /\ \A i \in 1..last - (place + 1) + 1 : u[i] = strings[(place + 1) + i - 1]
    BY <2>1, SubSeqProperties
  <2> HIDE DEF u
  <2>3. \A i \in 1..last - place : (place + 1) + i - 1 = place + i
    BY <1>2
  <2> QED
    BY <2>1, <2>2, <2>3
<1> HIDE DEF u
<1>7. ASSUME NEW i \in 1..last - place
      PROVE  u[i] = text[i]
  <2>1. CASE i <= last - 1 - place
    <3>1. i \in 1..last - 1 - place
      BY <2>1, <1>2
    <3> QED
      BY <3>1, <2>1, <1>3, <1>5, <1>6
  <2>2. CASE ~(i <= last - 1 - place)
    <3>1. place + i = last
      BY <2>2, <1>2
    <3> QED
      BY <3>1, <2>2, <1>2, <1>5, <1>6
  <2> QED
    BY <2>1, <2>2
<1>8. u = text
  <2>1. Len(u) = Len(text) /\ \A i \in 1..Len(u) : u[i] = text[i]
    BY <1>5, <1>6, <1>7, Zenon
  <2> QED
    BY <2>1, <1>5, <1>6, SeqEqual
<1>9. place + Len(text) = last /\ last <= Len(strings)
  BY <1>0, <1>2, <1>5
<1> QED
  BY <1>4, <1>8, <1>9 DEF u, text

\* A symbol that is there defines its name, and what is defined is found.
LEMMA FoundIsDefined ==
  ASSUME NEW Chars, "NUL" \in Chars, NEW f, IsFile(f, Chars),
         NamesAreThere(f.table, f.strings), NEW function \in Found(f.table, f.strings)
  PROVE  Defines(f, function)
<1>1. PICK i \in Entries(f.table) :
        Counts(f.table[i]) /\ function = NameAt(f.strings, f.table[i].name)
  BY Zenon DEF Found
<1>2. f.table \in Seq(Symbol) /\ f.strings \in Seq(Chars)
  BY DEF IsFile
<1>3. i \in 2..Len(f.table) /\ f.table[i] \in Symbol
  BY <1>1, <1>2 DEF Entries
<1> DEFINE symbol == f.table[i]
           place == symbol.name
           text == function \o <<"NUL">>
<1>4. /\ place \in Nat /\ symbol.bind # "local" /\ symbol.type = "func" /\ symbol.defined
  BY <1>1, <1>3 DEF Counts, Symbol
<1>5. Ends(f.strings, place) # {}
  BY <1>1, Zenon DEF NamesAreThere
<1> HIDE DEF place
<1>6. place + Len(text) <= Len(f.strings) /\ SubSeq(f.strings, place + 1, place + Len(text)) = text
  <2>1. function = NameAt(f.strings, place)
    BY <1>1 DEF place
  <2> QED
    BY <2>1, <1>2, <1>4, <1>5, TextIsThere, Zenon
<1>7. place \in 0..Len(f.strings)
  <2>1. PICK j \in place + 1..Len(f.strings) : TRUE
    BY <1>5 DEF Ends
  <2> QED
    BY <2>1, <1>2, <1>4
<1>8. symbol.name = place
  BY DEF place
<1> HIDE DEF text
<1> QED
  BY <1>3, <1>4, <1>6, <1>7, <1>8, Zenon DEF Defines, text

LEMMA DefinedIsFound ==
  ASSUME NEW Chars, "NUL" \in Chars, NEW f, IsFile(f, Chars),
         NEW function \in Seq(Chars \ {"NUL"}), Defines(f, function)
  PROVE  function \in Found(f.table, f.strings)
<1> DEFINE text == function \o <<"NUL">>
<1>1. PICK i \in 2..Len(f.table), place \in 0..Len(f.strings) :
        /\ f.table[i].name = place /\ place + Len(text) <= Len(f.strings)
        /\ SubSeq(f.strings, place + 1, place + Len(text)) = text
        /\ f.table[i].bind # "local" /\ f.table[i].type = "func" /\ f.table[i].defined
  BY Zenon DEF Defines
<1>2. /\ f.table \in Seq(Symbol) /\ f.strings \in Seq(Chars) /\ Len(f.strings) \in Nat
      /\ place \in Nat
  <2>1. f.table \in Seq(Symbol) /\ f.strings \in Seq(Chars)
    BY DEF IsFile
  <2> QED
    BY <2>1, <1>1
<1>3. i \in Entries(f.table) /\ f.table[i] \in Symbol
  BY <1>1, <1>2 DEF Entries
<1>4. Counts(f.table[i])
  BY <1>1, <1>3 DEF Counts, Symbol
<1>5. /\ function \in Seq(Chars) /\ Len(function) \in Nat
      /\ \A j \in 1..Len(function) : function[j] # "NUL"
  <2>1. \A j \in 1..Len(function) : function[j] \in Chars \ {"NUL"}
    OBVIOUS
  <2>2. Seq(Chars \ {"NUL"}) \subseteq Seq(Chars)
    BY SeqMonotonic
  <2> QED
    BY <2>1, <2>2
<1>6. /\ text \in Seq(Chars) /\ Len(text) = Len(function) + 1
      /\ \A j \in 1..Len(function) : text[j] = function[j]
      /\ text[Len(function) + 1] = "NUL"
  <2> DEFINE end == <<"NUL">>
  <2>1. end \in Seq(Chars) /\ Len(end) = 1 /\ end[1] = "NUL"
    OBVIOUS
  <2> HIDE DEF end
  <2>2. /\ text \in Seq(Chars) /\ Len(text) = Len(function) + Len(end)
        /\ \A j \in 1..Len(function) + Len(end) :
             text[j] = IF j <= Len(function) THEN function[j] ELSE end[j - Len(function)]
    BY <2>1, <1>5, ConcatProperties DEF end
  <2> HIDE DEF text
  <2>3. Len(function) + 1 - Len(function) = 1
    BY <1>5
  <2> QED
    BY <2>1, <2>2, <2>3, <1>5
<1> HIDE DEF text
<1>7. \A j \in 1..Len(function) + 1 : f.strings[place + j] = text[j]
  <2> DEFINE e == place + Len(text)
             u == SubSeq(f.strings, place + 1, e)
  <2>1. /\ e \in Int /\ place + 1 \in Int /\ place + 1 <= e + 1
        /\ e - (place + 1) + 1 = Len(function) + 1
        /\ \A j \in place + 1..e : f.strings[j] \in Chars
    BY <1>1, <1>2, <1>5, <1>6
  <2>2. u = text
    BY <1>1
  <2> HIDE DEF e
  <2>3. \A j \in 1..e - (place + 1) + 1 : u[j] = f.strings[(place + 1) + j - 1]
    BY <2>1, <1>2, SubSeqProperties
  <2> HIDE DEF u
  <2>4. \A j \in 1..Len(function) + 1 : (place + 1) + j - 1 = place + j
    BY <1>2, <1>5
  <2> QED
    BY <2>1, <2>2, <2>3, <2>4
<1>8. NameAt(f.strings, place) = function
  <2> DEFINE strings == f.strings
  <2>1. /\ strings \in Seq(Chars) /\ place + Len(function) + 1 <= Len(strings)
        /\ \A j \in 1..Len(function) : strings[place + j] = function[j]
        /\ strings[place + Len(function) + 1] = "NUL"
    <3>1. /\ Len(function) + 1 \in 1..Len(function) + 1
          /\ place + (Len(function) + 1) = place + Len(function) + 1
          /\ \A j \in 1..Len(function) : j \in 1..Len(function) + 1
      BY <1>2, <1>5
    <3> QED
      BY <3>1, <1>1, <1>2, <1>6, <1>7
  <2> HIDE DEF strings
  <2>2. NameAt(strings, place) = function
    BY <2>1, <1>2, <1>5, NameIsText, Zenon
  <2> QED
    BY <2>2 DEF strings
<1> QED
  BY <1>1, <1>3, <1>4, <1>8, Zenon DEF Found

\* checkVendorFile (VendorLibrary.cpp:114-140): a file is trusted for its digest
\* alone; it is taken for compatible exactly when it defines, as global or weak
\* functions behind the null symbol, all that the library needs.
THEOREM VerdictsAreRight ==
  ASSUME NEW Chars, "NUL" \in Chars, NEW f, IsFile(f, Chars), NEW recorded,
         NEW required \in SUBSET Seq(Chars \ {"NUL"})
  PROVE  VerdictIsRight(f, recorded, required)
<1> DEFINE status == CheckVendorFile(f, recorded, required)
           missing == Missing(f, required)
<1>1. /\ (status = "verified") <=> (f.digest # "" /\ f.digest \in recorded)
      /\ status = "compatible" => required # {} /\ missing = {}
      /\ status = "unknown" => required = {} \/ missing # {}
  BY DEF CheckVendorFile, Status
<1>2. (status = "verified") <=> (f.digest \in recorded \ {""})
  BY <1>1
<1>3. ASSUME status = "compatible"
      PROVE  /\ required # {} /\ TablesAreThere(f)
             /\ \A function \in required : Defines(f, function)
  <2>1. required # {} /\ missing = {}
    BY <1>1, <1>3
  <2>2. Readable(f) /\ required \subseteq Found(f.table, f.strings)
    BY <2>1 DEF Missing
  <2>3. TablesAreThere(f) /\ NamesAreThere(f.table, f.strings)
    BY <2>2, Zenon DEF Readable
  <2> QED
    BY <2>1, <2>2, <2>3, FoundIsDefined
<1>4. ASSUME status = "unknown", required # {}, Readable(f)
      PROVE  \E function \in required : ~Defines(f, function)
  <2>1. missing # {} /\ missing = required \ Found(f.table, f.strings)
    BY <1>1, <1>4 DEF Missing
  <2>2. PICK function \in required : function \notin Found(f.table, f.strings)
    BY <2>1
  <2>3. function \in Seq(Chars \ {"NUL"})
    BY <2>2
  <2> QED
    BY <2>2, <2>3, DefinedIsFound, Zenon
<1> QED
  BY <1>2, <1>3, <1>4, Zenon DEF VerdictIsRight

-----------------------------------------------------------------------------
(* NtpTime                                                                 *)

Stamps == [seconds : 0..Era - 1, fraction : Nat]
Replies == [mode : Nat, leap : Nat, stratum : Nat, origin : Stamps, transmit : Stamps]
Times == [seconds : 0..Era - 1, micro : 0..Micro - 1]

-----------------------------------------------------------------------------
(* Seconds                                                                 *)

\* A number below twice the modulus is at most one turn away.
LEMMA OneTurn ==
  ASSUME NEW m \in Nat \ {0}, NEW n \in 0..2 * m - 1
  PROVE  n % m = IF n < m THEN n ELSE n - m
<1>1. CASE n < m
  BY <1>1, SMT
<1>2. CASE n >= m
  <2>1. n % m \in 0..m - 1 /\ n = m * (n \div m) + (n % m) /\ n \div m \in Int
    BY SMT
  <2>2. n \div m = 1
    <3> DEFINE q == n \div m
    <3>1. CASE q <= 0
      <4>1. m * q <= 0
        BY <3>1, <2>1, SMT
      <4> QED BY <4>1, <2>1, <1>2, SMT
    <3>2. CASE q >= 2
      <4>1. m * q >= m * 2
        BY <3>2, <2>1, SMT
      <4> QED BY <4>1, <2>1, SMT
    <3> QED BY <3>1, <3>2, <2>1, SMT
  <2> QED BY <2>1, <2>2, <1>2, SMT
<1> QED BY <1>1, <1>2, SMT

\* syncTime (Tc002System.cpp:186-189): every second of the clock, of this era of
\* the protocol or the next, is found again from its timestamp.
THEOREM SecondsComeThrough ==
  ASSUME NtpAssumption, NEW s \in 0..Era - 1
  PROVE  SinceEpoch((s + Epoch) % Era) = s
<1>1. Era \in Nat \ {0} /\ Epoch \in 1..Era - 1
  BY SMT DEF NtpAssumption
<1>2. (s + Epoch) % Era = IF s + Epoch < Era THEN s + Epoch ELSE s + Epoch - Era
  <2>1. s + Epoch \in 0..2 * Era - 1
    BY <1>1, SMT
  <2> DEFINE n == s + Epoch
  <2> HIDE DEF n
  <2>2. n % Era = IF n < Era THEN n ELSE n - Era
    <3>1. n \in 0..2 * Era - 1
      BY <2>1 DEF n
    <3> QED BY <3>1, <1>1, OneTurn
  <2> QED BY <2>2, <1>1, SMT DEF n
<1>3. CASE s + Epoch < Era
  BY <1>1, <1>2, <1>3, SMT DEF SinceEpoch
<1>4. CASE s + Epoch >= Era
  BY <1>1, <1>2, <1>4, SMT DEF SinceEpoch
<1> QED BY <1>1, <1>3, <1>4, SMT

-----------------------------------------------------------------------------
(* Fractions                                                               *)

LEMMA Factor ==
  ASSUME NEW a \in Int, NEW b \in Int, NEW f \in Nat \ {0}, a * f < b * f
  PROVE  a < b
<1> SUFFICES ASSUME b <= a PROVE FALSE
  BY SMT
<1>1. b * f <= a * f
  BY SMT
<1> QED BY <1>1, SMT

LEMMA Division ==
  ASSUME NEW n \in Nat, NEW d \in Nat \ {0}
  PROVE  n \div d \in Nat /\ (n \div d) * d <= n /\ n < ((n \div d) + 1) * d
<1>1. n \div d \in Int /\ n % d \in 0..d - 1 /\ n = d * (n \div d) + (n % d)
  BY SMT
<1>2. (n \div d) * d <= n /\ n < (n \div d) * d + d
  BY <1>1, SMT
<1>3. n \div d >= 0
  <2>1. (0 - 1) * d < (n \div d) * d
    BY <1>1, <1>2, SMT
  <2>2. 0 - 1 < n \div d
    BY <2>1, <1>1, Factor, SMT
  <2> QED BY <2>2, <1>1, SMT
<1>4. ((n \div d) + 1) * d = (n \div d) * d + d
  BY <1>1, SMT
<1> QED BY <1>1, <1>2, <1>3, <1>4, SMT

\* Rounded down to a part of a second twice, a microsecond is lost at most.
LEMMA MicrosComeThrough ==
  ASSUME NtpAssumption, NEW u \in Nat
  PROVE  LET r == (((u * Fraction) \div Micro) * Micro) \div Fraction
         IN  r \in Nat /\ u - r \in {0, 1}
<1>1. Fraction \in Nat \ {0} /\ Micro \in Nat \ {0} /\ Micro <= Fraction
  BY SMT DEF NtpAssumption
<1> DEFINE f == (u * Fraction) \div Micro
           r == (f * Micro) \div Fraction
<1>2. f \in Nat /\ f * Micro <= u * Fraction /\ u * Fraction < (f + 1) * Micro
  <2>1. u * Fraction \in Nat
    BY <1>1, SMT
  <2> QED BY <2>1, <1>1, Division
<1> HIDE DEF f
<1>3. r \in Nat /\ r * Fraction <= f * Micro /\ f * Micro < (r + 1) * Fraction
  <2>1. f * Micro \in Nat
    BY <1>1, <1>2, SMT
  <2> QED BY <2>1, <1>1, Division
<1> HIDE DEF r
<1>4. r <= u
  <2>1. (r - 1) * Fraction < r * Fraction
    BY <1>1, <1>3, SMT
  <2>2. r * Fraction <= u * Fraction
    <3>1. r * Fraction \in Int /\ f * Micro \in Int /\ u * Fraction \in Int
      BY <1>1, <1>2, <1>3, SMT
    <3> QED BY <3>1, <1>2, <1>3, SMT
  <2>3. r - 1 < u
    <3>1. (r - 1) * Fraction < u * Fraction
      BY <2>1, <2>2, <1>1, <1>3, SMT
    <3> QED BY <3>1, <1>1, <1>3, Factor, SMT
  <2> QED BY <2>3, <1>3, SMT
<1>5. u < r + 2
  <2>1. (f + 1) * Micro = f * Micro + Micro
    BY <1>1, <1>2, SMT
  <2>2. (r + 2) * Fraction = (r + 1) * Fraction + Fraction
    BY <1>1, <1>3, SMT
  <2>3. u * Fraction < (r + 2) * Fraction
    <3>1. /\ u * Fraction \in Int /\ f * Micro \in Int
          /\ (r + 1) * Fraction \in Int
      BY <1>1, <1>2, <1>3, SMT
    <3> QED BY <3>1, <2>1, <2>2, <1>1, <1>2, <1>3, SMT
  <2> QED BY <2>3, <1>1, <1>3, Factor, SMT
<1>6. r \in Nat /\ u - r \in {0, 1}
  BY <1>3, <1>4, <1>5, SMT
<1> QED BY <1>6 DEF r, f

-----------------------------------------------------------------------------
\* syncTime: whatever the widths, an accepted reply sets the clock to the
\* server's time, to the microsecond; any other, and one with a second that the
\* clock cannot hold, leaves it alone.
THEOREM TimeComesThrough ==
  ASSUME NtpAssumption, NEW truth \in Times, NEW reply \in Replies,
         NEW request \in Stamps, NEW time
  PROVE  TimeIsRight(truth, reply, request, time)
<1> DEFINE answer == [reply EXCEPT !.transmit = Stamp(truth)]
<1>1. Accepted(answer, request) <=> Accepted(reply, request)
  BY DEF Accepted, Replies
<1>2. answer.transmit = Stamp(truth)
  BY DEF Replies
<1>3. SinceEpoch(answer.transmit.seconds) = truth.seconds
  <2>1. answer.transmit.seconds = (truth.seconds + Epoch) % Era
    BY <1>2 DEF Stamp
  <2> QED BY <2>1, SecondsComeThrough DEF Times
<1>4. LET r == (answer.transmit.fraction * Micro) \div Fraction
      IN  r \in Nat /\ truth.micro - r \in {0, 1}
  <2>1. answer.transmit.fraction = (truth.micro * Fraction) \div Micro
    BY <1>2 DEF Stamp
  <2>2. truth.micro \in Nat
    BY SMT DEF Times, NtpAssumption
  <2> QED BY <2>1, <2>2, MicrosComeThrough
<1> HIDE DEF answer
<1>5. CASE Accepted(reply, request) /\ truth.seconds < MaxTime
  <2>1. Set(answer, request, time) =
          [seconds |-> truth.seconds,
           micro |-> (answer.transmit.fraction * Micro) \div Fraction]
    BY <1>5, <1>1, <1>3 DEF Set
  <2> QED BY <2>1, <1>4, <1>5, SMT DEF TimeIsRight, answer
<1>6. CASE ~(Accepted(reply, request) /\ truth.seconds < MaxTime)
  <2>1. Set(answer, request, time) = time
    BY <1>6, <1>1, <1>3 DEF Set
  <2> QED BY <2>1, <1>6 DEF TimeIsRight, answer
<1> QED BY <1>5, <1>6

-----------------------------------------------------------------------------
(* Mdns                                                                    *)
(*                                                                         *)
(* The reading of a name is a walk, and each step of it is of a label or a *)
(* jump.  Of what stands in a packet it is shown where the walk comes to,  *)
(* so that a name that was written is the name that is read.               *)

\* One step of the walk in ReadName.
Step(p, w, walk) ==
  IF w.steps = 0 \/ w.at > Len(p) THEN Unread
  ELSE LET len == p[w.at]
       IN  CASE len = 0 ->
                  [ok |-> TRUE, name |-> w.name, pos |-> Place(w.after, w.at + 1)]
             [] len >= Pointer ->
                  IF w.at = Len(p) THEN Unread ELSE walk[Jump(p, w)]
             [] OTHER ->
                  IF len > MaxLabel \/ w.at + len > Len(p) \/ Len(w.name) + len > MaxName
                  THEN Unread ELSE walk[Spell(p, w)]
Walk(p) == CHOOSE walk : walk = [w \in Walks |-> Step(p, w, walk)]
Begun(start) == [steps |-> MaxSteps, at |-> start, after |-> 0, name |-> <<>>]

LEMMA ReadNameWalks ==
  ASSUME NEW p, NEW start
  PROVE  ReadName(p, start) = Walk(p)[Begun(start)]
BY DEF ReadName, Walk, Step, Begun

LEMMA Bounds ==
  ASSUME MdnsAssumption
  PROVE  /\ Header \in Nat /\ MaxName \in Nat /\ MaxSteps \in Nat \ {0}
         /\ MaxQuestions \in Nat \ {0} /\ TypeClass \in Nat /\ TypeClass > 2
BY DEF MdnsAssumption

\* The letters of a label are in the packet.
LEMMA LabelIsText ==
  ASSUME NEW p \in Seq(Nat), NEW a \in Nat \ {0}, NEW n \in Nat, a + n - 1 <= Len(p)
  PROVE  LET label == Lower(SubSeq(p, a, a + n - 1))
         IN  /\ label \in Seq(Nat) /\ Len(label) = n
             /\ \A i \in 1..n : label[i] = ToLower(p[a + i - 1])
<1> DEFINE cut == SubSeq(p, a, a + n - 1)
<1>1. /\ cut \in Seq(Nat) /\ Len(cut) = n /\ \A i \in 1..n : cut[i] = p[a + i - 1]
  <2>1. a \in Int /\ a + n - 1 \in Int /\ \A i \in a..a + n - 1 : p[i] \in Nat
    BY LenProperties
  <2>2. /\ cut \in Seq(Nat)
        /\ Len(cut) = IF a <= a + n - 1 THEN a + n - 1 - a + 1 ELSE 0
        /\ \A i \in 1..a + n - 1 - a + 1 : cut[i] = p[a + i - 1]
    BY <2>1, SubSeqProperties
  <2> HIDE DEF cut
  <2> QED BY <2>2
<1> HIDE DEF cut
<1>2. Lower(cut) = [i \in 1..n |-> ToLower(cut[i])]
  BY <1>1 DEF Lower
<1>3. \A i \in 1..n : ToLower(cut[i]) = ToLower(p[a + i - 1]) /\ ToLower(cut[i]) \in Nat
  <2> SUFFICES ASSUME NEW i \in 1..n PROVE ToLower(cut[i]) = ToLower(p[a + i - 1])
                                           /\ ToLower(cut[i]) \in Nat
    OBVIOUS
  <2>1. cut[i] \in Nat /\ cut[i] = p[a + i - 1]
    BY <1>1
  <2> QED BY <2>1, SMT DEF ToLower
<1> HIDE DEF ToLower
<1> DEFINE low == [i \in 1..n |-> ToLower(cut[i])]
<1>4. low \in Seq(Nat) /\ Len(low) = n /\ \A i \in 1..n : low[i] = ToLower(p[a + i - 1])
  <2>1. low \in [1..n -> Nat] /\ \A i \in 1..n : low[i] = ToLower(p[a + i - 1])
    BY <1>3, Zenon
  <2> HIDE DEF low
  <2> QED BY <2>1
<1> HIDE DEF low
<1> QED BY <1>2, <1>4, Zenon DEF low, cut

LEMMA WalkTypes ==
  ASSUME MdnsAssumption, NEW w \in Walks
  PROVE  /\ w.steps \in 0..MaxSteps /\ w.at \in Nat \ {0} /\ w.after \in Nat
         /\ w.name \in Seq(Nat) /\ w.steps \in Nat
         /\ w.steps # 0 => w.steps - 1 \in 0..MaxSteps
<1>1. /\ w.steps \in 0..MaxSteps /\ w.at \in Nat \ {0} /\ w.after \in Nat /\ w.name \in Seq(Nat)
  BY DEF Walks
<1> QED BY <1>1, Bounds

\* A jump and a label lead on, with a step less.
LEMMA JumpLeads ==
  ASSUME MdnsAssumption, NEW p \in Seq(Nat), NEW w \in Walks, w.steps # 0, w.at \in 1..Len(p) - 1,
         p[w.at] >= Pointer
  PROVE  Jump(p, w) \in Walks /\ Jump(p, w).steps = w.steps - 1
<1>1. p[w.at] \in Nat /\ p[w.at + 1] \in Nat /\ Len(p) \in Nat
  BY LenProperties
<1>2. 1 + (p[w.at] - Pointer) * 256 + p[w.at + 1] \in Nat \ {0}
  <2> DEFINE d == p[w.at] - Pointer
             b == p[w.at + 1]
  <2>1. d \in Nat /\ b \in Nat
    BY <1>1 DEF Pointer
  <2> HIDE DEF d, b
  <2>2. 1 + d * 256 + b \in Nat \ {0}
    BY <2>1
  <2> QED BY <2>2 DEF d, b
<1>3. /\ w.steps \in 0..MaxSteps /\ w.at \in Nat \ {0} /\ w.after \in Nat /\ w.name \in Seq(Nat)
      /\ w.steps - 1 \in 0..MaxSteps
  BY WalkTypes
<1>4. w.at + 2 \in Nat
  BY <1>3
<1>5. Place(w.after, w.at + 2) \in Nat
  BY <1>3, <1>4 DEF Place
<1> QED BY <1>2, <1>3, <1>5 DEF Jump, Walks

LEMMA Places ==
  ASSUME NEW a \in Nat \ {0}, NEW n \in Nat
  PROVE  /\ a + 1 \in Nat \ {0} /\ a + 1 + n \in Nat \ {0} /\ a + 1 + n - 1 = a + n
         /\ (a + 1 + n) - 1 = a + n
OBVIOUS

LEMMA SpellLeads ==
  ASSUME MdnsAssumption, NEW p \in Seq(Nat), NEW w \in Walks, w.steps # 0,
         w.at \in 1..Len(p), w.at + p[w.at] <= Len(p)
  PROVE  LET n == p[w.at]
             label == Lower(SubSeq(p, w.at + 1, w.at + n))
             next == Spell(p, w)
         IN  /\ next \in Walks /\ next.steps = w.steps - 1 /\ next.at = w.at + 1 + n
             /\ next.after = w.after
             /\ label \in Seq(Nat) /\ Len(label) = n
             /\ next.name = (IF w.name = <<>> THEN <<>> ELSE Append(w.name, Dot)) \o label
             /\ Len(next.name) <= Len(w.name) + n + 1
<1> DEFINE n == p[w.at]
           label == Lower(SubSeq(p, w.at + 1, w.at + n))
           before == IF w.name = <<>> THEN <<>> ELSE Append(w.name, Dot)
           name == before \o label
           next == w.at + 1 + n
<1>1. n \in Nat /\ Len(p) \in Nat
  BY LenProperties
<1>2. /\ w.steps \in 0..MaxSteps /\ w.at \in Nat \ {0} /\ w.after \in Nat /\ w.name \in Seq(Nat)
      /\ w.steps - 1 \in 0..MaxSteps
  BY WalkTypes
<1> HIDE DEF n
<1>3. label \in Seq(Nat) /\ Len(label) = n
  <2>1. w.at + 1 \in Nat \ {0} /\ w.at + 1 + n - 1 <= Len(p) /\ w.at + 1 + n - 1 = w.at + n
    <3>1. w.at + n <= Len(p)
      BY DEF n
    <3> QED BY <3>1, <1>1, <1>2, Places, Zenon
  <2>2. /\ Lower(SubSeq(p, w.at + 1, w.at + 1 + n - 1)) \in Seq(Nat)
        /\ Len(Lower(SubSeq(p, w.at + 1, w.at + 1 + n - 1))) = n
    BY <2>1, <1>1, LabelIsText, Zenon
  <2> QED BY <2>1, <2>2, Zenon
<1> HIDE DEF label
<1>4. before \in Seq(Nat) /\ Len(before) <= Len(w.name) + 1 /\ Len(before) \in Nat
  <2>1. Append(w.name, Dot) \in Seq(Nat) /\ Len(Append(w.name, Dot)) = Len(w.name) + 1
        /\ Len(w.name) \in Nat
    BY <1>2, AppendProperties DEF Dot
  <2>2. <<>> \in Seq(Nat) /\ Len(<<>>) = 0
    OBVIOUS
  <2> QED BY <2>1, <2>2
<1> HIDE DEF before
<1>5. name \in Seq(Nat) /\ Len(name) = Len(before) + n
  BY <1>3, <1>4, ConcatProperties
<1> HIDE DEF name
<1>6. next \in Nat \ {0} /\ next - 1 = w.at + n
  <2>1. n \in Nat /\ w.at \in Nat \ {0}
    BY <1>1, <1>2
  <2> QED BY <2>1, Places, Zenon
<1> HIDE DEF next
<1>7. Spell(p, w) = [steps |-> w.steps - 1, at |-> next, after |-> w.after, name |-> name]
  BY <1>6, Zenon DEF Spell, next, name, before, label, n
<1>9. Spell(p, w) \in Walks
  BY <1>2, <1>5, <1>6, <1>7 DEF Walks
<1>10. /\ Spell(p, w).steps = w.steps - 1 /\ Spell(p, w).at = next /\ Spell(p, w).name = name
       /\ Spell(p, w).after = w.after
  BY <1>7
<1>11. Len(name) <= Len(w.name) + n + 1
  BY <1>1, <1>2, <1>4, <1>5
<1> QED BY <1>3, <1>9, <1>10, <1>11, Zenon DEF n, label, next, name, before

\* The walk of a name exists, since each step of it has one step less to go.
LEMMA WalkSteps ==
  ASSUME MdnsAssumption, NEW p \in Seq(Nat), NEW w \in Walks
  PROVE  Walk(p)[w] = Step(p, w, Walk(p))
<1> DEFINE Done(v) ==
             \/ v.steps = 0 \/ v.at > Len(p) \/ p[v.at] = 0
             \/ p[v.at] >= Pointer /\ v.at = Len(p)
             \/ ~(p[v.at] >= Pointer)
                /\ \/ p[v.at] > MaxLabel \/ v.at + p[v.at] > Len(p)
                   \/ Len(v.name) + p[v.at] > MaxName
           done == {v \in Walks : Done(v)}
           out == [v \in Walks |-> Step(p, v, <<>>)]
           next == [v \in Walks |-> IF p[v.at] >= Pointer THEN Jump(p, v) ELSE Spell(p, v)]
           m == [v \in Walks |-> v.steps]
           R == {Step(p, v, <<>>) : v \in Walks}
           same == [v \in Walks |-> [r \in R |-> r]]
<1>1. ASSUME NEW v \in Walks, v \notin done
      PROVE  next[v] \in Walks /\ m[next[v]] < m[v]
  <2>1. /\ v.steps # 0 /\ ~(v.at > Len(p))
        /\ p[v.at] >= Pointer => v.at # Len(p)
        /\ ~(p[v.at] >= Pointer) => ~(v.at + p[v.at] > Len(p))
    BY <1>1
  <2>2. v.steps \in Nat /\ v.at \in Nat \ {0} /\ Len(p) \in Nat
    BY LenProperties, Bounds DEF Walks
  <2>3. v.at \in 1..Len(p) /\ p[v.at] \in Nat
    BY <2>1, <2>2
  <2>4. CASE p[v.at] >= Pointer
    <3>1. v.at \in 1..Len(p) - 1
      BY <2>1, <2>2, <2>4
    <3>2. Jump(p, v) \in Walks /\ Jump(p, v).steps = v.steps - 1
      BY <3>1, <2>1, <2>4, JumpLeads
    <3> QED BY <3>2, <2>2, <2>4
  <2>5. CASE ~(p[v.at] >= Pointer)
    <3>1. v.at + p[v.at] <= Len(p)
      BY <2>1, <2>2, <2>3, <2>5
    <3>2. Spell(p, v) \in Walks /\ Spell(p, v).steps = v.steps - 1
      BY <3>1, <2>1, <2>3, SpellLeads
    <3> QED BY <3>2, <2>2, <2>5
  <2> QED BY <2>4, <2>5
<1>2. \A v \in Walks : m[v] \in 0..MaxSteps
  BY DEF Walks
<1>3. \A v \in Walks : out[v] \in R
  OBVIOUS
<1>4. \A v \in Walks, r \in R : same[v][r] = r
  OBVIOUS
<1>5. \A v \in Walks : \A f : Step(p, v, f) = IF v \in done THEN out[v] ELSE f[next[v]]
  <2> SUFFICES ASSUME NEW v \in Walks, NEW f
               PROVE  Step(p, v, f) = IF v \in done THEN out[v] ELSE f[next[v]]
    OBVIOUS
  <2>1. out[v] = Step(p, v, <<>>) /\ (v \in done <=> Done(v))
    OBVIOUS
  <2>2. next[v] = IF p[v.at] >= Pointer THEN Jump(p, v) ELSE Spell(p, v)
    OBVIOUS
  <2> HIDE DEF done, out, next
  <2>3. CASE Done(v)
    <3>1. p[v.at] = 0 => ~(p[v.at] >= Pointer)
      BY DEF Pointer
    <3>2. Step(p, v, f) = Step(p, v, <<>>)
      BY <3>1, <2>3, Zenon DEF Step
    <3> QED BY <3>2, <2>1, <2>3, Zenon
  <2>4. CASE ~Done(v)
    <3>1. Step(p, v, f) = f[next[v]]
      BY <2>2, <2>4 DEF Step
    <3> QED BY <3>1, <2>1, <2>4
  <2> QED BY <2>3, <2>4
<1> HIDE DEF R, same, out, next, m, done
<1>6. PICK f : IsIterated(f, Walks, R, done, out, next, same)
  <2>1. /\ MaxSteps \in Nat
        /\ \A v \in Walks : m[v] \in 0..MaxSteps
        /\ \A v \in Walks \cap done : out[v] \in R
        /\ \A v \in Walks \ done : next[v] \in Walks /\ m[next[v]] < m[v]
        /\ \A v \in Walks \ done, r \in R : same[v][r] \in R
    BY <1>1, <1>2, <1>3, <1>4, Bounds
  <2>2. Iterable(Walks, R, done, out, next, same, m, MaxSteps)
    BY <2>1, Zenon DEF Iterable
  <2> QED BY <2>2, Iterates, Zenon
<1>7. \A v \in Walks : f[v] = Step(p, v, f)
  BY <1>1, <1>4, <1>5, <1>6 DEF IsIterated
<1>8. f = [v \in Walks |-> Step(p, v, f)]
  BY <1>6, <1>7 DEF IsIterated
<1>9. Walk(p) = [v \in Walks |-> Step(p, v, Walk(p))]
  <2> DEFINE Is(g) == g = [v \in Walks |-> Step(p, v, g)]
  <2>1. Is(f)
    BY <1>8
  <2> HIDE DEF Is
  <2>2. Is(CHOOSE g : Is(g))
    BY <2>1
  <2> QED BY <2>2, Zenon DEF Is, Walk
<1> QED
  <2> DEFINE g(v) == Step(p, v, Walk(p))
  <2>1. Walk(p) = [v \in Walks |-> g(v)]
    BY <1>9
  <2> HIDE DEF g
  <2>2. Walk(p)[w] = g(w)
    BY <2>1
  <2> QED BY <2>2 DEF g

\* readName (Tc002Mdns.cpp:21): whatever the bytes, and wherever they jump, it comes to
\* an end inside of the packet, behind where it began, with a name that is not too long.
LEMMA NameEndsInside ==
  ASSUME MdnsAssumption, NEW p \in Seq(Nat), NEW start \in Nat \ {0}
  PROVE  LET q == ReadName(p, start)
         IN  q.ok => /\ q.pos \in start + 1..Len(p) + 1 /\ q.name \in Seq(Nat)
                     /\ Len(q.name) <= MaxName + 1
<1> DEFINE Fine(w) ==
             /\ w.after = 0 => w.at >= start
             /\ w.after # 0 => w.after \in start + 1..Len(p) + 1
             /\ Len(w.name) <= MaxName + 1
           Right(q) ==
             q.ok => /\ q.pos \in start + 1..Len(p) + 1 /\ q.name \in Seq(Nat)
                     /\ Len(q.name) <= MaxName + 1
           T == {n \in Nat : \A w \in Walks : w.steps = n /\ Fine(w) => Right(Walk(p)[w])}
<1>1. /\ Len(p) \in Nat /\ start \in Nat \ {0} /\ MaxName \in Nat
      /\ MaxSteps \in Nat \ {0}
  BY LenProperties, Bounds
<1>2. Right(Unread)
  BY DEF Unread
<1>3. ASSUME NEW w \in Walks, Fine(w), w.at <= Len(p), NEW a \in {w.at + 1, w.at + 2},
             a <= Len(p) + 1
      PROVE  Place(w.after, a) \in start + 1..Len(p) + 1
  <2>1. w.after \in Nat /\ w.at \in Nat
    BY WalkTypes
  <2>2. CASE w.after = 0
    BY <2>1, <2>2, <1>1, <1>3 DEF Place
  <2>3. CASE w.after # 0
    BY <2>3, <1>3 DEF Place
  <2> QED BY <2>2, <2>3
<1>4. 0 \in T
  <2> SUFFICES ASSUME NEW w \in Walks, w.steps = 0
               PROVE  Right(Walk(p)[w])
    OBVIOUS
  <2>1. Walk(p)[w] = Step(p, w, Walk(p))
    BY WalkSteps
  <2>2. Walk(p)[w] = Unread
    BY <2>1 DEF Step
  <2> QED BY <2>2, <1>2
<1>5. ASSUME NEW n \in 0..MaxSteps - 1, n \in T
      PROVE  n + 1 \in T
  <2>n. n + 1 \in Nat /\ n \in Nat
    BY <1>1
  <2> SUFFICES ASSUME NEW w \in Walks, w.steps = n + 1, Fine(w)
               PROVE  Right(Walk(p)[w])
    BY <2>n
  <2>0. \A v \in Walks : v.steps = n /\ Fine(v) => Right(Walk(p)[v])
    BY <1>5
  <2>1. Walk(p)[w] = Step(p, w, Walk(p))
    BY WalkSteps
  <2>2. /\ w.steps \in Nat /\ w.at \in Nat \ {0} /\ w.after \in Nat /\ w.name \in Seq(Nat)
        /\ w.steps # 0 /\ w.steps - 1 = n /\ Len(w.name) \in Nat
    BY WalkTypes, LenProperties, <2>n
  <2>3. CASE w.at > Len(p)
    <3>1. Walk(p)[w] = Unread
      BY <2>1, <2>3 DEF Step
    <3> QED BY <3>1, <1>2
  <2>4. CASE ~(w.at > Len(p))
    <3>1. w.at \in 1..Len(p) /\ w.at <= Len(p) /\ p[w.at] \in Nat
      BY <2>2, <2>4, <1>1
    <3> DEFINE len == p[w.at]
    <3> HIDE DEF Right, Fine
    <3>2. CASE len = 0
      <4>1. Walk(p)[w] = [ok |-> TRUE, name |-> w.name, pos |-> Place(w.after, w.at + 1)]
        <5>1. ~(0 >= Pointer)
          BY DEF Pointer
        <5> QED BY <5>1, <2>1, <2>2, <2>4, <3>2, Zenon DEF Step
      <4>2. Place(w.after, w.at + 1) \in start + 1..Len(p) + 1
        BY <1>3, <3>1, <2>2, <1>1
      <4> QED BY <4>1, <4>2, <2>2 DEF Right, Fine
    <3>3. CASE len # 0 /\ len >= Pointer
      <4>1. CASE w.at = Len(p)
        <5>1. Walk(p)[w] = Unread
          BY <2>1, <2>2, <2>4, <3>3, <4>1 DEF Step
        <5> QED BY <5>1, <1>2
      <4>2. CASE w.at # Len(p)
        <5>1. Walk(p)[w] = Walk(p)[Jump(p, w)]
          BY <2>1, <2>2, <2>4, <3>3, <4>2, Zenon DEF Step
        <5>2. w.at \in 1..Len(p) - 1
          BY <3>1, <4>2, <1>1
        <5>3. Jump(p, w) \in Walks /\ Jump(p, w).steps = n
          BY <5>2, <3>3, <2>2, JumpLeads
        <5>4. Place(w.after, w.at + 2) \in start + 1..Len(p) + 1
          BY <1>3, <5>2, <3>1, <2>2, <1>1
        <5>5. Jump(p, w).after = Place(w.after, w.at + 2) /\ Jump(p, w).name = w.name
          BY DEF Jump
        <5>6. Fine(Jump(p, w))
          BY <5>4, <5>5, <1>1 DEF Fine
        <5> QED BY <5>1, <5>3, <5>6, <2>0
      <4> QED BY <4>1, <4>2
    <3>4. CASE len # 0 /\ ~(len >= Pointer)
      <4>1. CASE len > MaxLabel \/ w.at + len > Len(p) \/ Len(w.name) + len > MaxName
        <5>1. Walk(p)[w] = Unread
          BY <2>1, <2>2, <2>4, <3>4, <4>1, Zenon DEF Step
        <5> QED BY <5>1, <1>2
      <4>2. CASE ~(len > MaxLabel \/ w.at + len > Len(p) \/ Len(w.name) + len > MaxName)
        <5>1. Walk(p)[w] = Walk(p)[Spell(p, w)]
          BY <2>1, <2>2, <2>4, <3>4, <4>2, Zenon DEF Step
        <5>2. w.at + p[w.at] <= Len(p) /\ Len(w.name) + p[w.at] <= MaxName
          <6> DEFINE l == Len(w.name)
          <6>1. ~(w.at + len > Len(p)) /\ ~(l + len > MaxName)
            BY <4>2, Zenon
          <6>2. w.at \in Nat /\ len \in Nat /\ l \in Nat
            BY <3>1, <2>2
          <6> HIDE DEF len, l
          <6>3. w.at + len <= Len(p) /\ l + len <= MaxName
            BY <6>1, <6>2, <1>1
          <6> QED BY <6>3 DEF len, l
        <5>3. /\ Spell(p, w) \in Walks /\ Spell(p, w).steps = n
              /\ Spell(p, w).at = w.at + 1 + p[w.at] /\ Spell(p, w).after = w.after
              /\ Len(Spell(p, w).name) <= Len(w.name) + p[w.at] + 1
          BY <5>2, <3>1, <2>2, SpellLeads
        <5>4. Len(Spell(p, w).name) \in Nat
          BY <5>3, WalkTypes, LenProperties
        <5>5. Fine(Spell(p, w))
          <6> DEFINE l == Len(w.name)
                     k == Len(Spell(p, w).name)
          <6>1. /\ w.at \in Nat /\ len \in Nat /\ l \in Nat /\ k \in Nat
                /\ l + len <= MaxName /\ k <= l + len + 1
            BY <5>2, <5>3, <5>4, <3>1, <2>2
          <6> HIDE DEF len, l, k
          <6>2. k <= MaxName + 1 /\ w.at + 1 + len >= w.at
            BY <6>1, <1>1
          <6>3. w.at >= start => w.at + 1 + len >= start
            BY <6>1, <1>1
          <6>4. Spell(p, w).at = w.at + 1 + len /\ Spell(p, w).after = w.after
            BY <5>3 DEF len
          <6> QED BY <6>2, <6>3, <6>4, Zenon DEF Fine, k
        <5> QED BY <5>1, <5>3, <5>5, <2>0
      <4> QED BY <4>1, <4>2
    <3> QED BY <3>2, <3>3, <3>4
  <2> QED BY <2>3, <2>4
<1>6. \A n \in 0..MaxSteps : n \in T
  <2> HIDE DEF T
  <2>1. MaxSteps \in Nat
    BY Bounds
  <2> QED BY <2>1, <1>4, <1>5, UpTo
<1>7. Begun(start) \in Walks /\ Begun(start).steps = MaxSteps /\ Fine(Begun(start))
  BY <1>1, Bounds DEF Begun, Walks
<1>8. Right(Walk(p)[Begun(start)])
  <2>1. MaxSteps \in 0..MaxSteps
    BY Bounds
  <2> HIDE DEF Right, Fine
  <2> QED BY <2>1, <1>6, <1>7
<1> QED BY <1>8, ReadNameWalks

\* readName: whatever the bytes of a packet and wherever its names jump, reading one
\* comes to an end, inside of the packet and behind where the name began.
THEOREM NamesAreInside ==
  ASSUME MdnsAssumption, NEW p \in Seq(Nat), NEW here \in Nat \ {0}
  PROVE  NameIsInside(p, here)
BY NameEndsInside, Zenon DEF NameIsInside
-----------------------------------------------------------------------------
(* A name as it grows                                                      *)

Label == {l \in Seq(Nat) : Len(l) \in 1..MaxLabel}

TextParts(labels) == [i \in DOMAIN labels |-> <<Dot>> \o Lower(labels[i])]

NameTo(g, k) == IF k = 0 THEN <<>> ELSE Tail(g[k])

\* A label of a name has 1 to 63 letters; its text begins with a dot.
LEMMA LabelTypes ==
  ASSUME NEW l \in Label
  PROVE  /\ l \in Seq(Nat) /\ Len(l) \in 1..MaxLabel /\ Len(l) \in Nat \ {0}
         /\ Lower(l) \in Seq(Nat) /\ Len(Lower(l)) = Len(l)
         /\ \A i \in 1..Len(l) : Lower(l)[i] = ToLower(l[i])
         /\ <<Dot>> \o Lower(l) \in Seq(Nat) /\ Len(<<Dot>> \o Lower(l)) = 1 + Len(l)
<1>1. l \in Seq(Nat) /\ Len(l) \in 1..MaxLabel /\ Len(l) \in Nat \ {0}
  <2>1. l \in Seq(Nat) /\ Len(l) \in 1..MaxLabel
    BY DEF Label
  <2>2. Len(l) \in Nat /\ Len(l) >= 1
    BY <2>1, LenProperties
  <2> QED BY <2>1, <2>2
<1>2. \A i \in 1..Len(l) : ToLower(l[i]) \in Nat
  <2> SUFFICES ASSUME NEW i \in 1..Len(l) PROVE ToLower(l[i]) \in Nat
    OBVIOUS
  <2>1. l[i] \in Nat
    BY <1>1
  <2> QED BY <2>1 DEF ToLower
<1> DEFINE low == [i \in 1..Len(l) |-> ToLower(l[i])]
<1>3. low \in [1..Len(l) -> Nat] /\ \A i \in 1..Len(l) : low[i] = ToLower(l[i])
  BY <1>2, Zenon
<1>4. Lower(l) = low
  BY <1>1 DEF Lower
<1> HIDE DEF low
<1>5. low \in Seq(Nat) /\ Len(low) = Len(l)
  BY <1>1, <1>3
<1>6. <<Dot>> \in Seq(Nat) /\ Len(<<Dot>>) = 1
  BY DEF Dot
<1>7. <<Dot>> \o low \in Seq(Nat) /\ Len(<<Dot>> \o low) = 1 + Len(l)
  BY <1>5, <1>6, ConcatProperties
<1> QED BY <1>1, <1>3, <1>4, <1>5, <1>7, Zenon

LEMMA TextTypes ==
  ASSUME NEW labels \in Seq(Label)
  PROVE  /\ TextParts(labels) \in Seq(Seq(Nat)) /\ Len(TextParts(labels)) = Len(labels)
         /\ \A i \in 1..Len(labels) : labels[i] \in Label
                                      /\ TextParts(labels)[i] = <<Dot>> \o Lower(labels[i])
<1>1. /\ Len(labels) \in Nat /\ DOMAIN labels = 1..Len(labels)
      /\ \A i \in 1..Len(labels) : labels[i] \in Label
  BY LenProperties
<1> DEFINE n == Len(labels)
           parts == [i \in 1..n |-> <<Dot>> \o Lower(labels[i])]
<1>2. parts \in [1..n -> Seq(Nat)]
  BY <1>1, LabelTypes
<1>3. \A i \in 1..n : parts[i] = <<Dot>> \o Lower(labels[i])
  OBVIOUS
<1>4. TextParts(labels) = parts
  BY <1>1 DEF TextParts
<1> HIDE DEF parts
<1>5. parts \in Seq(Seq(Nat)) /\ Len(parts) = n
  BY <1>1, <1>2
<1> QED BY <1>1, <1>3, <1>4, <1>5, Zenon

\* A name grows by a dot and a label, the first time by the label alone.
LEMMA NameGrows ==
  ASSUME NEW labels \in Seq(Label), NEW g, Joins(g, TextParts(labels), Nat),
         NEW k \in 1..Len(labels)
  PROVE  LET old == NameTo(g, k - 1)
         IN  /\ NameTo(g, k) = (IF old = <<>> THEN <<>> ELSE Append(old, Dot)) \o Lower(labels[k])
             /\ old \in Seq(Nat) /\ NameTo(g, k) \in Seq(Nat)
             /\ Len(old) + Len(labels[k]) <= Len(g[Len(labels)]) - 1
<1> DEFINE n == Len(labels)
           old == NameTo(g, k - 1)
           low == Lower(labels[k])
           dotted == <<Dot>> \o low
<1>1. /\ n \in Nat /\ k \in 1..n /\ k - 1 \in 0..n /\ k \in 0..n
      /\ labels[k] \in Label /\ TextParts(labels)[k] = dotted
      /\ TextParts(labels) \in Seq(Seq(Nat)) /\ Len(TextParts(labels)) = n
  BY TextTypes, LenProperties
<1>2. /\ low \in Seq(Nat) /\ Len(low) = Len(labels[k]) /\ Len(labels[k]) \in Nat \ {0}
      /\ dotted \in Seq(Nat) /\ Len(dotted) = 1 + Len(low)
  BY <1>1, LabelTypes
<1> HIDE DEF n
<1>3. /\ g[k] = g[k - 1] \o dotted /\ g[0] = <<>>
      /\ g[k - 1] \in Seq(Nat) /\ g[k] \in Seq(Nat)
  BY <1>1 DEF Joins
<1>4. /\ Len(g[k]) \in 0..Len(g[n]) /\ Len(g[k]) = Len(g[k - 1]) + Len(dotted)
      /\ Len(g[k - 1]) \in 0..Len(g[n]) /\ Len(g[n]) \in Nat
      /\ \A i \in 1..n : Len(g[i]) = Len(g[i - 1]) + Len(TextParts(labels)[i])
      /\ \A i \in 0..n : Len(g[i]) \in Nat
  <2>1. /\ \A i \in 0..n : g[i] \in Seq(Nat) /\ Len(g[i]) \in 0..Len(g[n])
        /\ \A i \in 1..n : Len(g[i]) = Len(g[i - 1]) + Len(TextParts(labels)[i])
    <3> DEFINE parts == TextParts(labels)
    <3>1. parts \in Seq(Seq(Nat)) /\ Len(parts) = n /\ Joins(g, parts, Nat)
      BY <1>1
    <3> HIDE DEF parts
    <3>a. Stacks(g, parts, Nat)
      BY <3>1, JoinedStand
    <3>2. /\ \A i \in 0..Len(parts) : g[i] \in Seq(Nat) /\ Len(g[i]) \in 0..Len(g[Len(parts)])
          /\ \A i \in 1..Len(parts) : Len(g[i]) = Len(g[i - 1]) + Len(parts[i])
      BY <3>a, Zenon DEF Stacks
    <3> QED BY <3>1, <3>2, Zenon DEF parts
  <2>2. \A i \in 0..n : Len(g[i]) \in Nat
    BY <2>1, LenProperties
  <2>3. n \in 0..n
    BY <1>1
  <2> QED BY <2>1, <2>2, <2>3, <1>1
<1> HIDE DEF dotted
<1>5. CASE k = 1
  <2>1. old = <<>> /\ Len(old) = 0 /\ g[0] = <<>> /\ k - 1 = 0
    BY <1>3, <1>5 DEF NameTo
  <2>2. g[k] = dotted
    BY <2>1, <1>2, <1>3, ConcatEmptySeq
  <2>3. Tail(dotted) = low
    <3>1. <<Dot>> \in Seq(Nat) /\ <<Dot>> # <<>> /\ Tail(<<Dot>>) = <<>>
      BY DEF Dot
    <3>2. Tail(dotted) = Tail(<<Dot>>) \o low
      BY <3>1, <1>2, TailOfConcat DEF dotted
    <3> QED BY <3>1, <3>2, <1>2, ConcatEmptySeq
  <2>4. NameTo(g, k) = low
    BY <2>2, <2>3, <1>5 DEF NameTo
  <2>5. Len(g[k - 1]) = 0
    BY <2>1
  <2>6. Len(old) + Len(labels[k]) <= Len(g[n]) - 1
    BY <2>1, <2>5, <1>2, <1>4
  <2>7. low = <<>> \o low /\ <<>> \in Seq(Nat)
    BY <1>2, ConcatEmptySeq
  <2> HIDE DEF old
  <2> QED BY <2>1, <2>4, <2>6, <2>7, <1>2, Zenon DEF n, old, low
<1>6. CASE k # 1
  <2>1. k - 1 \in 1..n /\ k - 1 # 0 /\ (k - 1) - 1 \in 0..n /\ k # 0
    BY <1>1, <1>6
  <2>2. Len(TextParts(labels)[k - 1]) \in Nat /\ Len(TextParts(labels)[k - 1]) >= 2
    <3>1. TextParts(labels)[k - 1] = <<Dot>> \o Lower(labels[k - 1]) /\ labels[k - 1] \in Label
      BY <2>1, TextTypes DEF n
    <3>2. Len(TextParts(labels)[k - 1]) = 1 + Len(labels[k - 1]) /\ Len(labels[k - 1]) \in Nat \ {0}
      BY <3>1, LabelTypes
    <3> QED BY <3>2
  <2>3. Len(g[k - 1]) \in Nat /\ Len(g[k - 1]) >= 2
    <3>1. /\ Len(g[k - 1]) = Len(g[(k - 1) - 1]) + Len(TextParts(labels)[k - 1])
          /\ Len(g[(k - 1) - 1]) \in Nat
      BY <2>1, <1>4
    <3> DEFINE a == Len(g[(k - 1) - 1])
               b == Len(TextParts(labels)[k - 1])
    <3>2. a \in Nat /\ b \in Nat /\ b >= 2
      BY <3>1, <2>2
    <3> HIDE DEF a, b
    <3>3. a + b \in Nat /\ a + b >= 2
      BY <3>2
    <3> QED BY <3>1, <3>3, Zenon DEF a, b
  <2>4. g[k - 1] # <<>>
    BY <2>3, EmptySeq
  <2>5. old = Tail(g[k - 1]) /\ NameTo(g, k) = Tail(g[k])
    BY <2>1, <1>1 DEF NameTo
  <2>6. old \in Seq(Nat) /\ Len(old) = Len(g[k - 1]) - 1
    BY <2>4, <2>5, <1>3, HeadTailProperties
  <2> HIDE DEF old, low
  <2>7. old # <<>>
    BY <2>3, <2>6, EmptySeq
  <2>8. NameTo(g, k) = old \o dotted
    BY <2>4, <2>5, <1>2, <1>3, TailOfConcat
  <2>9. dotted = <<Dot>> \o low /\ <<Dot>> \in Seq(Nat)
    BY DEF dotted, Dot
  <2>10. Append(old, Dot) = old \o <<Dot>>
    BY <2>6, AppendIsConcat DEF Dot
  <2>11. old \o (<<Dot>> \o low) = (old \o <<Dot>>) \o low
    BY <2>6, <2>9, <1>2, Regroups, Zenon
  <2>12. NameTo(g, k) = Append(old, Dot) \o low
    BY <2>8, <2>9, <2>10, <2>11, Zenon
  <2>13. NameTo(g, k) \in Seq(Nat)
    BY <2>6, <2>8, <1>2, ConcatProperties
  <2>14. Len(old) + Len(labels[k]) <= Len(g[n]) - 1
    <3> DEFINE a == Len(g[k - 1])
               b == Len(labels[k])
               c == Len(g[k])
               d == Len(g[n])
    <3>1. /\ a \in Nat /\ b \in Nat /\ d \in Nat /\ c \in 0..d
          /\ c = a + Len(dotted) /\ Len(dotted) = 1 + b
      BY <2>3, <1>2, <1>4
    <3>2. Len(old) = a - 1
      BY <2>6
    <3> HIDE DEF a, b, c, d
    <3>3. (a - 1) + b <= d - 1
      BY <3>1
    <3> QED BY <3>2, <3>3, Zenon DEF a, b, d
  <2> QED BY <2>6, <2>7, <2>12, <2>13, <2>14, Zenon DEF old, low, n
<1> QED BY <1>5, <1>6

-----------------------------------------------------------------------------
(* Labels one after the other in a packet                                  *)

At(steps, here, after, name) == [steps |-> steps, at |-> here, after |-> after, name |-> name]

LabelAt(p, here, l) ==
  here + Len(l) <= Len(p) /\ p[here] = Len(l) /\ \A j \in 1..Len(l) : p[here + j] = l[j]

\* The label that stands in a packet is the one that is read.
LEMMA ReadsLabel ==
  ASSUME NEW p \in Seq(Nat), NEW here \in Nat \ {0}, NEW l \in Label, LabelAt(p, here, l)
  PROVE  Lower(SubSeq(p, here + 1, here + Len(l))) = Lower(l)
<1> DEFINE n == Len(l)
           a == here + 1
           got == Lower(SubSeq(p, a, a + n - 1))
           low == Lower(l)
<1>1. /\ n \in Nat \ {0} /\ low \in Seq(Nat) /\ Len(low) = n
      /\ \A i \in 1..n : low[i] = ToLower(l[i])
  BY LabelTypes, Zenon
<1>2. /\ here + n <= Len(p) /\ \A j \in 1..n : p[here + j] = l[j]
  BY DEF LabelAt
<1> HIDE DEF n
<1>3. a \in Nat \ {0} /\ a + n - 1 = here + n /\ a + n - 1 <= Len(p) /\ n \in Nat
  BY <1>1, <1>2
<1> HIDE DEF a
<1>4. got \in Seq(Nat) /\ Len(got) = n /\ \A i \in 1..n : got[i] = ToLower(p[a + i - 1])
  BY <1>3, LabelIsText, Zenon
<1> HIDE DEF got, low
<1>5. \A i \in 1..n : a + i - 1 = here + i
  BY <1>1 DEF a
<1>6. \A i \in 1..n : got[i] = low[i]
  BY <1>1, <1>2, <1>4, <1>5, Zenon
<1>7. got = low
  BY <1>1, <1>4, <1>6, SeqEqual
<1> QED BY <1>3, <1>7, Zenon DEF got, low, a, n

Named(labels, g) ==
  Joins(g, TextParts(labels), Nat) /\ Len(g[Len(labels)]) - 1 <= MaxName

\* From w the walk comes to v.
Leads(p, w, v) == Walk(p)[w] = Walk(p)[v]

\* The walk takes a label of the name, one after another ...
LEMMA WalkLabel ==
  ASSUME MdnsAssumption, NEW p \in Seq(Nat), NEW labels \in Seq(Label), NEW g, Named(labels, g),
         NEW k \in 1..Len(labels), NEW here \in Nat \ {0}, LabelAt(p, here, labels[k]),
         NEW steps \in 1..MaxSteps, NEW after \in Nat
  PROVE  Leads(p, At(steps, here, after, NameTo(g, k - 1)),
                  At(steps - 1, here + 1 + Len(labels[k]), after, NameTo(g, k)))
<1> DEFINE l == labels[k]
           n == Len(l)
           old == NameTo(g, k - 1)
           new == NameTo(g, k)
           w == At(steps, here, after, old)
           top == Len(g[Len(labels)])
<1>0. /\ labels \in Seq(Label) /\ Joins(g, TextParts(labels), Nat)
      /\ Len(g[Len(labels)]) - 1 <= MaxName
  BY DEF Named
<1>1. l \in Label
  BY <1>0, TextTypes
<1>2. /\ n \in Nat \ {0} /\ n <= MaxLabel /\ Lower(l) \in Seq(Nat)
  <2>1. n \in Nat \ {0} /\ n \in 1..MaxLabel /\ Lower(l) \in Seq(Nat)
    BY <1>1, LabelTypes, Zenon
  <2> HIDE DEF n, l, old, new, w, top
  <2>2. n <= MaxLabel
    BY <2>1 DEF MaxLabel
  <2> QED BY <2>1, <2>2, Zenon
<1>3. /\ new = (IF old = <<>> THEN <<>> ELSE Append(old, Dot)) \o Lower(l)
      /\ old \in Seq(Nat) /\ Len(old) + n <= top - 1 /\ top - 1 <= MaxName
  BY <1>0, NameGrows, Zenon
<1>4. p[here] = n /\ here + n <= Len(p) /\ LabelAt(p, here, l)
  BY DEF LabelAt
<1>5. Lower(SubSeq(p, here + 1, here + n)) = Lower(l)
  BY <1>1, <1>4, ReadsLabel
<1> HIDE DEF l, n, old, new, top
<1>6. Len(p) \in Nat /\ MaxSteps \in Nat /\ MaxName \in Nat /\ Len(old) \in Nat
  BY <1>3, LenProperties, Bounds
<1>t. top \in Nat
  <2>1. TextParts(labels) \in Seq(Seq(Nat)) /\ Len(TextParts(labels)) = Len(labels)
        /\ Len(labels) \in Nat
    BY <1>0, TextTypes, LenProperties
  <2>2. g \in [0..Len(labels) -> Seq(Nat)]
    BY <1>0, <2>1, Zenon DEF Joins
  <2>a. Len(labels) \in 0..Len(labels)
    BY <2>1
  <2>3. g[Len(labels)] \in Seq(Nat)
    BY <2>a, <2>2, Zenon
  <2> QED BY <2>3, LenProperties DEF top
<1>7. w \in Walks /\ w.steps = steps /\ w.at = here /\ w.name = old /\ w.after = after
  BY <1>3, <1>6 DEF Walks, At
<1> HIDE DEF w
<1>8. /\ steps # 0 /\ ~(here > Len(p)) /\ n # 0 /\ ~(n >= Pointer) /\ ~(n > MaxLabel)
      /\ ~(here + n > Len(p)) /\ ~(Len(old) + n > MaxName) /\ here \in 1..Len(p)
  <2> DEFINE o == Len(old)
             q == Len(p)
  <2>1. o \in Nat /\ q \in Nat /\ o + n <= top - 1 /\ here + n <= q
    BY <1>3, <1>4, <1>6
  <2> HIDE DEF o, q
  <2>2. /\ steps # 0 /\ ~(here > q) /\ n # 0 /\ ~(n >= Pointer) /\ ~(n > MaxLabel)
        /\ ~(here + n > q) /\ ~(o + n > MaxName) /\ here \in 1..q
    BY <2>1, <1>2, <1>3, <1>6, <1>t DEF Pointer, MaxLabel
  <2> QED BY <2>2, Zenon DEF o, q
<1>9. Walk(p)[w] = Walk(p)[Spell(p, w)]
  <2>1. Walk(p)[w] = Step(p, w, Walk(p))
    BY <1>7, WalkSteps
  <2> QED BY <2>1, <1>4, <1>7, <1>8, Zenon DEF Step
<1>10. Spell(p, w) = At(steps - 1, here + 1 + n, after, new)
  <2>1. (here + 1 + n) - 1 = here + n
    BY <1>2
  <2>2. w.at + 1 + p[w.at] = here + 1 + n
    BY <1>4, <1>7
  <2> QED BY <2>1, <2>2, <1>3, <1>4, <1>5, <1>7, Zenon DEF Spell, At
<1> QED BY <1>9, <1>10, Zenon DEF Leads, w, l, n, new, old

\* The labels from the one behind a to b follow each other from pos[a] to pos[b].
Laid(p, labels, pos, a, b) ==
  /\ pos[a] \in Nat \ {0}
  /\ \A k \in a + 1..b : /\ pos[k] = pos[k - 1] + 1 + Len(labels[k])
                         /\ LabelAt(p, pos[k - 1], labels[k])

\* ... and so all those that are laid in a row.
LEMMA WalkPart ==
  ASSUME MdnsAssumption, NEW p \in Seq(Nat), NEW labels \in Seq(Label), NEW g, Named(labels, g),
         NEW a \in Nat, NEW b \in a..Len(labels), NEW pos, Laid(p, labels, pos, a, b),
         NEW steps \in 0..MaxSteps, b - a <= steps, NEW after \in Nat
  PROVE  /\ Leads(p, At(steps, pos[a], after, NameTo(g, a)),
                     At(steps - (b - a), pos[b], after, NameTo(g, b)))
         /\ pos[b] \in Nat \ {0}
<1> DEFINE n == Len(labels)
           Same(k) == /\ Leads(p, At(steps, pos[a], after, NameTo(g, a)),
                               At(steps - k, pos[a + k], after, NameTo(g, a + k)))
                      /\ pos[a + k] \in Nat \ {0}
           T == {k \in Nat : Same(k)}
<1>1. /\ labels \in Seq(Label) /\ Joins(g, TextParts(labels), Nat) /\ n \in Nat
      /\ Len(g[n]) - 1 <= MaxName
      /\ \A k \in a + 1..b : /\ pos[k] = pos[k - 1] + 1 + Len(labels[k])
                             /\ LabelAt(p, pos[k - 1], labels[k])
  <2>1. labels \in Seq(Label)
    BY DEF Named
  <2> QED BY <2>1, LenProperties DEF Named, Laid
<1>2. MaxSteps \in Nat /\ b - a \in Nat /\ b \in Nat
  BY <1>1, Bounds
<1> HIDE DEF n
<1>3. 0 \in T
  <2>1. a + 0 = a /\ steps - 0 = steps
    OBVIOUS
  <2>3. Leads(p, At(steps, pos[a], after, NameTo(g, a)), At(steps, pos[a], after, NameTo(g, a)))
    BY DEF Leads
  <2>2. pos[a] \in Nat \ {0}
    BY DEF Laid
  <2> QED BY <2>1, <2>2, <2>3
<1>4. ASSUME NEW k \in 0..(b - a) - 1, k \in T
      PROVE  k + 1 \in T
  <2> DEFINE i == a + k + 1
  <2>1. /\ k \in Nat /\ k + 1 \in Nat /\ i \in a + 1..b /\ i \in 1..n /\ i - 1 = a + k
        /\ a + (k + 1) = i /\ steps - k \in 1..MaxSteps /\ (steps - k) - 1 = steps - (k + 1)
    <3>1. b <= n /\ n \in Nat
      BY <1>1 DEF n
    <3> QED BY <1>2, <3>1
  <2> HIDE DEF i
  <2>2. pos[i - 1] \in Nat \ {0} /\ Same(k)
    BY <1>4, <2>1
  <2>3. LabelAt(p, pos[i - 1], labels[i]) /\ pos[i] = pos[i - 1] + 1 + Len(labels[i])
    BY <2>1, <1>1
  <2>4. Leads(p, At(steps - k, pos[i - 1], after, NameTo(g, i - 1)),
              At((steps - k) - 1, pos[i - 1] + 1 + Len(labels[i]), after, NameTo(g, i)))
    <3>1. i \in 1..Len(labels)
      BY <2>1 DEF n
    <3>2. /\ steps - k \in 1..MaxSteps /\ pos[i - 1] \in Nat \ {0}
          /\ LabelAt(p, pos[i - 1], labels[i])
      BY <2>1, <2>2, <2>3, Zenon
    <3> HIDE DEF Same, T
    <3> QED BY <3>1, <3>2, WalkLabel, Zenon
  <2>5. pos[i] \in Nat \ {0}
    <3>1. labels[i] \in Label
      BY <2>1, <1>1 DEF n
    <3>2. Len(labels[i]) \in Nat
      BY <3>1, LabelTypes
    <3> DEFINE x == pos[i - 1]
               y == Len(labels[i])
    <3>3. x \in Nat \ {0} /\ y \in Nat /\ pos[i] = x + 1 + y
      BY <3>2, <2>2, <2>3
    <3> HIDE DEF x, y
    <3> QED BY <3>3
  <2>6. Same(k + 1)
    <3>1. Leads(p, At(steps, pos[a], after, NameTo(g, a)),
                At(steps - (k + 1), pos[i], after, NameTo(g, i)))
      BY <2>1, <2>2, <2>3, <2>4, Zenon DEF Leads
    <3> QED BY <3>1, <2>1, <2>5, Zenon
  <2> HIDE DEF Same
  <2> QED BY <2>1, <2>6
<1>5. b - a \in T
  <2> HIDE DEF T
  <2>1. \A k \in 0..b - a : k \in T
    BY <1>2, <1>3, <1>4, UpTo
  <2>2. b - a \in 0..b - a
    BY <1>2
  <2> QED BY <2>1, <2>2
<1>6. a + (b - a) = b
  BY <1>2
<1> QED BY <1>5, <1>6

-----------------------------------------------------------------------------
(* Where a sequence stands in a packet                                     *)

Stands(p, here, s) ==
  /\ here \in Nat \ {0} /\ here + Len(s) <= Len(p) + 1
  /\ \A i \in 1..Len(s) : p[(here - 1) + i] = s[i]

\* A sequence stands at its own beginning.
LEMMA StandsWhole ==
  ASSUME NEW X, NEW p \in Seq(X)
  PROVE  Stands(p, 1, p)
<1>1. Len(p) \in Nat
  BY LenProperties
<1>2. \A i \in 1..Len(p) : (1 - 1) + i = i
  BY <1>1
<1>3. 1 \in Nat \ {0} /\ 1 + Len(p) <= Len(p) + 1
  BY <1>1
<1> QED BY <1>2, <1>3, Zenon DEF Stands

LEMMA Sums ==
  ASSUME NEW a \in Nat \ {0}, NEW m \in Nat, NEW n \in Nat, NEW k \in Nat
  PROVE  /\ a + m \in Nat \ {0}
         /\ a + (m + n) <= k + 1 => a + m <= k + 1 /\ (a + m) + n <= k + 1
         /\ \A i \in 1..m : i \in 1..m + n /\ i <= m
         /\ \A i \in 1..n : /\ m + i \in 1..m + n /\ ~(m + i <= m) /\ (m + i) - m = i
                            /\ (a - 1) + (m + i) = ((a + m) - 1) + i
OBVIOUS

\* What two sequences in one stand at is where the first stands and the second behind it.
LEMMA StandsBoth ==
  ASSUME NEW X, NEW s \in Seq(X), NEW t \in Seq(X), NEW p, Len(p) \in Nat, NEW here,
         Stands(p, here, s \o t)
  PROVE  Stands(p, here, s) /\ Stands(p, here + Len(s), t)
<1> DEFINE m == Len(s)
           n == Len(t)
           k == Len(p)
           c == s \o t
<1>1. m \in Nat /\ n \in Nat /\ k \in Nat
  BY LenProperties
<1>2. Len(c) = m + n /\ \A i \in 1..m + n : c[i] = IF i <= m THEN s[i] ELSE t[i - m]
  BY ConcatProperties, Zenon
<1>3. here \in Nat \ {0} /\ here + Len(c) <= k + 1 /\ \A i \in 1..Len(c) : p[(here - 1) + i] = c[i]
  BY Zenon DEF Stands
<1> HIDE DEF m, n, k, c
<1>4. /\ here + m \in Nat \ {0}
      /\ here + (m + n) <= k + 1 => here + m <= k + 1 /\ (here + m) + n <= k + 1
      /\ \A i \in 1..m : i \in 1..m + n /\ i <= m
      /\ \A i \in 1..n : /\ m + i \in 1..m + n /\ ~(m + i <= m) /\ (m + i) - m = i
                         /\ (here - 1) + (m + i) = ((here + m) - 1) + i
  BY <1>1, <1>3, Sums
<1>5. here + m <= k + 1 /\ (here + m) + n <= k + 1
  BY <1>2, <1>3, <1>4, Zenon
<1>6. \A i \in 1..m : p[(here - 1) + i] = s[i]
  BY <1>2, <1>3, <1>4, Zenon
<1>7. ASSUME NEW i \in 1..n
      PROVE  p[((here + m) - 1) + i] = t[i]
  <2>1. p[(here - 1) + (m + i)] = c[m + i]
    BY <1>2, <1>3, <1>4, Zenon
  <2>2. c[m + i] = t[(m + i) - m]
    BY <1>2, <1>4, Zenon
  <2>3. (m + i) - m = i /\ (here - 1) + (m + i) = ((here + m) - 1) + i
    BY <1>4
  <2> QED BY <2>1, <2>2, <2>3, Zenon
<1> QED BY <1>3, <1>4, <1>5, <1>6, <1>7, Zenon DEF Stands, m, n, k

-----------------------------------------------------------------------------
(* The wire of a name                                                      *)

WireParts(labels) == [i \in DOMAIN labels |-> <<Len(labels[i])>> \o labels[i]]

LEMMA WireTypes ==
  ASSUME NEW labels \in Seq(Label)
  PROVE  /\ WireParts(labels) \in Seq(Seq(Nat)) /\ Len(WireParts(labels)) = Len(labels)
         /\ Len(labels) \in Nat
         /\ \A i \in 1..Len(labels) :
              /\ labels[i] \in Label
              /\ WireParts(labels)[i] = <<Len(labels[i])>> \o labels[i]
              /\ Len(WireParts(labels)[i]) = 1 + Len(labels[i])
              /\ WireParts(labels)[i][1] = Len(labels[i])
              /\ \A j \in 1..Len(labels[i]) : WireParts(labels)[i][1 + j] = labels[i][j]
<1>1. /\ Len(labels) \in Nat /\ DOMAIN labels = 1..Len(labels)
      /\ \A i \in 1..Len(labels) : labels[i] \in Label
  BY LenProperties
<1> DEFINE n == Len(labels)
           parts == [i \in 1..n |-> <<Len(labels[i])>> \o labels[i]]
<1>2. ASSUME NEW l \in Label
      PROVE  /\ <<Len(l)>> \o l \in Seq(Nat) /\ Len(<<Len(l)>> \o l) = 1 + Len(l)
             /\ (<<Len(l)>> \o l)[1] = Len(l)
             /\ \A j \in 1..Len(l) : (<<Len(l)>> \o l)[1 + j] = l[j]
  <2> DEFINE k == Len(l)
             h == <<k>>
             c == h \o l
  <2>1. l \in Seq(Nat) /\ k \in Nat
    BY LabelTypes
  <2> HIDE DEF k
  <2>2. h \in Seq(Nat) /\ Len(h) = 1 /\ h[1] = k
    BY <2>1
  <2> HIDE DEF h
  <2>3. /\ c \in Seq(Nat) /\ Len(c) = Len(h) + Len(l)
        /\ \A i \in 1..Len(h) + Len(l) : c[i] = IF i <= Len(h) THEN h[i] ELSE l[i - Len(h)]
    BY <2>1, <2>2, ConcatProperties
  <2>4. Len(h) = 1 /\ Len(l) = k
    BY <2>2 DEF k
  <2> HIDE DEF c
  <2>5. 1 \in 1..1 + k /\ \A j \in 1..k : 1 + j \in 1..1 + k /\ ~(1 + j <= 1) /\ (1 + j) - 1 = j
    BY <2>1
  <2>6. c[1] = h[1] /\ \A j \in 1..k : c[1 + j] = l[j]
    BY <2>3, <2>4, <2>5
  <2> QED BY <2>2, <2>3, <2>4, <2>6, Zenon DEF c, h, k
<1>3. parts \in [1..n -> Seq(Nat)]
  BY <1>1, <1>2
<1>4. \A i \in 1..n : parts[i] = <<Len(labels[i])>> \o labels[i]
  OBVIOUS
<1>5. WireParts(labels) = parts
  BY <1>1 DEF WireParts
<1> HIDE DEF parts
<1>6. parts \in Seq(Seq(Nat)) /\ Len(parts) = n
  BY <1>1, <1>3
<1> QED BY <1>1, <1>2, <1>4, <1>5, <1>6, Zenon

\* Where the wire of a name stands its labels are laid.
LEMMA WireLaid ==
  ASSUME NEW labels \in Seq(Label), NEW f, Joins(f, WireParts(labels), Nat),
         NEW p \in Seq(Nat), NEW here, Stands(p, here, f[Len(labels)]),
         NEW k \in 1..Len(labels)
  PROVE  /\ Len(f[k]) = Len(f[k - 1]) + (1 + Len(labels[k]))
         /\ Len(f[k - 1]) \in Nat
         /\ LabelAt(p, here + Len(f[k - 1]), labels[k])
<1> DEFINE n == Len(labels)
           parts == WireParts(labels)
           l == labels[k]
           a == Len(f[k - 1])
           b == Len(l)
           c == Len(f[n])
           q == Len(p)
<1>1. /\ parts \in Seq(Seq(Nat)) /\ Len(parts) = n /\ n \in Nat /\ l \in Label
      /\ Len(parts[k]) = 1 + b /\ parts[k][1] = b
      /\ \A j \in 1..b : parts[k][1 + j] = l[j]
  BY WireTypes, Zenon
<1>2. Stacks(f, parts, Nat)
  <2> HIDE DEF parts
  <2>1. parts \in Seq(Seq(Nat)) /\ Joins(f, parts, Nat)
    BY <1>1 DEF parts
  <2> QED BY <2>1, JoinedStand
<1>3. b \in Nat \ {0} /\ q \in Nat
  BY <1>1, LabelTypes, LenProperties
<1> HIDE DEF parts, n, l
<1>4. /\ \A i \in 0..n : f[i] \in Seq(Nat) /\ Len(f[i]) \in 0..c
      /\ \A i \in 1..n : Len(f[i]) = Len(f[i - 1]) + Len(parts[i])
      /\ \A i \in 1..n : \A j \in 1..Len(parts[i]) : f[n][Len(f[i - 1]) + j] = parts[i][j]
  BY <1>1, <1>2, Zenon DEF Stacks
<1>5. k \in 1..n /\ k - 1 \in 0..n /\ k \in 0..n /\ n \in 0..n
  BY <1>1 DEF n
<1>6. a \in 0..c /\ f[n] \in Seq(Nat) /\ Len(f[k]) \in 0..c /\ Len(f[k]) = a + (1 + b)
  BY <1>1, <1>4, <1>5
<1>7. c \in Nat
  BY <1>6, LenProperties
<1>8. \A j \in 1..1 + b : f[n][a + j] = parts[k][j]
  BY <1>1, <1>4, <1>5, Zenon
<1>9. here \in Nat \ {0} /\ here + c <= q + 1 /\ \A i \in 1..c : p[(here - 1) + i] = f[n][i]
  BY Zenon DEF Stands, n
<1> DEFINE top == Len(f[k])
<1> HIDE DEF a, b, c, q, top
<1>10. top \in 0..c /\ top = a + (1 + b)
  BY <1>6 DEF top
<1>11. /\ a + 1 \in 1..c /\ (here - 1) + (a + 1) = here + a /\ (here + a) + b <= q /\ a \in Nat
       /\ 1 \in 1..1 + b
       /\ \A j \in 1..b : /\ a + (1 + j) \in 1..c /\ (here - 1) + (a + (1 + j)) = (here + a) + j
                          /\ 1 + j \in 1..1 + b
  BY <1>3, <1>6, <1>7, <1>9, <1>10
<1>12. p[here + a] = b
  <2>1. p[(here - 1) + (a + 1)] = f[n][a + 1]
    BY <1>9, <1>11, Zenon
  <2>2. f[n][a + 1] = parts[k][1]
    BY <1>8, <1>11, Zenon
  <2> QED BY <2>1, <2>2, <1>1, <1>11, Zenon
<1>13. ASSUME NEW j \in 1..b
       PROVE  p[(here + a) + j] = l[j]
  <2>1. p[(here - 1) + (a + (1 + j))] = f[n][a + (1 + j)]
    BY <1>9, <1>11, Zenon
  <2>2. f[n][a + (1 + j)] = parts[k][1 + j]
    BY <1>8, <1>11, Zenon
  <2>3. parts[k][1 + j] = l[j]
    BY <1>1
  <2> QED BY <2>1, <2>2, <2>3, <1>11, Zenon
<1>14. Len(f[k]) = a + (1 + b)
  BY <1>10 DEF top
<1> QED BY <1>11, <1>12, <1>13, <1>14, Zenon DEF LabelAt, a, b, q, l

\* Pieces take the same room wherever they are.
LongerBy(f, c, d, h, n) == Len(f[c]) = Len(f[d]) + Len(h[n])

\* Pieces that end two rows take the same room in both.
LEMMA JoinLength ==
  ASSUME NEW X, NEW s \in Seq(Seq(X)), NEW t \in Seq(Seq(X)), NEW f, NEW h,
         Joins(f, s, X), Joins(h, t, X), NEW d \in Nat, d + Len(t) = Len(s),
         \A i \in 1..Len(t) : s[d + i] = t[i]
  PROVE  LongerBy(f, Len(s), d, h, Len(t))
<1> DEFINE m == Len(t)
           T == {k \in Nat : Len(f[d + k]) = Len(f[d]) + Len(h[k])}
<1>1. Stacks(f, s, X) /\ Stacks(h, t, X)
  BY JoinedStand
<1>2. Len(s) \in Nat /\ m \in Nat /\ d + m = Len(s) /\ \A i \in 1..m : s[d + i] = t[i]
  BY LenProperties
<1>3. /\ \A i \in 0..Len(s) : f[i] \in Seq(X)
      /\ \A i \in 1..Len(s) : Len(f[i]) = Len(f[i - 1]) + Len(s[i])
      /\ \A i \in 0..m : h[i] \in Seq(X)
      /\ \A i \in 1..m : Len(h[i]) = Len(h[i - 1]) + Len(t[i])
      /\ Len(h[0]) = 0
  BY <1>1, Zenon DEF Stacks
<1> HIDE DEF m
<1>4. 0 \in T
  <2>1. d + 0 = d /\ d \in 0..Len(s)
    BY <1>2
  <2>2. Len(f[d]) \in Nat
    BY <2>1, <1>3, LenProperties
  <2>3. Len(f[d]) = Len(f[d]) + 0
    BY <2>2
  <2>4. Len(f[d + 0]) = Len(f[d]) + Len(h[0])
    BY <2>1, <2>3, <1>3, Zenon
  <2> QED BY <2>4
<1>5. ASSUME NEW k \in 0..m - 1, k \in T
      PROVE  k + 1 \in T
  <2> DEFINE i == d + (k + 1)
             a == Len(f[d])
             b == Len(h[k])
             c == Len(t[k + 1])
  <2>1. /\ k + 1 \in Nat /\ k + 1 \in 1..m /\ i \in 1..Len(s) /\ i - 1 = d + k /\ (k + 1) - 1 = k
        /\ k \in 0..m /\ d \in 0..Len(s)
    BY <1>2
  <2>2. f[d] \in Seq(X) /\ h[k] \in Seq(X) /\ t[k + 1] \in Seq(X)
    BY <2>1, <1>3 DEF m
  <2>3. a \in Nat /\ b \in Nat /\ c \in Nat
    BY <2>2, LenProperties
  <2>4. Len(f[d + k]) = a + b
    BY <1>5
  <2> HIDE DEF i, a, b, c
  <2>5. Len(f[i]) = Len(f[i - 1]) + Len(s[i]) /\ s[i] = t[k + 1]
    BY <2>1, <1>2, <1>3 DEF i
  <2>6. Len(h[k + 1]) = b + c
    <3>1. Len(h[k + 1]) = Len(h[(k + 1) - 1]) + Len(t[k + 1])
      BY <2>1, <1>3, Zenon
    <3> QED BY <3>1, <2>1, Zenon DEF b, c
  <2>7. Len(f[i]) = (a + b) + c
    BY <2>1, <2>4, <2>5, Zenon DEF c
  <2>8. (a + b) + c = a + (b + c)
    BY <2>3
  <2> QED BY <2>1, <2>6, <2>7, <2>8 DEF i, a
<1>6. m \in T
  <2> HIDE DEF T
  <2>1. \A k \in 0..m : k \in T
    BY <1>2, <1>4, <1>5, UpTo
  <2> QED BY <2>1, <1>2
<1> QED BY <1>2, <1>6 DEF LongerBy, m

-----------------------------------------------------------------------------
(* Parts of a name                                                         *)

\* The labels before a shared ending, and the ending, are a name in two parts.
LEMMA PartOfName ==
  ASSUME NEW labels \in Seq(Label), NEW n \in 0..Len(labels)
  PROVE  /\ Ending(labels, n) \in Seq(Label) /\ Len(Ending(labels, n)) = n
         /\ \A i \in 1..n : Ending(labels, n)[i] = labels[(Len(labels) - n) + i]
         /\ LET own == SubSeq(labels, 1, Len(labels) - n)
            IN  own \in Seq(Label) /\ Len(own) = Len(labels) - n
                /\ \A i \in 1..Len(labels) - n : own[i] = labels[i]
<1> DEFINE c == Len(labels)
           d == c - n
           own == SubSeq(labels, 1, d)
           end == SubSeq(labels, d + 1, c)
<1>1. c \in Nat /\ d \in 0..c /\ n \in Nat /\ \A i \in 1..c : labels[i] \in Label
  BY LenProperties
<1>2. own \in Seq(Label) /\ Len(own) = d /\ \A i \in 1..d : own[i] = labels[i]
  <2> HIDE DEF c, d
  <2>1. 1 \in Int /\ d \in Int /\ \A i \in 1..d : labels[i] \in Label
    BY <1>1
  <2>2. /\ own \in Seq(Label)
        /\ Len(own) = IF 1 <= d THEN d - 1 + 1 ELSE 0
        /\ \A i \in 1..d - 1 + 1 : own[i] = labels[1 + i - 1]
    BY <2>1, SubSeqProperties
  <2> HIDE DEF own
  <2>3. (IF 1 <= d THEN d - 1 + 1 ELSE 0) = d /\ d - 1 + 1 = d
    BY <1>1
  <2>4. \A i \in 1..d : 1 + i - 1 = i
    BY <1>1
  <2> QED BY <2>2, <2>3, <2>4, Zenon
<1>3. end \in Seq(Label) /\ Len(end) = n /\ \A i \in 1..n : end[i] = labels[d + i]
  <2>0. c = d + n
    BY <1>1
  <2> HIDE DEF c, d
  <2>1. d + 1 \in Int /\ c \in Int /\ \A i \in d + 1..c : labels[i] \in Label
    BY <1>1
  <2>2. /\ end \in Seq(Label)
        /\ Len(end) = IF d + 1 <= c THEN c - (d + 1) + 1 ELSE 0
        /\ \A i \in 1..c - (d + 1) + 1 : end[i] = labels[(d + 1) + i - 1]
    BY <2>1, SubSeqProperties
  <2> HIDE DEF end
  <2>3. (IF d + 1 <= c THEN c - (d + 1) + 1 ELSE 0) = n /\ c - (d + 1) + 1 = n
    BY <1>1, <2>0
  <2>4. \A i \in 1..n : (d + 1) + i - 1 = d + i
    BY <1>1
  <2> QED BY <2>2, <2>3, <2>4, Zenon
<1>4. Ending(labels, n) = end
  BY DEF Ending
<1> QED BY <1>2, <1>3, <1>4, Zenon

\* What a question shares with the first is the end of both.
LEMMA SharedIs ==
  ASSUME NEW a \in Seq(Label), NEW b \in Seq(Label)
  PROVE  /\ Shared(a, b) \in 0..Len(a) /\ Shared(a, b) \in 0..Len(b)
         /\ Ending(a, Shared(a, b)) = Ending(b, Shared(a, b))
<1> DEFINE Both(n) == n <= Len(b) /\ Ending(a, n) = Ending(b, n)
           More(n) == n < Len(a) /\ n < Len(b) /\ Ending(a, n + 1) = Ending(b, n + 1)
           Best(n) == Both(n) /\ ~More(n)
           D == {d \in 0..Len(a) : Both(Len(a) - d)}
<1>1. Len(a) \in Nat /\ Len(b) \in Nat
  BY LenProperties
<1>2. Len(a) \in D
  <2>1. Len(a) - Len(a) = 0
    BY <1>1
  <2>2. Ending(a, 0) = <<>> /\ Ending(b, 0) = <<>>
    <3>1. /\ Ending(a, 0) \in Seq(Label) /\ Len(Ending(a, 0)) = 0
          /\ Ending(b, 0) \in Seq(Label) /\ Len(Ending(b, 0)) = 0
      BY <1>1, PartOfName
    <3> QED BY <3>1, EmptySeq
  <2>3. Both(0)
    BY <2>2, <1>1
  <2> HIDE DEF Both
  <2> QED BY <2>1, <2>3, <1>1
<1>3. PICK d \in D : \A e \in D : d <= e
  <2>1. D \in SUBSET Nat /\ D # {}
    BY <1>2
  <2> HIDE DEF D
  <2> QED BY <2>1, Least
<1> DEFINE n == Len(a) - d
<1>4. n \in 0..Len(a) /\ Both(n)
  BY <1>1
<1>5. ~More(n)
  <2> SUFFICES ASSUME More(n) PROVE FALSE
    OBVIOUS
  <2>1. n + 1 = Len(a) - (d - 1) /\ d - 1 \in 0..Len(a) /\ n + 1 <= Len(b)
    BY <1>1
  <2>2. Both(Len(a) - (d - 1))
    BY <2>1
  <2> HIDE DEF Both, More
  <2>3. d - 1 \in D
    BY <2>1, <2>2
  <2>4. d - 1 < d
    BY <1>1
  <2> QED BY <2>3, <2>4, <1>1, <1>3
<1> HIDE DEF n
<1>6. Best(n)
  BY <1>4, <1>5
<1>7. Shared(a, b) = CHOOSE k \in 0..Len(a) : Best(k)
  BY Zenon DEF Shared
<1> HIDE DEF Best
<1>8. Shared(a, b) \in 0..Len(a) /\ Best(Shared(a, b))
  BY <1>4, <1>6, <1>7
<1> QED BY <1>1, <1>8 DEF Best

-----------------------------------------------------------------------------
(* Where the walk ends and where it jumps                                  *)

\* A byte of 0 ends the walk, and what follows is the place after it.
LEMMA WalkEnds ==
  ASSUME MdnsAssumption, NEW p \in Seq(Nat), NEW steps \in 1..MaxSteps, NEW here \in 1..Len(p),
         NEW after \in Nat, NEW name \in Seq(Nat), p[here] = 0
  PROVE  Walk(p)[At(steps, here, after, name)]
           = [ok |-> TRUE, name |-> name, pos |-> Place(after, here + 1)]
<1> DEFINE w == At(steps, here, after, name)
<1>1. MaxSteps \in Nat /\ Len(p) \in Nat
  BY LenProperties, Bounds
<1>2. w \in Walks /\ w.steps = steps /\ w.at = here /\ w.after = after /\ w.name = name
  BY <1>1 DEF At, Walks
<1> HIDE DEF w
<1>3. Walk(p)[w] = Step(p, w, Walk(p))
  BY <1>2, WalkSteps
<1>4. steps # 0 /\ ~(here > Len(p)) /\ ~(0 >= Pointer)
  BY <1>1 DEF Pointer
<1>5. Step(p, w, Walk(p)) = [ok |-> TRUE, name |-> name, pos |-> Place(after, here + 1)]
  BY <1>2, <1>4, Zenon DEF Step
<1> QED BY <1>3, <1>5, Zenon DEF w

\* A pointer leads the walk to where it points.
LEMMA WalkJumps ==
  ASSUME MdnsAssumption, NEW p \in Seq(Nat), NEW steps \in 1..MaxSteps, NEW here \in 1..Len(p) - 1,
         NEW after \in Nat, NEW name \in Seq(Nat), p[here] = Pointer
  PROVE  Leads(p, At(steps, here, after, name),
                  At(steps - 1, 1 + p[here + 1], Place(after, here + 2), name))
<1> DEFINE w == At(steps, here, after, name)
<1>1. MaxSteps \in Nat /\ Len(p) \in Nat
  BY LenProperties, Bounds
<1>2. w \in Walks /\ w.steps = steps /\ w.at = here /\ w.after = after /\ w.name = name
  BY <1>1 DEF At, Walks
<1> HIDE DEF w
<1>3. Walk(p)[w] = Step(p, w, Walk(p))
  BY <1>2, WalkSteps
<1>4. steps # 0 /\ ~(here > Len(p)) /\ here # Len(p) /\ Pointer # 0 /\ Pointer >= Pointer
  BY <1>1 DEF Pointer
<1>5. Step(p, w, Walk(p)) = Walk(p)[Jump(p, w)]
  BY <1>2, <1>4, Zenon DEF Step
<1>6. 1 + (p[here] - Pointer) * 256 + p[here + 1] = 1 + p[here + 1]
  <2> DEFINE b == p[here + 1]
  <2>1. b \in Nat
    BY <1>1
  <2> HIDE DEF b
  <2>2. 1 + (Pointer - Pointer) * 256 + b = 1 + b
    BY <2>1 DEF Pointer
  <2> QED BY <2>2, Zenon DEF b
<1>7. Jump(p, w) = At(steps - 1, 1 + p[here + 1], Place(after, here + 2), name)
  BY <1>2, <1>6, Zenon DEF Jump, At
<1> QED BY <1>3, <1>5, <1>7, Zenon DEF w, Leads

-----------------------------------------------------------------------------
(* The names that are asked for                                            *)

AskedNames == {labels \in Seq(Label) : /\ labels # <<>> /\ Len(Text(labels)) <= MaxName
                                  /\ Len(labels) + 2 <= MaxSteps}

LEMMA NameIs ==
  ASSUME NEW labels \in AskedNames
  PROVE  /\ labels \in Seq(Label) /\ Len(labels) \in Nat \ {0} /\ Len(labels) + 2 <= MaxSteps
         /\ \E g : /\ Named(labels, g) /\ NameTo(g, Len(labels)) = Text(labels)
                   /\ NameTo(g, 0) = <<>>
         /\ \E f : Joins(f, WireParts(labels), Nat)
<1> DEFINE n == Len(labels)
           parts == TextParts(labels)
<1>1. /\ labels \in Seq(Label) /\ labels # <<>> /\ Len(Text(labels)) <= MaxName
      /\ n + 2 <= MaxSteps
  BY DEF AskedNames
<1>2. n \in Nat \ {0}
  BY <1>1, EmptySeq, LenProperties
<1>3. parts \in Seq(Seq(Nat)) /\ Len(parts) = n
  BY <1>1, TextTypes
<1>4. Text(labels) = Tail(FlattenSeq(parts))
  BY Zenon DEF Text, TextParts
<1>5. \E f : Joins(f, WireParts(labels), Nat)
  <2> DEFINE wire == WireParts(labels)
  <2>1. wire \in Seq(Seq(Nat))
    BY <1>1, WireTypes
  <2> HIDE DEF wire
  <2>2. \E f : Joins(f, wire, Nat)
    BY <2>1, Flattens
  <2> QED BY <2>2 DEF wire
<1> HIDE DEF parts
<1>6. PICK g : Joins(g, parts, Nat)
  BY <1>3, Flattens
<1>7. NameTo(g, n) = Text(labels) /\ NameTo(g, 0) = <<>>
  <2>1. FlattenSeq(parts) = g[n]
    BY <1>3, <1>6, Zenon DEF Joins
  <2>2. NameTo(g, n) = Tail(g[n]) /\ NameTo(g, 0) = <<>>
    BY <1>2 DEF NameTo
  <2> QED BY <2>1, <2>2, <1>4, Zenon
<1>8. Len(g[n]) - 1 <= MaxName
  <2>1. Stacks(g, parts, Nat)
    BY <1>3, <1>6, JoinedStand
  <2>2. /\ \A k \in 0..n : g[k] \in Seq(Nat)
        /\ \A k \in 1..n : Len(g[k]) = Len(g[k - 1]) + Len(parts[k])
    BY <2>1, <1>3, Zenon DEF Stacks
  <2>3. n \in 0..n /\ n \in 1..n /\ n - 1 \in 0..n
    BY <1>2
  <2>4. parts[n] = <<Dot>> \o Lower(labels[n]) /\ labels[n] \in Label
    BY <2>3, <1>1, TextTypes DEF parts
  <2>5. Len(parts[n]) = 1 + Len(labels[n]) /\ Len(labels[n]) \in Nat
    BY <2>4, LabelTypes
  <2>6. g[n] \in Seq(Nat) /\ Len(g[n - 1]) \in Nat /\ Len(g[n]) = Len(g[n - 1]) + Len(parts[n])
    BY <2>2, <2>3, LenProperties
  <2>7. Len(g[n]) # 0
    <3> DEFINE x == Len(g[n - 1])
               y == Len(labels[n])
    <3>1. x \in Nat /\ y \in Nat /\ Len(g[n]) = x + (1 + y)
      BY <2>5, <2>6
    <3> HIDE DEF x, y
    <3>2. x + (1 + y) # 0
      BY <3>1
    <3> QED BY <3>1, <3>2, Zenon
  <2>8. g[n] # <<>>
    BY <2>6, <2>7, EmptySeq
  <2>9. Len(Tail(g[n])) = Len(g[n]) - 1
    BY <2>6, <2>8, HeadTailProperties
  <2>10. Tail(g[n]) = Text(labels)
    BY <1>2, <1>7 DEF NameTo
  <2> QED BY <2>9, <2>10, <1>1, Zenon
<1>9. Named(labels, g)
  BY <1>3, <1>6, <1>8, Zenon DEF Named, parts, n
<1> QED BY <1>1, <1>2, <1>5, <1>7, <1>9, Zenon DEF n

\* The text of labels of a letter each.
LEMMA ShortText ==
  ASSUME NEW labels \in Seq(Label), Len(labels) \in 1..2,
         \A i \in DOMAIN labels : Len(labels[i]) = 1
  PROVE  Len(Text(labels)) = 2 * Len(labels) - 1
<1> DEFINE n == Len(labels)
           parts == TextParts(labels)
<1>1. parts \in Seq(Seq(Nat)) /\ Len(parts) = n
  BY TextTypes
<1>2. ASSUME NEW i \in 1..n PROVE Len(parts[i]) = 2
  <2>1. labels[i] \in Label /\ parts[i] = <<Dot>> \o Lower(labels[i]) /\ Len(labels[i]) = 1
    BY TextTypes
  <2>2. Len(<<Dot>> \o Lower(labels[i])) = 1 + 1
    BY <2>1, LabelTypes, Zenon
  <2> QED BY <2>1, <2>2
<1>3. Text(labels) = Tail(FlattenSeq(parts))
  BY Zenon DEF Text, TextParts
<1>4. n = 1 \/ n = 2
  OBVIOUS
<1> HIDE DEF n, parts
<1>5. PICK g : Joins(g, parts, Nat)
  BY <1>1, Flattens
<1>6. /\ \A k \in 0..n : g[k] \in Seq(Nat)
      /\ Len(g[0]) = 0 /\ \A k \in 1..n : Len(g[k]) = Len(g[k - 1]) + Len(parts[k])
  <2>1. Stacks(g, parts, Nat)
    BY <1>1, <1>5, JoinedStand
  <2> QED BY <2>1, <1>1, Zenon DEF Stacks
<1>7. Len(g[n]) = 2 * n
  <2>1. 1 \in 1..n /\ 1 - 1 = 0 /\ 2 - 1 = 1
    BY <1>4
  <2>2. Len(g[1]) = 2
    <3>1. Len(g[1]) = Len(g[1 - 1]) + Len(parts[1]) /\ Len(parts[1]) = 2
      BY <2>1, <1>2, <1>6, Zenon
    <3>2. Len(g[0]) = 0
      BY <1>6
    <3> QED BY <2>1, <3>1, <3>2
  <2>3. CASE n = 1
    BY <2>2, <2>3
  <2>4. CASE n = 2
    <3>1. 2 \in 1..n
      BY <2>4
    <3>2. Len(g[2]) = Len(g[2 - 1]) + Len(parts[2]) /\ Len(parts[2]) = 2
      BY <3>1, <1>2, <1>6, Zenon
    <3>3. Len(g[2 - 1]) = 2
      BY <2>1, <2>2, Zenon
    <3>4. Len(g[2]) = 2 + 2
      BY <3>2, <3>3, Zenon
    <3> QED BY <2>4, <3>4
  <2> QED BY <2>3, <2>4, <1>4
<1>8. g[n] \in Seq(Nat) /\ g[n] # <<>>
  <2>1. n \in 0..n
    BY <1>4
  <2>2. g[n] \in Seq(Nat) /\ Len(g[n]) # 0
    BY <2>1, <1>4, <1>6, <1>7
  <2> QED BY <2>2, EmptySeq
<1>9. Len(Tail(g[n])) = Len(g[n]) - 1
  BY <1>8, HeadTailProperties
<1>10. FlattenSeq(parts) = g[n]
  BY <1>1, <1>5, Zenon DEF Joins
<1> QED BY <1>3, <1>7, <1>9, <1>10, <1>4 DEF n

\* The wire of a name is that of its labels and a 0.
LEMMA WireIs ==
  ASSUME NEW labels \in Seq(Label), NEW f, Joins(f, WireParts(labels), Nat)
  PROVE  LET top == f[Len(labels)]
         IN  /\ top \in Seq(Nat) /\ Wire(labels) = top \o <<0>> /\ Wire(labels) \in Seq(Nat)
             /\ Len(Wire(labels)) = Len(top) + 1 /\ Len(top) \in Nat
             /\ SubSeq(Wire(labels), 1, Len(Wire(labels)) - 1) = top
             /\ f[0] = <<>>
<1> DEFINE parts == WireParts(labels)
           top == f[Len(labels)]
           w == top \o <<0>>
<1>1. parts \in Seq(Seq(Nat)) /\ Len(parts) = Len(labels) /\ Len(labels) \in Nat
  BY WireTypes
<1>2. FlattenSeq(parts) = top /\ f \in [0..Len(labels) -> Seq(Nat)] /\ f[0] = <<>>
  BY <1>1, Zenon DEF Joins
<1>3. top \in Seq(Nat)
  <2>1. Len(labels) \in 0..Len(labels)
    BY <1>1
  <2> QED BY <2>1, <1>2
<1>4. Wire(labels) = w
  BY <1>2, Zenon DEF Wire, WireParts
<1> HIDE DEF top, parts
<1>5. /\ w \in Seq(Nat) /\ Len(w) = Len(top) + 1 /\ Len(top) \in Nat
      /\ \A i \in 1..Len(top) : w[i] = top[i]
  <2>1. <<0>> \in Seq(Nat) /\ Len(<<0>>) = 1
    OBVIOUS
  <2>2. /\ w \in Seq(Nat) /\ Len(w) = Len(top) + Len(<<0>>)
        /\ \A i \in 1..Len(top) + Len(<<0>>) :
             w[i] = IF i <= Len(top) THEN top[i] ELSE <<0>>[i - Len(top)]
    BY <2>1, <1>3, ConcatProperties
  <2>3. Len(top) \in Nat
    BY <1>3, LenProperties
  <2> HIDE DEF w
  <2>4. \A i \in 1..Len(top) : i \in 1..Len(top) + 1 /\ i <= Len(top)
    BY <2>3
  <2> QED BY <2>1, <2>2, <2>3, <2>4, Zenon
<1> HIDE DEF w
<1>6. SubSeq(w, 1, Len(w) - 1) = top
  <2> DEFINE c == Len(top)
             s == SubSeq(w, 1, c)
  <2>1. c \in Nat /\ Len(w) = c + 1
    BY <1>5
  <2> HIDE DEF c
  <2>2. 1 \in Int /\ c \in Int /\ \A i \in 1..c : w[i] \in Nat
    BY <2>1, <1>5
  <2>3. /\ s \in Seq(Nat) /\ Len(s) = IF 1 <= c THEN c - 1 + 1 ELSE 0
        /\ \A i \in 1..c - 1 + 1 : s[i] = w[1 + i - 1]
    BY <2>2, SubSeqProperties
  <2> HIDE DEF s
  <2>4. (IF 1 <= c THEN c - 1 + 1 ELSE 0) = c /\ c - 1 + 1 = c /\ \A i \in 1..c : 1 + i - 1 = i
    BY <2>1
  <2>5. Len(s) = c /\ \A i \in 1..c : s[i] = w[i]
    BY <2>3, <2>4, Zenon
  <2>6. \A i \in 1..c : s[i] = top[i]
    BY <2>5, <1>5, Zenon DEF c
  <2>7. s = top
    BY <2>3, <2>5, <2>6, <1>3, SeqEqual DEF c
  <2>8. Len(w) - 1 = c
    BY <2>1
  <2> QED BY <2>7, <2>8, Zenon DEF s
<1>7. Wire(labels) = top \o <<0>>
  BY <1>4 DEF w
<1>8. /\ Wire(labels) \in Seq(Nat) /\ Len(Wire(labels)) = Len(top) + 1 /\ Len(top) \in Nat
      /\ SubSeq(Wire(labels), 1, Len(Wire(labels)) - 1) = top
  BY <1>4, <1>5, <1>6
<1> QED BY <1>2, <1>3, <1>7, <1>8, Zenon DEF top

LEMMA EndsWithByte ==
  ASSUME NEW p, Len(p) \in Nat, NEW here, NEW s \in Seq(Nat), NEW b \in Nat,
         Stands(p, here, s \o <<b>>)
  PROVE  /\ Stands(p, here, s) /\ here + Len(s) \in 1..Len(p) /\ p[here + Len(s)] = b
<1>1. <<b>> \in Seq(Nat) /\ Len(<<b>>) = 1 /\ <<b>>[1] = b
  OBVIOUS
<1> DEFINE t == <<b>>
           k == here + Len(s)
<1> HIDE DEF t
<1>2. Stands(p, here, s) /\ Stands(p, k, t)
  <2>1. t \in Seq(Nat) /\ Stands(p, here, s \o t)
    BY <1>1 DEF t
  <2> QED BY <2>1, StandsBoth, Zenon
<1> HIDE DEF k
<1>3. k \in Nat \ {0} /\ k + Len(t) <= Len(p) + 1 /\ \A i \in 1..Len(t) : p[(k - 1) + i] = t[i]
  BY <1>2, Zenon DEF Stands
<1>4. Len(t) = 1 /\ t[1] = b
  BY <1>1 DEF t
<1>5. k \in 1..Len(p) /\ (k - 1) + 1 = k /\ 1 \in 1..Len(t)
  BY <1>3, <1>4
<1>6. p[k] = b
  BY <1>3, <1>4, <1>5, Zenon
<1> QED BY <1>2, <1>5, <1>6, Zenon DEF k

\* The last n labels of a name are read where another that ends with them stands.
LEMMA ReadsEnding ==
  ASSUME MdnsAssumption, NEW p \in Seq(Nat), NEW labels \in Seq(Label), NEW g, Named(labels, g),
         NEW other \in Seq(Label), NEW f, Joins(f, WireParts(other), Nat),
         NEW here, Stands(p, here, Wire(other)),
         NEW n \in Nat, n <= Len(labels), n <= Len(other), Ending(labels, n) = Ending(other, n),
         NEW steps \in 0..MaxSteps, n + 1 <= steps, NEW after \in Nat,
         NameTo(g, Len(labels)) \in Seq(Nat)
  PROVE  Walk(p)[At(steps, here + Len(f[Len(other) - n]), after, NameTo(g, Len(labels) - n))]
           = [ok |-> TRUE, name |-> NameTo(g, Len(labels)),
              pos |-> Place(after, here + Len(Wire(other)))]
<1> DEFINE c == Len(labels)
           d == Len(other)
           m == c - n
           e == d - n
           pos == [k \in m..c |-> here + Len(f[e + (k - m)])]
           top == f[d]
<1>1. /\ c \in Nat /\ d \in Nat /\ m \in Nat /\ e \in Nat /\ m + n = c /\ e + n = d
      /\ Len(p) \in Nat
      /\ n \in 0..c /\ n \in 0..d /\ MaxSteps \in Nat
  BY LenProperties, Bounds
<1>2. /\ top \in Seq(Nat) /\ Wire(other) = top \o <<0>> /\ Len(Wire(other)) = Len(top) + 1
      /\ Len(top) \in Nat
  BY WireIs, Zenon
<1>3. /\ \A i \in 1..n : Ending(labels, n)[i] = labels[m + i]
      /\ \A i \in 1..n : Ending(other, n)[i] = other[e + i]
  BY <1>1, PartOfName, Zenon
<1> HIDE DEF c, d, m, e, top
<1>4. /\ Stands(p, here, top) /\ here + Len(top) \in 1..Len(p) /\ p[here + Len(top)] = 0
  <2>1. Stands(p, here, top \o <<0>>) /\ 0 \in Nat
    BY <1>2
  <2> QED BY <2>1, <1>1, <1>2, EndsWithByte, Zenon
<1>5. here \in Nat \ {0}
  BY DEF Stands
<1>6. ASSUME NEW i \in 1..n
      PROVE  /\ Len(f[e + i]) = Len(f[(e + i) - 1]) + (1 + Len(labels[m + i]))
             /\ Len(f[(e + i) - 1]) \in Nat
             /\ LabelAt(p, here + Len(f[(e + i) - 1]), labels[m + i])
  <2> DEFINE k == e + i
  <2>1. k \in 1..d
    BY <1>1
  <2> HIDE DEF k
  <2>2. /\ Len(f[k]) = Len(f[k - 1]) + (1 + Len(other[k]))
        /\ Len(f[k - 1]) \in Nat
        /\ LabelAt(p, here + Len(f[k - 1]), other[k])
    BY <2>1, <1>4, WireLaid DEF d, top
  <2>3. other[k] = labels[m + i]
    BY <1>3, Zenon DEF k
  <2> QED BY <2>2, <2>3, Zenon DEF k
<1>7. \A k \in m + 1..c : /\ pos[k] = pos[k - 1] + 1 + Len(labels[k])
                          /\ LabelAt(p, pos[k - 1], labels[k])
  <2> SUFFICES ASSUME NEW k \in m + 1..c
               PROVE  /\ pos[k] = pos[k - 1] + 1 + Len(labels[k])
                      /\ LabelAt(p, pos[k - 1], labels[k])
    BY Zenon
  <2> DEFINE i == k - m
  <2>1. /\ i \in 1..n /\ m + i = k /\ k \in m..c /\ k - 1 \in m..c
        /\ e + (k - m) = e + i /\ e + ((k - 1) - m) = (e + i) - 1
    BY <1>1
  <2> HIDE DEF i
  <2>2. pos[k] = here + Len(f[e + i]) /\ pos[k - 1] = here + Len(f[(e + i) - 1])
    BY <2>1
  <2>3. /\ Len(f[e + i]) = Len(f[(e + i) - 1]) + (1 + Len(labels[k]))
        /\ Len(f[(e + i) - 1]) \in Nat
        /\ LabelAt(p, here + Len(f[(e + i) - 1]), labels[k])
    BY <2>1, <1>6, Zenon
  <2> HIDE DEF pos
  <2>4. Len(labels[k]) \in Nat
    <3>1. k \in 1..c
      BY <2>1, <1>1
    <3>2. labels[k] \in Label
      BY <3>1, TextTypes DEF c
    <3> QED BY <3>2, LabelTypes
  <2> DEFINE x == Len(f[(e + i) - 1])
             y == Len(labels[k])
  <2>5. x \in Nat /\ y \in Nat /\ Len(f[e + i]) = x + (1 + y) /\ pos[k - 1] = here + x
    BY <2>2, <2>3, <2>4
  <2>6. pos[k] = here + (x + (1 + y))
    BY <2>2, <2>5, Zenon
  <2> HIDE DEF x, y
  <2>7. here + (x + (1 + y)) = (here + x) + 1 + y
    BY <2>5, <1>5
  <2>8. pos[k] = pos[k - 1] + 1 + y
    BY <2>5, <2>6, <2>7, Zenon
  <2> QED BY <2>2, <2>3, <2>8, Zenon DEF y
<1>8. /\ pos[m] = here + Len(f[e]) /\ pos[c] = here + Len(top)
  <2>1. m \in m..c /\ c \in m..c /\ e + (m - m) = e /\ e + (c - m) = d
    BY <1>1
  <2> QED BY <2>1 DEF top
<1>9. Len(f[e]) \in Nat
  <2>1. WireParts(other) \in Seq(Seq(Nat)) /\ Len(WireParts(other)) = d
    BY WireTypes DEF d
  <2>2. f \in [0..d -> Seq(Nat)]
    BY <2>1, Zenon DEF Joins
  <2>3. e \in 0..d
    BY <1>1
  <2> QED BY <2>2, <2>3, LenProperties
<1> HIDE DEF pos
<1>10. pos[m] \in Nat \ {0}
  <2> DEFINE x == Len(f[e])
  <2>1. x \in Nat /\ pos[m] = here + x
    BY <1>8, <1>9
  <2> HIDE DEF x
  <2> QED BY <2>1, <1>5
<1>11. Laid(p, labels, pos, m, c)
  BY <1>7, <1>10, Zenon DEF Laid
<1>12. Leads(p, At(steps, pos[m], after, NameTo(g, m)),
                At(steps - (c - m), pos[c], after, NameTo(g, c)))
  <2>1. c \in m..Len(labels) /\ c - m <= steps
    BY <1>1 DEF c
  <2> QED BY <2>1, <1>1, <1>11, WalkPart, Zenon
<1>13. Walk(p)[At(steps - (c - m), here + Len(top), after, NameTo(g, c))]
         = [ok |-> TRUE, name |-> NameTo(g, c), pos |-> Place(after, (here + Len(top)) + 1)]
  <2>1. steps - (c - m) \in 1..MaxSteps
    BY <1>1
  <2>2. NameTo(g, c) \in Seq(Nat)
    BY DEF c
  <2> QED BY <2>1, <2>2, <1>4, WalkEnds
<1>14. (here + Len(top)) + 1 = here + Len(Wire(other))
  BY <1>2, <1>5
<1> QED BY <1>8, <1>12, <1>13, <1>14, Zenon DEF Leads, c, d, m, e

-----------------------------------------------------------------------------
(* Reading a name, whole or shortened                                      *)

IsRead(p, here, labels, next) ==
  ReadName(p, here) = [ok |-> TRUE, name |-> Text(labels), pos |-> next]

LEMMA TextIsText ==
  ASSUME NEW labels \in Seq(Label), NEW g, Named(labels, g), Len(labels) # 0
  PROVE  NameTo(g, Len(labels)) \in Seq(Nat)
<1> DEFINE n == Len(labels)
<1>1. n \in Nat \ {0} /\ Joins(g, TextParts(labels), Nat)
  BY LenProperties DEF Named
<1>2. n \in 1..Len(labels)
  BY <1>1
<1> QED BY <1>1, <1>2, NameGrows, Zenon

\* A name that stands whole is read.
LEMMA ReadsWire ==
  ASSUME MdnsAssumption, NEW p \in Seq(Nat), NEW labels \in AskedNames,
         NEW here, Stands(p, here, Wire(labels))
  PROVE  IsRead(p, here, labels, here + Len(Wire(labels)))
<1> DEFINE n == Len(labels)
           w == Wire(labels)
<1>1. labels \in Seq(Label) /\ n \in Nat \ {0} /\ n + 2 <= MaxSteps /\ MaxSteps \in Nat
  BY NameIs, Bounds
<1>2. PICK g : Named(labels, g) /\ NameTo(g, n) = Text(labels) /\ NameTo(g, 0) = <<>>
  BY NameIs
<1>3. PICK f : Joins(f, WireParts(labels), Nat)
  BY NameIs
<1>4. NameTo(g, n) \in Seq(Nat)
  BY <1>1, <1>2, TextIsText
<1>5. f[0] = <<>> /\ Len(w) \in Nat
  <2>1. f[0] = <<>> /\ w \in Seq(Nat)
    BY <1>1, <1>3, WireIs, Zenon
  <2> QED BY <2>1, LenProperties
<1>6. here \in Nat \ {0}
  BY DEF Stands
<1>7. n \in Nat /\ n <= n /\ MaxSteps \in 0..MaxSteps /\ n + 1 <= MaxSteps /\ 0 \in Nat /\ n - n = 0
  BY <1>1
<1>8. Walk(p)[At(MaxSteps, here + Len(f[n - n]), 0, NameTo(g, n - n))]
        = [ok |-> TRUE, name |-> NameTo(g, n), pos |-> Place(0, here + Len(w))]
  BY <1>1, <1>2, <1>3, <1>4, <1>7, ReadsEnding
<1>9. /\ here + Len(f[n - n]) = here /\ NameTo(g, n - n) = <<>>
      /\ Place(0, here + Len(w)) = here + Len(w)
  <2>1. Len(f[0]) = 0
    BY <1>5
  <2>2. here + 0 = here
    BY <1>6
  <2>3. Len(f[n - n]) = 0 /\ NameTo(g, n - n) = <<>>
    BY <1>2, <1>7, <2>1, Zenon
  <2>4. Place(0, here + Len(w)) = here + Len(w)
    BY DEF Place
  <2> QED BY <2>2, <2>3, <2>4, Zenon
<1>10. Walk(p)[Begun(here)] = [ok |-> TRUE, name |-> Text(labels), pos |-> here + Len(w)]
  BY <1>2, <1>8, <1>9, Zenon DEF Begun, At
<1> QED BY <1>10, ReadNameWalks, Zenon DEF IsRead

\* What a jump leads to is where the labels stand that are shared.
LEMMA PlaceIs ==
  ASSUME MdnsAssumption, NEW first \in Seq(Label), NEW f, Joins(f, WireParts(first), Nat),
         NEW n \in 0..Len(first)
  PROVE  /\ Header + Len(Wire(first)) - Len(Wire(Ending(first, n)))
              = Header + Len(f[Len(first) - n])
         /\ Len(f[Len(first) - n]) \in Nat
<1> DEFINE c == Len(first)
           d == c - n
           end == Ending(first, n)
           s == WireParts(first)
           t == WireParts(end)
<1>1. /\ c \in Nat /\ n \in Nat /\ d \in Nat /\ d + n = c /\ Header \in Nat
  BY LenProperties, Bounds
<1>2. end \in Seq(Label) /\ Len(end) = n /\ \A i \in 1..n : end[i] = first[d + i]
  BY PartOfName, Zenon
<1>3. /\ s \in Seq(Seq(Nat)) /\ Len(s) = c
      /\ \A i \in 1..c : s[i] = <<Len(first[i])>> \o first[i]
  BY WireTypes, Zenon
<1> HIDE DEF end
<1>4. /\ t \in Seq(Seq(Nat)) /\ Len(t) = n
      /\ \A i \in 1..n : t[i] = <<Len(end[i])>> \o end[i]
  <2>1. Len(end) = n
    BY <1>2
  <2> QED BY <1>2, <2>1, WireTypes, Zenon
<1> HIDE DEF c, d, s, t
<1>5. \A i \in 1..n : s[d + i] = t[i]
  <2> SUFFICES ASSUME NEW i \in 1..n PROVE s[d + i] = t[i]
    OBVIOUS
  <2>1. d + i \in 1..c
    BY <1>1
  <2> QED BY <2>1, <1>2, <1>3, <1>4, Zenon
<1>6. PICK h : Joins(h, t, Nat)
  BY <1>4, Flattens
<1>7. Len(f[c]) = Len(f[d]) + Len(h[n])
  <2>1. Joins(f, s, Nat) /\ d + Len(t) = Len(s) /\ \A i \in 1..Len(t) : s[d + i] = t[i]
    BY <1>1, <1>3, <1>4, <1>5 DEF s
  <2>2. s \in Seq(Seq(Nat)) /\ t \in Seq(Seq(Nat)) /\ d \in Nat
    BY <1>1, <1>3, <1>4
  <2>3. LongerBy(f, Len(s), d, h, Len(t))
    BY <2>1, <2>2, <1>6, JoinLength, Zenon
  <2> QED BY <2>3, <1>3, <1>4, Zenon DEF LongerBy
<1>8. Len(Wire(first)) = Len(f[c]) + 1 /\ Len(f[c]) \in Nat
  BY WireIs, Zenon DEF c
<1>9. Len(Wire(end)) = Len(h[n]) + 1 /\ Len(h[n]) \in Nat
  <2>1. Joins(h, WireParts(end), Nat)
    BY <1>6 DEF t
  <2>2. Len(Wire(end)) = Len(h[Len(end)]) + 1 /\ Len(h[Len(end)]) \in Nat
    BY <2>1, <1>2, WireIs, Zenon
  <2> QED BY <2>2, <1>2
<1>10. Len(f[d]) \in Nat
  <2>1. f \in [0..c -> Seq(Nat)]
    BY <1>3, Zenon DEF Joins, s
  <2>2. d \in 0..c
    BY <1>1
  <2> QED BY <2>1, <2>2, LenProperties
<1>11. Header + Len(Wire(first)) - Len(Wire(end)) = Header + Len(f[d])
  <2> DEFINE x == Len(f[c])
             y == Len(h[n])
             z == Len(f[d])
  <2>1. x \in Nat /\ y \in Nat /\ z \in Nat /\ x = z + y
    BY <1>7, <1>8, <1>9, <1>10
  <2> HIDE DEF x, y, z
  <2>2. Header + (x + 1) - (y + 1) = Header + z
    BY <2>1, <1>1
  <2> QED BY <2>2, <1>8, <1>9, Zenon DEF x, y, z
<1> QED BY <1>10, <1>11, Zenon DEF c, d, end

\* The labels before a pointer are read.
LEMMA ReadsBeginning ==
  ASSUME MdnsAssumption, NEW p \in Seq(Nat), NEW labels \in Seq(Label), NEW g, Named(labels, g),
         NEW own \in Seq(Label), NEW h, Joins(h, WireParts(own), Nat),
         Len(own) <= Len(labels), \A i \in 1..Len(own) : own[i] = labels[i],
         NEW here, Stands(p, here, h[Len(own)]),
         NEW steps \in 0..MaxSteps, Len(own) <= steps, NEW after \in Nat
  PROVE  Leads(p, At(steps, here, after, NameTo(g, 0)),
                  At(steps - Len(own), here + Len(h[Len(own)]), after, NameTo(g, Len(own))))
<1> DEFINE m == Len(own)
           pos == [k \in 0..m |-> here + Len(h[k])]
<1>1. m \in Nat /\ Len(labels) \in Nat
  BY LenProperties
<1>2. here \in Nat \ {0}
  BY DEF Stands
<1>3. \A k \in 0..m : Len(h[k]) \in Nat
  <2>1. WireParts(own) \in Seq(Seq(Nat)) /\ Len(WireParts(own)) = m
    BY WireTypes
  <2>2. h \in [0..m -> Seq(Nat)]
    BY <2>1, Zenon DEF Joins
  <2> QED BY <2>2, LenProperties
<1>4. ASSUME NEW k \in 1..m
      PROVE  pos[k] = pos[k - 1] + 1 + Len(labels[k]) /\ LabelAt(p, pos[k - 1], labels[k])
  <2>1. /\ Len(h[k]) = Len(h[k - 1]) + (1 + Len(own[k])) /\ Len(h[k - 1]) \in Nat
        /\ LabelAt(p, here + Len(h[k - 1]), own[k])
    BY WireLaid, Zenon
  <2>2. own[k] = labels[k] /\ k \in 0..m /\ k - 1 \in 0..m
    BY <1>1
  <2>3. pos[k] = here + Len(h[k]) /\ pos[k - 1] = here + Len(h[k - 1])
    BY <2>2
  <2>4. Len(own[k]) \in Nat
    <3>1. own[k] \in Label
      BY TextTypes
    <3> QED BY <3>1, LabelTypes
  <2> HIDE DEF pos, m
  <2> DEFINE x == Len(h[k - 1])
             y == Len(own[k])
  <2>5. x \in Nat /\ y \in Nat /\ pos[k] = here + (x + (1 + y)) /\ pos[k - 1] = here + x
    BY <2>1, <2>3, <2>4
  <2> HIDE DEF x, y
  <2>6. here + (x + (1 + y)) = (here + x) + 1 + y
    BY <2>5, <1>2
  <2>7. pos[k] = pos[k - 1] + 1 + y
    BY <2>5, <2>6, Zenon
  <2> QED BY <2>1, <2>2, <2>3, <2>7, Zenon DEF y
<1>5. pos[0] = here /\ pos[m] = here + Len(h[m])
  <2>1. 0 \in 0..m /\ m \in 0..m
    BY <1>1
  <2>2. h[0] = <<>>
    BY WireIs, Zenon
  <2>3. pos[0] = here + Len(h[0]) /\ pos[m] = here + Len(h[m])
    BY <2>1
  <2>4. Len(h[0]) = 0 /\ here + 0 = here
    BY <2>2, <1>2
  <2> QED BY <2>3, <2>4, Zenon
<1> HIDE DEF pos
<1>6. 0 + 1 = 1 /\ m - 0 = m /\ 0 \in Nat /\ m \in 0..Len(labels) /\ m <= steps
  BY <1>1
<1>7. Laid(p, labels, pos, 0, m)
  <2> HIDE DEF m
  <2>1. \A k \in 0 + 1..m : pos[k] = pos[k - 1] + 1 + Len(labels[k])
                            /\ LabelAt(p, pos[k - 1], labels[k])
    BY <1>4, <1>6
  <2>2. pos[0] \in Nat \ {0}
    BY <1>2, <1>5
  <2> QED BY <2>1, <2>2, Zenon DEF Laid
<1> HIDE DEF m
<1>8. Leads(p, At(steps, pos[0], after, NameTo(g, 0)),
               At(steps - (m - 0), pos[m], after, NameTo(g, m)))
  <2>1. m - 0 <= steps
    BY <1>6
  <2> QED BY <2>1, <1>6, <1>7, WalkPart, Zenon
<1> QED BY <1>5, <1>6, <1>8, Zenon DEF m

\* A shortened name is its own labels and a pointer, or it is whole.
LEMMA CompressedIs ==
  ASSUME MdnsAssumption, NEW labels \in Seq(Label), NEW first \in Seq(Label)
  PROVE  /\ Compressed(labels, first) \in Seq(Nat)
         /\ Shared(first, labels) # 0 =>
              LET n == Shared(first, labels)
                  own == SubSeq(labels, 1, Len(labels) - n)
              IN  /\ own \in Seq(Label) /\ Len(own) = Len(labels) - n
                  /\ \A i \in 1..Len(own) : own[i] = labels[i]
                  /\ n \in 1..Len(labels) /\ n \in 1..Len(first)
                  /\ Ending(labels, n) = Ending(first, n)
                  /\ \A h, f : Joins(h, WireParts(own), Nat) /\ Joins(f, WireParts(first), Nat) =>
                       /\ Len(f[Len(first) - n]) \in Nat
                       /\ Compressed(labels, first)
                            = h[Len(own)] \o <<Pointer, Header + Len(f[Len(first) - n])>>
<1> DEFINE n == Shared(first, labels)
           own == SubSeq(labels, 1, Len(labels) - n)
           place == Header + Len(Wire(first)) - Len(Wire(Ending(first, n)))
           cut == SubSeq(Wire(own), 1, Len(Wire(own)) - 1)
<1>1. n \in 0..Len(first) /\ n \in 0..Len(labels) /\ Ending(first, n) = Ending(labels, n)
  BY SharedIs
<1>2. /\ own \in Seq(Label) /\ Len(own) = Len(labels) - n
      /\ \A i \in 1..Len(labels) - n : own[i] = labels[i]
  BY <1>1, PartOfName, Zenon
<1>3. Compressed(labels, first) = IF n = 0 THEN Wire(labels) ELSE cut \o <<Pointer, place>>
  BY Zenon DEF Compressed
<1> HIDE DEF n, own, place
<1>4. ASSUME NEW h, NEW f, Joins(h, WireParts(own), Nat), Joins(f, WireParts(first), Nat)
      PROVE  /\ place = Header + Len(f[Len(first) - n]) /\ Len(f[Len(first) - n]) \in Nat
             /\ cut = h[Len(own)] /\ h[Len(own)] \in Seq(Nat)
  <2>1. place = Header + Len(f[Len(first) - n]) /\ Len(f[Len(first) - n]) \in Nat
    BY <1>1, <1>4, PlaceIs, Zenon DEF place
  <2>2. cut = h[Len(own)] /\ h[Len(own)] \in Seq(Nat)
    BY <1>2, <1>4, WireIs, Zenon
  <2> QED BY <2>1, <2>2
<1>5. ASSUME NEW l \in Seq(Label) PROVE \E h : Joins(h, WireParts(l), Nat)
  <2> DEFINE s == WireParts(l)
  <2>1. s \in Seq(Seq(Nat))
    BY WireTypes
  <2> HIDE DEF s
  <2>2. \E h : Joins(h, s, Nat)
    BY <2>1, Flattens
  <2> QED BY <2>2 DEF s
<1>6. Wire(labels) \in Seq(Nat)
  BY <1>5, WireIs, Zenon
<1>7. cut \in Seq(Nat) /\ place \in Nat
  <2>1. PICK h : Joins(h, WireParts(own), Nat)
    BY <1>2, <1>5
  <2>2. PICK f : Joins(f, WireParts(first), Nat)
    BY <1>5
  <2>3. /\ place = Header + Len(f[Len(first) - n]) /\ Len(f[Len(first) - n]) \in Nat
        /\ cut = h[Len(own)] /\ h[Len(own)] \in Seq(Nat)
    BY <2>1, <2>2, <1>4
  <2> HIDE DEF cut
  <2> QED BY <2>3, Bounds
<1> HIDE DEF cut
<1>8. Compressed(labels, first) \in Seq(Nat)
  <2>1. <<Pointer, place>> \in Seq(Nat)
    BY <1>7 DEF Pointer
  <2>2. cut \o <<Pointer, place>> \in Seq(Nat)
    BY <2>1, <1>7, ConcatProperties
  <2> QED BY <2>2, <1>3, <1>6
<1>9. n # 0 => n \in 1..Len(labels) /\ n \in 1..Len(first)
  BY <1>1, LenProperties
<1>10. ASSUME n # 0, NEW h, NEW f, Joins(h, WireParts(own), Nat), Joins(f, WireParts(first), Nat)
       PROVE  /\ Len(f[Len(first) - n]) \in Nat
              /\ Compressed(labels, first)
                   = h[Len(own)] \o <<Pointer, Header + Len(f[Len(first) - n])>>
  <2>1. /\ place = Header + Len(f[Len(first) - n]) /\ Len(f[Len(first) - n]) \in Nat
        /\ cut = h[Len(own)]
    BY <1>4, <1>10, Zenon
  <2> QED BY <2>1, <1>3, <1>10, Zenon
<1> QED BY <1>1, <1>2, <1>8, <1>9, <1>10, Zenon DEF n, own

LEMMA TwoBytes ==
  ASSUME NEW p, Len(p) \in Nat, NEW k, NEW a \in Nat, NEW b \in Nat, Stands(p, k, <<a, b>>)
  PROVE  k \in 1..Len(p) - 1 /\ p[k] = a /\ p[k + 1] = b
<1> DEFINE t == <<a, b>>
<1>1. Len(t) = 2 /\ t[1] = a /\ t[2] = b
  OBVIOUS
<1> HIDE DEF t
<1>2. k \in Nat \ {0} /\ k + Len(t) <= Len(p) + 1 /\ \A i \in 1..Len(t) : p[(k - 1) + i] = t[i]
  BY Zenon DEF Stands, t
<1>3. /\ 1 \in 1..Len(t) /\ 2 \in 1..Len(t) /\ (k - 1) + 1 = k /\ (k - 1) + 2 = k + 1
      /\ k \in 1..Len(p) - 1
  BY <1>1, <1>2
<1> QED BY <1>1, <1>2, <1>3, Zenon

\* A name that is shortened is read as if it stood whole.
LEMMA ReadsShortened ==
  ASSUME MdnsAssumption, NEW p \in Seq(Nat), NEW labels \in AskedNames, NEW first \in AskedNames,
         Stands(p, Header + 1, Wire(first)), NEW here, Stands(p, here, Compressed(labels, first))
  PROVE  IsRead(p, here, labels, here + Len(Compressed(labels, first)))
<1> DEFINE n == Shared(first, labels)
           c == Compressed(labels, first)
           own == SubSeq(labels, 1, Len(labels) - n)
<1>1. /\ labels \in Seq(Label) /\ Len(labels) \in Nat \ {0} /\ Len(labels) + 2 <= MaxSteps
      /\ first \in Seq(Label) /\ Len(first) \in Nat /\ MaxSteps \in Nat /\ Header \in Nat
      /\ Len(p) \in Nat
  BY NameIs, Bounds, LenProperties
<1>2. CASE n = 0
  <2>1. c = Wire(labels)
    BY <1>2, Zenon DEF Compressed
  <2>2. Stands(p, here, Wire(labels))
    BY <2>1
  <2>3. IsRead(p, here, labels, here + Len(Wire(labels)))
    BY <2>2, ReadsWire, Zenon
  <2> QED BY <2>1, <2>3
<1>3. CASE n # 0
  <2>1. /\ own \in Seq(Label) /\ Len(own) = Len(labels) - n
        /\ \A i \in 1..Len(own) : own[i] = labels[i]
        /\ n \in 1..Len(labels) /\ n \in 1..Len(first)
        /\ Ending(labels, n) = Ending(first, n)
        /\ \A h, f : Joins(h, WireParts(own), Nat) /\ Joins(f, WireParts(first), Nat) =>
             /\ Len(f[Len(first) - n]) \in Nat
             /\ c = h[Len(own)] \o <<Pointer, Header + Len(f[Len(first) - n])>>
    BY <1>1, <1>3, CompressedIs, Zenon
  <2>2. PICK f : Joins(f, WireParts(first), Nat)
    BY NameIs
  <2> HIDE DEF n, own, c
  <2>3. PICK h : Joins(h, WireParts(own), Nat)
    <3> DEFINE s == WireParts(own)
    <3>1. s \in Seq(Seq(Nat))
      BY <2>1, WireTypes
    <3> HIDE DEF s
    <3>2. \E h : Joins(h, s, Nat)
      BY <3>1, Flattens
    <3> QED BY <3>2 DEF s
  <2>4. PICK g : Named(labels, g) /\ NameTo(g, Len(labels)) = Text(labels) /\ NameTo(g, 0) = <<>>
    BY NameIs
  <2>5. NameTo(g, Len(labels)) \in Seq(Nat)
    BY <1>1, <2>4, TextIsText
  <2> DEFINE m == Len(own)
             top == h[m]
             x == Len(f[Len(first) - n])
             place == Header + x
             k == here + Len(top)
             jump == <<Pointer, place>>
  <2>6. x \in Nat /\ c = top \o jump
    BY <2>1, <2>2, <2>3, Zenon
  <2>7. top \in Seq(Nat) /\ Len(top) \in Nat
    BY <2>1, <2>3, WireIs, Zenon
  <2>8. place \in Nat /\ Pointer \in Nat /\ jump \in Seq(Nat) /\ Len(jump) = 2
    BY <2>6, <1>1 DEF Pointer
  <2>9. m \in Nat /\ m + n = Len(labels) /\ n \in Nat
    BY <2>1, <1>1
  <2> HIDE DEF m, top, x, place, jump
  <2>10. Stands(p, here, top) /\ Stands(p, k, jump)
    <3>1. Stands(p, here, top \o jump)
      BY <2>6 DEF c
    <3> QED BY <3>1, <2>7, <2>8, <1>1, StandsBoth, Zenon
  <2>11. k \in 1..Len(p) - 1 /\ p[k] = Pointer /\ p[k + 1] = place
    <3> HIDE DEF k
    <3>1. Stands(p, k, <<Pointer, place>>) /\ place \in Nat /\ Pointer \in Nat /\ Len(p) \in Nat
      BY <2>8, <2>10, <1>1 DEF jump
    <3> QED BY <3>1, TwoBytes
  <2>12. here \in Nat \ {0}
    BY <2>10 DEF Stands
  <2>13. Leads(p, At(MaxSteps, here, 0, <<>>), At(MaxSteps - m, k, 0, NameTo(g, m)))
    <3>1. /\ Len(own) <= Len(labels) /\ MaxSteps \in 0..MaxSteps /\ Len(own) <= MaxSteps
          /\ 0 \in Nat
      BY <2>9, <1>1 DEF m
    <3>2. Stands(p, here, h[Len(own)])
      BY <2>10 DEF top, m
    <3>3. Leads(p, At(MaxSteps, here, 0, NameTo(g, 0)),
                   At(MaxSteps - Len(own), here + Len(h[Len(own)]), 0, NameTo(g, Len(own))))
      BY <3>1, <3>2, <2>1, <2>3, <2>4, <1>1, ReadsBeginning
    <3> QED BY <3>3, <2>4, Zenon DEF m, top
  <2>14. NameTo(g, m) \in Seq(Nat)
    <3>1. m + 1 \in 1..Len(labels) /\ (m + 1) - 1 = m
      BY <2>1, <2>9
    <3>2. Joins(g, TextParts(labels), Nat)
      BY <2>4 DEF Named
    <3>3. NameTo(g, (m + 1) - 1) \in Seq(Nat)
      BY <3>1, <3>2, <1>1, NameGrows, Zenon
    <3> QED BY <3>1, <3>3
  <2> HIDE DEF k
  <2>15. Leads(p, At(MaxSteps - m, k, 0, NameTo(g, m)),
                  At((MaxSteps - m) - 1, 1 + place, k + 2, NameTo(g, m)))
    <3>1. MaxSteps - m \in 1..MaxSteps /\ 0 \in Nat
      BY <2>1, <2>9, <1>1
    <3>2. Leads(p, At(MaxSteps - m, k, 0, NameTo(g, m)),
                   At((MaxSteps - m) - 1, 1 + p[k + 1], Place(0, k + 2), NameTo(g, m)))
      BY <3>1, <2>11, <2>14, WalkJumps
    <3>3. Place(0, k + 2) = k + 2
      BY DEF Place
    <3> QED BY <3>2, <3>3, <2>11, Zenon
  <2>16. Walk(p)[At((MaxSteps - m) - 1, (Header + 1) + x, k + 2, NameTo(g, m))]
           = [ok |-> TRUE, name |-> NameTo(g, Len(labels)),
              pos |-> Place(k + 2, (Header + 1) + Len(Wire(first)))]
    <3>1. /\ n <= Len(labels) /\ n <= Len(first) /\ (MaxSteps - m) - 1 \in 0..MaxSteps
          /\ n + 1 <= (MaxSteps - m) - 1 /\ k + 2 \in Nat /\ Len(labels) - n = m
      <4> DEFINE all == Len(labels)
                 q == Len(p)
                 d == Len(first)
      <4>1. /\ all \in Nat \ {0} /\ all + 2 <= MaxSteps /\ MaxSteps \in Nat /\ q \in Nat
            /\ n \in 1..all /\ n \in 1..d /\ m \in Nat /\ m + n = all /\ k \in 1..q - 1
            /\ d \in Nat
        BY <2>1, <2>9, <2>11, <1>1
      <4> HIDE DEF all, q, d
      <4>2. /\ n <= all /\ n <= d /\ (MaxSteps - m) - 1 \in 0..MaxSteps
            /\ n + 1 <= (MaxSteps - m) - 1 /\ k + 2 \in Nat /\ all - n = m
        BY <4>1
      <4> QED BY <4>2 DEF all, d
    <3> DEFINE steps == (MaxSteps - m) - 1
               start == Header + 1
               after == k + 2
    <3> HIDE DEF steps, start, after
    <3>2. /\ steps \in 0..MaxSteps /\ n + 1 <= steps /\ after \in Nat
          /\ Stands(p, start, Wire(first))
      BY <3>1 DEF steps, start, after
    <3>3. Walk(p)[At(steps, start + Len(f[Len(first) - n]), after, NameTo(g, Len(labels) - n))]
           = [ok |-> TRUE, name |-> NameTo(g, Len(labels)),
              pos |-> Place(after, start + Len(Wire(first)))]
      BY <3>1, <3>2, <2>1, <2>2, <2>4, <2>5, <2>9, <1>1, ReadsEnding
    <3> QED BY <3>1, <3>3, Zenon DEF steps, start, after, x
  <2>17. /\ (Header + 1) + x = 1 + place /\ k + 2 = here + Len(c)
         /\ Place(k + 2, (Header + 1) + Len(Wire(first))) = k + 2
    <3>1. (Header + 1) + x = 1 + place
      BY <2>6, <1>1 DEF place
    <3>2. Len(c) = Len(top) + 2
      <4>1. Len(top \o jump) = Len(top) + Len(jump)
        BY <2>7, <2>8, ConcatProperties
      <4> QED BY <4>1, <2>6, <2>8, Zenon
    <3>3. k + 2 = here + Len(c)
      BY <3>2, <2>7, <2>12 DEF k
    <3>4. k + 2 # 0
      BY <2>11
    <3>5. Place(k + 2, (Header + 1) + Len(Wire(first))) = k + 2
      BY <3>4 DEF Place
    <3> QED BY <3>1, <3>3, <3>5
  <2>18. Walk(p)[Begun(here)] = [ok |-> TRUE, name |-> Text(labels), pos |-> here + Len(c)]
    BY <2>4, <2>13, <2>15, <2>16, <2>17, Zenon DEF Leads, Begun, At
  <2> QED BY <2>18, ReadNameWalks, Zenon DEF IsRead, c
<1> QED BY <1>2, <1>3

-----------------------------------------------------------------------------
(* The questions of a packet                                               *)

Question == [labels : AskedNames, alone : BOOLEAN]

\* At an index there is a question, and the next one follows.
QuestionAt(p, here, q, next) ==
  /\ next \in Nat \ {0} /\ next <= Len(p) + 1
  /\ IsRead(p, here, q.labels, next - TypeClass)
  /\ (p[(next - TypeClass) + 2] >= 128) = q.alone

LEMMA RestIs ==
  ASSUME MdnsAssumption, NEW q, q.alone \in BOOLEAN
  PROVE  /\ Rest(q) \in Seq(Nat) /\ Len(Rest(q)) = TypeClass
         /\ (Rest(q)[3] >= 128) = q.alone
<1> DEFINE r == [i \in 1..TypeClass |-> IF i = 3 /\ q.alone THEN 128 ELSE 0]
<1>1. TypeClass \in Nat /\ TypeClass > 2 /\ 3 \in 1..TypeClass
  BY Bounds
<1>2. r \in [1..TypeClass -> Nat] /\ r[3] = IF q.alone THEN 128 ELSE 0
  BY <1>1
<1>3. Rest(q) = r
  BY DEF Rest
<1> HIDE DEF r
<1>4. r \in Seq(Nat) /\ Len(r) = TypeClass
  BY <1>1, <1>2
<1>5. (r[3] >= 128) = q.alone
  <2>1. q.alone => r[3] >= 128
    BY <1>2
  <2>2. ~q.alone => ~(r[3] >= 128)
    BY <1>2
  <2>3. (r[3] >= 128) \in BOOLEAN
    OBVIOUS
  <2> HIDE DEF r
  <2> QED BY <2>1, <2>2, <2>3, Zenon
<1> QED BY <1>3, <1>4, <1>5

\* A question is read with its name and with whom the answer is for.
LEMMA Asks ==
  ASSUME MdnsAssumption, NEW p \in Seq(Nat), NEW q \in Question, NEW here, NEW pos,
         IsRead(p, here, q.labels, pos), Stands(p, pos, Rest(q))
  PROVE  QuestionAt(p, here, q, pos + TypeClass)
<1> DEFINE r == Rest(q)
           next == pos + TypeClass
<1>1. Len(p) \in Nat /\ TypeClass \in Nat /\ TypeClass > 2 /\ q.alone \in BOOLEAN
  BY LenProperties, Bounds DEF Question
<1>2. Len(r) = TypeClass /\ (r[3] >= 128) = q.alone
  BY <1>1, RestIs
<1>3. /\ pos \in Nat \ {0} /\ pos + Len(r) <= Len(p) + 1
      /\ \A i \in 1..Len(r) : p[(pos - 1) + i] = r[i]
  BY Zenon DEF Stands
<1> HIDE DEF r
<1>4. /\ 3 \in 1..Len(r) /\ (pos - 1) + 3 = pos + 2 /\ next - TypeClass = pos
      /\ next \in Nat \ {0} /\ next <= Len(p) + 1
  BY <1>1, <1>2, <1>3
<1>5. p[pos + 2] = r[3]
  BY <1>3, <1>4, Zenon
<1> HIDE DEF next
<1>6. (p[(next - TypeClass) + 2] >= 128) = q.alone
  BY <1>2, <1>4, <1>5
<1> QED BY <1>4, <1>6, Zenon DEF QuestionAt, next

\* The questions that are looked at are the first of those that are there.
InARow(p, qs, starts, n) ==
  /\ \A i \in 1..n + 1 : starts[i] \in Nat \ {0}
  /\ \A i \in 1..n : QuestionAt(p, starts[i], qs[i], starts[i + 1])
ReadsRow(p, qs, starts, n) ==
  Questions(p, starts[1], n) = {[name |-> Text(qs[i].labels), alone |-> qs[i].alone] : i \in 1..n}

LEMMA QuestionsAreRead ==
  ASSUME MdnsAssumption, NEW p \in Seq(Nat), NEW n \in Nat, n <= MaxQuestions,
         NEW qs, NEW starts, InARow(p, qs, starts, n)
  PROVE  ReadsRow(p, qs, starts, n)
<1> DEFINE S == [left : 0..MaxQuestions, at : Nat \ {0}]
           Name(s) == ReadName(p, s.at)
           Is(s, f) ==
             IF s.left = 0 \/ ~Name(s).ok \/ Name(s).pos - 1 + TypeClass > Len(p) THEN {}
             ELSE {[name |-> Name(s).name, alone |-> p[Name(s).pos + 2] >= 128]}
                    \cup f[[left |-> s.left - 1, at |-> Name(s).pos + TypeClass]]
           Entry == {[name |-> Name(s).name, alone |-> p[Name(s).pos + 2] >= 128] : s \in S}
           R == SUBSET Entry
           done == {s \in S : s.left = 0 \/ ~Name(s).ok \/ Name(s).pos - 1 + TypeClass > Len(p)}
           out == [s \in S |-> {}]
           next == [s \in S |-> [left |-> s.left - 1, at |-> Name(s).pos + TypeClass]]
           comb == [s \in S |-> [r \in R |->
                      {[name |-> Name(s).name, alone |-> p[Name(s).pos + 2] >= 128]} \cup r]]
           m == [s \in S |-> s.left]
           Asked == CHOOSE f : f = [s \in S |-> Is(s, f)]
<1>0. /\ \A i \in 1..n + 1 : starts[i] \in Nat \ {0}
      /\ \A i \in 1..n : QuestionAt(p, starts[i], qs[i], starts[i + 1])
  BY Zenon DEF InARow
<1>1. /\ MaxQuestions \in Nat /\ TypeClass \in Nat /\ Len(p) \in Nat
  BY Bounds, LenProperties
<1>2. Iterable(S, R, done, out, next, comb, m, MaxQuestions)
  <2>1. \A s \in S : m[s] \in 0..MaxQuestions
    OBVIOUS
  <2>2. \A s \in S \cap done : out[s] \in R
    OBVIOUS
  <2>3. ASSUME NEW s \in S \ done
        PROVE  next[s] \in S /\ m[next[s]] < m[s]
    <3>1. s.left \in 0..MaxQuestions /\ s.at \in Nat \ {0} /\ s.left # 0 /\ Name(s).ok /\ s \in S
      OBVIOUS
    <3> HIDE DEF Name, done
    <3>2. Name(s).pos \in s.at + 1..Len(p) + 1
      BY <3>1, NameEndsInside DEF Name
    <3>3. Name(s).pos + TypeClass \in Nat \ {0} /\ s.left - 1 \in 0..MaxQuestions
      BY <3>1, <3>2, <1>1
    <3>4. next[s] = [left |-> s.left - 1, at |-> Name(s).pos + TypeClass]
      BY <3>1
    <3>5. next[s] \in S
      BY <3>3, <3>4
    <3>6. m[next[s]] = s.left - 1 /\ m[s] = s.left
      BY <3>1, <3>4, <3>5
    <3> QED BY <3>1, <3>5, <3>6
  <2>4. \A s \in S \ done, r \in R : comb[s][r] \in R
    <3> SUFFICES ASSUME NEW s \in S \ done, NEW r \in R PROVE comb[s][r] \in R
      OBVIOUS
    <3> DEFINE e == [name |-> Name(s).name, alone |-> p[Name(s).pos + 2] >= 128]
    <3>1. e \in Entry
      OBVIOUS
    <3>2. comb[s][r] = {e} \cup r
      OBVIOUS
    <3> HIDE DEF e, comb, Entry
    <3> QED BY <3>1, <3>2
  <2> HIDE DEF S, R, done, out, next, comb, m
  <2> QED BY <2>1, <2>2, <2>3, <2>4, <1>1, Zenon DEF Iterable
<1>3. PICK f : IsIterated(f, S, R, done, out, next, comb)
  <2> HIDE DEF S, R, done, out, next, comb, m
  <2> QED BY <1>2, Iterates, Zenon
<1>4. ASSUME NEW s \in S PROVE f[s] = Is(s, f)
  <2>1. f \in [S -> R] /\ f[s] = IF s \in done THEN out[s] ELSE comb[s][f[next[s]]]
    BY <1>3 DEF IsIterated
  <2>2. CASE s \in done
    <3>1. out[s] = {} /\ (s.left = 0 \/ ~Name(s).ok \/ Name(s).pos - 1 + TypeClass > Len(p))
      BY <2>2
    <3> HIDE DEF done, out
    <3> QED BY <3>1, <2>1, <2>2, Zenon
  <2>3. CASE s \notin done
    <3>1. ~(s.left = 0 \/ ~Name(s).ok \/ Name(s).pos - 1 + TypeClass > Len(p))
      BY <2>3
    <3>2. next[s] \in S
      <4> HIDE DEF S, R, done, out, next, comb, m
      <4> QED BY <1>2, <2>3, Zenon DEF Iterable
    <3>3. f[next[s]] \in R
      BY <2>1, <3>2
    <3>4. comb[s][f[next[s]]] =
            {[name |-> Name(s).name, alone |-> p[Name(s).pos + 2] >= 128]} \cup f[next[s]]
      <4> HIDE DEF next, Name, R, S
      <4> QED BY <3>3
    <3>5. next[s] = [left |-> s.left - 1, at |-> Name(s).pos + TypeClass]
      OBVIOUS
    <3> HIDE DEF done, next, comb
    <3> QED BY <3>1, <3>4, <3>5, <2>1, <2>3, Zenon
  <2> QED BY <2>2, <2>3
<1>5. Asked = [s \in S |-> Is(s, Asked)]
  <2> DEFINE Fits(g) == g = [s \in S |-> Is(s, g)]
  <2>1. f \in [S -> R]
    BY <1>3, Zenon DEF IsIterated
  <2>2. Fits(f)
    <3> HIDE DEF Is, S, R
    <3> QED BY <2>1, <1>4
  <2> HIDE DEF Fits
  <2>3. Fits(CHOOSE g : Fits(g))
    BY <2>2
  <2> QED BY <2>3, Zenon DEF Fits
<1>6. \A s \in S : Asked[s] = Is(s, Asked)
  <2> DEFINE g(s) == Is(s, Asked)
  <2>1. Asked = [s \in S |-> g(s)]
    BY <1>5
  <2> HIDE DEF g, Asked
  <2>2. \A s \in S : Asked[s] = g(s)
    BY <2>1
  <2> QED BY <2>2 DEF g
<1>7. Questions(p, starts[1], n) = Asked[[left |-> n, at |-> starts[1]]]
  BY DEF Questions
<1> DEFINE entry(i) == [name |-> Text(qs[i].labels), alone |-> qs[i].alone]
           Come(k) == Asked[[left |-> n, at |-> starts[1]]]
                        = {entry(i) : i \in 1..k} \cup Asked[[left |-> n - k, at |-> starts[k + 1]]]
           T == {k \in Nat : Come(k)}
<1> HIDE DEF Asked
<1>8. 0 \in T
  <2>1. n - 0 = n /\ 0 + 1 = 1 /\ {entry(i) : i \in 1..0} = {}
    OBVIOUS
  <2>2. Come(0)
    BY <2>1
  <2> HIDE DEF Come
  <2> QED BY <2>2
<1>9. ASSUME NEW k \in 0..n - 1, k \in T
      PROVE  k + 1 \in T
  <2> DEFINE s == [left |-> n - k, at |-> starts[k + 1]]
  <2>1. /\ k + 1 \in 1..n /\ k + 1 \in 1..n + 1 /\ (k + 1) + 1 \in 1..n + 1 /\ k + 1 \in Nat
        /\ n - k \in 1..MaxQuestions /\ (n - k) - 1 = n - (k + 1)
        /\ 1..k + 1 = (1..k) \cup {k + 1}
    BY <1>1
  <2>2. starts[k + 1] \in Nat \ {0}
    BY <2>1, <1>0
  <2>3. s \in S /\ s.left = n - k /\ s.at = starts[k + 1] /\ s.left # 0
    BY <2>1, <2>2
  <2>4. Come(k)
    BY <1>9
  <2> DEFINE nx == starts[(k + 1) + 1]
             q == qs[k + 1]
             pos == nx - TypeClass
  <2>5. QuestionAt(p, starts[k + 1], q, nx)
    BY <2>1, <1>0, Zenon
  <2> HIDE DEF nx, q
  <2>6. /\ nx \in Nat \ {0} /\ nx <= Len(p) + 1
        /\ ReadName(p, starts[k + 1]) = [ok |-> TRUE, name |-> Text(q.labels), pos |-> pos]
        /\ (p[pos + 2] >= 128) = q.alone
    BY <2>5, Zenon DEF QuestionAt, IsRead
  <2>7. pos - 1 + TypeClass <= Len(p) /\ pos + TypeClass = nx
    BY <2>6, <1>1
  <2> HIDE DEF pos, s
  <2>8. Name(s).ok /\ Name(s).name = Text(q.labels) /\ Name(s).pos = pos
    BY <2>3, <2>6
  <2>9. ~(Name(s).pos - 1 + TypeClass > Len(p))
    <3>1. ~(pos - 1 + TypeClass > Len(p))
      <4>1. pos \in Int
        BY <2>6, <1>1 DEF pos
      <4> QED BY <4>1, <2>7, <1>1
    <3> QED BY <3>1, <2>8
  <2>10. Asked[s] = Is(s, Asked)
    BY <2>3, <1>6
  <2>11. Is(s, Asked) = {[name |-> Text(q.labels), alone |-> q.alone]}
                         \cup Asked[[left |-> n - (k + 1), at |-> nx]]
    <3> HIDE DEF Name
    <3> QED BY <2>1, <2>3, <2>6, <2>7, <2>8, <2>9, Zenon
  <2>12. Asked[s] = {entry(k + 1)} \cup Asked[[left |-> n - (k + 1), at |-> starts[(k + 1) + 1]]]
    BY <2>10, <2>11, Zenon DEF q, nx
  <2>13. Come(k + 1)
    <3> DEFINE more == Asked[[left |-> n - (k + 1), at |-> starts[(k + 1) + 1]]]
               old == {entry(i) : i \in 1..k}
               all == {entry(i) : i \in 1..k + 1}
    <3>1. all = old \cup {entry(k + 1)}
      <4> HIDE DEF entry
      <4> QED BY <2>1
    <3>2. Asked[[left |-> n, at |-> starts[1]]] = old \cup Asked[s]
      BY <2>4 DEF s
    <3> HIDE DEF more, old, all, entry
    <3>3. Asked[[left |-> n, at |-> starts[1]]] = all \cup more
      <4>1. Asked[s] = {entry(k + 1)} \cup more
        BY <2>12, Zenon DEF more
      <4> QED BY <3>1, <3>2, <4>1
    <3> QED BY <3>3, Zenon DEF more, all
  <2> HIDE DEF Come
  <2> QED BY <2>1, <2>13
<1>10. n \in T
  <2> HIDE DEF T
  <2>1. \A k \in 0..n : k \in T
    BY <1>8, <1>9, UpTo
  <2> QED BY <2>1
<1>11. Come(n)
  BY <1>10
<1>12. Asked[[left |-> n - n, at |-> starts[n + 1]]] = {}
  <2> DEFINE s == [left |-> n - n, at |-> starts[n + 1]]
  <2>1. n + 1 \in 1..n + 1 /\ n - n = 0 /\ 0 \in 0..MaxQuestions
    BY <1>1
  <2>2. s \in S /\ s.left = 0
    BY <2>1, <1>0
  <2> HIDE DEF s, S
  <2>3. Is(s, Asked) = {}
    BY <2>2, Zenon
  <2> QED BY <2>2, <2>3, <1>6, Zenon DEF s
<1> DEFINE all == {entry(i) : i \in 1..n}
<1>13. Asked[[left |-> n, at |-> starts[1]]]
         = all \cup Asked[[left |-> n - n, at |-> starts[n + 1]]]
  BY <1>11
<1> HIDE DEF all
<1>14. Asked[[left |-> n, at |-> starts[1]]] = all
  BY <1>12, <1>13
<1> QED BY <1>7, <1>14, Zenon DEF ReadsRow, all

\* Where pieces stand in one each of them stands behind those before it.
StandsAfter(p, here, e, s, k) ==
  /\ Len(e[k - 1]) \in Nat /\ Len(e[k]) = Len(e[k - 1]) + Len(s[k])
  /\ Stands(p, here + Len(e[k - 1]), s[k])

LEMMA PiecesStand ==
  ASSUME NEW X, NEW s \in Seq(Seq(X)), NEW e, Joins(e, s, X),
         NEW p, Len(p) \in Nat, NEW here, Stands(p, here, e[Len(s)]), NEW k \in 1..Len(s)
  PROVE  StandsAfter(p, here, e, s, k)
<1> DEFINE n == Len(s)
           a == Len(e[k - 1])
           b == Len(s[k])
           c == Len(e[n])
<1>1. n \in Nat /\ s[k] \in Seq(X) /\ b \in Nat
  BY LenProperties
<1>2. Stacks(e, s, X)
  BY JoinedStand
<1>3. /\ \A i \in 0..n : e[i] \in Seq(X) /\ Len(e[i]) \in 0..c
      /\ \A i \in 1..n : Len(e[i]) = Len(e[i - 1]) + Len(s[i])
      /\ \A i \in 1..n : \A j \in 1..Len(s[i]) : e[n][Len(e[i - 1]) + j] = s[i][j]
  BY <1>2, Zenon DEF Stacks
<1>4. k \in 0..n /\ k - 1 \in 0..n /\ n \in 0..n
  BY <1>1
<1>5. /\ Len(e[k]) = a + b /\ Len(e[k]) \in 0..c /\ \A j \in 1..b : e[n][a + j] = s[k][j]
  BY <1>3, <1>4, Zenon
<1>6. a \in Nat /\ c \in Nat
  BY <1>3, <1>4, LenProperties
<1>7. here \in Nat \ {0} /\ here + c <= Len(p) + 1 /\ \A i \in 1..c : p[(here - 1) + i] = e[n][i]
  BY Zenon DEF Stands
<1>8. a + b <= c
  <2> DEFINE top == Len(e[k])
  <2>1. top = a + b /\ top \in 0..c
    BY <1>5
  <2> HIDE DEF top, a, b, c
  <2> QED BY <2>1, <1>1, <1>6
<1> HIDE DEF a, b, c, n
<1>9. /\ here + a \in Nat \ {0} /\ (here + a) + b <= Len(p) + 1
      /\ \A j \in 1..b : a + j \in 1..c /\ (here - 1) + (a + j) = ((here + a) - 1) + j
  <2> DEFINE m == Len(p)
  <2>1. here \in Nat \ {0} /\ m \in Nat /\ here + c <= m + 1
    BY <1>7
  <2> HIDE DEF m
  <2>2. here + a \in Nat \ {0} /\ (here + a) + b <= m + 1
    BY <2>1, <1>1, <1>6, <1>8
  <2>3. \A j \in 1..b : a + j \in 1..c
    BY <1>1, <1>6, <1>8
  <2>4. \A j \in 1..b : (here - 1) + (a + j) = ((here + a) - 1) + j
    BY <2>1, <1>1, <1>6
  <2> QED BY <2>2, <2>3, <2>4, Zenon DEF m
<1>10. \A j \in 1..b : p[((here + a) - 1) + j] = s[k][j]
  BY <1>5, <1>7, <1>9, Zenon
<1> QED BY <1>5, <1>6, <1>9, <1>10, Zenon DEF StandsAfter, Stands, a, b

PacketBytes(z, w, r, e) == ((z \o w) \o r) \o e

LEMMA FourStand ==
  ASSUME NEW z \in Seq(Nat), NEW w \in Seq(Nat), NEW r \in Seq(Nat), NEW e \in Seq(Nat)
  PROVE  LET p == PacketBytes(z, w, r, e)
         IN  /\ p \in Seq(Nat) /\ Len(p) \in Nat /\ Len(z) <= Len(p)
             /\ Stands(p, Len(z) + 1, w) /\ Stands(p, (Len(z) + 1) + Len(w), r)
             /\ Stands(p, ((Len(z) + 1) + Len(w)) + Len(r), e)
<1> DEFINE zw == z \o w
           zwr == zw \o r
           p == zwr \o e
<1>1. zw \in Seq(Nat) /\ Len(zw) = Len(z) + Len(w)
  BY ConcatProperties
<1> HIDE DEF zw
<1>2. zwr \in Seq(Nat) /\ Len(zwr) = Len(zw) + Len(r)
  BY <1>1, ConcatProperties
<1> HIDE DEF zwr
<1>3. p \in Seq(Nat) /\ Len(p) = Len(zwr) + Len(e)
  BY <1>2, ConcatProperties
<1> HIDE DEF p
<1>4. Len(z) \in Nat /\ Len(w) \in Nat /\ Len(r) \in Nat /\ Len(e) \in Nat /\ Len(p) \in Nat
  BY <1>3, LenProperties
<1>5. Stands(p, 1, p)
  BY <1>3, StandsWhole
<1>6. Stands(p, 1, zwr) /\ Stands(p, 1 + Len(zwr), e)
  <2>1. Stands(p, 1, zwr \o e)
    BY <1>5 DEF p
  <2> QED BY <2>1, <1>2, <1>4, StandsBoth, Zenon
<1>7. Stands(p, 1, zw) /\ Stands(p, 1 + Len(zw), r)
  <2>1. Stands(p, 1, zw \o r)
    BY <1>6 DEF zwr
  <2> QED BY <2>1, <1>1, <1>4, StandsBoth, Zenon
<1>8. Stands(p, 1 + Len(z), w)
  <2>1. Stands(p, 1, z \o w)
    BY <1>7 DEF zw
  <2> QED BY <2>1, <1>4, StandsBoth, Zenon
<1>9. /\ 1 + Len(z) = Len(z) + 1 /\ 1 + Len(zw) = (Len(z) + 1) + Len(w)
      /\ 1 + Len(zwr) = ((Len(z) + 1) + Len(w)) + Len(r) /\ Len(z) <= Len(p)
  BY <1>1, <1>2, <1>3, <1>4
<1>10. PacketBytes(z, w, r, e) = p
  BY DEF PacketBytes, p, zwr, zw
<1> QED BY <1>3, <1>4, <1>6, <1>7, <1>8, <1>9, <1>10, Zenon

\* Where the questions of a packet are.
AskedAt(p, qs, starts) ==
  /\ p \in Seq(Nat) /\ ~(Len(p) < Header) /\ starts[1] = Header + 1
  /\ \A i \in 1..Len(qs) + 1 : starts[i] \in Nat \ {0}
  /\ \A i \in 1..Len(qs) : QuestionAt(p, starts[i], qs[i], starts[i + 1])

\* A packet of questions is one in a row of them.
LEMMA PacketAsks ==
  ASSUME MdnsAssumption, NEW qs \in Seq(Question), qs # <<>>, NEW elsewhere
  PROVE  \E starts : AskedAt(Packet(qs, elsewhere).bytes, qs, starts)
<1> DEFINE n == Len(qs)
           first == qs[1].labels
           t == Tail(qs)
           pieces == [i \in DOMAIN t |-> Compressed(t[i].labels, first) \o Rest(t[i])]
           z == [i \in 1..Header |-> 0]
           w == Wire(first)
           r == Rest(qs[1])
           en == Encoded(t, first)
           p == PacketBytes(z, w, r, en)
<1>1. n \in Nat \ {0} /\ \A i \in 1..n : qs[i] \in Question
  BY EmptySeq, LenProperties
<1>2. \A q \in Question : q.labels \in AskedNames /\ q.labels \in Seq(Label) /\ q.alone \in BOOLEAN
  BY DEF Question, AskedNames
<1>3. first \in AskedNames /\ first \in Seq(Label) /\ r \in Seq(Nat) /\ Len(r) = TypeClass
  <2>1. qs[1] \in Question
    BY <1>1
  <2> QED BY <2>1, <1>2, RestIs
<1>4. t \in Seq(Question) /\ Len(t) = n - 1 /\ \A i \in 1..n - 1 : t[i] = qs[i + 1]
  BY HeadTailProperties
<1>5. z \in Seq(Nat) /\ Len(z) = Header /\ Header \in Nat /\ TypeClass \in Nat
  BY Bounds
<1>6. w \in Seq(Nat) /\ Len(w) \in Nat
  <2>1. PICK f : Joins(f, WireParts(first), Nat)
    BY <1>3, NameIs
  <2>2. w \in Seq(Nat)
    BY <2>1, <1>3, WireIs, Zenon
  <2> QED BY <2>2, LenProperties
<1>7. /\ pieces \in Seq(Seq(Nat)) /\ Len(pieces) = n - 1
      /\ \A i \in 1..n - 1 : pieces[i] = Compressed(qs[i + 1].labels, first) \o Rest(qs[i + 1])
  <2> DEFINE piece(i) == Compressed(t[i].labels, first) \o Rest(t[i])
  <2> HIDE DEF first, n, t
  <2>1. DOMAIN t = 1..n - 1 /\ \A i \in 1..n - 1 : t[i] \in Question
    BY <1>4, LenProperties
  <2>2. \A i \in 1..n - 1 : piece(i) \in Seq(Nat)
    <3> SUFFICES ASSUME NEW i \in 1..n - 1 PROVE piece(i) \in Seq(Nat)
      BY Zenon
    <3> DEFINE q == t[i]
    <3>1. q.labels \in Seq(Label) /\ q.alone \in BOOLEAN
      BY <2>1, <1>2
    <3> HIDE DEF q
    <3>2. Compressed(q.labels, first) \in Seq(Nat) /\ Rest(q) \in Seq(Nat)
      BY <3>1, <1>3, CompressedIs, RestIs
    <3>3. Compressed(q.labels, first) \o Rest(q) \in Seq(Nat)
      BY <3>2, ConcatProperties
    <3> QED BY <3>3 DEF q
  <2>3. pieces = [i \in 1..n - 1 |-> piece(i)]
    BY <2>1
  <2>4. n - 1 \in Nat
    BY <1>1
  <2> HIDE DEF piece, pieces
  <2>5. pieces \in [1..n - 1 -> Seq(Nat)] /\ \A i \in 1..n - 1 : pieces[i] = piece(i)
    BY <2>2, <2>3
  <2>6. pieces \in Seq(Seq(Nat)) /\ Len(pieces) = n - 1
    BY <2>4, <2>5
  <2> QED BY <2>5, <2>6, <1>4, Zenon DEF piece
<1>8. en = FlattenSeq(pieces)
  BY Zenon DEF Encoded
<1> HIDE DEF first, t, pieces, z, w, r, en
<1>9. PICK e : Joins(e, pieces, Nat)
  BY <1>7, Flattens
<1>10. en = e[n - 1] /\ en \in Seq(Nat)
  <2>1. e \in [0..n - 1 -> Seq(Nat)] /\ FlattenSeq(pieces) = e[n - 1]
    BY <1>7, <1>9, Zenon DEF Joins
  <2>2. n - 1 \in 0..n - 1
    BY <1>1
  <2> QED BY <2>1, <2>2, <1>8
<1> DEFINE start == ((Header + 1) + Len(w)) + TypeClass
<1>11. /\ p \in Seq(Nat) /\ Len(p) \in Nat /\ Header <= Len(p)
       /\ Stands(p, Header + 1, w) /\ Stands(p, (Header + 1) + Len(w), r)
       /\ Stands(p, start, en)
  <2>1. /\ p \in Seq(Nat) /\ Len(p) \in Nat /\ Len(z) <= Len(p)
        /\ Stands(p, Len(z) + 1, w) /\ Stands(p, (Len(z) + 1) + Len(w), r)
        /\ Stands(p, ((Len(z) + 1) + Len(w)) + Len(r), en)
    BY <1>3, <1>5, <1>6, <1>10, FourStand, Zenon
  <2> HIDE DEF p
  <2> QED BY <2>1, <1>3, <1>5
<1>12. Packet(qs, elsewhere).bytes = p
  BY DEF Packet, PacketBytes, p, z, w, r, en, first, t
<1> HIDE DEF p
<1>13. start \in Nat \ {0} /\ Header + 1 \in Nat \ {0}
  BY <1>5, <1>6
<1> DEFINE starts == [i \in 1..n + 1 |-> IF i = 1 THEN Header + 1 ELSE start + Len(e[i - 2])]
<1> HIDE DEF start
<1>14. /\ starts[1] = Header + 1
       /\ \A k \in 0..n - 1 : starts[k + 2] = start + Len(e[k])
       /\ \A i \in 1..n + 1 : i = 1 \/ i - 2 \in 0..n - 1
  <2>1. 1 \in 1..n + 1 /\ n \in Nat
    BY <1>1
  <2>2. ASSUME NEW k \in 0..n - 1 PROVE starts[k + 2] = start + Len(e[k])
    <3>1. k + 2 \in 1..n + 1 /\ k + 2 # 1 /\ (k + 2) - 2 = k
      BY <2>1
    <3> QED BY <3>1
  <2> QED BY <2>1, <2>2
<1>15. \A k \in 0..n - 1 : Len(e[k]) \in Nat
  <2>1. e \in [0..n - 1 -> Seq(Nat)]
    BY <1>7, <1>9, Zenon DEF Joins
  <2> QED BY <2>1, LenProperties
<1>16. ASSUME NEW i \in 1..n + 1 PROVE starts[i] \in Nat \ {0}
  <2>1. CASE i = 1
    BY <2>1, <1>13, <1>14
  <2>2. CASE i # 1
    <3> DEFINE k == i - 2
               x == Len(e[k])
    <3>1. k \in 0..n - 1 /\ k + 2 = i
      BY <2>2, <1>1
    <3> HIDE DEF k
    <3>2. x \in Nat /\ starts[i] = start + x
      <4> HIDE DEF starts
      <4> QED BY <3>1, <1>14, <1>15
    <3> HIDE DEF x, starts
    <3> QED BY <3>2, <1>13
  <2> QED BY <2>1, <2>2
<1> HIDE DEF starts
<1>17. ASSUME NEW i \in 1..n PROVE QuestionAt(p, starts[i], qs[i], starts[i + 1])
  <2>1. CASE i = 1
    <3>1. IsRead(p, Header + 1, first, (Header + 1) + Len(w))
      BY <1>3, <1>11, ReadsWire, Zenon DEF w
    <3>2. qs[1] \in Question
      BY <1>1
    <3> DEFINE pos == (Header + 1) + Len(w)
    <3>3. IsRead(p, Header + 1, qs[1].labels, pos) /\ Stands(p, pos, Rest(qs[1]))
      BY <3>1, <1>11 DEF first, r
    <3> HIDE DEF pos
    <3>4. QuestionAt(p, Header + 1, qs[1], pos + TypeClass)
      BY <3>2, <3>3, <1>11, Asks, Zenon
    <3>5. pos + TypeClass = starts[2]
      <4>1. 0 \in 0..n - 1 /\ 0 + 2 = 2
        BY <1>1
      <4>2. starts[2] = start + Len(e[0])
        BY <4>1, <1>14, Zenon
      <4>3. e[0] = <<>>
        BY <1>9 DEF Joins
      <4>4. Len(e[0]) = 0 /\ start + 0 = start
        BY <4>3, <1>13
      <4> QED BY <4>2, <4>4, Zenon DEF start, pos
    <3>6. i + 1 = 2
      BY <2>1
    <3> QED BY <3>4, <3>5, <3>6, <2>1, <1>14, Zenon
  <2>2. CASE i # 1
    <3> DEFINE k == i - 1
               q == qs[i]
               c == Compressed(q.labels, first)
               x == Len(e[k - 1])
               a == start + x
               pos == a + Len(c)
    <3>1. /\ k \in 1..n - 1 /\ k + 1 = i /\ k - 1 \in 0..n - 1 /\ (k - 1) + 2 = i /\ k + 2 = i + 1
          /\ k \in 0..n - 1
      BY <2>2, <1>1
    <3>2. /\ q \in Question /\ q.labels \in AskedNames /\ q.labels \in Seq(Label)
          /\ q.alone \in BOOLEAN
      BY <1>1, <1>2
    <3>3. c \in Seq(Nat) /\ Rest(q) \in Seq(Nat) /\ Len(Rest(q)) = TypeClass
      BY <3>2, <1>3, CompressedIs, RestIs
    <3> HIDE DEF k, q, c
    <3>4. pieces[k] = c \o Rest(q)
      BY <3>1, <1>7, Zenon DEF c, q
    <3>5. /\ x \in Nat /\ Len(e[k]) = x + Len(pieces[k]) /\ Stands(p, a, pieces[k])
      <4>1. Stands(p, start, e[Len(pieces)]) /\ k \in 1..Len(pieces)
        BY <3>1, <1>7, <1>10, <1>11
      <4>2. pieces \in Seq(Seq(Nat)) /\ Len(p) \in Nat
        BY <1>7, <1>11
      <4> HIDE DEF x, a
      <4>3. StandsAfter(p, start, e, pieces, k)
        BY <4>1, <4>2, <1>9, PiecesStand, Zenon
      <4> QED BY <4>3, Zenon DEF StandsAfter, x, a
    <3>6. Len(pieces[k]) = Len(c) + TypeClass /\ Len(c) \in Nat
      BY <3>3, <3>4, ConcatProperties, LenProperties
    <3> HIDE DEF x
    <3>7. Stands(p, a, c) /\ Stands(p, pos, Rest(q))
      <4> HIDE DEF a
      <4> QED BY <3>3, <3>4, <3>5, <1>11, StandsBoth, Zenon
    <3>8. IsRead(p, a, q.labels, pos)
      <4>1. Stands(p, Header + 1, Wire(first))
        BY <1>11 DEF w
      <4> HIDE DEF a
      <4> QED BY <4>1, <3>2, <3>7, <1>3, <1>11, ReadsShortened, Zenon DEF c
    <3>9. QuestionAt(p, a, q, pos + TypeClass)
      <4> HIDE DEF a, pos
      <4> QED BY <3>2, <3>7, <3>8, <1>11, Asks, Zenon
    <3>10. starts[i] = a
      BY <3>1, <1>14, Zenon DEF x
    <3>11. starts[i + 1] = pos + TypeClass
      <4>1. starts[i + 1] = start + Len(e[k])
        BY <3>1, <1>14, Zenon
      <4> DEFINE y == Len(c)
      <4>2. Len(e[k]) = x + (y + TypeClass) /\ x \in Nat /\ y \in Nat
        BY <3>5, <3>6
      <4> HIDE DEF y
      <4>3. start + (x + (y + TypeClass)) = ((start + x) + y) + TypeClass
        BY <4>2, <1>5, <1>13
      <4> QED BY <4>1, <4>2, <4>3, Zenon DEF y
    <3> HIDE DEF a, pos
    <3> QED BY <3>9, <3>10, <3>11, Zenon DEF q
  <2> QED BY <2>1, <2>2
<1>18. AskedAt(p, qs, starts)
  <2>1. ~(Len(p) < Header)
    BY <1>5, <1>11
  <2> QED BY <2>1, <1>11, <1>14, <1>16, <1>17, Zenon DEF AskedAt
<1> QED BY <1>12, <1>18, Zenon

Small == Nat \ (65..90)

\* The text of a name has no capitals.
LEMMA TextIsSmall ==
  ASSUME NEW labels \in AskedNames
  PROVE  Lower(Text(labels)) = Text(labels)
<1> DEFINE n == Len(labels)
           parts == TextParts(labels)
           t == Text(labels)
<1>1. labels \in Seq(Label) /\ n \in Nat \ {0}
  BY NameIs
<1>2. /\ parts \in Seq(Seq(Nat)) /\ Len(parts) = n
      /\ \A i \in 1..n : labels[i] \in Label /\ parts[i] = <<Dot>> \o Lower(labels[i])
  BY <1>1, TextTypes
<1>3. t = Tail(FlattenSeq(parts))
  BY Zenon DEF Text, TextParts
<1> HIDE DEF parts, n, t
<1>4. ASSUME NEW i \in 1..n
      PROVE  parts[i] \in Seq(Small) /\ Len(parts[i]) >= 1
  <2> DEFINE l == labels[i]
             low == Lower(l)
  <2>1. /\ l \in Seq(Nat) /\ Len(l) \in Nat /\ low \in Seq(Nat) /\ Len(low) = Len(l)
        /\ \A k \in 1..Len(l) : low[k] = ToLower(l[k])
    BY <1>2, LabelTypes
  <2> HIDE DEF l, low
  <2>2. \A k \in 1..Len(low) : low[k] \in Small
    <3> SUFFICES ASSUME NEW k \in 1..Len(low) PROVE low[k] \in Small
      OBVIOUS
    <3>1. low[k] = ToLower(l[k]) /\ l[k] \in Nat
      BY <2>1
    <3>2. \A b \in Nat : (IF b \in 65..90 THEN b + 32 ELSE b) \in Nat \ (65..90)
      OBVIOUS
    <3> QED BY <3>1, <3>2, Zenon DEF ToLower, Small
  <2>3. low \in Seq(Small)
    <3>1. low = [k \in 1..Len(low) |-> low[k]]
      BY <2>1
    <3>2. low \in [1..Len(low) -> Small]
      BY <3>1, <2>2
    <3> QED BY <2>1, <3>2
  <2>4. <<Dot>> \in Seq(Small) /\ Len(<<Dot>>) = 1
    BY DEF Dot, Small
  <2>5. <<Dot>> \o low \in Seq(Small) /\ Len(<<Dot>> \o low) = 1 + Len(low)
    BY <2>3, <2>4, ConcatProperties, Zenon
  <2>6. parts[i] = <<Dot>> \o low
    BY <1>2 DEF low, l
  <2> QED BY <2>1, <2>5, <2>6
<1>5. parts \in Seq(Seq(Small))
  <2>1. parts = [i \in 1..n |-> parts[i]]
    BY <1>2
  <2>2. parts \in [1..n -> Seq(Small)]
    BY <2>1, <1>4
  <2> QED BY <1>1, <2>2
<1>6. PICK g : Joins(g, parts, Small)
  BY <1>5, Flattens
<1>7. g[n] \in Seq(Small) /\ g[n] # <<>> /\ FlattenSeq(parts) = g[n]
  <2>1. Stacks(g, parts, Small) /\ FlattenSeq(parts) = g[n]
    BY <1>2, <1>5, <1>6, JoinedStand, Zenon DEF Joins
  <2>2. n \in 0..n /\ n \in 1..n /\ n - 1 \in 0..n
    BY <1>1
  <2>3. /\ g[n] \in Seq(Small) /\ g[n - 1] \in Seq(Small)
        /\ Len(g[n]) = Len(g[n - 1]) + Len(parts[n])
    BY <2>1, <2>2, <1>2, Zenon DEF Stacks
  <2>4. Len(g[n - 1]) \in Nat /\ Len(parts[n]) \in Nat /\ Len(parts[n]) >= 1
    BY <2>2, <2>3, <1>4, LenProperties
  <2>5. Len(g[n]) # 0
    <3>1. \A a, b \in Nat : b >= 1 => a + b # 0
      OBVIOUS
    <3> QED BY <2>3, <2>4, <3>1, Zenon
  <2> QED BY <2>1, <2>3, <2>5, EmptySeq
<1>8. t \in Seq(Small)
  BY <1>3, <1>7, HeadTailProperties
<1>9. ASSUME NEW i \in DOMAIN t PROVE ToLower(t[i]) = t[i]
  <2>1. t[i] \in Small
    BY <1>8
  <2> QED BY <2>1 DEF ToLower, Small
<1>10. Lower(t) = [i \in DOMAIN t |-> t[i]]
  BY <1>9, Zenon DEF Lower
<1> QED BY <1>8, <1>10 DEF t

\* Mdns::tick: of the questions that are looked at, each for a name of the clock
\* that has no capitals (q==host, Tc002Mdns.cpp:72, after the letters of the question
\* alone were made small) is answered - in letters of either size, shortened by what it
\* shares with the first question or not - and to the asker alone when it wants that or
\* does not listen to the group; and whatever the name of the clock, no other question
\* is answered.  Names are as the encoder of a question may have them.
THEOREM QuestionsAreAnswered ==
  ASSUME MdnsAssumption, NEW qs \in Seq(Question), qs # <<>>, NEW elsewhere \in BOOLEAN
  PROVE  QuestionIsAnswered(qs, elsewhere)
<1> DEFINE n == Len(qs)
           c == LookedAt(n)
           packet == Packet(qs, elsewhere)
           p == packet.bytes
           entry(q) == [name |-> Text(q.labels), alone |-> q.alone]
           heard == {qs[i] : i \in 1..c}
           named == {q \in heard : Text(q.labels) \in Ours}
           forUs == {q \in heard : \E our \in Ours : Text(q.labels) = Lower(our)}
           asked == {entry(qs[i]) : i \in 1..c}
           matched == {e \in asked : e.name \in Ours}
<1>1. n \in Nat \ {0} /\ MaxQuestions \in Nat \ {0}
  BY EmptySeq, LenProperties, Bounds
<1>2. /\ packet.count = n /\ packet.answers = FALSE /\ packet.elsewhere = elsewhere
  BY DEF Packet
<1>3. PICK starts : AskedAt(p, qs, starts)
  BY PacketAsks
<1>4. /\ p \in Seq(Nat) /\ ~(Len(p) < Header) /\ starts[1] = Header + 1
      /\ \A i \in 1..n + 1 : starts[i] \in Nat \ {0}
      /\ \A i \in 1..n : QuestionAt(p, starts[i], qs[i], starts[i + 1])
  BY <1>3, Zenon DEF AskedAt
<1>5. c \in Nat /\ c <= n /\ c <= MaxQuestions
      /\ c = IF n < MaxQuestions THEN n ELSE MaxQuestions
  BY <1>1 DEF LookedAt
<1> HIDE DEF c, n, packet, p
<1>6. Questions(p, Header + 1, c) = asked
  <2>1. /\ \A i \in 1..c + 1 : starts[i] \in Nat \ {0}
        /\ \A i \in 1..c : QuestionAt(p, starts[i], qs[i], starts[i + 1])
    <3>1. \A i \in 1..c + 1 : i \in 1..n + 1
      BY <1>1, <1>5
    <3>2. \A i \in 1..c : i \in 1..n
      BY <1>1, <1>5
    <3> QED BY <3>1, <3>2, <1>4, Zenon
  <2>2. InARow(p, qs, starts, c)
    BY <2>1, Zenon DEF InARow
  <2>3. ReadsRow(p, qs, starts, c)
    BY <2>2, <1>4, <1>5, QuestionsAreRead, Zenon
  <2> QED BY <2>3, <1>4, Zenon DEF ReadsRow
<1>7. Answer(packet) = IF matched = {} THEN "none"
                       ELSE IF elsewhere \/ \E q \in matched : q.alone THEN "alone" ELSE "all"
  <2>1. LookedAt(packet.count) = c
    BY <1>2 DEF c
  <2>2. Questions(packet.bytes, Header + 1, LookedAt(packet.count)) = asked
    BY <2>1, <1>6, Zenon DEF p
  <2> HIDE DEF asked
  <2> QED BY <2>2, <1>2, <1>4, Zenon DEF Answer, p
<1>8. matched = {entry(q) : q \in named}
  <2> HIDE DEF entry, c
  <2>1. \A q : entry(q).name = Text(q.labels)
    BY DEF entry
  <2>2. asked = {entry(q) : q \in heard}
    OBVIOUS
  <2> HIDE DEF heard, asked
  <2> QED BY <2>1, <2>2
<1>9. matched = {} <=> named = {}
  <2> HIDE DEF entry, named, matched
  <2> QED BY <1>8
<1>10. (\E q \in matched : q.alone) <=> (\E q \in named : q.alone)
  <2>1. \A q : entry(q).alone = q.alone
    OBVIOUS
  <2> HIDE DEF entry, named, matched
  <2> QED BY <2>1, <1>8, Zenon
<1>11. heard = {qs[i] : i \in 1..(IF Len(qs) < MaxQuestions THEN Len(qs) ELSE MaxQuestions)}
  BY <1>5, Zenon DEF n
<1> HIDE DEF matched, named
<1>12. Answer(packet) = IF named = {} THEN "none"
                       ELSE IF elsewhere \/ \E q \in named : q.alone THEN "alone" ELSE "all"
  BY <1>7, <1>9, <1>10
<1>13. \A q \in heard : Lower(Text(q.labels)) = Text(q.labels)
  <2>1. \A i \in 1..n : qs[i] \in Question
    BY LenProperties DEF n
  <2>2. \A q \in heard : q \in Question
    BY <2>1, <1>1, <1>5
  <2> HIDE DEF heard
  <2> QED BY <2>2, TextIsSmall DEF Question
<1> HIDE DEF heard
<1>14. named \subseteq forUs
  BY <1>13, Zenon DEF named
<1>15. (\A our \in Ours : Lower(our) = our) => forUs = named
  BY <1>14 DEF named
<1> HIDE DEF forUs
<1>16. (\A our \in Ours : Lower(our) = our) =>
         Answer(packet) = IF forUs = {} THEN "none"
                          ELSE IF elsewhere \/ \E q \in forUs : q.alone THEN "alone" ELSE "all"
  BY <1>12, <1>15
<1>17. Answer(packet) # "none" => forUs # {}
  BY <1>12, <1>14
<1> QED BY <1>11, <1>16, <1>17, Zenon DEF QuestionIsAnswered, packet, forUs

-----------------------------------------------------------------------------
(* Mp3Probe: the cells of a file                                           *)

\* Cells of audio: no frame is longer than what is read beyond the first Scan.
AudioCells(Kinds) ==
  [is : {"other", "sync"}] \cup [is : {"header"}, length : 0..Margin, kind : Kinds]
FileCells(Kinds) == AudioCells(Kinds) \cup [is : {"tag"}, body : Nat, footer : BOOLEAN]

LEMMA AudioCellIs ==
  ASSUME NEW Kinds, NEW c \in AudioCells(Kinds)
  PROVE  /\ c \in FileCells(Kinds) /\ c.is # "tag"
         /\ IsHeader(c) => c.length \in 0..Margin
BY DEF AudioCells, FileCells, IsHeader

LEMMA ProbeBounds ==
  ASSUME Mp3Assumption
  PROVE  Scan \in Nat \ {0} /\ Margin \in Nat \ {0}
BY DEF Mp3Assumption

LEMMA MinIs ==
  ASSUME NEW S \in SUBSET Nat, S # {}
  PROVE  Min(S) \in S /\ \A x \in S : Min(S) <= x
<1>1. \E x \in S : \A y \in S : x <= y
  BY Least
<1> QED BY <1>1 DEF Min

LEMMA MinOfTwo ==
  ASSUME NEW a \in Nat, NEW b \in Nat
  PROVE  Min({a, b}) = IF a <= b THEN a ELSE b
<1> DEFINE S == {a, b}
<1>1. S \in SUBSET Nat /\ S # {} /\ a \in S /\ b \in S /\ \A x \in S : x = a \/ x = b
  OBVIOUS
<1> HIDE DEF S
<1>2. Min(S) \in S /\ \A x \in S : Min(S) <= x
  BY <1>1, MinIs
<1> QED BY <1>1, <1>2 DEF S

\* What stands before the audio.
TagOf(tagged, pictures, footer) ==
  IF tagged
    THEN <<[is |-> "tag", body |-> Len(pictures), footer |-> footer]>> \o pictures
           \o (IF footer THEN <<Other>> ELSE <<>>)
    ELSE <<>>

\* A tag is as long as id3v2Size says.
LEMMA TagIs ==
  ASSUME NEW tagged \in BOOLEAN, NEW footer \in BOOLEAN,
         NEW Kinds, NEW pictures \in Seq(FileCells(Kinds))
  PROVE  LET t == TagOf(tagged, pictures, footer)
         IN  /\ t \in Seq(FileCells(Kinds)) /\ Len(t) \in Nat
             /\ tagged => t # <<>> /\ Id3v2Size(t[1]) = Len(t)
             /\ ~tagged => t = <<>>
<1> DEFINE t == TagOf(tagged, pictures, footer)
<1>1. CASE ~tagged
  <2>1. t = <<>>
    BY <1>1 DEF TagOf
  <2> QED BY <2>1, <1>1
<1>2. CASE tagged
  <2> DEFINE cell == [is |-> "tag", body |-> Len(pictures), footer |-> footer]
             head == <<cell>>
             b == head \o pictures
             foot == IF footer THEN <<Other>> ELSE <<>>
             k == Len(pictures)
  <2>1. k \in Nat
    BY LenProperties
  <2>2. cell \in FileCells(Kinds) /\ Other \in FileCells(Kinds)
    BY <2>1 DEF FileCells, AudioCells, Other
  <2>3. cell.is = "tag" /\ cell.body = k /\ cell.footer = footer
    OBVIOUS
  <2>4. t = b \o foot
    BY <1>2, Zenon DEF TagOf
  <2> HIDE DEF t, cell, k
  <2>5. head \in Seq(FileCells(Kinds)) /\ Len(head) = 1 /\ head[1] = cell
    BY <2>2
  <2>6. foot \in Seq(FileCells(Kinds)) /\ Len(foot) = IF footer THEN 1 ELSE 0
    BY <2>2
  <2> HIDE DEF head, foot
  <2>7. /\ b \in Seq(FileCells(Kinds)) /\ Len(b) = 1 + k /\ b[1] = cell
    <3>1. /\ b \in Seq(FileCells(Kinds)) /\ Len(b) = Len(head) + Len(pictures)
          /\ \A i \in 1..Len(head) + Len(pictures) :
               b[i] = IF i <= Len(head) THEN head[i] ELSE pictures[i - Len(head)]
      BY <2>5, ConcatProperties
    <3>2. Len(pictures) = k
      BY DEF k
    <3> HIDE DEF b
    <3>3. 1 \in 1..Len(head) + Len(pictures) /\ 1 <= Len(head)
      BY <2>1, <2>5, <3>2
    <3>4. b[1] = head[1]
      BY <3>1, <3>3, Zenon
    <3> QED BY <3>1, <3>2, <3>4, <2>5
  <2> HIDE DEF b
  <2>8. /\ t \in Seq(FileCells(Kinds)) /\ Len(t) = (1 + k) + Len(foot) /\ t[1] = cell
    <3>1. /\ b \o foot \in Seq(FileCells(Kinds)) /\ Len(b \o foot) = Len(b) + Len(foot)
          /\ \A i \in 1..Len(b) + Len(foot) :
               (b \o foot)[i] = IF i <= Len(b) THEN b[i] ELSE foot[i - Len(b)]
      BY <2>6, <2>7, ConcatProperties
    <3>2. Len(foot) \in Nat
      BY <2>6
    <3>3. 1 \in 1..Len(b) + Len(foot) /\ 1 <= Len(b)
      BY <2>1, <2>7, <3>2
    <3>4. (b \o foot)[1] = b[1]
      BY <3>1, <3>3, Zenon
    <3> QED BY <3>1, <3>4, <2>4, <2>7
  <2>9. Id3v2Size(t[1]) = 1 + k + (IF footer THEN 1 ELSE 0)
    BY <2>3, <2>8 DEF Id3v2Size
  <2>10. Id3v2Size(t[1]) = Len(t) /\ Len(t) \in Nat /\ Len(t) # 0
    BY <2>1, <2>6, <2>8, <2>9
  <2>11. t # <<>>
    BY <2>10, EmptySeq
  <2> QED BY <2>8, <2>10, <2>11, <1>2, Zenon DEF t
<1> QED BY <1>1, <1>2

-----------------------------------------------------------------------------
(* What is read                                                            *)

\* The cells of the buffer are the first of the audio.
IsBuffer(buf, audio, Kinds) ==
  /\ buf \in Seq(AudioCells(Kinds))
  /\ Len(buf) = IF Len(audio) <= Scan + Margin THEN Len(audio) ELSE Scan + Margin
  /\ \A i \in 1..Len(buf) : buf[i] = audio[i]

\* What is read of a file begins with its audio.
LEMMA BufferIs ==
  ASSUME Mp3Assumption, NEW tagged \in BOOLEAN, NEW footer \in BOOLEAN,
         NEW Kinds, NEW pictures \in Seq(FileCells(Kinds)), NEW audio \in Seq(AudioCells(Kinds))
  PROVE  IsBuffer(Buffer(File(tagged, pictures, footer, audio)), audio, Kinds)
<1> DEFINE t == TagOf(tagged, pictures, footer)
           file == t \o audio
           start == Len(t)
           n == Len(audio)
           room == Scan + Margin
           left == IF n <= room THEN n ELSE room
<1>1. File(tagged, pictures, footer, audio) = file
  BY Zenon DEF File, TagOf
<1>2. /\ t \in Seq(FileCells(Kinds)) /\ start \in Nat
      /\ tagged => t # <<>> /\ Id3v2Size(t[1]) = Len(t)
      /\ ~tagged => t = <<>>
  BY TagIs, Zenon
<1>3. /\ n \in Nat /\ room \in Nat /\ audio \in Seq(FileCells(Kinds))
      /\ \A i \in 1..n : audio[i] \in AudioCells(Kinds)
  <2>1. n \in Nat /\ \A i \in 1..n : audio[i] \in AudioCells(Kinds)
    BY LenProperties
  <2>2. audio \in Seq(FileCells(Kinds))
    BY <2>1, AudioCellIs
  <2> QED BY <2>1, <2>2, ProbeBounds
<1> HIDE DEF t
<1>4. /\ file \in Seq(FileCells(Kinds)) /\ Len(file) = start + n
      /\ \A i \in 1..start + n : file[i] = IF i <= start THEN t[i] ELSE audio[i - start]
  BY <1>2, <1>3, ConcatProperties
<1> HIDE DEF file
<1>5. AudioOffset(file) = start
  <2>1. CASE tagged
    <3>1. start # 0 /\ t # <<>>
      BY <2>1, <1>2, EmptySeq
    <3>2. 1 \in 1..start + n /\ 1 <= start /\ Len(file) # 0
      BY <3>1, <1>2, <1>3, <1>4
    <3>3. file[1] = t[1] /\ file # <<>>
      BY <3>2, <1>4, EmptySeq
    <3> QED BY <3>3, <2>1, <1>2, Zenon DEF AudioOffset
  <2>2. CASE ~tagged
    <3>1. t = <<>> /\ start = 0
      BY <2>2, <1>2
    <3>2. CASE n = 0
      <4>1. file = <<>>
        BY <3>1, <3>2, <1>4, EmptySeq
      <4> QED BY <4>1, <3>1 DEF AudioOffset
    <3>3. CASE n # 0
      <4>1. 1 \in 1..start + n /\ ~(1 <= start) /\ 1 - start = 1 /\ 1 \in 1..n /\ Len(file) # 0
        BY <3>1, <3>3, <1>3, <1>4
      <4>2. file[1] = audio[1] /\ file # <<>>
        BY <4>1, <1>4, EmptySeq
      <4>3. audio[1].is # "tag"
        BY <4>1, <1>3, AudioCellIs
      <4> QED BY <4>2, <4>3, <3>1, Zenon DEF AudioOffset, Id3v2Size
    <3> QED BY <3>2, <3>3
  <2> QED BY <2>1, <2>2
<1>6. Len(file) - start = n
  BY <1>2, <1>3, <1>4
<1> HIDE DEF start, n, room
<1>7. Buffer(file) = IF n <= 0 THEN <<>> ELSE SubSeq(file, start + 1, start + Min({n, room}))
  BY <1>5, <1>6, Zenon DEF Buffer, room
<1>8. Min({n, room}) = left
  BY <1>3, MinOfTwo, Zenon
<1> DEFINE buf == Buffer(file)
<1>9. left \in Nat /\ left <= n
  BY <1>3
<1>10. CASE n = 0
  <2>1. buf = <<>>
    BY <1>7, <1>10
  <2>2. left = 0
    BY <1>3, <1>10
  <2>3. /\ buf \in Seq(AudioCells(Kinds)) /\ Len(buf) = left
        /\ \A i \in 1..Len(buf) : buf[i] = audio[i]
    <3>1. Len(<<>>) = 0 /\ <<>> \in Seq(AudioCells(Kinds)) /\ \A i \in 1..0 : FALSE
      OBVIOUS
    <3> HIDE DEF buf, left
    <3>2. Len(buf) = 0
      BY <2>1
    <3> QED BY <3>1, <3>2, <2>1, <2>2, Zenon
  <2> QED BY <2>3, <1>1, Zenon DEF IsBuffer, n, room
<1>11. CASE n # 0
  <2> DEFINE s == SubSeq(file, start + 1, start + left)
  <2> HIDE DEF left
  <2>1. buf = s
    <3>1. ~(n <= 0)
      BY <1>3, <1>11
    <3> QED BY <3>1, <1>7, <1>8, Zenon
  <2>2. ASSUME NEW i \in 1..left
        PROVE  /\ file[start + i] = audio[i] /\ audio[i] \in AudioCells(Kinds)
               /\ file[start + i] \in FileCells(Kinds)
    <3>1. /\ start + i \in 1..start + n /\ ~(start + i <= start) /\ (start + i) - start = i
          /\ i \in 1..n
      BY <1>2, <1>3, <1>9
    <3>2. file[start + i] = audio[(start + i) - start]
      BY <3>1, <1>4, Zenon
    <3>3. audio[i] \in AudioCells(Kinds)
      BY <3>1, <1>3
    <3> QED BY <3>1, <3>2, <3>3, AudioCellIs
  <2>3. /\ s \in Seq(FileCells(Kinds))
        /\ Len(s) = left /\ \A i \in 1..left : s[i] = file[start + i]
    <3> DEFINE a == start + 1
               b == start + left
    <3>1. /\ a \in Int /\ b \in Int /\ (IF a <= b THEN b - a + 1 ELSE 0) = left /\ b - a + 1 = left
          /\ \A i \in 1..left : a + i - 1 = start + i
      BY <1>2, <1>9
    <3>2. \A i \in a..b : file[i] \in FileCells(Kinds)
      <4> SUFFICES ASSUME NEW i \in a..b PROVE file[i] \in FileCells(Kinds)
        OBVIOUS
      <4>1. i \in 1..Len(file)
        BY <1>2, <1>3, <1>4, <1>9
      <4> QED BY <4>1, <1>4
    <3> HIDE DEF a, b
    <3>3. /\ SubSeq(file, a, b) \in Seq(FileCells(Kinds))
          /\ Len(SubSeq(file, a, b)) = IF a <= b THEN b - a + 1 ELSE 0
          /\ \A i \in 1..b - a + 1 : SubSeq(file, a, b)[i] = file[a + i - 1]
      BY <3>1, <3>2, SubSeqProperties
    <3> QED BY <3>1, <3>3, Zenon DEF a, b
  <2> HIDE DEF s
  <2>4. s \in Seq(AudioCells(Kinds))
    <3>1. \A i \in 1..Len(s) : s[i] \in AudioCells(Kinds)
      BY <2>2, <2>3
    <3> QED BY <3>1, <2>3
  <2>5. /\ buf \in Seq(AudioCells(Kinds)) /\ Len(buf) = left
        /\ \A i \in 1..Len(buf) : buf[i] = audio[i]
    <3> HIDE DEF buf
    <3> QED BY <2>1, <2>2, <2>3, <2>4
  <2> QED BY <2>5, <1>1, Zenon DEF IsBuffer, left, n, room
<1> QED BY <1>10, <1>11

-----------------------------------------------------------------------------
(* What is found                                                           *)

\* Audio that is whole frames goes on with a frame of the same kind, or ends.
LEMMA PlaysOn ==
  ASSUME Mp3Assumption, NEW Kinds, NEW audio \in Seq(AudioCells(Kinds)), audio # <<>>, NEW kind,
         Plays(audio, 1, kind)
  PROVE  LET next == 1 + audio[1].length
         IN  /\ IsHeader(audio[1]) /\ audio[1].kind = kind /\ audio[1].length \in 1..Margin
             /\ \/ next = Len(audio) + 1
                \/ next \in 1..Len(audio) /\ IsHeader(audio[next]) /\ audio[next].kind = kind
<1> DEFINE n == Len(audio)
           S == Nat \ {0}
           Goes(p) == p <= n /\ IsHeader(audio[p]) /\ audio[p].kind = kind /\ audio[p].length > 0
           Is(p, f) == \/ p = n + 1
                       \/ /\ p <= n /\ IsHeader(audio[p])
                          /\ audio[p].kind = kind /\ audio[p].length > 0
                          /\ f[p + audio[p].length]
           done == {p \in S : ~Goes(p)}
           out == [p \in S |-> p = n + 1]
           next == [p \in S |-> p + audio[p].length]
           comb == [p \in S |-> [b \in BOOLEAN |-> b]]
           m == [p \in S |-> IF p <= n THEN (n + 1) - p ELSE 0]
           F == CHOOSE f : f = [p \in S |-> Is(p, f)]
<1>1. n \in Nat \ {0} /\ Margin \in Nat /\ \A p \in 1..n : audio[p] \in AudioCells(Kinds)
  BY EmptySeq, LenProperties, ProbeBounds
<1> HIDE DEF n
<1>2. \A p \in S : Goes(p) => p \in 1..n /\ audio[p].length \in 1..Margin
                              /\ p + audio[p].length \in S
  <2> SUFFICES ASSUME NEW p \in S, Goes(p)
               PROVE  p \in 1..n /\ audio[p].length \in 1..Margin /\ p + audio[p].length \in S
    BY Zenon
  <2>1. p \in 1..n
    BY <1>1
  <2>2. audio[p].length \in 0..Margin
    BY <2>1, <1>1, AudioCellIs
  <2> DEFINE l == audio[p].length
  <2>3. l \in 0..Margin /\ l > 0
    BY <2>2
  <2> HIDE DEF l
  <2>4. l \in 1..Margin /\ p + l \in S
    BY <2>3, <1>1
  <2> QED BY <2>1, <2>4 DEF l
<1>3. Iterable(S, BOOLEAN, done, out, next, comb, m, n)
  <2>1. \A p \in S : m[p] \in 0..n
    BY <1>1
  <2>2. \A p \in S \cap done : out[p] \in BOOLEAN
    OBVIOUS
  <2>3. ASSUME NEW p \in S \ done PROVE next[p] \in S /\ m[next[p]] < m[p]
    <3> DEFINE l == audio[p].length
    <3>1. Goes(p)
      OBVIOUS
    <3>2. p \in 1..n /\ l \in 1..Margin /\ p + l \in S
      BY <3>1, <1>2
    <3>3. next[p] = p + l
      OBVIOUS
    <3> HIDE DEF l, next, done, Goes
    <3> QED BY <3>2, <3>3, <1>1
  <2>4. \A p \in S \ done, b \in BOOLEAN : comb[p][b] \in BOOLEAN
    OBVIOUS
  <2> HIDE DEF S, done, out, next, comb, m
  <2> QED BY <2>1, <2>2, <2>3, <2>4, <1>1, Zenon DEF Iterable
<1>4. PICK f : IsIterated(f, S, BOOLEAN, done, out, next, comb)
  <2> HIDE DEF S, done, out, next, comb, m
  <2> QED BY <1>3, Iterates, Zenon
<1>5. f \in [S -> BOOLEAN]
  BY <1>4, Zenon DEF IsIterated
<1>6. ASSUME NEW p \in S PROVE f[p] = Is(p, f)
  <2>1. f[p] = IF p \in done THEN out[p] ELSE comb[p][f[next[p]]]
    BY <1>4, Zenon DEF IsIterated
  <2>2. CASE Goes(p)
    <3>1. p \notin done /\ next[p] = p + audio[p].length
      BY <2>2
    <3>2. p + audio[p].length \in S
      BY <2>2, <1>2
    <3>3. f[next[p]] \in BOOLEAN
      BY <3>1, <3>2, <1>5
    <3>4. comb[p][f[next[p]]] = f[next[p]]
      BY <3>3
    <3>5. f[p] = f[p + audio[p].length]
      <4> HIDE DEF done, out, next, comb, S
      <4> QED BY <3>1, <3>4, <2>1, Zenon
    <3>6. p # n + 1
      BY <2>2, <1>1
    <3>7. f[p + audio[p].length] \in BOOLEAN
      BY <3>2, <1>5
    <3> QED BY <3>5, <3>6, <3>7, <2>2, Zenon
  <2>3. CASE ~Goes(p)
    <3>1. p \in done /\ out[p] = (p = n + 1)
      BY <2>3
    <3> HIDE DEF done, out, next, comb, S
    <3> QED BY <3>1, <2>1, <2>3, Zenon
  <2> QED BY <2>2, <2>3
<1>7. F = [p \in S |-> Is(p, F)]
  <2> DEFINE Fits(g) == g = [p \in S |-> Is(p, g)]
  <2>1. Fits(f)
    <3> HIDE DEF Is, S
    <3> QED BY <1>5, <1>6
  <2> HIDE DEF Fits
  <2>2. Fits(CHOOSE g : Fits(g))
    BY <2>1
  <2> QED BY <2>2, Zenon DEF Fits
<1>8. ASSUME NEW p \in S PROVE F[p] = Is(p, F)
  <2> DEFINE g(q) == Is(q, F)
  <2>1. F = [q \in S |-> g(q)]
    BY <1>7
  <2> HIDE DEF g, F
  <2>2. F[p] = g(p)
    BY <2>1
  <2> QED BY <2>2 DEF g
<1>9. F[1]
  BY DEF Plays, n
<1> HIDE DEF F
<1>10. 1 # n + 1 /\ 1 \in S
  BY <1>1
<1>11. Goes(1) /\ F[1 + audio[1].length]
  <2>1. Is(1, F)
    BY <1>8, <1>9, <1>10
  <2> QED BY <2>1, <1>10
<1> DEFINE l == audio[1].length
           after == 1 + l
<1>12. l \in 1..Margin /\ after \in S
  BY <1>2, <1>10, <1>11
<1> HIDE DEF l, after
<1>13. Is(after, F)
  BY <1>8, <1>11, <1>12 DEF after, l
<1>14. \/ after = n + 1
       \/ after \in 1..n /\ IsHeader(audio[after]) /\ audio[after].kind = kind
  BY <1>1, <1>12, <1>13
<1> QED BY <1>11, <1>12, <1>14 DEF n, after, l

\* Audio of whole frames is judged by its first.
LEMMA FramesAreFound ==
  ASSUME Mp3Assumption, NEW Kinds, NEW audio \in Seq(AudioCells(Kinds)),
         NEW buf, IsBuffer(buf, audio, Kinds),
         audio # <<>>, Plays(audio, 1, audio[1].kind)
  PROVE  LET confirmed == {p \in Visited(buf) : Confirmed(buf, p)}
         IN  confirmed # {} /\ buf[Min(confirmed)].kind = audio[1].kind
<1> DEFINE n == Len(audio)
           k == Len(buf)
           l == audio[1].length
           next == 1 + l
           confirmed == {p \in Visited(buf) : Confirmed(buf, p)}
<1>1. n \in Nat \ {0} /\ Scan \in Nat \ {0} /\ Margin \in Nat \ {0}
  BY EmptySeq, LenProperties, ProbeBounds
<1>2. /\ buf \in Seq(AudioCells(Kinds)) /\ k = IF n <= Scan + Margin THEN n ELSE Scan + Margin
      /\ \A i \in 1..k : buf[i] = audio[i]
  BY Zenon DEF IsBuffer
<1>3. DOMAIN buf = 1..k
  BY <1>2, LenProperties
<1>4. /\ IsHeader(audio[1]) /\ l \in 1..Margin
      /\ \/ next = n + 1
         \/ next \in 1..n /\ IsHeader(audio[next]) /\ audio[next].kind = audio[1].kind
  BY PlaysOn, Zenon
<1> HIDE DEF n, k, l
<1>5. k \in Nat /\ 1 \in 1..k /\ (k = n \/ (next \in 1..k /\ k <= n))
  BY <1>1, <1>2, <1>4
<1>6. buf[1] = audio[1]
  BY <1>2, <1>5
<1>7. 1 \in Visited(buf)
  <2>1. LooksLikeFrame(buf[1])
    BY <1>4, <1>6 DEF IsHeader, LooksLikeFrame
  <2>2. \A q \in DOMAIN buf : ~(q < 1)
    BY <1>3, <1>5
  <2> QED BY <2>1, <2>2, <1>3, <1>5 DEF Visited
<1>8. Confirmed(buf, 1)
  <2>1. \/ next = k + 1
        \/ next <= k /\ IsHeader(buf[next]) /\ buf[next].kind = buf[1].kind
    <3>1. CASE next = k + 1
      BY <3>1
    <3>2. CASE next # k + 1
      <4>1. next \in 1..k /\ next \in 1..n /\ next # n + 1
        BY <3>2, <1>1, <1>4, <1>5
      <4>2. buf[next] = audio[next] /\ IsHeader(audio[next]) /\ audio[next].kind = audio[1].kind
        BY <4>1, <1>2, <1>4
      <4> HIDE DEF next
      <4>3. next <= k
        BY <4>1
      <4> QED BY <4>2, <4>3, <1>6
    <3> QED BY <3>1, <3>2
  <2>2. buf[1].length = l /\ l > 0
    BY <1>4, <1>6 DEF l
  <2> QED BY <2>1, <2>2, <1>4, <1>6, Zenon DEF Confirmed, k
<1>9. 1 \in confirmed
  BY <1>7, <1>8
<1>10. confirmed \in SUBSET (1..k)
  BY <1>3 DEF Visited
<1> HIDE DEF confirmed
<1>11. Min(confirmed) \in confirmed /\ Min(confirmed) <= 1
  BY <1>5, <1>9, <1>10, MinIs
<1>12. Min(confirmed) = 1
  <2> DEFINE x == Min(confirmed)
  <2>1. x \in 1..k /\ x <= 1
    BY <1>10, <1>11
  <2> HIDE DEF x
  <2>2. x = 1
    BY <2>1, <1>5
  <2> QED BY <2>2 DEF x
<1> QED BY <1>6, <1>9, <1>12 DEF confirmed

\* What is taken for a frame is one, and another follows it or it ends what was read.
LEMMA FoundIsFrame ==
  ASSUME Mp3Assumption, NEW Kinds, NEW audio \in Seq(AudioCells(Kinds)),
         NEW buf, IsBuffer(buf, audio, Kinds), NEW supported,
         LET confirmed == {p \in Visited(buf) : Confirmed(buf, p)}
         IN  confirmed # {} /\ buf[Min(confirmed)].kind \in supported
  PROVE  \E p \in DOMAIN audio :
           /\ IsHeader(audio[p]) /\ audio[p].length > 0 /\ audio[p].kind \in supported
           /\ LET next == p + audio[p].length
              IN  \/ next = Len(audio) + 1 \/ next = Scan + Margin + 1
                  \/ /\ next <= Len(audio) /\ IsHeader(audio[next])
                     /\ audio[next].kind = audio[p].kind
<1> DEFINE n == Len(audio)
           k == Len(buf)
           confirmed == {p \in Visited(buf) : Confirmed(buf, p)}
           p == Min(confirmed)
           l == buf[p].length
           next == p + l
<1>1. n \in Nat /\ DOMAIN audio = 1..n /\ Scan \in Nat \ {0} /\ Margin \in Nat \ {0}
  BY LenProperties, ProbeBounds
<1>2. /\ buf \in Seq(AudioCells(Kinds)) /\ k = IF n <= Scan + Margin THEN n ELSE Scan + Margin
      /\ \A i \in 1..k : buf[i] = audio[i]
  BY Zenon DEF IsBuffer
<1>3. DOMAIN buf = 1..k /\ \A i \in 1..k : buf[i] \in AudioCells(Kinds)
  BY <1>2, LenProperties
<1>4. confirmed \in SUBSET (1..k)
  BY <1>3 DEF Visited
<1>5. p \in confirmed
  <2>1. confirmed \in SUBSET Nat /\ confirmed # {}
    BY <1>4
  <2> HIDE DEF confirmed
  <2> QED BY <2>1, MinIs
<1>6. Confirmed(buf, p) /\ p \in 1..k
  BY <1>4, <1>5
<1>7. buf[p].kind \in supported
  OBVIOUS
<1> HIDE DEF p, n, k
<1>8. /\ IsHeader(buf[p]) /\ l > 0
      /\ \/ next = k + 1
         \/ next <= k /\ IsHeader(buf[next]) /\ buf[next].kind = buf[p].kind
  BY <1>6, Zenon DEF Confirmed, k
<1>9. l \in Nat
  <2>1. l \in 0..Margin
    BY <1>3, <1>6, <1>8, AudioCellIs
  <2> QED BY <2>1, <1>1
<1>10. k \in Nat /\ k <= n /\ (k = n \/ k = Scan + Margin) /\ p \in 1..n
  BY <1>1, <1>2, <1>6
<1>11. buf[p] = audio[p]
  BY <1>2, <1>6
<1> HIDE DEF l
<1>12. \/ next = n + 1 \/ next = Scan + Margin + 1
       \/ next <= n /\ IsHeader(audio[next]) /\ audio[next].kind = audio[p].kind
  <2>1. CASE next = k + 1
    BY <2>1, <1>10
  <2>2. CASE next # k + 1
    <3>1. next <= k /\ IsHeader(buf[next]) /\ buf[next].kind = buf[p].kind
      BY <2>2, <1>8
    <3>2. next \in 1..k /\ next <= n
      <4>1. p \in 1..k /\ next <= k
        BY <3>1, <1>6
      <4>2. next \in Nat \ {0}
        BY <4>1, <1>9, <1>10
      <4> HIDE DEF next
      <4> QED BY <4>1, <4>2, <1>1, <1>10
    <3>3. buf[next] = audio[next]
      BY <3>2, <1>2
    <3> QED BY <3>1, <3>2, <3>3, <1>11
  <2> QED BY <2>1, <2>2
<1>13. audio[p].length = l /\ p \in DOMAIN audio /\ audio[p].kind \in supported /\ l > 0
       /\ IsHeader(audio[p])
  BY <1>1, <1>7, <1>8, <1>10, <1>11 DEF l
<1> QED BY <1>12, <1>13, Zenon DEF n

\* probeMp3: audio that is frames to its end is found and judged by their kind, whatever
\* pictures the tag before it has; and no file is played for a frame that nothing of its
\* kind follows, unless it ends the file or what was read of it.
THEOREM AudioIsFound ==
  ASSUME Mp3Assumption, NEW tagged \in BOOLEAN, NEW footer \in BOOLEAN,
         NEW Kinds, NEW pictures \in Seq(FileCells(Kinds)), NEW audio \in Seq(AudioCells(Kinds)),
         NEW supported
  PROVE  ProbeIsRight(tagged, pictures, footer, audio, supported)
<1> DEFINE file == File(tagged, pictures, footer, audio)
           buf == Buffer(file)
           problem == Problem(file, supported)
           confirmed == {p \in Visited(buf) : Confirmed(buf, p)}
<1>1. IsBuffer(buf, audio, Kinds)
  BY BufferIs
<1> HIDE DEF file
<1>2. problem = IF confirmed = {} THEN Unplayable(buf)
                ELSE IF buf[Min(confirmed)].kind \in supported THEN "" ELSE "unsupported"
  BY DEF Problem
<1>3. Unplayable(buf) # ""
  BY DEF Unplayable
<1> HIDE DEF buf, problem
<1>4. ASSUME audio # <<>>, Plays(audio, 1, audio[1].kind)
      PROVE  problem = IF audio[1].kind \in supported THEN "" ELSE "unsupported"
  <2>1. confirmed # {} /\ buf[Min(confirmed)].kind = audio[1].kind
    BY <1>1, <1>4, FramesAreFound, Zenon
  <2> QED BY <2>1, <1>2, Zenon
<1>5. ASSUME problem = ""
      PROVE  confirmed # {} /\ buf[Min(confirmed)].kind \in supported
  <2> HIDE DEF confirmed
  <2>1. "" # "unsupported"
    OBVIOUS
  <2> QED BY <2>1, <1>2, <1>3, <1>5, Zenon
<1>6. ASSUME problem = ""
      PROVE  \E p \in DOMAIN audio :
               /\ IsHeader(audio[p]) /\ audio[p].length > 0 /\ audio[p].kind \in supported
               /\ LET next == p + audio[p].length
                  IN  \/ next = Len(audio) + 1 \/ next = Scan + Margin + 1
                      \/ /\ next <= Len(audio) /\ IsHeader(audio[next])
                         /\ audio[next].kind = audio[p].kind
  BY <1>1, <1>5, <1>6, FoundIsFrame, Zenon
<1> QED BY <1>4, <1>6, Zenon DEF ProbeIsRight, problem, file
=============================================================================
