----------------------------- MODULE Inputs_proof -----------------------------
(* What reaches the control loop from outside, and what is told of it: the   *)
(* relay contact and the EEBUS guard reach it within the stated times,       *)
(* whatever the time-outs, and a control centre was told what is so, through *)
(* the three queues between the station and the wire.                        *)
EXTENDS ControlBoxRelay, EebusBridge, DsoStation, FiniteSetTheorems, TLAPS

-----------------------------------------------------------------------------
\* Induction over the naturals, for sets, and the fold of OutputsOf.

LEMMA SetInduction ==
  ASSUME NEW S \in SUBSET Nat, 0 \in S, \A n \in S : n + 1 \in S
  PROVE  S = Nat
<1> DEFINE R == OpToRel(<, Nat)
           T == Nat \ S
<1> SUFFICES ASSUME T # {} PROVE FALSE
  OBVIOUS
<1>1. PICK m \in T : \A k \in T : <<k, m>> \notin R
  BY NatLessThanWellFounded, WFMin
<1>2. \A k \in T : ~(k < m)
  BY <1>1 DEF OpToRel
<1>3. m - 1 \in Nat /\ m - 1 \in S
  BY <1>2
<1> QED
  BY <1>3

LEMMA MaxIn ==
  ASSUME NEW n \in Nat, NEW s \in SUBSET (1 .. n), s # {}
  PROVE  Max(s) \in s /\ \A y \in s : y <= Max(s)
<1> DEFINE N == {m \in Nat : \A t \in SUBSET (1 .. m) : t # {} => \E x \in t : \A y \in t : x >= y}
<1>1. 0 \in N
  <2>1. 1 .. 0 = {}
    OBVIOUS
  <2> QED
    BY <2>1
<1>2. \A m \in N : m + 1 \in N
  <2> SUFFICES ASSUME NEW m \in N, NEW t \in SUBSET (1 .. m + 1), t # {}
               PROVE  \E x \in t : \A y \in t : x >= y
    OBVIOUS
  <2>1. CASE m + 1 \in t
    BY <2>1
  <2>2. CASE m + 1 \notin t
    <3>1. t \in SUBSET (1 .. m)
      BY <2>2
    <3> QED
      BY <3>1
  <2> QED
    BY <2>1, <2>2
<1> HIDE DEF N
<1>3. N = Nat
  <2>1. N \in SUBSET Nat
    BY DEF N
  <2> QED
    BY <1>1, <1>2, <2>1, SetInduction
<1>4. \E x \in s : \A y \in s : x >= y
  BY <1>3 DEF N
<1>5. Max(s) \in s /\ \A y \in s : Max(s) >= y
  BY <1>4 DEF Max
<1> QED
  BY <1>5

LEMMA MaxOfPrefix ==
  ASSUME NEW n \in Nat \ {0}
  PROVE  Max(1 .. n) = n /\ (1 .. n) \ {n} = 1 .. n - 1
<1>1. 1 .. n # {} /\ n \in 1 .. n
  OBVIOUS
<1>2. Max(1 .. n) \in 1 .. n /\ \A y \in 1 .. n : y <= Max(1 .. n)
  BY <1>1, MaxIn
<1> QED
  BY <1>1, <1>2

\* A fold of n steps, from the lowest index up, as FoldLeft chooses it.
FoldsTo(it, n, A, base, step) ==
  /\ it \in [SUBSET (1 .. n) -> A]
  /\ \A s \in SUBSET (1 .. n) :
       it[s] = IF s = {} THEN base ELSE step[<<Max(s), it[s \ {Max(s)}]>>]

LEMMA FoldExists ==
  ASSUME NEW n \in Nat, NEW A, NEW base \in A, NEW step \in [(1 .. n) \X A -> A]
  PROVE  \E it : FoldsTo(it, n, A, base, step)
<1> DEFINE N == {m \in Nat : m <= n => \E it : FoldsTo(it, m, A, base, step)}
<1>1. 0 \in N
  <2> DEFINE it == [s \in SUBSET (1 .. 0) |-> base]
  <2>1. FoldsTo(it, 0, A, base, step)
    <3>1. \A s \in SUBSET (1 .. 0) : s = {}
      OBVIOUS
    <3> QED
      BY <3>1 DEF FoldsTo
  <2> HIDE DEF it
  <2> QED
    BY <2>1
<1>2. \A m \in N : m + 1 \in N
  <2> SUFFICES ASSUME NEW m \in Nat, m \in N, m + 1 <= n
               PROVE  \E it : FoldsTo(it, m + 1, A, base, step)
    OBVIOUS
  <2>1. PICK it : FoldsTo(it, m, A, base, step)
    OBVIOUS
  <2> DEFINE up == [s \in SUBSET (1 .. m + 1) |->
                      IF m + 1 \in s THEN step[<<m + 1, it[s \ {m + 1}]>>] ELSE it[s]]
  <2>2. \A s \in SUBSET (1 .. m) : up[s] = it[s]
    OBVIOUS
  <2>3. \A s \in SUBSET (1 .. m + 1) : s \ {m + 1} \in SUBSET (1 .. m)
    OBVIOUS
  <2>4. up \in [SUBSET (1 .. m + 1) -> A]
    <3> SUFFICES ASSUME NEW s \in SUBSET (1 .. m + 1)
                 PROVE  (IF m + 1 \in s THEN step[<<m + 1, it[s \ {m + 1}]>>] ELSE it[s]) \in A
      OBVIOUS
    <3>1. CASE m + 1 \in s
      <4>1. it[s \ {m + 1}] \in A
        BY <2>1, <2>3 DEF FoldsTo
      <4>2. m + 1 \in 1 .. n
        OBVIOUS
      <4> QED
        BY <3>1, <4>1, <4>2
    <3>2. CASE m + 1 \notin s
      <4>1. s \in SUBSET (1 .. m)
        BY <3>2
      <4> QED
        BY <2>1, <3>2, <4>1 DEF FoldsTo
    <3> QED
      BY <3>1, <3>2
  <2>5. ASSUME NEW s \in SUBSET (1 .. m + 1)
        PROVE  up[s] = IF s = {} THEN base ELSE step[<<Max(s), up[s \ {Max(s)}]>>]
    <3>1. CASE m + 1 \in s
      <4>1. Max(s) = m + 1
        <5>1. Max(s) \in s /\ \A y \in s : y <= Max(s)
          <6> DEFINE l == m + 1
          <6>1. l \in Nat /\ s \in SUBSET (1 .. l) /\ s # {}
            BY <3>1
          <6> HIDE DEF l
          <6> QED
            BY <6>1, MaxIn
        <5>2. Max(s) \in 1 .. m + 1 /\ m + 1 <= Max(s)
          BY <3>1, <5>1
        <5> QED
          BY <5>2
      <4>2. up[s] = step[<<m + 1, it[s \ {m + 1}]>>]
        BY <3>1
      <4>3. up[s \ {m + 1}] = it[s \ {m + 1}]
        BY <2>2, <2>3
      <4> HIDE DEF up
      <4> QED
        BY <3>1, <4>1, <4>2, <4>3
    <3>2. CASE m + 1 \notin s /\ s # {}
      <4>1. s \in SUBSET (1 .. m)
        BY <3>2
      <4>2. up[s] = it[s] /\ up[s \ {Max(s)}] = it[s \ {Max(s)}]
        BY <2>2, <4>1
      <4> HIDE DEF up
      <4> QED
        BY <2>1, <3>2, <4>1, <4>2 DEF FoldsTo
    <3>3. CASE s = {}
      <4>1. s \in SUBSET (1 .. m)
        BY <3>3
      <4>2. up[s] = it[s]
        BY <2>2, <4>1
      <4> HIDE DEF up
      <4> QED
        BY <2>1, <3>3, <4>1, <4>2 DEF FoldsTo
    <3> QED
      BY <3>1, <3>2, <3>3
  <2> HIDE DEF up
  <2>6. FoldsTo(up, m + 1, A, base, step)
    BY <2>4, <2>5 DEF FoldsTo
  <2> QED
    BY <2>6
<1> HIDE DEF N
<1>3. N = Nat
  <2>1. N \in SUBSET Nat
    BY DEF N
  <2> QED
    BY <1>1, <1>2, <2>1, SetInduction
<1> QED
  BY <1>3 DEF N

Readings == [on : BOOLEAN, out : Seq(Kinds)]

LEMMA OutputOfType ==
  ASSUME NEW acc \in Readings, NEW r \in Kinds
  PROVE  OutputOf(acc, r) \in Readings
<1>1. Append(acc.out, r) \in Seq(Kinds) /\ acc.out \in Seq(Kinds) /\ acc.on \in BOOLEAN
  BY DEF Readings
<1> QED
  BY <1>1 DEF OutputOf, Readings

\* What the fold of OutputsOf chooses.
IsOutputs(it, chunk, start) ==
  it = [s \in SUBSET (DOMAIN chunk) |->
          IF s = {} THEN start ELSE OutputOf(it[s \ {Max(s)}], chunk[Max(s)])]

LEMMA OutputsExist ==
  ASSUME NEW chunk \in Seq(Kinds), NEW start \in Readings
  PROVE  \E it : IsOutputs(it, chunk, start)
<1> DEFINE n == Len(chunk)
           step == [p \in (1 .. n) \X Readings |-> OutputOf(p[2], chunk[p[1]])]
<1>1. n \in Nat /\ DOMAIN chunk = 1 .. n
  BY SMT
<1>2. step \in [(1 .. n) \X Readings -> Readings]
  <2> SUFFICES ASSUME NEW i \in 1 .. n, NEW a \in Readings PROVE OutputOf(a, chunk[i]) \in Readings
    OBVIOUS
  <2>1. chunk[i] \in Kinds
    OBVIOUS
  <2> QED
    BY <2>1, OutputOfType
<1>3. \A i \in 1 .. n, a \in Readings : step[<<i, a>>] = OutputOf(a, chunk[i])
  OBVIOUS
<1> HIDE DEF n, step
<1>4. PICK it : FoldsTo(it, n, Readings, start, step)
  BY <1>1, <1>2, FoldExists
<1>5. ASSUME NEW s \in SUBSET (1 .. n)
      PROVE  it[s] = IF s = {} THEN start ELSE OutputOf(it[s \ {Max(s)}], chunk[Max(s)])
  <2>1. CASE s = {}
    BY <1>4, <2>1 DEF FoldsTo
  <2>2. CASE s # {}
    <3>1. Max(s) \in 1 .. n
      BY <1>1, <2>2, MaxIn
    <3>2. it[s \ {Max(s)}] \in Readings
      BY <1>4 DEF FoldsTo
    <3>3. it[s] = step[<<Max(s), it[s \ {Max(s)}]>>]
      BY <1>4, <2>2 DEF FoldsTo
    <3> QED
      BY <1>3, <2>2, <3>1, <3>2, <3>3
  <2> QED
    BY <2>1, <2>2
<1>6. it \in [SUBSET (1 .. n) -> Readings]
  BY <1>4 DEF FoldsTo
<1>7. it = [s \in SUBSET (1 .. n) |->
              IF s = {} THEN start ELSE OutputOf(it[s \ {Max(s)}], chunk[Max(s)])]
  BY <1>5, <1>6
<1> QED
  BY <1>1, <1>7 DEF IsOutputs

\* What is read is a state and requests.
LEMMA OutputsType ==
  ASSUME NEW chunk \in Seq(Kinds), NEW on \in BOOLEAN
  PROVE  OutputsOf(chunk, on) \in Readings
<1> DEFINE start == [on |-> on, out |-> <<>>]
           it == CHOOSE it : IsOutputs(it, chunk, start)
           n == Len(chunk)
<1>1. start \in Readings
  <2>1. <<>> \in Seq(Kinds)
    OBVIOUS
  <2> QED
    BY <2>1 DEF Readings
<1>2. OutputsOf(chunk, on) = it[DOMAIN chunk]
  BY DEF OutputsOf, FoldLeft, MapThenFoldSet, IsOutputs
<1>3. IsOutputs(it, chunk, start)
  <2> HIDE DEF start
  <2>1. \E h : IsOutputs(h, chunk, start)
    BY <1>1, OutputsExist
  <2> QED
    BY <2>1, Zenon
<1>4. n \in Nat /\ DOMAIN chunk = 1 .. n
  BY SMT
<1> HIDE DEF it, start
<1> DEFINE N == {k \in Nat : k <= n => it[1 .. k] \in Readings}
<1>5. 0 \in N
  <2>1. 1 .. 0 = {} /\ 1 .. 0 \in SUBSET (DOMAIN chunk)
    OBVIOUS
  <2>2. it[1 .. 0] = start
    BY <1>3, <2>1 DEF IsOutputs
  <2> QED
    BY <1>1, <2>2
<1>6. \A k \in N : k + 1 \in N
  <2> SUFFICES ASSUME NEW k \in Nat, k \in N, k + 1 <= n PROVE it[1 .. k + 1] \in Readings
    OBVIOUS
  <2>1. k <= n /\ it[1 .. k] \in Readings
    BY <1>4
  <2> DEFINE l == k + 1
             s == 1 .. l
  <2>2. l \in Nat \ {0} /\ l \in 1 .. n /\ l - 1 = k
    BY <1>4
  <2>3. Max(s) = l /\ s \ {l} = 1 .. k
    <3> HIDE DEF l
    <3>1. Max(1 .. l) = l /\ (1 .. l) \ {l} = 1 .. l - 1
      BY <2>2, MaxOfPrefix
    <3> QED
      BY <2>2, <3>1
  <2>4. s \in SUBSET (DOMAIN chunk) /\ s # {}
    <3>1. 1 .. l \subseteq 1 .. n /\ l \in 1 .. l
      <4> HIDE DEF l
      <4> QED
        BY <1>4, <2>2
    <3> QED
      BY <1>4, <3>1
  <2> HIDE DEF l, s
  <2>5. it[s] = OutputOf(it[s \ {Max(s)}], chunk[Max(s)])
    BY <1>3, <2>4 DEF IsOutputs
  <2>6. chunk[l] \in Kinds
    BY <1>4, <2>2
  <2>7. it[s] \in Readings
    BY <2>1, <2>3, <2>5, <2>6, OutputOfType
  <2> QED
    BY <2>7 DEF s, l
<1> HIDE DEF N
<1>7. N = Nat
  <2>1. N \in SUBSET Nat
    BY DEF N
  <2> QED
    BY <1>5, <1>6, <2>1, SetInduction
<1>8. it[1 .. n] \in Readings
  BY <1>4, <1>7 DEF N
<1> QED
  BY <1>2, <1>4, <1>8

-----------------------------------------------------------------------------
\* What a reader makes of one sequence after another.

\* ASDUs a station sends.
Values == UNION {{s[p] : p \in Points} : s \in UNION {m.snapshots : m \in Mixes}}
Asdus == {Reply} \cup [kind : {"con"}, on : BOOLEAN]
         \cup [kind : {"point"}, point : Points, value : Values]

EndsAt(C, m, B) == Max(C) = m + Max(B)

LEMMA LastOfTwo ==
  ASSUME NEW m \in Nat, NEW n \in Nat, NEW A \in SUBSET (1 .. m), NEW B \in SUBSET (1 .. n),
         NEW C, C = A \cup {m + i : i \in B}, B # {}
  PROVE  EndsAt(C, m, B)
<1>a. \A i \in A : i \in 1 .. m
  OBVIOUS
<1>b. \A i \in B : i \in 1 .. n
  OBVIOUS
<1>c. \A y \in C : y \in A \/ \E i \in B : y = m + i
  OBVIOUS
<1>1. Max(B) \in B /\ \A y \in B : y <= Max(B)
  BY MaxIn
<1> DEFINE l == m + n
<1>2. l \in Nat /\ C \in SUBSET (1 .. l)
  <2>1. \A y \in C : y \in 1 .. l
    <3> SUFFICES ASSUME NEW y \in C PROVE y \in 1 .. l
      OBVIOUS
    <3>1. CASE y \in A
      BY <1>a, <3>1
    <3>2. CASE \E i \in B : y = m + i
      BY <1>b, <3>2
    <3> QED
      BY <1>c, <3>1, <3>2
  <2>2. l \in Nat
    OBVIOUS
  <2> HIDE DEF l
  <2> QED
    BY <2>1, <2>2
<1> HIDE DEF l
<1>3. Max(C) \in C /\ \A y \in C : y <= Max(C)
  BY <1>2, MaxIn
<1>4. m + Max(B) \in C
  BY <1>1
<1>5. \A y \in C : y <= m + Max(B)
  <2> SUFFICES ASSUME NEW y \in C PROVE y <= m + Max(B)
    OBVIOUS
  <2>0. Max(B) \in 1 .. n
    BY <1>1, <1>b
  <2>1. CASE y \in A
    BY <1>a, <2>0, <2>1
  <2>2. CASE y \notin A
    <3>1. PICK i \in B : y = m + i
      BY <1>c, <2>2
    <3>2. i \in 1 .. n /\ i <= Max(B)
      BY <1>1, <1>b
    <3> QED
      BY <2>0, <3>1, <3>2
  <2> QED
    BY <2>1, <2>2
<1>6. Max(C) \in Nat /\ m + Max(B) \in Nat
  <2>1. Max(B) \in 1 .. n /\ Max(C) \in 1 .. l
    BY <1>1, <1>b, <1>2, <1>3
  <2> QED
    BY <1>2, <2>1
<1>7. Max(C) = m + Max(B)
  BY <1>3, <1>4, <1>5, <1>6
<1> QED
  BY <1>7 DEF EndsAt

LEMMA ToldByTwo ==
  ASSUME NEW a \in Seq(Asdus), NEW b \in Seq(Asdus), NEW p, NEW was
  PROVE  Told(p, a \o b, was) = Told(p, b, Told(p, a, was))
<1> DEFINE m == Len(a)
           n == Len(b)
           A == ReportsOf(p, a)
           B == ReportsOf(p, b)
           C == ReportsOf(p, a \o b)
<1>1. /\ m \in Nat /\ n \in Nat /\ DOMAIN a = 1 .. m /\ DOMAIN b = 1 .. n
      /\ DOMAIN (a \o b) = 1 .. m + n
      /\ \A i \in 1 .. m : (a \o b)[i] = a[i]
      /\ \A i \in 1 .. n : (a \o b)[m + i] = b[i]
  OBVIOUS
<1>2. A \in SUBSET (1 .. m) /\ B \in SUBSET (1 .. n)
  BY <1>1 DEF ReportsOf
<1> DEFINE P(i) == (a \o b)[i].kind = "point" /\ (a \o b)[i].point = p
<1>3. C = A \cup {m + i : i \in B}
  <2> HIDE DEF m, n
  <2>1. \A i \in 1 .. m : P(i) <=> i \in A
    BY <1>1 DEF ReportsOf
  <2>2. \A i \in 1 .. n : P(m + i) <=> i \in B
    BY <1>1 DEF ReportsOf
  <2>3. C = {i \in 1 .. m + n : P(i)}
    BY <1>1 DEF ReportsOf
  <2>4. \A i \in 1 .. m + n : i \in 1 .. m \/ \E j \in 1 .. n : i = m + j
    <3> SUFFICES ASSUME NEW i \in 1 .. m + n, i \notin 1 .. m PROVE \E j \in 1 .. n : i = m + j
      OBVIOUS
    <3>1. i - m \in 1 .. n /\ i = m + (i - m)
      BY <1>1
    <3> QED
      BY <3>1
  <2>5. \A i \in 1 .. m : i \in 1 .. m + n
    BY <1>1
  <2>6. \A i \in 1 .. n : m + i \in 1 .. m + n
    BY <1>1
  <2> HIDE DEF A, B, C, P
  <2>7. ASSUME NEW i \in C PROVE i \in A \cup {m + j : j \in B}
    <3>1. i \in 1 .. m + n /\ P(i)
      BY <2>3
    <3>2. CASE i \in 1 .. m
      BY <2>1, <3>1, <3>2
    <3>3. CASE \E j \in 1 .. n : i = m + j
      BY <2>2, <3>1, <3>3
    <3> QED
      BY <2>4, <3>1, <3>2, <3>3
  <2>8. ASSUME NEW i \in A \cup {m + j : j \in B} PROVE i \in C
    <3>1. CASE i \in A
      BY <1>2, <2>1, <2>3, <2>5, <3>1
    <3>2. CASE \E j \in B : i = m + j
      BY <1>2, <2>2, <2>3, <2>6, <3>2
    <3> QED
      BY <3>1, <3>2
  <2> QED
    BY <2>7, <2>8
<1> HIDE DEF m, n, A, B, C
<1>4. Told(p, a, was) = (IF A = {} THEN was ELSE a[Max(A)].value)
  BY DEF Told, A
<1>5. \A w : Told(p, b, w) = (IF B = {} THEN w ELSE b[Max(B)].value)
  BY DEF Told, B
<1>6. Told(p, a \o b, was) = (IF C = {} THEN was ELSE (a \o b)[Max(C)].value)
  BY DEF Told, C
<1>7. CASE B = {}
  <2>1. C = A
    BY <1>3, <1>7
  <2>2. A # {} => (a \o b)[Max(A)] = a[Max(A)]
    BY <1>1, <1>2, MaxIn
  <2> QED
    BY <1>4, <1>5, <1>6, <1>7, <2>1, <2>2
<1>8. CASE B # {}
  <2>1. C # {}
    BY <1>3, <1>8
  <2>2. Max(C) = m + Max(B)
    <3>1. EndsAt(C, m, B)
      BY <1>1, <1>2, <1>3, <1>8, LastOfTwo
    <3> QED
      BY <3>1 DEF EndsAt
  <2>3. Max(B) \in 1 .. n
    BY <1>1, <1>2, <1>8, MaxIn
  <2>4. (a \o b)[Max(C)] = b[Max(B)]
    BY <1>1, <2>2, <2>3
  <2> QED
    BY <1>5, <1>6, <1>8, <2>1, <2>4
<1> QED
  BY <1>7, <1>8

LEMMA ConfirmedByTwo ==
  ASSUME NEW a \in Seq(Asdus), NEW b \in Seq(Asdus), NEW was
  PROVE  Confirms(a \o b, was) = Confirms(b, Confirms(a, was))
<1> DEFINE m == Len(a)
           n == Len(b)
           A == Executes(a)
           B == Executes(b)
           C == Executes(a \o b)
<1>1. /\ m \in Nat /\ n \in Nat /\ DOMAIN a = 1 .. m /\ DOMAIN b = 1 .. n
      /\ DOMAIN (a \o b) = 1 .. m + n
      /\ \A i \in 1 .. m : (a \o b)[i] = a[i]
      /\ \A i \in 1 .. n : (a \o b)[m + i] = b[i]
  OBVIOUS
<1>2. A \in SUBSET (1 .. m) /\ B \in SUBSET (1 .. n)
  BY <1>1 DEF Executes
<1> DEFINE P(i) == (a \o b)[i].kind = "con"
<1>3. C = A \cup {m + i : i \in B}
  <2> HIDE DEF m, n
  <2>1. \A i \in 1 .. m : P(i) <=> i \in A
    BY <1>1 DEF Executes
  <2>2. \A i \in 1 .. n : P(m + i) <=> i \in B
    BY <1>1 DEF Executes
  <2>3. C = {i \in 1 .. m + n : P(i)}
    BY <1>1 DEF Executes
  <2>4. \A i \in 1 .. m + n : i \in 1 .. m \/ \E j \in 1 .. n : i = m + j
    <3> SUFFICES ASSUME NEW i \in 1 .. m + n, i \notin 1 .. m PROVE \E j \in 1 .. n : i = m + j
      OBVIOUS
    <3>1. i - m \in 1 .. n /\ i = m + (i - m)
      BY <1>1
    <3> QED
      BY <3>1
  <2>5. \A i \in 1 .. m : i \in 1 .. m + n
    BY <1>1
  <2>6. \A i \in 1 .. n : m + i \in 1 .. m + n
    BY <1>1
  <2> HIDE DEF A, B, C, P
  <2>7. ASSUME NEW i \in C PROVE i \in A \cup {m + j : j \in B}
    <3>1. i \in 1 .. m + n /\ P(i)
      BY <2>3
    <3>2. CASE i \in 1 .. m
      BY <2>1, <3>1, <3>2
    <3>3. CASE \E j \in 1 .. n : i = m + j
      BY <2>2, <3>1, <3>3
    <3> QED
      BY <2>4, <3>1, <3>2, <3>3
  <2>8. ASSUME NEW i \in A \cup {m + j : j \in B} PROVE i \in C
    <3>1. CASE i \in A
      BY <1>2, <2>1, <2>3, <2>5, <3>1
    <3>2. CASE \E j \in B : i = m + j
      BY <1>2, <2>2, <2>3, <2>6, <3>2
    <3> QED
      BY <3>1, <3>2
  <2> QED
    BY <2>7, <2>8
<1> HIDE DEF m, n, A, B, C
<1>4. Confirms(a, was) = (IF A = {} THEN was ELSE a[Max(A)].on)
  BY DEF Confirms, A
<1>5. \A w : Confirms(b, w) = (IF B = {} THEN w ELSE b[Max(B)].on)
  BY DEF Confirms, B
<1>6. Confirms(a \o b, was) = (IF C = {} THEN was ELSE (a \o b)[Max(C)].on)
  BY DEF Confirms, C
<1>7. CASE B = {}
  <2>1. C = A
    BY <1>3, <1>7
  <2>2. A # {} => (a \o b)[Max(A)] = a[Max(A)]
    BY <1>1, <1>2, MaxIn
  <2> QED
    BY <1>4, <1>5, <1>6, <1>7, <2>1, <2>2
<1>8. CASE B # {}
  <2>1. C # {}
    BY <1>3, <1>8
  <2>2. Max(C) = m + Max(B)
    <3>1. EndsAt(C, m, B)
      BY <1>1, <1>2, <1>3, <1>8, LastOfTwo
    <3> QED
      BY <3>1 DEF EndsAt
  <2>3. Max(B) \in 1 .. n
    BY <1>1, <1>2, <1>8, MaxIn
  <2>4. (a \o b)[Max(C)] = b[Max(B)]
    BY <1>1, <2>2, <2>3
  <2> QED
    BY <1>5, <1>6, <1>8, <2>1, <2>4
<1> QED
  BY <1>7, <1>8

\* Nothing told, nothing changed; one ASDU.
LEMMA ToldByNone ==
  ASSUME NEW p, NEW was
  PROVE  Told(p, <<>>, was) = was /\ Confirms(<<>>, was) = was
BY DEF Told, Confirms, ReportsOf, Executes

LEMMA ToldByOne ==
  ASSUME NEW p, NEW was, NEW m
  PROVE  /\ Told(p, <<m>>, was) = IF m.kind = "point" /\ m.point = p THEN m.value ELSE was
         /\ Confirms(<<m>>, was) = IF m.kind = "con" THEN m.on ELSE was
<1>1. DOMAIN <<m>> = {1} /\ <<m>>[1] = m
  OBVIOUS
<1>2. Max({1}) = 1
  <2>1. 1 .. 1 = {1} /\ 1 \in Nat \ {0}
    OBVIOUS
  <2> QED
    BY <2>1, MaxOfPrefix
<1>3. ReportsOf(p, <<m>>) = IF m.kind = "point" /\ m.point = p THEN {1} ELSE {}
  BY <1>1 DEF ReportsOf
<1>4. Executes(<<m>>) = IF m.kind = "con" THEN {1} ELSE {}
  BY <1>1 DEF Executes
<1> QED
  BY <1>1, <1>2, <1>3, <1>4 DEF Told, Confirms

-----------------------------------------------------------------------------
\* Sequences of ASDUs.

LEMMA Concatenated ==
  ASSUME NEW S, NEW a \in Seq(S), NEW b \in Seq(S)
  PROVE  /\ a \o b \in Seq(S) /\ <<>> \o a = a /\ a \o <<>> = a
         /\ \A c \in Seq(S) : (a \o b) \o c = a \o (b \o c)
OBVIOUS

\* The first of the second queue goes to the end of the first.
LEMMA HandedOver ==
  ASSUME NEW S, NEW a \in Seq(S), NEW b \in Seq(S), b # <<>>
  PROVE  /\ Append(a, Head(b)) \in Seq(S) /\ Tail(b) \in Seq(S)
         /\ Append(a, Head(b)) \o Tail(b) = a \o b
OBVIOUS

-----------------------------------------------------------------------------
\* What the station sends.

LEMMA AllInSequence ==
  ASSUME NEW S, IsFiniteSet(S)
  PROVE  /\ Cardinality(S) \in Nat
         /\ SetToSeq(S) \in [1 .. Cardinality(S) -> S]
         /\ \A x \in S : \E i \in 1 .. Cardinality(S) : SetToSeq(S)[i] = x
<1> DEFINE n == Cardinality(S)
           f == SetToSeq(S)
<1>1. n \in Nat /\ ExistsBijection(1 .. n, S)
  BY FS_CardinalityType
<1>2. \E g \in [1 .. n -> S] : IsInjective(g)
  BY <1>1 DEF ExistsBijection, Bijection, Injection
<1>3. f \in [1 .. n -> S] /\ IsInjective(f)
  BY <1>2 DEF SetToSeq
<1>4. f \in Injection(1 .. n, S)
  BY <1>3 DEF Injection
<1> HIDE DEF f
<1>5. IsFiniteSet(1 .. n) /\ Cardinality(1 .. n) = n
  BY <1>1, FS_Interval
<1>6. f \in Surjection(1 .. n, S)
  BY <1>4, <1>5, FS_Injection
<1> QED
  BY <1>1, <1>3, <1>6 DEF Surjection, f

LEMMA ReportedAll ==
  ASSUME NEW ps \in SUBSET Points, NEW s, \A p \in ps : s[p] \in Values
  PROVE  /\ Reports(ps, s) \in Seq(Asdus)
         /\ \A p, was : Told(p, Reports(ps, s), was) = IF p \in ps THEN s[p] ELSE was
         /\ \A was : Confirms(Reports(ps, s), was) = was
<1> DEFINE n == Cardinality(ps)
           q == SetToSeq(ps)
           r == Reports(ps, s)
<1>1. n \in Nat /\ q \in [1 .. n -> ps] /\ \A x \in ps : \E i \in 1 .. n : q[i] = x
  <2>1. IsFiniteSet(ps)
    BY StationAssumption, FS_Subset DEF Points
  <2> QED
    BY <2>1, AllInSequence
<1>2. r = [i \in 1 .. n |-> Report(q[i], s[q[i]])]
  BY DEF Reports
<1> HIDE DEF n, q, r
<1>3. \A i \in 1 .. n : r[i] = [kind |-> "point", point |-> q[i], value |-> s[q[i]]] /\ q[i] \in ps
  BY <1>1, <1>2 DEF Report
<1>4. \A i \in 1 .. n : r[i] \in Asdus
  <2> SUFFICES ASSUME NEW i \in 1 .. n PROVE r[i] \in Asdus
    OBVIOUS
  <2>1. q[i] \in Points /\ s[q[i]] \in Values
    BY <1>3
  <2>2. r[i] = [kind |-> "point", point |-> q[i], value |-> s[q[i]]]
    BY <1>3
  <2> DEFINE x == q[i]
             v == s[q[i]]
  <2>3. x \in Points /\ v \in Values /\ r[i] = [kind |-> "point", point |-> x, value |-> v]
    BY <2>1, <2>2
  <2> HIDE DEF x, v
  <2>4. r[i] \in [kind : {"point"}, point : Points, value : Values]
    BY <2>3
  <2> QED
    BY <2>4 DEF Asdus
<1>5. r \in Seq(Asdus) /\ DOMAIN r = 1 .. n
  BY <1>1, <1>2, <1>4
<1>6. Executes(r) = {}
  BY <1>3, <1>5 DEF Executes
<1>7. ASSUME NEW p, NEW was PROVE Told(p, r, was) = IF p \in ps THEN s[p] ELSE was
  <2>1. ReportsOf(p, r) = {i \in 1 .. n : q[i] = p}
    BY <1>3, <1>5 DEF ReportsOf
  <2>2. CASE p \in ps
    <3>1. ReportsOf(p, r) # {} /\ ReportsOf(p, r) \in SUBSET (1 .. n)
      BY <1>1, <2>1, <2>2
    <3>2. Max(ReportsOf(p, r)) \in ReportsOf(p, r)
      BY <1>1, <3>1, MaxIn
    <3>3. r[Max(ReportsOf(p, r))].value = s[p]
      <4>1. PICK i \in 1 .. n : i = Max(ReportsOf(p, r)) /\ q[i] = p
        BY <2>1, <3>2
      <4>2. r[i].value = s[q[i]]
        <5>1. r[i] = [kind |-> "point", point |-> q[i], value |-> s[q[i]]]
          BY <1>3
        <5> QED
          BY <5>1
      <4> QED
        BY <4>1, <4>2
    <3> QED
      BY <2>2, <3>1, <3>3 DEF Told
  <2>3. CASE p \notin ps
    <3>1. ReportsOf(p, r) = {}
      BY <1>3, <2>1, <2>3
    <3> QED
      BY <2>3, <3>1 DEF Told
  <2> QED
    BY <2>2, <2>3
<1>8. \A was : Confirms(r, was) = was
  BY <1>6 DEF Confirms
<1> QED
  BY <1>5, <1>7, <1>8 DEF r

LEMMA AnswerTells ==
  /\ Reply \in Asdus /\ <<Reply>> \in Seq(Asdus)
  /\ \A p, was : Told(p, <<Reply>>, was) = was
  /\ \A was : Confirms(<<Reply>>, was) = was
<1>1. Reply.kind # "point" /\ Reply.kind # "con"
  BY DEF Reply
<1>2. Reply \in Asdus
  BY DEF Asdus
<1> HIDE DEF Reply, Asdus
<1>3. \A p, was : Told(p, <<Reply>>, was) = was
  BY <1>1, ToldByOne
<1>4. \A was : Confirms(<<Reply>>, was) = was
  BY <1>1, ToldByOne
<1> QED
  BY <1>2, <1>3, <1>4

LEMMA ConTells ==
  ASSUME NEW request, NEW ok \in BOOLEAN
  PROVE  /\ Con(request, ok) \in Asdus
         /\ \A p, was : Told(p, <<Con(request, ok)>>, was) = was
         /\ \A was : Confirms(<<Con(request, ok)>>, was)
                       = IF request \in {"on", "off"} /\ ok THEN request = "on" ELSE was
<1>1. CASE request \in {"on", "off"} /\ ok
  <2> DEFINE m == Con(request, ok)
  <2>1. m = [kind |-> "con", on |-> request = "on"]
    BY <1>1 DEF Con
  <2>2. m.kind = "con" /\ m.kind # "point" /\ m.on = (request = "on") /\ (request = "on") \in BOOLEAN
    BY <2>1
  <2>3. m \in Asdus
    BY <2>1 DEF Asdus
  <2> HIDE DEF m
  <2>4. \A p, was : Told(p, <<m>>, was) = was
    BY <2>2, ToldByOne
  <2>5. \A was : Confirms(<<m>>, was) = m.on
    BY <2>2, ToldByOne
  <2> QED
    BY <1>1, <2>2, <2>3, <2>4, <2>5 DEF m
<1>2. CASE ~(request \in {"on", "off"} /\ ok)
  <2>1. Con(request, ok) = Reply
    BY <1>2 DEF Con
  <2> QED
    BY <1>2, <2>1, AnswerTells
<1> QED
  BY <1>1, <1>2

-----------------------------------------------------------------------------
\* The inductive invariant.

Typed ==
  /\ StType /\ mix \in Mixes
  /\ queue \in Seq(Asdus) /\ out \in Seq(Asdus) /\ todo \in Seq(Asdus)

\* Nothing waits for a task that is gone, and no peer is there without one.
Joined ==
  /\ tcp = "open" => driving
  /\ ~driving => queue = <<>> /\ out = <<>>
  /\ ~serving => todo = <<>>

\* On its way to the centre, in the order it arrives.
Coming == queue \o out \o todo

\* What counts as reported is what the centre knows once all has arrived.
Promised ==
  tcp = "open" => \A p \in Points : Told(p, Coming, view[p]) = reported[p]

\* And so is what is commanded, if it has confirmed an execute at all.
Kept ==
  tcp = "open" => Confirms(Coming, confirmed) \in {commands, None}

StInv == Typed /\ Joined /\ Promised /\ Kept

\* The queue of the session never forgets.
NeverFull == Len(queue) < MaxQueue

-----------------------------------------------------------------------------
\* What the driver does.

LEMMA ConfirmsType ==
  ASSUME NEW a \in Seq(Asdus), NEW was \in BOOLEAN \cup {None}
  PROVE  Confirms(a, was) \in BOOLEAN \cup {None}
<1> DEFINE n == Len(a)
           e == Executes(a)
<1>1. n \in Nat /\ DOMAIN a = 1 .. n /\ \A i \in 1 .. n : a[i] \in Asdus
  OBVIOUS
<1> HIDE DEF n, e
<1>2. CASE e = {}
  BY <1>2 DEF Confirms, e
<1>3. CASE e # {}
  <2>1. e \in SUBSET (1 .. n)
    BY <1>1 DEF e, Executes
  <2>2. Max(e) \in e
    BY <1>1, <1>3, <2>1, MaxIn
  <2>3. a[Max(e)] \in Asdus /\ a[Max(e)].kind = "con"
    BY <1>1, <2>1, <2>2 DEF e, Executes
  <2>4. a[Max(e)].on \in BOOLEAN
    BY <2>3 DEF Asdus, Reply
  <2>5. Confirms(a, was) = a[Max(e)].on
    BY <1>3 DEF Confirms, e
  <2> QED
    BY <2>4, <2>5
<1> QED
  BY <1>2, <1>3

\* A flush brings nothing out of order, and takes nothing away.
LEMMA FlushTells ==
  ASSUME NEW q \in Seq(Asdus), NEW on, Flush(q, on),
         confirmed \in BOOLEAN \cup {None}
  PROVE  /\ queue' \in Seq(Asdus) /\ Len(queue') <= Len(q)
         /\ confirmed' \in BOOLEAN \cup {None}
         /\ tcp = "open" => \A r \in Seq(Asdus) :
              /\ \A p \in Points : Told(p, queue' \o r, view'[p]) = Told(p, q \o r, view[p])
              /\ Confirms(queue' \o r, confirmed') = Confirms(q \o r, confirmed)
<1>0. <<>> \in Seq(Asdus) /\ Len(q) \in Nat /\ Len(<<>>) = 0
  OBVIOUS
<1>1. CASE on /\ tcp = "open"
  <2>1. /\ queue' = <<>> /\ confirmed' = Confirms(q, confirmed)
        /\ \A p \in Points : view'[p] = Told(p, q, view[p])
    BY <1>1 DEF Flush, Receives
  <2>2. confirmed' \in BOOLEAN \cup {None}
    BY <2>1, ConfirmsType
  <2>3. ASSUME NEW r \in Seq(Asdus)
        PROVE  /\ \A p \in Points : Told(p, queue' \o r, view'[p]) = Told(p, q \o r, view[p])
               /\ Confirms(queue' \o r, confirmed') = Confirms(q \o r, confirmed)
    <3>1. queue' \o r = r
      BY <2>1, Concatenated
    <3>2. \A p \in Points : Told(p, q \o r, view[p]) = Told(p, r, Told(p, q, view[p]))
      BY ToldByTwo
    <3>3. Confirms(q \o r, confirmed) = Confirms(r, Confirms(q, confirmed))
      BY ConfirmedByTwo
    <3> QED
      BY <2>1, <3>1, <3>2, <3>3
  <2> QED
    BY <1>0, <2>1, <2>2, <2>3
<1>2. CASE ~(on /\ tcp = "open")
  <2>1. view' = view /\ confirmed' = confirmed /\ (queue' = q \/ queue' = <<>>)
        /\ (tcp = "open" => queue' = q)
    BY <1>2 DEF Flush, centre
  <2>2. queue' \in Seq(Asdus)
    BY <1>0, <2>1
  <2>3. Len(queue') <= Len(q)
    <3>1. CASE queue' = q
      BY <1>0, <3>1
    <3>2. CASE queue' = <<>>
      BY <1>0, <3>2
    <3> QED
      BY <2>1, <3>1, <3>2
  <2> QED
    BY <2>1, <2>2, <2>3
<1> QED
  BY <1>1, <1>2

\* Nothing on the way changes, nor what is known at either end.
LEMMA StillSo ==
  ASSUME StInv, Coming' = Coming, UNCHANGED <<centre, reported, commands>>,
         tcp' = "open" => tcp = "open"
  PROVE  Promised' /\ Kept'
BY DEF StInv, Promised, Kept, centre

LEMMA DriverReadInv ==
  ASSUME StInv, DriverRead
  PROVE  StInv'
<1>1. PICK n \in 1 .. Len(inbox) :
        LET read == OutputsOf(SubSeq(inbox, 1, n), session_on)
        IN  /\ session_on' = read.on
            /\ drv' = read.out
            /\ Flush(queue, read.on \/ \E i \in 1 .. n : inbox[i] = "start")
            /\ inbox' = SubSeq(inbox, n + 1, Len(inbox))
  BY Zenon DEF DriverRead
<1> DEFINE read == OutputsOf(SubSeq(inbox, 1, n), session_on)
<1>2. /\ inbox \in Seq(Kinds) /\ session_on \in BOOLEAN /\ queue \in Seq(Asdus)
      /\ confirmed \in BOOLEAN \cup {None} /\ out \in Seq(Asdus) /\ todo \in Seq(Asdus)
  BY DEF StInv, Typed, StType
<1>3. SubSeq(inbox, 1, n) \in Seq(Kinds) /\ SubSeq(inbox, n + 1, Len(inbox)) \in Seq(Kinds)
  BY <1>2
<1>4. read \in Readings
  BY <1>2, <1>3, OutputsType
<1> HIDE DEF read
<1>5. PICK on : Flush(queue, on)
  BY <1>1
<1>6. session_on' \in BOOLEAN /\ drv' \in Seq(Kinds) /\ inbox' \in Seq(Kinds)
  BY <1>1, <1>3, <1>4 DEF read, Readings
<1>7. /\ queue' \in Seq(Asdus) /\ Len(queue') <= Len(queue)
      /\ confirmed' \in BOOLEAN \cup {None}
      /\ tcp = "open" => \A r \in Seq(Asdus) :
           /\ \A p \in Points : Told(p, queue' \o r, view'[p]) = Told(p, queue \o r, view[p])
           /\ Confirms(queue' \o r, confirmed') = Confirms(queue \o r, confirmed)
  BY <1>2, <1>5, FlushTells
<1>8. driving /\ UNCHANGED <<mix, tcp, serving, driving, events, out, station, changed, snapshot>>
  BY DEF DriverRead
<1>9. Typed'
  <2>1. Len(queue') <= MaxQueue
    <3>1. Len(queue) \in Nat /\ Len(queue') \in Nat /\ Len(queue) <= MaxQueue
      BY <1>2, <1>7 DEF StInv, Typed, StType
    <3> QED
      BY <1>7, <3>1, StationAssumption
  <2> QED
    BY <1>6, <1>7, <1>8, <2>1 DEF StInv, Typed, StType, station
<1>10. Joined'
  BY <1>8 DEF StInv, Joined, station
<1>11. Promised' /\ Kept'
  <2> DEFINE r == out \o todo
  <2>1. r \in Seq(Asdus) /\ Coming = queue \o r /\ Coming' = queue' \o r
    <3>1. out' = out /\ todo' = todo
      BY <1>8 DEF station
    <3>2. Coming' = queue' \o out \o todo
      BY <3>1 DEF Coming
    <3>3. \A a \in Seq(Asdus) : (a \o out) \o todo = a \o (out \o todo)
      BY <1>2, Concatenated
    <3>4. out \o todo \in Seq(Asdus)
      BY <1>2, Concatenated
    <3> QED
      BY <1>2, <1>7, <3>2, <3>3, <3>4 DEF Coming
  <2> HIDE DEF r
  <2> QED
    BY <1>7, <1>8, <2>1 DEF StInv, Promised, Kept, station
<1> QED
  BY <1>9, <1>10, <1>11 DEF StInv

LEMMA DriverTakeInv ==
  ASSUME StInv, NeverFull, DriverTake
  PROVE  StInv'
<1>1. /\ queue \in Seq(Asdus) /\ out \in Seq(Asdus) /\ todo \in Seq(Asdus)
      /\ confirmed \in BOOLEAN \cup {None} /\ out # <<>>
  BY DEF StInv, Typed, StType, DriverTake
<1> DEFINE q == Append(queue, Head(out))
           r == Tail(out) \o todo
<1>2. q \in Seq(Asdus) /\ Tail(out) \in Seq(Asdus) /\ q \o Tail(out) = queue \o out
  BY <1>1, HandedOver
<1>3. Len(q) = Len(queue) + 1 /\ Len(queue) \in Nat
  BY <1>1
<1>4. Queued(queue, Head(out)) = q
  <2>1. ~(Len(queue) >= MaxQueue)
    BY <1>3, StationAssumption DEF NeverFull
  <2> QED
    BY <2>1 DEF Queued
<1>5. Flush(q, session_on)
  BY <1>4 DEF DriverTake
<1>6. /\ driving /\ out' = Tail(out)
      /\ UNCHANGED <<mix, tcp, serving, inbox, session_on, drv, driving, events, station,
                     changed, snapshot>>
  BY DEF DriverTake
<1>7. r \in Seq(Asdus) /\ Coming = q \o r
  <2>1. Coming = (q \o Tail(out)) \o todo
    BY <1>2 DEF Coming
  <2> HIDE DEF q
  <2> QED
    BY <1>1, <1>2, <2>1, Concatenated
<1> HIDE DEF q, r
<1>8. /\ queue' \in Seq(Asdus) /\ Len(queue') <= Len(q)
      /\ confirmed' \in BOOLEAN \cup {None}
      /\ tcp = "open" => \A t \in Seq(Asdus) :
           /\ \A p \in Points : Told(p, queue' \o t, view'[p]) = Told(p, q \o t, view[p])
           /\ Confirms(queue' \o t, confirmed') = Confirms(q \o t, confirmed)
  BY <1>1, <1>2, <1>5, FlushTells
<1>9. Coming' = queue' \o r
  <2>1. Coming' = (queue' \o Tail(out)) \o todo
    BY <1>6 DEF Coming, station
  <2> QED
    BY <1>1, <1>2, <1>8, <2>1, Concatenated DEF r
<1>10. Typed'
  <2>1. Len(queue') <= MaxQueue
    <3>1. Len(queue') \in Nat
      BY <1>8
    <3> QED
      BY <1>3, <1>8, <3>1, StationAssumption DEF NeverFull
  <2>2. Len(out') <= Capacity
    <3>1. Len(out') = Len(out) - 1 /\ Len(out) \in Nat /\ Len(out) <= Capacity
      BY <1>1, <1>6 DEF StInv, Typed, StType
    <3> QED
      BY <3>1, StationAssumption
  <2> QED
    BY <1>2, <1>6, <1>8, <2>1, <2>2 DEF StInv, Typed, StType, station
<1>11. Joined'
  BY <1>6 DEF StInv, Joined, station
<1>12. Promised' /\ Kept'
  BY <1>6, <1>7, <1>8, <1>9 DEF StInv, Promised, Kept, station
<1> QED
  BY <1>10, <1>11, <1>12 DEF StInv

LEMMA DriverEventInv ==
  ASSUME StInv, DriverEvent
  PROVE  StInv'
<1>1. /\ drv \in Seq(Kinds) /\ drv # <<>> /\ events \in Seq(Kinds) /\ Len(events) < Capacity
      /\ events' = Append(events, Head(drv)) /\ drv' = Tail(drv)
      /\ UNCHANGED <<mix, tcp, serving, inbox, session_on, queue, driving, out, station, changed,
                     snapshot, centre>>
  BY DEF StInv, Typed, StType, DriverEvent, Room
<1>2. drv' \in Seq(Kinds) /\ events' \in Seq(Kinds) /\ Len(events') <= Capacity
  <2>1. Len(events') = Len(events) + 1 /\ Len(events) \in Nat
    BY <1>1
  <2> QED
    BY <1>1, <2>1, StationAssumption
<1>3. Typed'
  BY <1>1, <1>2 DEF StInv, Typed, StType, station, centre
<1>4. Joined'
  BY <1>1 DEF StInv, Joined, station
<1>5. Promised' /\ Kept'
  BY <1>1, StillSo DEF Coming, station
<1> QED
  BY <1>3, <1>4, <1>5 DEF StInv

\* Nobody is promised anything once the driver is gone.
LEMMA EndsInv ==
  ASSUME StInv, Ends
  PROVE  StInv'
<1>1. /\ driving' = FALSE /\ tcp' = "shut" /\ queue' = <<>> /\ inbox' = <<>> /\ out' = <<>>
      /\ session_on' = FALSE /\ drv' = <<>>
      /\ UNCHANGED <<mix, serving, events, station, changed, snapshot, centre>>
  BY DEF Ends
<1>2. <<>> \in Seq(Asdus) /\ <<>> \in Seq(Kinds) /\ Len(<<>>) = 0
  OBVIOUS
<1>3. Typed'
  <2>1. Len(queue') <= MaxQueue /\ Len(out') <= Capacity
    <3>1. 0 <= MaxQueue /\ 0 <= Capacity
      BY StationAssumption
    <3> QED
      BY <1>1, <1>2, <3>1
  <2>2. queue' \in Seq(Asdus) /\ out' \in Seq(Asdus) /\ inbox' \in Seq(Kinds) /\ drv' \in Seq(Kinds)
    BY <1>1, <1>2
  <2>3. session_on' \in BOOLEAN /\ driving' \in BOOLEAN /\ tcp' \in {"open", "shut"}
    BY <1>1
  <2>4. driving' => serving'
    BY <1>1
  <2> QED
    BY <1>1, <2>1, <2>2, <2>3, <2>4 DEF StInv, Typed, StType, station, centre
<1>4. Joined'
  BY <1>1 DEF StInv, Joined, station
<1> QED
  BY <1>1, <1>3, <1>4 DEF StInv, Promised, Kept

LEMMA DriverInv ==
  ASSUME StInv, NeverFull, DriverNext
  PROVE  StInv'
<1>1. DriverEnd \/ DriverWriteFails \/ SessionCloses => Ends
  BY DEF DriverEnd, DriverWriteFails, SessionCloses
<1> QED
  BY <1>1, DriverReadInv, DriverTakeInv, DriverEventInv, EndsInv DEF DriverNext

-----------------------------------------------------------------------------
\* What the station does.

\* Replies that tell what is reported and what is commanded from now on.
LEMMA RepliesTell ==
  ASSUME StInv, todo = <<>>, todo' \in Seq(Asdus), UNCHANGED <<tcp, queue, out, centre>>,
         \A p \in Points : Told(p, todo', reported[p]) = reported'[p],
         \A c \in {commands, None} : Confirms(todo', c) \in {commands', None}
  PROVE  Promised' /\ Kept'
<1> DEFINE q == queue \o out
<1>1. queue \in Seq(Asdus) /\ out \in Seq(Asdus)
  BY DEF StInv, Typed
<1>2. q \in Seq(Asdus) /\ q \o <<>> = q
  BY <1>1, Concatenated
<1>3. Coming = q /\ Coming' = q \o todo'
  BY <1>2 DEF Coming
<1> HIDE DEF q
<1>4. \A p \in Points : Told(p, Coming', view[p]) = Told(p, todo', Told(p, q, view[p]))
  BY <1>2, <1>3, ToldByTwo
<1>5. Confirms(Coming', confirmed) = Confirms(todo', Confirms(q, confirmed))
  BY <1>2, <1>3, ConfirmedByTwo
<1>6. view' = view /\ confirmed' = confirmed /\ tcp' = tcp
  BY DEF centre
<1>7. Promised'
  BY <1>3, <1>4, <1>6 DEF StInv, Promised
<1>8. Kept'
  BY <1>3, <1>5, <1>6 DEF StInv, Kept
<1> QED
  BY <1>7, <1>8

\* What a reply may be, and what it must tell.
Replied ==
  /\ todo' \in Seq(Asdus)
  /\ \A p \in Points : Told(p, todo', reported[p]) = reported'[p]
  /\ \A c \in {commands, None} : Confirms(todo', c) \in {commands', None}
  /\ selected' \in Int \cup {None} /\ commands' \in BOOLEAN

LEMMA CommandReplies ==
  ASSUME StInv, NEW request, Command(request)
  PROVE  Replied
<1> DEFINE execute == request \in {"on", "off"}
           late == execute /\ SelectionRanOut(selected)
<1>1. commands \in BOOLEAN /\ reported' = reported /\ selected' \in {0, None}
  BY DEF StInv, Typed, StType, Command
<1>2. CASE execute /\ ~late
  <2> DEFINE con == Con(request, TRUE)
  <2>1. todo' = <<con, Reply>> /\ commands' = (request = "on")
    BY <1>2 DEF Command
  <2>2. /\ con \in Asdus /\ \A p, was : Told(p, <<con>>, was) = was
        /\ \A was : Confirms(<<con>>, was) = (request = "on")
    BY <1>2, ConTells
  <2> HIDE DEF con
  <2> DEFINE a == <<con>>
             b == <<Reply>>
  <2>3. a \in Seq(Asdus) /\ b \in Seq(Asdus) /\ todo' = a \o b
    BY <2>1, <2>2, AnswerTells
  <2>4. todo' \in Seq(Asdus)
    BY <2>3, Concatenated
  <2> HIDE DEF a, b
  <2>5. \A p \in Points : Told(p, todo', reported[p]) = Told(p, b, Told(p, a, reported[p]))
    BY <2>3, ToldByTwo
  <2>6. \A c : Confirms(todo', c) = Confirms(b, Confirms(a, c))
    BY <2>3, ConfirmedByTwo
  <2>7. \A p \in Points : Told(p, todo', reported[p]) = reported'[p]
    BY <1>1, <2>2, <2>5, AnswerTells DEF a, b
  <2>8. \A c : Confirms(todo', c) = commands'
    BY <2>1, <2>2, <2>6, AnswerTells DEF a, b
  <2> QED
    BY <1>1, <2>1, <2>4, <2>7, <2>8 DEF Replied
<1>3. CASE ~(execute /\ ~late)
  <2> DEFINE con == Con(request, ~late)
  <2>1. todo' = <<con>> /\ commands' = commands
    BY <1>3 DEF Command
  <2>2. /\ con \in Asdus /\ \A p, was : Told(p, <<con>>, was) = was
        /\ \A was : Confirms(<<con>>, was) = was
    <3> DEFINE ok == ~late
    <3>1. ok \in BOOLEAN /\ ~(request \in {"on", "off"} /\ ok)
      BY <1>3
    <3> HIDE DEF ok
    <3>2. /\ Con(request, ok) \in Asdus /\ \A p, was : Told(p, <<Con(request, ok)>>, was) = was
          /\ \A was : Confirms(<<Con(request, ok)>>, was) = was
      BY <3>1, ConTells
    <3> QED
      BY <3>2 DEF ok
  <2> HIDE DEF con
  <2>3. <<con>> \in Seq(Asdus)
    BY <2>2
  <2> QED
    BY <1>1, <2>1, <2>2, <2>3 DEF Replied
<1> QED
  BY <1>2, <1>3

LEMMA SnapshotValues ==
  ASSUME StInv
  PROVE  \A p \in Points : snapshot[p] \in Values
<1>1. mix \in Mixes /\ snapshot \in mix.snapshots
  BY DEF StInv, Typed, StType
<1>2. snapshot \in UNION {m.snapshots : m \in Mixes}
  BY <1>1
<1> QED
  BY <1>2 DEF Values

LEMMA InterrogationReplies ==
  ASSUME StInv, Interrogation
  PROVE  Replied
<1> DEFINE r == Reports(Points, snapshot)
           a == <<Reply>>
<1>1. /\ r \in Seq(Asdus)
      /\ \A p, was : Told(p, r, was) = IF p \in Points THEN snapshot[p] ELSE was
      /\ \A was : Confirms(r, was) = was
  BY SnapshotValues, ReportedAll
<1>2. /\ a \in Seq(Asdus) /\ \A p, was : Told(p, a, was) = was
      /\ \A was : Confirms(a, was) = was
  BY AnswerTells
<1>3. /\ todo' = a \o r \o a /\ reported' = snapshot
      /\ UNCHANGED <<selected, commands>>
  BY DEF Interrogation
<1> HIDE DEF r, a
<1>4. a \o r \in Seq(Asdus) /\ todo' \in Seq(Asdus)
  BY <1>1, <1>2, <1>3, Concatenated
<1>5. \A p, was : Told(p, todo', was) = Told(p, a, Told(p, r, Told(p, a, was)))
  <2> DEFINE b == a \o r
  <2>1. b \in Seq(Asdus) /\ todo' = b \o a
    BY <1>3, <1>4
  <2>2. \A p, was : Told(p, b, was) = Told(p, r, Told(p, a, was))
    BY <1>1, <1>2, ToldByTwo
  <2> HIDE DEF b
  <2>3. \A p, was : Told(p, todo', was) = Told(p, a, Told(p, b, was))
    BY <1>2, <2>1, ToldByTwo
  <2> QED
    BY <2>2, <2>3
<1>6. \A was : Confirms(todo', was) = Confirms(a, Confirms(r, Confirms(a, was)))
  <2> DEFINE b == a \o r
  <2>1. b \in Seq(Asdus) /\ todo' = b \o a
    BY <1>3, <1>4
  <2>2. \A was : Confirms(b, was) = Confirms(r, Confirms(a, was))
    BY <1>1, <1>2, ConfirmedByTwo
  <2> HIDE DEF b
  <2>3. \A was : Confirms(todo', was) = Confirms(a, Confirms(b, was))
    BY <1>2, <2>1, ConfirmedByTwo
  <2> QED
    BY <2>2, <2>3
<1>7. \A p \in Points : Told(p, todo', reported[p]) = reported'[p]
  BY <1>1, <1>2, <1>3, <1>5
<1>8. \A c : Confirms(todo', c) = c
  BY <1>1, <1>2, <1>6
<1>9. selected' \in Int \cup {None} /\ commands' \in BOOLEAN
  BY <1>3 DEF StInv, Typed, StType
<1> QED
  BY <1>3, <1>4, <1>7, <1>8, <1>9 DEF Replied

LEMMA SpontaneousReplies ==
  ASSUME StInv, Spontaneous(snapshot), UNCHANGED <<selected, commands>>
  PROVE  Replied
<1> DEFINE moved == {p \in Points : Moved(p, snapshot)}
           r == Reports(moved, snapshot)
<1>0. moved \in SUBSET Points
  OBVIOUS
<1>1. /\ todo' = r
      /\ reported' = [p \in Points |-> IF p \in moved THEN snapshot[p] ELSE reported[p]]
  BY DEF Spontaneous
<1> HIDE DEF moved
<1>2. /\ r \in Seq(Asdus)
      /\ \A p, was : Told(p, r, was) = IF p \in moved THEN snapshot[p] ELSE was
      /\ \A was : Confirms(r, was) = was
  BY <1>0, SnapshotValues, ReportedAll
<1> HIDE DEF r
<1>3. \A p \in Points : Told(p, todo', reported[p]) = reported'[p]
  BY <1>1, <1>2
<1>4. selected' \in Int \cup {None} /\ commands' \in BOOLEAN
  BY DEF StInv, Typed, StType
<1> QED
  BY <1>1, <1>2, <1>3, <1>4 DEF Replied

\* A reply, or none.
LEMMA RepliedInv ==
  ASSUME StInv, serving, todo = <<>>, Replied,
         UNCHANGED <<mix, tcp, serving, inbox, driver, out, snapshot, centre>>,
         started' \in BOOLEAN, changed' \in BOOLEAN,
         events' \in Seq(Kinds), Len(events') <= Capacity
  PROVE  StInv'
<1>1. UNCHANGED <<session_on, queue, drv, driving, view, confirmed>>
  BY DEF driver, centre
<1>2. Typed'
  BY <1>1 DEF StInv, Typed, StType, Replied
<1>3. Joined'
  BY <1>1 DEF StInv, Joined
<1>4. Promised' /\ Kept'
  BY <1>1, RepliesTell DEF Replied, centre
<1> QED
  BY <1>2, <1>3, <1>4 DEF StInv

LEMMA SilentReplies ==
  ASSUME StInv, UNCHANGED <<selected, commands, reported>>,
         todo' \in {<<>>, <<Reply>>}
  PROVE  Replied
<1>1. <<>> \in Seq(Asdus)
  OBVIOUS
<1>2. todo' \in Seq(Asdus)
  BY <1>1, AnswerTells
<1>3. \A p, was : Told(p, todo', was) = was
  BY ToldByNone, AnswerTells
<1>4. \A was : Confirms(todo', was) = was
  BY ToldByNone, AnswerTells
<1>5. selected' \in Int \cup {None} /\ commands' \in BOOLEAN
  BY DEF StInv, Typed, StType
<1> QED
  BY <1>2, <1>3, <1>4, <1>5 DEF Replied

LEMMA StationEventInv ==
  ASSUME StInv, StationEvent
  PROVE  StInv'
<1>1. /\ serving /\ todo = <<>> /\ events # <<>> /\ events' = Tail(events)
      /\ UNCHANGED <<mix, tcp, serving, inbox, driver, out, changed, snapshot, centre>>
  BY DEF StationEvent
<1>2. events' \in Seq(Kinds) /\ Len(events') <= Capacity
  <2>1. events \in Seq(Kinds) /\ Len(events) <= Capacity
    BY DEF StInv, Typed, StType
  <2>2. Len(events') = Len(events) - 1 /\ Len(events) \in Nat /\ events' \in Seq(Kinds)
    BY <1>1, <2>1
  <2> QED
    BY <2>1, <2>2, StationAssumption
<1>3. Replied /\ started' \in BOOLEAN
  <2>0. started \in BOOLEAN
    BY DEF StInv, Typed, StType
  <2>1. CASE Head(events) = "start" /\ started' = TRUE /\ todo' = <<Reply>>
             /\ UNCHANGED <<selected, commands, reported>>
    BY <2>1, SilentReplies
  <2>2. CASE Head(events) = "stop" /\ started' = FALSE
             /\ UNCHANGED <<todo, selected, commands, reported>>
    BY <1>1, <2>2, SilentReplies
  <2>3. CASE Handle(Head(events)) /\ UNCHANGED started
    <3>1. CASE Command(Head(events))
      BY <2>0, <2>3, <3>1, CommandReplies
    <3>2. CASE Interrogation
      BY <2>0, <2>3, <3>2, InterrogationReplies
    <3>3. CASE todo' = <<Reply>> /\ UNCHANGED <<selected, commands, reported>>
      BY <2>0, <2>3, <3>3, SilentReplies
    <3> QED
      BY <2>3, <3>1, <3>2, <3>3 DEF Handle
  <2> QED
    BY <2>1, <2>2, <2>3 DEF StationEvent
<1>4. changed' \in BOOLEAN
  BY <1>1 DEF StInv, Typed, StType
<1> QED
  BY <1>1, <1>2, <1>3, <1>4, RepliedInv

LEMMA StationChangedInv ==
  ASSUME StInv, StationChanged
  PROVE  StInv'
<1>1. /\ serving /\ todo = <<>> /\ changed' = FALSE
      /\ UNCHANGED <<mix, tcp, serving, inbox, driver, events, out, started, selected,
                     commands, snapshot, centre>>
  BY DEF StationChanged
<1>2. Replied
  <2>1. CASE Spontaneous(snapshot)
    BY <1>1, <2>1, SpontaneousReplies
  <2>2. CASE UNCHANGED <<todo, reported>>
    BY <1>1, <2>2, SilentReplies
  <2> QED
    BY <2>1, <2>2 DEF StationChanged
<1>3. /\ started' \in BOOLEAN /\ changed' \in BOOLEAN
      /\ events' \in Seq(Kinds) /\ Len(events') <= Capacity
  BY <1>1 DEF StInv, Typed, StType
<1> QED
  BY <1>1, <1>2, <1>3, RepliedInv

LEMMA StationSendInv ==
  ASSUME StInv, StationSend
  PROVE  StInv'
<1>1. /\ serving /\ todo # <<>> /\ todo' = Tail(todo)
      /\ IF driving THEN Room(out) /\ out' = Append(out, Head(todo)) ELSE UNCHANGED out
      /\ UNCHANGED <<mix, tcp, serving, inbox, session_on, queue, drv, driving, events, started,
                     reported, selected, commands, changed, snapshot, view, confirmed>>
  BY DEF StationSend, driver, centre
<1>2. queue \in Seq(Asdus) /\ out \in Seq(Asdus) /\ todo \in Seq(Asdus)
  BY DEF StInv, Typed
<1>3. todo' \in Seq(Asdus) /\ out' \in Seq(Asdus)
  BY <1>1, <1>2, HandedOver
<1>4. Len(out') <= Capacity
  <2>1. CASE driving
    <3>1. Len(out') = Len(out) + 1 /\ Len(out) \in Nat /\ Len(out) < Capacity
      BY <1>1, <1>2, <2>1 DEF Room
    <3> QED
      BY <3>1, StationAssumption
  <2>2. CASE ~driving
    BY <1>1, <2>2 DEF StInv, Typed, StType
  <2> QED
    BY <2>1, <2>2
<1>5. Typed'
  BY <1>1, <1>3, <1>4 DEF StInv, Typed, StType
<1>6. Joined'
  BY <1>1 DEF StInv, Joined
<1>7. Promised' /\ Kept'
  <2>1. CASE driving
    <3>1. out' \o todo' = out \o todo
      BY <1>1, <1>2, <2>1, HandedOver
    <3>2. Coming' = queue \o (out' \o todo')
      <4>1. Coming' = (queue \o out') \o todo'
        BY <1>1 DEF Coming
      <4> QED
        <5> DEFINE o == out'
                   t == todo'
        <5>1. o \in Seq(Asdus) /\ t \in Seq(Asdus)
          BY <1>3
        <5> HIDE DEF o, t
        <5>2. (queue \o o) \o t = queue \o (o \o t)
          BY <1>2, <5>1, Concatenated
        <5> QED
          BY <4>1, <5>2 DEF o, t
    <3>3. Coming = queue \o (out \o todo)
      BY <1>2, Concatenated DEF Coming
    <3>4. Coming' = Coming
      BY <3>1, <3>2, <3>3
    <3> QED
      BY <1>1, <3>4, StillSo DEF centre
  <2>2. CASE ~driving
    <3>1. tcp' # "open"
      BY <1>1, <2>2 DEF StInv, Joined
    <3> QED
      BY <3>1 DEF Promised, Kept
  <2> QED
    BY <2>1, <2>2
<1> QED
  BY <1>5, <1>6, <1>7 DEF StInv

LEMMA StationEndInv ==
  ASSUME StInv, StationEnd
  PROVE  StInv'
<1>1. /\ ~driving /\ todo = <<>> /\ serving' = FALSE
      /\ UNCHANGED <<mix, tcp, inbox, session_on, queue, drv, driving, events, out, todo, started,
                     reported, selected, commands, changed, snapshot, view, confirmed>>
  BY DEF StationEnd, driver, station, centre
<1>2. Typed'
  BY <1>1 DEF StInv, Typed, StType
<1>3. Joined'
  BY <1>1 DEF StInv, Joined
<1>4. Promised' /\ Kept'
  BY <1>1, StillSo DEF Coming, centre
<1> QED
  BY <1>2, <1>3, <1>4 DEF StInv

LEMMA StationInv ==
  ASSUME StInv, StationNext
  PROVE  StInv'
BY StationEventInv, StationChangedInv, StationSendInv, StationEndInv DEF StationNext

-----------------------------------------------------------------------------
\* What happens around them.

LEMMA ConnectInv ==
  ASSUME StInv, Connect
  PROVE  StInv'
<1>1. /\ ~serving /\ tcp' = "open" /\ serving' = TRUE /\ driving' = TRUE
      /\ started' = FALSE /\ selected' = None /\ reported' = Nothing
      /\ changed' = FALSE /\ view' = Nothing /\ confirmed' = None
      /\ UNCHANGED <<mix, inbox, session_on, queue, drv, events, out, todo, snapshot, commands>>
  BY DEF Connect
<1>2. ~driving /\ queue = <<>> /\ out = <<>> /\ todo = <<>>
  BY <1>1 DEF StInv, Typed, StType, Joined
<1>3. Coming' = <<>>
  BY <1>1, <1>2 DEF Coming
<1>4. Typed'
  BY <1>1 DEF StInv, Typed, StType
<1>5. Joined'
  BY <1>1 DEF Joined
<1>6. Promised'
  BY <1>1, <1>3, ToldByNone DEF Promised
<1>7. Kept'
  BY <1>1, <1>3, ToldByNone DEF Kept
<1> QED
  BY <1>4, <1>5, <1>6, <1>7 DEF StInv

LEMMA OutsideInv ==
  ASSUME StInv, PeerClose \/ Cycle \/ Tick \/ \E r \in mix.kinds : CentreSend(r)
  PROVE  StInv'
<1>1. /\ UNCHANGED <<mix, serving, session_on, queue, drv, driving, events, out, todo, started,
                     reported, commands, view, confirmed>>
      /\ tcp' \in {tcp, "shut"}
  BY DEF PeerClose, Cycle, Tick, CentreSend, driver, station, centre
<1>2. inbox' \in Seq(Kinds)
  <2>1. ASSUME NEW r \in mix.kinds, CentreSend(r) PROVE inbox' \in Seq(Kinds)
    <3>1. r \in Kinds /\ inbox \in Seq(Kinds)
      BY StationAssumption DEF StInv, Typed, StType
    <3> QED
      BY <2>1, <3>1 DEF CentreSend
  <2>2. CASE PeerClose \/ Cycle \/ Tick
    BY <2>2 DEF StInv, Typed, StType, PeerClose, Cycle, Tick
  <2> QED
    BY <2>1, <2>2
<1>3. changed' \in BOOLEAN /\ snapshot' \in mix.snapshots /\ selected' \in Int \cup {None}
  BY DEF StInv, Typed, StType, PeerClose, Cycle, Tick, CentreSend, station
<1>4. Typed'
  BY <1>1, <1>2, <1>3 DEF StInv, Typed, StType
<1>5. Joined'
  BY <1>1 DEF StInv, Joined
<1>6. Promised' /\ Kept'
  <2>1. Coming' = Coming
    BY <1>1 DEF Coming
  <2>2. tcp' = "open" => tcp = "open"
    BY <1>1
  <2> QED
    BY <1>1, <2>1, <2>2, StillSo DEF centre
<1> QED
  BY <1>4, <1>5, <1>6 DEF StInv

LEMMA SInitInv ==
  ASSUME SInit
  PROVE  StInv
<1>1. <<>> \in Seq(Asdus) /\ <<>> \in Seq(Kinds) /\ Len(<<>>) = 0
  OBVIOUS
<1>2. 0 <= Capacity /\ 0 <= MaxQueue
  BY StationAssumption
<1>3. Typed
  BY <1>1, <1>2 DEF SInit, Typed, StType
<1> QED
  BY <1>3 DEF SInit, StInv, Joined, Promised, Kept

LEMMA StStays == StInv /\ UNCHANGED stvars => StInv'
BY DEF stvars, driver, station, centre, StInv, Typed, StType, Joined, Promised, Kept, Coming

LEMMA StStep ==
  ASSUME StInv, NeverFull, [SNext]_stvars
  PROVE  StInv'
BY DriverInv, StationInv, ConnectInv, OutsideInv, StStays DEF SNext

\* What counts as reported is known to the centre or on its way to it, and its
\* last confirmed execute is what the loop reads (Station::serve, the driver
\* and Session): for any points, any channels, any centre, with data transfer
\* stopped and started at will.  A queue that forgets its oldest ASDU, as
\* send_raw does when it is full, would forget what counts as reported.
THEOREM CentreIsToldTheTruthHolds ==
  StSpec /\ []NeverFull => []CentreIsToldTheTruth
<1>1. SInit => StInv
  BY SInitInv
<1>2. StInv /\ NeverFull /\ [SNext]_stvars => StInv'
  BY StStep
<1>3. StInv => CentreIsToldTheTruth
  <2> SUFFICES ASSUME StInv PROVE CentreIsToldTheTruth
    OBVIOUS
  <2>1. StType
    BY DEF StInv, Typed
  <2>2. ReportedArrives
    BY DEF StInv, Promised, ReportedArrives, Coming
  <2>3. ConfirmedIsApplied
    <3> SUFFICES ASSUME tcp = "open", todo = <<>>, out = <<>>, queue = <<>>, confirmed # None
                 PROVE  commands = confirmed
      BY DEF ConfirmedIsApplied
    <3>1. Coming = <<>>
      BY DEF Coming
    <3>2. Confirms(Coming, confirmed) = confirmed
      BY <3>1, ToldByNone
    <3> QED
      BY <3>2 DEF StInv, Kept
  <2> QED
    BY <2>1, <2>2, <2>3 DEF CentreIsToldTheTruth
<1> QED
  BY <1>1, <1>2, <1>3, PTL DEF StSpec

-----------------------------------------------------------------------------
\* The relay.

USE RelayAssumption

RelayTypeOK ==
  /\ policy \in {"hold", "dim"}
  /\ contact \in BOOLEAN /\ module \in BOOLEAN
  /\ task \in [at : {"connect", "read", "poll", "pause"}, age : Nat]
  /\ debounce \in [stable : BOOLEAN, candidate : BOOLEAN, age : Nat]
  /\ last_ok \in Nat /\ ever_read \in BOOLEAN
  /\ relay_view \in [active : BOOLEAN, readable : BOOLEAN]
  /\ contact_age \in Nat /\ module_age \in Nat /\ opened \in BOOLEAN

\* No state of the task outlasts its time, nor an answer of the module.
TaskOnTime ==
  /\ task.at = "poll" => task.age <= 1
  /\ task.at = "pause" => task.age <= ReconnectDelay
  /\ task.at = "read" => task.age <= IoTimeout
  /\ task.at = "connect" => task.age <= ConnectTimeout
  /\ module /\ task.at \in {"read", "connect"} =>
       task.age <= Answer \/ module_age <= Answer

\* The contact and the module have been what they are for n at most.
Steady(n) == contact_age <= n \/ module_age <= n

\* The same of the next state.
SteadyThen(n) == contact_age' <= n \/ module_age' <= n

\* The contact has been read as it is, and taken over.
Settled ==
  /\ relay_view = [active |-> contact, readable |-> TRUE]
  /\ debounce.stable = contact /\ ~debounce.candidate
  /\ task.at \in {"poll", "read"}

\* It has not been read since it is what it is.
Unread ==
  /\ task.at = "poll" => Steady(task.age)
  /\ task.at = "pause" => Steady(task.age)
  /\ task.at = "connect" => Steady(ReconnectDelay + task.age)
  /\ task.at = "read" => Steady(ReconnectDelay + Answer + 1 + task.age)

\* The latest first read.
FirstRead == ReconnectDelay + 2 * Answer + 1

\* It has been read, and waits for the debounce.
Candidate ==
  /\ debounce.stable = ~contact /\ debounce.candidate
  /\ task.at \in {"poll", "read"}
  /\ debounce.age < Hold => Steady(FirstRead + debounce.age)
  /\ task.at = "poll" => Steady(FirstRead + Hold + task.age)
  /\ task.at = "read" => Steady(FirstRead + Hold + 1 + task.age)

Following == module => Settled \/ Unread \/ Candidate

\* The loss of the module is shown as the policy says.
Noticed == ~relay_view.readable /\ (policy = "dim" => relay_view.active)

\* Until then the module has not been gone for longer than the phases take.
Noticing ==
  ~module =>
    /\ last_ok >= LostAfter \/ module_age <= last_ok
    /\ \/ Noticed
       \/ /\ task.at = "poll" => module_age <= task.age
          /\ task.at = "read" => module_age <= 1 + task.age
          /\ task.at = "pause" => module_age <= LostAfter + task.age
          /\ task.at = "connect" => module_age <= LostAfter + ReconnectDelay + task.age

\* Under "hold" the reduction is the debounced contact's, and history keeps
\* that the contact was open.
Holding ==
  /\ policy = "hold" => relay_view.active = debounce.stable
  /\ relay_view.active /\ ~contact => opened

RelayInv == RelayTypeOK /\ TaskOnTime /\ Following /\ Noticing /\ Holding
-----------------------------------------------------------------------------
\* One more is one more at most.
LEMMA AgedType ==
  ASSUME NEW a \in Nat, NEW m \in Nat
  PROVE  Aged(a, m) \in Nat /\ Aged(a, m) <= a + 1 /\ (Aged(a, m) < m => Aged(a, m) = a + 1)
BY DEF Aged

LEMMA SteadyMore ==
  ASSUME RelayTypeOK, NEW n \in Nat, NEW m \in Nat, n <= m, Steady(n)
  PROVE  Steady(m)
BY DEF Steady, RelayTypeOK

LEMMA SteadyLater ==
  ASSUME RelayTypeOK, contact_age' \in Nat, module_age' \in Nat,
         contact_age' <= contact_age + 1, module_age' <= module_age + 1,
         NEW n \in Nat, NEW m \in Nat, n + 1 <= m, Steady(n)
  PROVE  SteadyThen(m)
BY DEF Steady, SteadyThen, RelayTypeOK

\* What is shown is a view, and opened stays a truth value.
LEMMA ShowsType ==
  ASSUME RelayTypeOK, NEW a \in BOOLEAN, NEW r \in BOOLEAN,
         Shows([active |-> a, readable |-> r])
  PROVE  /\ relay_view' = [active |-> a, readable |-> r]
         /\ relay_view' \in [active : BOOLEAN, readable : BOOLEAN]
         /\ opened' = IF a /\ ~relay_view.active THEN ~contact ELSE opened
         /\ opened' \in BOOLEAN
<1>1. relay_view' = [active |-> a, readable |-> r]
      /\ opened' = IF a /\ ~relay_view.active THEN ~contact ELSE opened
  BY DEF Shows
<1>2. [active |-> a, readable |-> r] \in [active : BOOLEAN, readable : BOOLEAN]
  OBVIOUS
<1>3. opened \in BOOLEAN /\ (~contact) \in BOOLEAN
  BY DEF RelayTypeOK
<1> QED
  BY <1>1, <1>2, <1>3

LEMMA RelayInit_Inv == RelayInit => RelayInv
<1> SUFFICES ASSUME RelayInit PROVE RelayInv
  OBVIOUS
<1> USE DEF RelayInit
<1>1. RelayTypeOK
  BY DEF RelayTypeOK
<1>2. TaskOnTime /\ Following /\ Noticing /\ Holding
  BY DEF TaskOnTime, Following, Unread, Steady, Noticing, Holding
<1> QED
  BY <1>1, <1>2 DEF RelayInv

LEMMA ConnectsInv ==
  ASSUME RelayInv, Connects
  PROVE  RelayInv'
<1> USE DEF Connects, Goes, world, RelayInv
<1>1. RelayTypeOK'
  BY DEF RelayTypeOK
<1>2. TaskOnTime'
  BY DEF TaskOnTime, RelayTypeOK
<1>3. Following'
  <2>1. Unread
    BY DEF Following, Settled, Candidate
  <2>2. Steady(ReconnectDelay + task.age)
    BY <2>1 DEF Unread
  <2>3. task.age \in Nat /\ (task.age <= Answer \/ module_age <= Answer)
        /\ module_age \in Nat /\ contact_age \in Nat
    BY DEF TaskOnTime, RelayTypeOK
  <2>4. Steady(ReconnectDelay + Answer + 1)
    BY <2>2, <2>3 DEF Steady
  <2>5. Unread'
    BY <2>4 DEF Unread, Steady, RelayTypeOK
  <2> QED
    BY <2>5 DEF Following
<1>4. Noticing' /\ Holding'
  BY DEF Noticing, Holding, RelayTypeOK
<1> QED
  BY <1>1, <1>2, <1>3, <1>4

LEMMA FailsInv ==
  ASSUME RelayInv, Fails
  PROVE  RelayInv'
<1> USE DEF Fails, Goes, world, RelayInv
<1> DEFINE a == LossMeans(relay_view.active)
<1>1. relay_view.active \in BOOLEAN /\ a \in BOOLEAN
  BY DEF RelayTypeOK, LossMeans
<1>2. ASSUME Lost(last_ok)
      PROVE  /\ relay_view' = [active |-> a, readable |-> FALSE]
             /\ relay_view' \in [active : BOOLEAN, readable : BOOLEAN]
             /\ opened' = IF a /\ ~relay_view.active THEN ~contact ELSE opened
             /\ opened' \in BOOLEAN
  <2>1. Shows([active |-> a, readable |-> FALSE])
    BY <1>2
  <2> HIDE DEF a
  <2> QED
    BY <1>1, <2>1, ShowsType
<1>3. RelayTypeOK'
  <2>1. relay_view' \in [active : BOOLEAN, readable : BOOLEAN] /\ opened' \in BOOLEAN
    BY <1>2 DEF RelayTypeOK
  <2> QED
    BY <2>1 DEF RelayTypeOK
<1>4. TaskOnTime'
  BY DEF TaskOnTime, RelayTypeOK
<1>5. Following'
  BY DEF Following
<1>6. policy = "dim" => a
  BY DEF LossMeans
<1>7. Noticing'
  <2>1. CASE Lost(last_ok)
    <3>1. relay_view' = [active |-> a, readable |-> FALSE] /\ policy' = policy
      BY <1>2, <2>1
    <3>2. Noticed'
      BY <3>1, <1>6 DEF Noticed
    <3> QED
      BY <3>2 DEF Noticing
  <2>2. CASE ~Lost(last_ok)
    <3>1. UNCHANGED relay_view
      BY <2>2
    <3>2. module_age <= LostAfter
      BY <2>2 DEF Lost, Noticing, RelayTypeOK
    <3> QED
      BY <3>1, <3>2 DEF Noticing, Noticed, RelayTypeOK
  <2> QED
    BY <2>1, <2>2
<1>8. Holding'
  <2>1. CASE Lost(last_ok)
    <3>1. policy = "hold" => a = relay_view.active
      BY <1>1 DEF LossMeans
    <3>2. /\ relay_view'.active = a /\ contact' = contact
          /\ policy' = policy /\ debounce' = debounce
          /\ opened' = IF a /\ ~relay_view.active THEN ~contact ELSE opened
      BY <1>2, <2>1
    <3>3. contact \in BOOLEAN
      BY DEF RelayTypeOK
    <3> HIDE DEF a
    <3> QED
      BY <1>1, <3>1, <3>2, <3>3 DEF Holding
  <2>2. CASE ~Lost(last_ok)
    BY <2>2 DEF Holding, RelayTypeOK
  <2> QED
    BY <2>1, <2>2
<1> QED
  BY <1>3, <1>4, <1>5, <1>7, <1>8

LEMMA WakesInv ==
  ASSUME RelayInv, Wakes
  PROVE  RelayInv'
<1> USE DEF Wakes, Goes, world, RelayInv
<1>1. RelayTypeOK'
  BY DEF RelayTypeOK
<1>2. TaskOnTime'
  BY DEF TaskOnTime, RelayTypeOK
<1>3. task.age \in Nat /\ module_age \in Nat /\ contact_age \in Nat
      /\ debounce.age \in Nat
  BY DEF RelayTypeOK
<1>4. CASE task.at = "poll"
  <2>1. task.age = 1 /\ task' = [at |-> "read", age |-> 0]
    BY <1>3, <1>4 DEF TaskOnTime
  <2>2. Following'
    <3> SUFFICES ASSUME module PROVE (Settled \/ Unread \/ Candidate)'
      BY DEF Following
    <3>1. CASE Settled
      BY <2>1, <3>1 DEF Settled
    <3>2. CASE Unread
      <4>1. Steady(1)
        BY <1>4, <2>1, <3>2 DEF Unread
      <4>2. Steady(ReconnectDelay + Answer + 1)
        BY <1>3, <4>1 DEF Steady
      <4> QED
        BY <2>1, <4>2 DEF Unread, Steady
    <3>3. CASE Candidate
      <4>1. Steady(FirstRead + Hold + 1)
        BY <1>4, <2>1, <3>3 DEF Candidate
      <4>2. debounce.age < Hold => Steady(FirstRead + debounce.age)
        BY <3>3 DEF Candidate
      <4> QED
        BY <2>1, <3>3, <4>1, <4>2 DEF Candidate, Steady, FirstRead
    <3> QED
      BY <3>1, <3>2, <3>3 DEF Following
  <2>3. Noticing'
    BY <1>3, <1>4, <2>1 DEF Noticing, Noticed
  <2> QED
    BY <1>1, <1>2, <2>2, <2>3 DEF Holding
<1>5. CASE task.at = "pause"
  <2>1. task.age = ReconnectDelay /\ task' = [at |-> "connect", age |-> 0]
    BY <1>3, <1>5 DEF TaskOnTime
  <2>2. Following'
    <3> SUFFICES ASSUME module PROVE Unread'
      BY DEF Following
    <3>1. Steady(ReconnectDelay)
      BY <1>5, <2>1 DEF Following, Settled, Candidate, Unread
    <3> QED
      BY <2>1, <3>1 DEF Unread, Steady
  <2>3. Noticing'
    BY <1>3, <1>5, <2>1 DEF Noticing, Noticed
  <2> QED
    BY <1>1, <1>2, <2>2, <2>3 DEF Holding
<1> QED
  BY <1>4, <1>5

LEMMA ChangesInv ==
  ASSUME RelayInv, ContactChanges \/ ModuleChanges
  PROVE  RelayInv'
<1> USE DEF ContactChanges, ModuleChanges, RelayInv
<1>1. RelayTypeOK'
  <2>1. contact' \in BOOLEAN /\ module' \in BOOLEAN /\ opened' \in BOOLEAN
    BY DEF RelayTypeOK
  <2> QED
    BY <2>1 DEF RelayTypeOK
<1>2. TaskOnTime'
  BY DEF TaskOnTime, RelayTypeOK
<1>3. Following'
  <2>1. \A n \in Nat : Steady(n)'
    BY DEF Steady, RelayTypeOK
  <2>2. Unread'
    BY <1>1, <2>1 DEF Unread, RelayTypeOK
  <2> QED
    BY <2>2 DEF Following
<1>4. Noticing'
  BY DEF Noticing, Noticed, RelayTypeOK
<1>5. Holding'
  BY DEF Holding, RelayTypeOK
<1> QED
  BY <1>1, <1>2, <1>3, <1>4, <1>5

LEMMA RelayTickInv ==
  ASSUME RelayInv, RelayTick
  PROVE  RelayInv'
<1> USE DEF RelayInv
<1>1. /\ ~Due
      /\ task' = [task EXCEPT !.age = @ + 1]
      /\ debounce' = [debounce EXCEPT !.age =
                        IF debounce.candidate THEN Aged(@, Hold) ELSE 0]
      /\ last_ok' = Aged(last_ok, LostAfter)
      /\ contact_age' = Aged(contact_age, RelayAgeMax)
      /\ module_age' = Aged(module_age, RelayAgeMax)
      /\ UNCHANGED <<policy, contact, module, ever_read, relay_view, opened>>
  BY DEF RelayTick, world
<1>2. /\ task.age \in Nat /\ task'.age = task.age + 1 /\ task'.at = task.at
      /\ task.at \in {"connect", "read", "poll", "pause"}
      /\ module_age \in Nat /\ module_age' \in Nat /\ module_age' <= module_age + 1
      /\ contact_age \in Nat /\ contact_age' \in Nat /\ contact_age' <= contact_age + 1
      /\ last_ok \in Nat /\ last_ok' \in Nat
      /\ last_ok' < LostAfter => last_ok' = last_ok + 1
      /\ debounce.age \in Nat /\ debounce'.age \in Nat
      /\ debounce'.stable = debounce.stable /\ debounce'.candidate = debounce.candidate
      /\ debounce.candidate /\ debounce'.age < Hold => debounce'.age = debounce.age + 1
  BY <1>1, AgedType DEF RelayTypeOK
<1>3. RelayTypeOK'
  BY <1>1, <1>2 DEF RelayTypeOK
<1>4. TaskOnTime'
  BY <1>1, <1>2 DEF TaskOnTime, Due
<1>5. ASSUME NEW n \in Nat, NEW m \in Nat, n + 1 <= m, Steady(n)
      PROVE  SteadyThen(m)
  BY <1>2, <1>5, SteadyLater
<1>6. Following'
  <2> SUFFICES ASSUME module PROVE (Settled \/ Unread \/ Candidate)'
    BY <1>1 DEF Following
  <2>1. CASE Settled
    BY <1>1, <1>2, <2>1 DEF Settled
  <2>2. CASE Unread
    <3> DEFINE k == ReconnectDelay + task.age
               k1 == ReconnectDelay + task'.age
               r == ReconnectDelay + Answer + 1 + task.age
               r1 == ReconnectDelay + Answer + 1 + task'.age
    <3>1. k \in Nat /\ k1 \in Nat /\ k + 1 <= k1 /\ r \in Nat /\ r1 \in Nat /\ r + 1 <= r1
          /\ task'.age \in Nat /\ task.age + 1 <= task'.age
      BY <1>2
    <3>2. /\ task.at = "poll" => Steady(task.age)
          /\ task.at = "pause" => Steady(task.age)
          /\ task.at = "connect" => Steady(k)
          /\ task.at = "read" => Steady(r)
      BY <2>2 DEF Unread
    <3>3. (Steady(task.age) => SteadyThen(task'.age)) /\ (Steady(k) => SteadyThen(k1))
          /\ (Steady(r) => SteadyThen(r1))
      <4> HIDE DEF k, k1, r, r1
      <4>1. Steady(task.age) => SteadyThen(task'.age)
        BY <1>2, <1>5, <3>1
      <4>2. Steady(k) => SteadyThen(k1)
        BY <1>5, <3>1
      <4>3. Steady(r) => SteadyThen(r1)
        BY <1>5, <3>1
      <4> QED
        BY <4>1, <4>2, <4>3
    <3> QED
      BY <1>2, <3>2, <3>3 DEF Unread, Steady, SteadyThen
  <2>3. CASE Candidate
    <3> DEFINE f == FirstRead + debounce.age
               f1 == FirstRead + debounce'.age
               p == FirstRead + Hold + task.age
               p1 == FirstRead + Hold + task'.age
               q == FirstRead + Hold + 1 + task.age
               q1 == FirstRead + Hold + 1 + task'.age
    <3>1. /\ f \in Nat /\ f1 \in Nat /\ p \in Nat /\ p1 \in Nat /\ q \in Nat /\ q1 \in Nat
          /\ p + 1 <= p1 /\ q + 1 <= q1
          /\ debounce'.age = debounce.age + 1 => f + 1 <= f1
      BY <1>2 DEF FirstRead
    <3>2. /\ debounce.age < Hold => Steady(f)
          /\ task.at = "poll" => Steady(p)
          /\ task.at = "read" => Steady(q)
          /\ debounce.candidate
      BY <2>3 DEF Candidate
    <3>3. (p + 1 <= p1 /\ Steady(p) => SteadyThen(p1)) /\ (q + 1 <= q1 /\ Steady(q) => SteadyThen(q1))
          /\ (f + 1 <= f1 /\ Steady(f) => SteadyThen(f1))
      <4> HIDE DEF f, f1, p, p1, q, q1
      <4>1. p + 1 <= p1 /\ Steady(p) => SteadyThen(p1)
        BY <1>5, <3>1
      <4>2. q + 1 <= q1 /\ Steady(q) => SteadyThen(q1)
        BY <1>5, <3>1
      <4>3. f + 1 <= f1 /\ Steady(f) => SteadyThen(f1)
        BY <1>5, <3>1
      <4> QED
        BY <4>1, <4>2, <4>3
    <3>4. debounce'.age < Hold => SteadyThen(f1)
      BY <1>2, <3>1, <3>2, <3>3
    <3>5. (task.at = "poll" => SteadyThen(p1)) /\ (task.at = "read" => SteadyThen(q1))
      BY <3>1, <3>2, <3>3
    <3>6. FirstRead' = FirstRead
      BY DEF FirstRead
    <3> QED
      <4>1. contact' = contact /\ task'.at \in {"poll", "read"}
        BY <1>1, <1>2, <2>3 DEF Candidate
      <4>2. (debounce.stable = ~contact /\ debounce.candidate)'
        BY <1>1, <1>2, <2>3 DEF Candidate
      <4>3. (debounce.age < Hold => Steady(FirstRead + debounce.age))'
        BY <3>4, <3>6 DEF Steady, SteadyThen
      <4>4. /\ (task.at = "poll" => Steady(FirstRead + Hold + task.age))'
            /\ (task.at = "read" => Steady(FirstRead + Hold + 1 + task.age))'
        BY <1>2, <3>5, <3>6 DEF Steady, SteadyThen
      <4> QED
        BY <4>1, <4>2, <4>3, <4>4 DEF Candidate
  <2> QED
    BY <2>1, <2>2, <2>3 DEF Following
<1>7. Noticing'
  <2> SUFFICES ASSUME ~module PROVE Noticing'
    BY <1>1 DEF Noticing
  <2>1. (last_ok >= LostAfter \/ module_age <= last_ok)'
    BY <1>1, <1>2 DEF Noticing, Aged
  <2>2. Noticed => Noticed'
    BY <1>1 DEF Noticed
  <2>3. ASSUME ~Noticed
        PROVE  /\ task'.at = "poll" => module_age' <= task'.age
               /\ task'.at = "read" => module_age' <= 1 + task'.age
               /\ task'.at = "pause" => module_age' <= LostAfter + task'.age
               /\ task'.at = "connect" => module_age' <= LostAfter + ReconnectDelay + task'.age
    BY <1>2, <2>3 DEF Noticing
  <2> QED
    BY <2>1, <2>2, <2>3 DEF Noticing
<1>8. Holding'
  BY <1>1, <1>2 DEF Holding
<1> QED
  BY <1>3, <1>4, <1>6, <1>7, <1>8
\* What a read makes of the debounce, case by case.
LEMMA Updated ==
  ASSUME RelayTypeOK, NEW d, d = Update(debounce, contact)
  PROVE  /\ d \in [stable : BOOLEAN, candidate : BOOLEAN, age : Nat]
         /\ \/ d.stable = contact /\ ~d.candidate
            \/ /\ ~debounce.candidate /\ d.stable = ~contact /\ d.candidate /\ d.age = 0
            \/ /\ debounce.candidate /\ debounce.age < Hold
               /\ debounce.stable = ~contact /\ d = debounce
<1>1. debounce.stable \in BOOLEAN /\ debounce.candidate \in BOOLEAN /\ debounce.age \in Nat
      /\ contact \in BOOLEAN
      /\ debounce \in [stable : BOOLEAN, candidate : BOOLEAN, age : Nat]
  BY DEF RelayTypeOK
<1>2. CASE contact = debounce.stable
  <2>1. d = [debounce EXCEPT !.candidate = FALSE, !.age = 0]
    BY <1>2 DEF Update
  <2>2. d \in [stable : BOOLEAN, candidate : BOOLEAN, age : Nat]
    <3>1. d = [stable |-> debounce.stable, candidate |-> FALSE, age |-> 0]
      BY <1>1, <2>1
    <3> QED
      BY <1>1, <3>1
  <2>3. d.stable = debounce.stable /\ d.candidate = FALSE
    BY <1>1, <2>1
  <2> QED
    BY <1>2, <2>2, <2>3
<1>3. CASE contact # debounce.stable /\ ~debounce.candidate
  <2>1. d = [debounce EXCEPT !.candidate = TRUE, !.age = 0]
    BY <1>3 DEF Update
  <2>2. debounce.stable = ~contact
    BY <1>1, <1>3
  <2>3. d \in [stable : BOOLEAN, candidate : BOOLEAN, age : Nat]
    <3>1. d = [stable |-> debounce.stable, candidate |-> TRUE, age |-> 0]
      BY <1>1, <2>1
    <3> QED
      BY <1>1, <3>1
  <2>4. d.stable = debounce.stable /\ d.candidate = TRUE /\ d.age = 0
    BY <1>1, <2>1
  <2> QED
    BY <1>1, <1>3, <2>2, <2>3, <2>4
<1>4. CASE contact # debounce.stable /\ debounce.candidate /\ debounce.age >= Hold
  <2>1. d = [stable |-> contact, candidate |-> FALSE, age |-> 0]
    BY <1>4 DEF Update
  <2> QED
    BY <1>1, <1>4, <2>1
<1>5. CASE contact # debounce.stable /\ debounce.candidate /\ ~(debounce.age >= Hold)
  <2>1. d = debounce
    BY <1>5 DEF Update
  <2>2. debounce.stable = ~contact /\ debounce.age < Hold
    BY <1>1, <1>5
  <2> QED
    BY <1>1, <1>5, <2>1, <2>2
<1> QED
  BY <1>2, <1>3, <1>4, <1>5

LEMMA ReadsInv ==
  ASSUME RelayInv, Reads
  PROVE  RelayInv'
<1> USE DEF RelayInv
<1> DEFINE a == debounce'.stable
<1>1. /\ task.at = "read" /\ module
      /\ debounce' = Update(debounce, contact)
      /\ Shows([active |-> a, readable |-> TRUE])
      /\ last_ok' = 0 /\ ever_read' = TRUE
      /\ task' = [at |-> "poll", age |-> 0]
      /\ UNCHANGED <<policy, contact, module, contact_age, module_age>>
  BY DEF Reads, Goes, world
<1>2. /\ debounce' \in [stable : BOOLEAN, candidate : BOOLEAN, age : Nat]
      /\ \/ debounce'.stable = contact /\ ~debounce'.candidate
         \/ /\ ~debounce.candidate /\ debounce'.stable = ~contact
            /\ debounce'.candidate /\ debounce'.age = 0
         \/ /\ debounce.candidate /\ debounce.age < Hold
            /\ debounce.stable = ~contact /\ debounce' = debounce
  BY <1>1, Updated
<1>3. a \in BOOLEAN
  BY <1>2
<1>4. /\ relay_view' = [active |-> a, readable |-> TRUE]
      /\ relay_view' \in [active : BOOLEAN, readable : BOOLEAN]
      /\ opened' = IF a /\ ~relay_view.active THEN ~contact ELSE opened
      /\ opened' \in BOOLEAN
  <2> HIDE DEF a
  <2> QED
    BY <1>1, <1>3, ShowsType
<1>5. RelayTypeOK'
  BY <1>1, <1>2, <1>4 DEF RelayTypeOK
<1>6. TaskOnTime'
  BY <1>1 DEF TaskOnTime
<1>7. task.age \in Nat /\ module_age \in Nat /\ contact_age \in Nat /\ debounce.age \in Nat
      /\ (task.age <= Answer \/ module_age <= Answer)
  BY <1>1 DEF TaskOnTime, RelayTypeOK
<1>8. Following'
  <2>1. CASE debounce'.stable = contact /\ ~debounce'.candidate
    <3>1. Settled'
      BY <1>1, <1>4, <2>1 DEF Settled
    <3> QED
      BY <3>1 DEF Following
  <2>2. ASSUME Unread PROVE Steady(FirstRead)
    <3>1. Steady(ReconnectDelay + Answer + 1 + task.age)
      BY <1>1, <2>2 DEF Unread
    <3> QED
      BY <1>7, <3>1 DEF Steady, FirstRead
  <2>3. \A n \in Nat : Steady(n) => SteadyThen(n)
    BY <1>1 DEF Steady, SteadyThen
  <2>4. CASE /\ ~debounce.candidate /\ debounce'.stable = ~contact
             /\ debounce'.candidate /\ debounce'.age = 0
    <3>1. CASE Settled
      <4>1. debounce' = [debounce EXCEPT !.candidate = FALSE, !.age = 0]
        BY <1>1, <3>1 DEF Settled, Update
      <4> QED
        BY <2>4, <4>1 DEF RelayTypeOK
    <3>2. CASE Unread
      <4>1. Steady(FirstRead)
        BY <2>2, <3>2
      <4>2. SteadyThen(FirstRead) /\ SteadyThen(FirstRead + Hold)
        BY <1>1, <1>7, <4>1 DEF Steady, SteadyThen, FirstRead
      <4>3. (debounce.age < Hold => Steady(FirstRead + debounce.age))'
        BY <2>4, <4>2 DEF Steady, SteadyThen, FirstRead
      <4>4. (task.at = "poll" => Steady(FirstRead + Hold + task.age))'
        BY <1>1, <4>2 DEF Steady, SteadyThen, FirstRead
      <4>5. Candidate'
        BY <1>1, <2>4, <4>3, <4>4 DEF Candidate
      <4> QED
        BY <4>5 DEF Following
    <3>3. ~Candidate
      BY <2>4 DEF Candidate
    <3> QED
      BY <1>1, <3>1, <3>2, <3>3 DEF Following
  <2>5. CASE /\ debounce.candidate /\ debounce.age < Hold
             /\ debounce.stable = ~contact /\ debounce' = debounce
    <3>1. ~Settled
      BY <2>5 DEF Settled
    <3>2. Steady(FirstRead + debounce.age)
      <4>1. CASE Unread
        BY <1>7, <2>2, <4>1 DEF Steady, FirstRead
      <4>2. CASE Candidate
        BY <2>5, <4>2 DEF Candidate
      <4> QED
        BY <1>1, <3>1, <4>1, <4>2 DEF Following
    <3>3. SteadyThen(FirstRead + debounce.age) /\ SteadyThen(FirstRead + Hold)
      BY <1>1, <1>7, <2>5, <3>2 DEF Steady, SteadyThen, FirstRead
    <3>4. (debounce.age < Hold => Steady(FirstRead + debounce.age))'
      BY <2>5, <3>3 DEF Steady, SteadyThen, FirstRead
    <3>5. (task.at = "poll" => Steady(FirstRead + Hold + task.age))'
      BY <1>1, <3>3 DEF Steady, SteadyThen, FirstRead
    <3>6. Candidate'
      BY <1>1, <2>5, <3>4, <3>5 DEF Candidate
    <3> QED
      BY <3>6 DEF Following
  <2> QED
    BY <1>2, <2>1, <2>4, <2>5
<1>9. Noticing'
  BY <1>1 DEF Noticing
<1>10. Holding'
  <2>1. relay_view.active \in BOOLEAN /\ contact \in BOOLEAN
    BY DEF RelayTypeOK
  <2> QED
    BY <1>1, <1>3, <1>4, <2>1 DEF Holding
<1> QED
  BY <1>5, <1>6, <1>8, <1>9, <1>10

LEMMA RelayStays ==
  ASSUME RelayInv, [RelayNext]_rvars
  PROVE  RelayInv'
<1>1. CASE Connects
  BY <1>1, ConnectsInv
<1>2. CASE Reads
  BY <1>2, ReadsInv
<1>3. CASE Fails
  BY <1>3, FailsInv
<1>4. CASE Wakes
  BY <1>4, WakesInv
<1>5. CASE RelayTick
  BY <1>5, RelayTickInv
<1>6. CASE ContactChanges \/ ModuleChanges
  BY <1>6, ChangesInv
<1>7. CASE UNCHANGED rvars
  BY <1>7 DEF rvars, world, RelayInv, RelayTypeOK, TaskOnTime, Following, Settled, Unread,
              Candidate, Steady, Noticing, Noticed, Holding
<1> QED
  BY <1>1, <1>2, <1>3, <1>4, <1>5, <1>6, <1>7 DEF RelayNext

-----------------------------------------------------------------------------
\* Whatever phase the task is in, a contact that is steady for longer than
\* a first read, the debounce and one more read take has been taken over.
LEMMA FollowedInv ==
  ASSUME RelayInv
  PROVE  ContactIsFollowed
<1> DEFINE n == BackWithin + Hold + 2 * (Answer + 1)
<1>1. SUFFICES ASSUME module, module_age > n, contact_age > n
               PROVE  relay_view = [active |-> contact, readable |-> TRUE]
  BY DEF ContactIsFollowed
<1>2. /\ task.age \in Nat /\ module_age \in Nat /\ contact_age \in Nat /\ debounce.age \in Nat
      /\ task.at \in {"connect", "read", "poll", "pause"}
  BY DEF RelayInv, RelayTypeOK
<1>3. /\ task.at = "poll" => task.age <= 1
      /\ task.at = "pause" => task.age <= ReconnectDelay
      /\ task.at \in {"read", "connect"} => task.age <= Answer \/ module_age <= Answer
  BY <1>1 DEF RelayInv, TaskOnTime
<1>4. ~Unread
  BY <1>1, <1>2, <1>3 DEF Unread, Steady, BackWithin
<1>5. ~Candidate
  BY <1>1, <1>2, <1>3 DEF Candidate, Steady, BackWithin, FirstRead
<1> QED
  BY <1>1, <1>4, <1>5 DEF RelayInv, Following, Settled

LEMMA NoticedInv ==
  ASSUME RelayInv
  PROVE  LossIsNoticed
<1>1. SUFFICES ASSUME ~module, module_age > LostAfter + IoTimeout + ReconnectDelay + ConnectTimeout
               PROVE  Noticed
  BY DEF LossIsNoticed, Noticed
<1>2. /\ task.age \in Nat /\ module_age \in Nat
      /\ task.at \in {"connect", "read", "poll", "pause"}
  BY DEF RelayInv, RelayTypeOK
<1>3. /\ task.at = "poll" => task.age <= 1
      /\ task.at = "pause" => task.age <= ReconnectDelay
      /\ task.at = "read" => task.age <= IoTimeout
      /\ task.at = "connect" => task.age <= ConnectTimeout
  BY DEF RelayInv, TaskOnTime
<1> QED
  BY <1>1, <1>2, <1>3 DEF RelayInv, Noticing

\* Only a read lowers the view under "hold", and only what Holding keeps:
\* the debounced state it replaces was the contact's.
LEMMA NotLiftedStep ==
  ASSUME RelayInv, [RelayNext]_rvars, policy = "hold", relay_view.active, ~relay_view'.active
  PROVE  opened
<1>1. CASE Reads
  <2>1. debounce' = Update(debounce, contact) /\ relay_view' = [active |-> debounce'.stable, readable |-> TRUE]
    BY <1>1 DEF Reads, Shows
  <2>2. debounce.stable /\ ~debounce'.stable /\ contact \in BOOLEAN
    BY <2>1 DEF RelayInv, Holding, RelayTypeOK
  <2>3. ~contact
    <3> SUFFICES ASSUME contact PROVE FALSE
      BY <2>2
    <3>1. contact = debounce.stable
      BY <2>2 DEF RelayInv, RelayTypeOK
    <3>2. debounce' = [debounce EXCEPT !.candidate = FALSE, !.age = 0]
      BY <2>1, <3>1 DEF Update
    <3> QED
      BY <2>2, <3>2 DEF RelayInv, RelayTypeOK
  <2> QED
    BY <2>3 DEF RelayInv, Holding
<1>2. CASE Fails
  <2> DEFINE a == LossMeans(relay_view.active)
  <2>1. a
    BY DEF LossMeans
  <2>2. relay_view' = relay_view \/ relay_view' = [active |-> a, readable |-> FALSE]
    BY <1>2 DEF Fails, Shows
  <2> HIDE DEF a
  <2> QED
    BY <2>1, <2>2
<1>3. CASE UNCHANGED relay_view
  BY <1>3
<1> QED
  BY <1>1, <1>2, <1>3 DEF RelayNext, Connects, Wakes, RelayTick, ContactChanges,
                          ModuleChanges, rvars

\* What the contact says, or what on_input_loss makes of a module that is
\* gone, is what the control loop sees, within the times of run_relay.
THEOREM RelayIsFollowedHolds == RelaySpec => RelayIsFollowed
<1>1. RelayInit => RelayInv
  BY RelayInit_Inv
<1>2. RelayInv /\ [RelayNext]_rvars => RelayInv'
  BY RelayStays
<1>3. RelayInv => ContactIsFollowed /\ LossIsNoticed
  BY FollowedInv, NoticedInv
<1>4. RelayInv /\ [RelayNext]_rvars
        => [(policy = "hold" /\ relay_view.active /\ ~relay_view'.active) => opened]_rvars
  BY NotLiftedStep
<1> QED
  BY <1>1, <1>2, <1>3, <1>4, PTL DEF RelaySpec, RelayIsFollowed, NotLiftedWhileClosed
-----------------------------------------------------------------------------
\* EEBUS.

BridgeState ==
  [up : Nat, limit_active : BOOLEAN, limit_w : Limits \cup {NoLimit},
   left : Nat \cup {NoLimit}, fresh : BOOLEAN, seen : BOOLEAN, ok : BOOLEAN,
   in_failsafe : BOOLEAN, fs : Nat]

EebusTypeOK ==
  /\ heartbeat \in BOOLEAN /\ running \in {"up", "hung", "down"}
  /\ state \in BridgeState
  /\ dialed \in {"none", "pending", "served", "dead", "reset"}
  /\ last \in Line \cup {NoLimit} /\ sent \in 0 .. KeepAlive - 1
  /\ served \in Stream \cup {NoLimit} /\ pending \in Stream \cup {NoLimit}
  /\ quiet \in 0 .. Silence
  /\ eebus_view \in EebusView
  /\ told \in Line /\ told_age \in 0 .. EebusAgeMax
  /\ alone_age \in 0 .. EebusAgeMax /\ silent_age \in 0 .. EebusAgeMax

\* The two ends agree about the socket, as long as neither has restarted.
Socket ==
  /\ pending # NoLimit => served = NoLimit
  /\ served # NoLimit /\ ~served.ended <=> dialed = "served"
  /\ pending # NoLimit /\ ~pending.ended <=> dialed = "pending"
  /\ running = "down" => dialed = "none"

\* The line the bridge has sent last is the one to tell, and is on its way or
\* seen.
Delivers ==
  /\ dialed \in {"pending", "served"} => last = told
  /\ dialed = "pending" => pending = Lines(last) /\ told_age <= 2 * KeepAlive + 1
  /\ dialed = "served" /\ served.lines = <<>> =>
       quiet <= sent /\ eebus_view = OnMessage(told)
  /\ dialed = "served" /\ served.lines # <<>> =>
       /\ served.lines = <<last>>
       /\ told_age <= 2 * KeepAlive + 1 \/ eebus_view = OnMessage(told)

\* Without a connection each step to the next takes a keepAlive at most.
Redials ==
  /\ dialed = "dead" => told_age <= sent
  /\ dialed = "reset" => told_age <= KeepAlive + sent
  /\ dialed = "none" => told_age <= 2 * KeepAlive

Dims == eebus_view.active /\ eebus_view.failsafe
        /\ eebus_view.limit = eebus_view.failsafe_limit

\* A bridge that says nothing has left nothing to read.
Silent ==
  silent_age > 0 =>
    /\ running # "up" /\ pending = NoLimit
    /\ served # NoLimit => served.lines = <<>>
    /\ Dims \/ silent_age <= quiet

\* A bridge alone counts to its failsafe, and has told it since.
Alone ==
  alone_age > 0 =>
    /\ running = "up" /\ ~heartbeat /\ ~state.ok
    /\ state.seen => state.in_failsafe
    /\ state.up >= alone_age \/ state.up >= InitTimeout
    /\ alone_age >= InitTimeout => state.in_failsafe
    /\ state.in_failsafe => told = [active |-> TRUE, limit |-> FailsafeW, failsafe |-> TRUE]
    /\ alone_age <= told_age + InitTimeout

EebusInv == /\ EebusTypeOK /\ Socket /\ Silent /\ Alone
            /\ running = "up" => Delivers /\ Redials
-----------------------------------------------------------------------------
LEMMA OlderType ==
  ASSUME NEW a \in Nat, NEW m \in Nat
  PROVE  /\ Older(a, m) \in Nat /\ Older(a, m) <= a + 1
         /\ a < m => Older(a, m) = a + 1
         /\ a <= m => Older(a, m) \in 0 .. m /\ Older(a, m) >= a
         /\ a >= m => Older(a, m) = m
BY DEF Older

LEMMA StreamHas ==
  ASSUME NEW st \in Stream
  PROVE  /\ st.ended \in BOOLEAN /\ st # NoLimit
         /\ st.lines = <<>> \/ \E line \in Line : st.lines = <<line>>
BY NoLimitAssumption DEF Stream

LEMMA LinesStream ==
  ASSUME NEW line \in Line
  PROVE  /\ Lines(line) \in Stream /\ Lines(line) # NoLimit
         /\ Lines(line).lines = <<line>> /\ ~Lines(line).ended
<1>1. Lines(line) = [lines |-> <<line>>, ended |-> FALSE]
  BY DEF Lines
<1>2. Lines(line) \in Stream
  BY <1>1 DEF Stream
<1>3. Lines(line) # NoLimit
  BY <1>2, NoLimitAssumption
<1>4. Lines(line).lines = <<line>> /\ ~Lines(line).ended
  BY <1>1
<1> QED
  BY <1>2, <1>3, <1>4

LEMMA EndStream ==
  ASSUME NEW st \in Stream
  PROVE  End(st) \in Stream /\ End(st) # NoLimit /\ End(st).ended /\ End(st).lines = st.lines
<1>1. st # NoLimit
  BY NoLimitAssumption
<1>2. End(st) = [lines |-> st.lines, ended |-> TRUE]
  BY <1>1 DEF End, Stream
<1>3. End(st) \in Stream
  BY <1>2 DEF Stream
<1>4. End(st) # NoLimit
  BY <1>3, NoLimitAssumption
<1>5. End(st).ended /\ End(st).lines = st.lines
  BY <1>2
<1> QED
  BY <1>3, <1>4, <1>5

LEMMA AppendStream ==
  ASSUME NEW st \in Stream, st.lines = <<>>, NEW line \in Line, NEW new,
         new = [st EXCEPT !.lines = Append(@, line)]
  PROVE  new \in Stream /\ new # NoLimit /\ new.lines = <<line>> /\ new.ended = st.ended
<1>1. Append(st.lines, line) = <<line>>
  OBVIOUS
<1>2. new = [lines |-> <<line>>, ended |-> st.ended]
  BY <1>1 DEF Stream
<1>3. new \in Stream
  BY <1>2 DEF Stream
<1>4. new # NoLimit
  BY <1>3, NoLimitAssumption
<1>5. new.lines = <<line>> /\ new.ended = st.ended
  BY <1>2
<1> QED
  BY <1>3, <1>4, <1>5

LEMMA TailStream ==
  ASSUME NEW st \in Stream, NEW line \in Line, st.lines = <<line>>, NEW new,
         new = [st EXCEPT !.lines = Tail(@)]
  PROVE  /\ new \in Stream /\ new # NoLimit /\ new.lines = <<>> /\ new.ended = st.ended
         /\ Head(st.lines) = line
<1>1. Tail(st.lines) = <<>> /\ Head(st.lines) = line
  OBVIOUS
<1>2. new = [lines |-> <<>>, ended |-> st.ended]
  BY <1>1 DEF Stream
<1>3. new \in Stream
  BY <1>2 DEF Stream
<1>4. new # NoLimit
  BY <1>3, NoLimitAssumption
<1>5. new.lines = <<>> /\ new.ended = st.ended
  BY <1>2
<1> QED
  BY <1>1, <1>3, <1>4, <1>5

LEMMA SomethingIsNotNothing == \A x : <<x>> # <<>>
OBVIOUS

\* The two views a line and a lost bridge leave.
LEMMA ViewType ==
  ASSUME NEW line \in Line, NEW old \in EebusView
  PROVE  /\ OnMessage(line) \in EebusView
         /\ OnLost(old) \in EebusView
         /\ OnLost(old).active /\ OnLost(old).failsafe
         /\ OnLost(old).limit = OnLost(old).failsafe_limit
<1>1. OnMessage(line) \in EebusView
  BY DEF OnMessage, EebusView, Line, Watts
<1>2. old.failsafe_limit \in Watts
  BY DEF EebusView
<1>3. OnLost(old) \in EebusView
  BY <1>2 DEF EebusView, OnLost
<1>4. /\ OnLost(old).active /\ OnLost(old).failsafe
      /\ OnLost(old).limit = old.failsafe_limit
      /\ OnLost(old).failsafe_limit = old.failsafe_limit
  BY DEF EebusView, OnLost
<1> QED
  BY <1>1, <1>3, <1>4

FailsafeLine == [active |-> TRUE, limit |-> FailsafeW, failsafe |-> TRUE]

LEMMA OutputType ==
  ASSUME NEW s \in BridgeState
  PROVE  Output(s) \in Line /\ (s.in_failsafe => Output(s) = FailsafeLine)
<1>1. s.limit_w \in Watts /\ NoLimit \in Watts /\ FailsafeW \in Watts
  BY DEF BridgeState, Watts
<1> QED
  BY <1>1 DEF Output, FailsafeLine, Line

LEMMA BeatType ==
  ASSUME NEW s \in BridgeState, NEW ok \in BOOLEAN, NEW b, b = Beat(StateOlder(s), ok)
  PROVE  /\ b \in BridgeState
         /\ b.ok = ok /\ b.seen = (s.seen \/ ok) /\ b.up = Older(s.up, InitTimeout)
         /\ ~ok => (b.in_failsafe <=> s.in_failsafe \/ b.seen \/ b.up >= InitTimeout)
<1> DEFINE o == StateOlder(s)
           h == [o EXCEPT !.seen = @ \/ ok, !.ok = ok]
<1>1. o \in BridgeState /\ o.up = Older(s.up, InitTimeout) /\ o.seen = s.seen
      /\ o.in_failsafe = s.in_failsafe
  <2> DEFINE up == Older(s.up, InitTimeout)
             fs == IF s.in_failsafe THEN Older(s.fs, FailsafeMin) ELSE 0
             left == IF s.left \in Nat \ {0} THEN s.left - 1 ELSE s.left
  <2>1. s.up \in Nat /\ s.fs \in Nat /\ s.left \in Nat \cup {NoLimit}
        /\ InitTimeout \in Nat /\ FailsafeMin \in Nat
    BY EebusAssumption DEF BridgeState
  <2>4. up \in Nat /\ fs \in Nat
    BY <2>1, OlderType
  <2>5. left \in Nat \cup {NoLimit}
    BY <2>1
  <2>2. o = [s EXCEPT !.up = up, !.fs = fs, !.left = left]
    BY DEF StateOlder, BridgeState
  <2> HIDE DEF up, fs, left, o
  <2>3. o \in BridgeState /\ o.up = up /\ o.seen = s.seen /\ o.in_failsafe = s.in_failsafe
    BY <2>2, <2>4, <2>5 DEF BridgeState
  <2> QED
    BY <2>3 DEF up
<1> HIDE DEF o
<1>2. h \in BridgeState /\ h.up = o.up /\ h.seen = (o.seen \/ ok) /\ h.ok = ok
      /\ h.in_failsafe = o.in_failsafe
  BY <1>1 DEF BridgeState
<1>3. b = StateUpdate(h)
  BY DEF Beat, o
<1> HIDE DEF h
<1>4. CASE ~h.in_failsafe /\ HeartbeatLost(h)
  <2>1. b = [h EXCEPT !.in_failsafe = TRUE, !.fs = 0, !.fresh = FALSE]
    BY <1>3, <1>4 DEF StateUpdate
  <2>3. h \in BridgeState
    BY <1>2
  <2>4. b \in BridgeState
    <3> DEFINE y == TRUE
               n == FALSE
               z == 0
    <3>1. b = [h EXCEPT !.in_failsafe = y, !.fs = z, !.fresh = n] /\ y \in BOOLEAN /\ n \in BOOLEAN /\ z \in Nat
      BY <2>1
    <3> HIDE DEF y, n, z
    <3> QED
      BY <2>3, <3>1 DEF BridgeState
  <2>2. b.ok = h.ok /\ b.seen = h.seen /\ b.up = h.up /\ b.in_failsafe = TRUE
    BY <2>1, <2>3 DEF BridgeState
  <2> QED
    BY <1>1, <1>2, <1>4, <2>2, <2>4 DEF HeartbeatLost
<1>5. CASE ~h.in_failsafe /\ ~HeartbeatLost(h)
  <2>1. b = h
    BY <1>3, <1>5 DEF StateUpdate
  <2>2. h.seen \in BOOLEAN
    BY <1>2 DEF BridgeState
  <2> QED
    BY <1>1, <1>2, <1>5, <2>1, <2>2 DEF HeartbeatLost
<1>6. CASE h.in_failsafe /\ h.ok /\ (h.fresh \/ h.fs >= FailsafeMin)
  <2>1. b = [h EXCEPT !.in_failsafe = FALSE, !.fs = 0]
    BY <1>3, <1>6 DEF StateUpdate
  <2>3. h \in BridgeState
    BY <1>2
  <2>4. b \in BridgeState
    <3> DEFINE y == TRUE
               n == FALSE
               z == 0
    <3>1. b = [h EXCEPT !.in_failsafe = n, !.fs = z] /\ y \in BOOLEAN /\ n \in BOOLEAN /\ z \in Nat
      BY <2>1
    <3> HIDE DEF y, n, z
    <3> QED
      BY <2>3, <3>1 DEF BridgeState
  <2>2. b.ok = h.ok /\ b.seen = h.seen /\ b.up = h.up
    BY <2>1, <2>3 DEF BridgeState
  <2> QED
    BY <1>1, <1>2, <1>6, <2>2, <2>4
<1>7. CASE h.in_failsafe /\ ~(h.ok /\ (h.fresh \/ h.fs >= FailsafeMin))
  <2>1. b = h
    BY <1>3, <1>7 DEF StateUpdate
  <2> QED
    BY <1>1, <1>2, <1>7, <2>1
<1> QED
  BY <1>4, <1>5, <1>6, <1>7

LEMMA NewStateType == NewState \in BridgeState
BY DEF NewState, BridgeState

LEMMA SetLimitType ==
  ASSUME NEW s \in BridgeState, NEW active \in BOOLEAN, NEW w \in Limits, NEW d \in Durations,
         NEW n, n = SetLimit(s, active, w, d)
  PROVE  /\ n \in BridgeState /\ n.ok = s.ok /\ n.seen = s.seen /\ n.up = s.up
         /\ n.in_failsafe = s.in_failsafe
<1> DEFINE left == IF d > 0 THEN d ELSE NoLimit
<1>1. left \in Nat \cup {NoLimit}
  BY EebusAssumption
<1>2. n = [s EXCEPT !.limit_active = active, !.limit_w = w, !.fresh = TRUE, !.left = left]
  BY DEF SetLimit
<1> HIDE DEF left
<1> QED
  BY <1>1, <1>2 DEF BridgeState
-----------------------------------------------------------------------------
\* What Send does to the link, given that the gateway has read everything.
LEMMA SendStep ==
  ASSUME EebusInv, running = "up", Idle, NEW line \in Line, Send(line, sent + 1),
         NEW t \in Nat, t <= told_age + 1, line # told => t = 0
  PROVE  /\ dialed' \in {"none", "pending", "served", "dead", "reset"}
         /\ last' \in Line \cup {NoLimit} /\ sent' \in 0 .. KeepAlive - 1
         /\ served' \in Stream \cup {NoLimit} /\ pending' \in Stream \cup {NoLimit}
         /\ pending' # NoLimit => served' = NoLimit
         /\ served' # NoLimit /\ ~served'.ended <=> dialed' = "served"
         /\ pending' # NoLimit /\ ~pending'.ended <=> dialed' = "pending"
         /\ dialed' \in {"pending", "served"} => last' = line
         /\ dialed' = "pending" => pending' = Lines(last') /\ t <= 2 * KeepAlive + 1
         /\ dialed' = "served" /\ served'.lines = <<>> =>
              quiet + 1 <= sent' /\ line = told /\ eebus_view = OnMessage(told)
         /\ dialed' = "served" /\ served'.lines # <<>> =>
              /\ served'.lines = <<last'>>
              /\ t <= 2 * KeepAlive + 1 \/ (line = told /\ eebus_view = OnMessage(told))
         /\ dialed' = "dead" => t <= sent'
         /\ dialed' = "reset" => t <= KeepAlive + sent'
         /\ dialed' = "none" => t <= 2 * KeepAlive
<1>1. /\ sent \in Nat /\ sent < KeepAlive /\ KeepAlive \in Nat /\ quiet \in Nat
      /\ told_age \in Nat
      /\ dialed \in {"none", "pending", "served", "dead", "reset"}
      /\ last \in Line \cup {NoLimit}
      /\ served \in Stream \cup {NoLimit} /\ pending \in Stream \cup {NoLimit}
  BY EebusAssumption DEF EebusInv, EebusTypeOK
<1>2. /\ pending # NoLimit => served = NoLimit
      /\ served # NoLimit /\ ~served.ended <=> dialed = "served"
      /\ pending # NoLimit /\ ~pending.ended <=> dialed = "pending"
  BY DEF EebusInv, Socket
<1>3. pending = NoLimit /\ dialed # "pending"
      /\ (served # NoLimit => served.lines = <<>> /\ dialed = "served")
      /\ (dialed = "served" => served \in Stream /\ served.lines = <<>>)
  BY <1>1, <1>2 DEF Idle
<1>4. /\ dialed = "served" => /\ last = told /\ quiet <= sent
                              /\ eebus_view = OnMessage(told)
      /\ dialed = "dead" => told_age <= sent
      /\ dialed = "reset" => told_age <= KeepAlive + sent
      /\ dialed = "none" => told_age <= 2 * KeepAlive
  BY <1>3 DEF EebusInv, Delivers, Redials
<1>5. CASE NothingToSend(line, sent + 1) /\ sent' = sent + 1
           /\ UNCHANGED <<dialed, last, served, pending>>
  <2>1. dialed # "none" /\ line = last /\ sent + 1 < KeepAlive
    BY <1>5 DEF NothingToSend
  <2> QED
    BY <1>1, <1>2, <1>3, <1>4, <1>5, <2>1
<1>6. CASE dialed = "none" /\ dialed' = "pending" /\ pending' = Lines(line)
           /\ last' = line /\ sent' = 0 /\ UNCHANGED served
  <2>1. pending' \in Stream /\ pending' # NoLimit /\ ~pending'.ended
    BY <1>6, LinesStream
  <2>2. served' = NoLimit
    BY <1>3, <1>6
  <2> QED
    BY <1>1, <1>4, <1>6, <2>1, <2>2
<1>7. CASE dialed = "served" /\ served' = [served EXCEPT !.lines = Append(@, line)]
           /\ last' = line /\ sent' = 0 /\ UNCHANGED <<dialed, pending>>
  <2>1. served' \in Stream /\ served' # NoLimit /\ served'.lines = <<line>>
        /\ served'.ended = served.ended
    BY <1>3, <1>7, AppendStream
  <2>2. <<line>> # <<>>
    BY SomethingIsNotNothing
  <2>3. line = told \/ t <= 2 * KeepAlive + 1
    BY <1>1
  <2>4. dialed' = "served" /\ last' = line /\ sent' = 0 /\ pending' = NoLimit
        /\ eebus_view = OnMessage(told) /\ 0 \in 0 .. KeepAlive - 1
    BY <1>1, <1>3, <1>4, <1>7
  <2>5. ~served.ended
    BY <1>2, <1>7
  <2>6. ~served'.ended
    BY <2>1, <2>5
  <2>7. served'.lines # <<>> /\ served'.lines = <<last'>>
    BY <2>1, <2>2, <2>4
  <2> QED
    BY <2>1, <2>3, <2>4, <2>6, <2>7
<1>8. CASE dialed = "dead" /\ dialed' = "reset"
           /\ last' = line /\ sent' = 0 /\ UNCHANGED <<served, pending>>
  BY <1>1, <1>2, <1>3, <1>4, <1>8
<1>9. CASE dialed \in {"dead", "reset"} /\ dialed' = "none"
           /\ UNCHANGED <<last, sent, served, pending>>
  BY <1>1, <1>2, <1>3, <1>4, <1>9
<1> QED
  BY <1>5, <1>6, <1>7, <1>8, <1>9 DEF Send, Sent
\* While the bridge is not up it says nothing, and the gateway waits.
LEMMA QuietTickInv ==
  ASSUME EebusInv, EebusTick, running # "up"
  PROVE  EebusInv'
<1>1. /\ Idle /\ quiet < Silence /\ quiet' = quiet + 1
      /\ UNCHANGED <<state, dialed, last, sent, served, pending, told, told_age,
                     heartbeat, running, eebus_view>>
      /\ alone_age' = 0
      /\ silent_age' = Older(silent_age, EebusAgeMax)
  BY DEF EebusTick, link
<1>2. silent_age' \in 0 .. EebusAgeMax /\ silent_age' <= silent_age + 1
      /\ silent_age \in Nat /\ quiet \in Nat /\ Silence \in Nat /\ EebusAgeMax \in Nat
  BY <1>1, OlderType, EebusAssumption DEF EebusInv, EebusTypeOK
<1>3. EebusTypeOK'
  <2>1. quiet' \in 0 .. Silence /\ alone_age' \in 0 .. EebusAgeMax
    BY <1>1, <1>2
  <2> QED
    BY <1>1, <1>2, <2>1 DEF EebusInv, EebusTypeOK
<1>4. Socket' /\ Alone' /\ running' # "up"
  BY <1>1 DEF EebusInv, Socket, Alone
<1>5. Silent'
  <2>1. pending = NoLimit /\ (served # NoLimit => served.lines = <<>>)
    BY <1>1 DEF Idle, EebusInv, Socket
  <2>2. Dims \/ silent_age <= quiet
    BY <1>2 DEF EebusInv, Silent
  <2>3. Dims' \/ silent_age' <= quiet'
    BY <1>1, <1>2, <2>2 DEF Dims
  <2> QED
    BY <1>1, <2>1, <2>3 DEF Silent
<1> QED
  BY <1>3, <1>4, <1>5 DEF EebusInv

LEMMA LoopTickInv ==
  ASSUME EebusInv, EebusTick, running = "up"
  PROVE  EebusInv'
<1> DEFINE line == Output(state')
<1>1. /\ Idle /\ quiet < Silence /\ quiet' = quiet + 1
      /\ state' = Beat(StateOlder(state), heartbeat)
      /\ Send(line, Older(sent, KeepAlive))
      /\ told' = line
      /\ told_age' = IF told' = told THEN Older(told_age, EebusAgeMax) ELSE 0
      /\ alone_age' = IF ~heartbeat THEN Older(alone_age, EebusAgeMax) ELSE 0
      /\ silent_age' = 0
      /\ UNCHANGED <<heartbeat, running, eebus_view>>
  BY DEF EebusTick, Loop
<1>2. /\ state \in BridgeState /\ heartbeat \in BOOLEAN /\ sent \in Nat /\ sent < KeepAlive
      /\ told_age \in Nat /\ told_age <= EebusAgeMax /\ EebusAgeMax \in Nat
      /\ alone_age \in Nat /\ alone_age <= EebusAgeMax
      /\ quiet \in Nat /\ Silence \in Nat /\ KeepAlive \in Nat /\ told \in Line
      /\ InitTimeout \in Nat \ {0}
  BY EebusAssumption DEF EebusInv, EebusTypeOK
<1>3. /\ state' \in BridgeState
      /\ state'.ok = heartbeat /\ state'.seen = (state.seen \/ heartbeat)
      /\ state'.up = Older(state.up, InitTimeout)
      /\ ~heartbeat => (state'.in_failsafe <=>
                          state.in_failsafe \/ state'.seen \/ state'.up >= InitTimeout)
  BY <1>1, <1>2, BeatType
<1>4. line \in Line /\ (state'.in_failsafe => line = FailsafeLine)
  BY <1>3, OutputType
<1> HIDE DEF line
<1>5. Older(sent, KeepAlive) = sent + 1
  BY <1>2, OlderType
<1>6. /\ told_age' \in 0 .. EebusAgeMax /\ told_age' <= told_age + 1
      /\ line # told => told_age' = 0
      /\ line = told => told_age' = Older(told_age, EebusAgeMax)
  <2> DEFINE o == Older(told_age, EebusAgeMax)
  <2>1. o \in 0 .. EebusAgeMax /\ o <= told_age + 1
    BY <1>2, OlderType
  <2>2. told_age' = IF line = told THEN o ELSE 0
    BY <1>1
  <2> HIDE DEF o
  <2>3. CASE line = told
    BY <2>1, <2>2, <2>3 DEF o
  <2>4. CASE line # told
    BY <1>2, <2>2, <2>4
  <2> QED
    BY <2>3, <2>4
<1>7. told_age' \in Nat
  BY <1>2, <1>6
<1>8. /\ dialed' \in {"none", "pending", "served", "dead", "reset"}
      /\ last' \in Line \cup {NoLimit} /\ sent' \in 0 .. KeepAlive - 1
      /\ served' \in Stream \cup {NoLimit} /\ pending' \in Stream \cup {NoLimit}
      /\ pending' # NoLimit => served' = NoLimit
      /\ served' # NoLimit /\ ~served'.ended <=> dialed' = "served"
      /\ pending' # NoLimit /\ ~pending'.ended <=> dialed' = "pending"
      /\ dialed' \in {"pending", "served"} => last' = line
      /\ dialed' = "pending" => pending' = Lines(last') /\ told_age' <= 2 * KeepAlive + 1
      /\ dialed' = "served" /\ served'.lines = <<>> =>
           quiet + 1 <= sent' /\ line = told /\ eebus_view = OnMessage(told)
      /\ dialed' = "served" /\ served'.lines # <<>> =>
           /\ served'.lines = <<last'>>
           /\ told_age' <= 2 * KeepAlive + 1 \/ (line = told /\ eebus_view = OnMessage(told))
      /\ dialed' = "dead" => told_age' <= sent'
      /\ dialed' = "reset" => told_age' <= KeepAlive + sent'
      /\ dialed' = "none" => told_age' <= 2 * KeepAlive
  <2>1. Send(line, sent + 1)
    BY <1>1, <1>5
  <2> HIDE DEF line
  <2> QED
    BY <1>1, <1>4, <1>6, <1>7, <2>1, SendStep
<1>9. alone_age' \in 0 .. EebusAgeMax
  BY <1>1, <1>2, OlderType
<1>10. EebusTypeOK'
  <2>1. quiet' \in 0 .. Silence /\ silent_age' \in 0 .. EebusAgeMax
    BY <1>1, <1>2
  <2> QED
    BY <1>1, <1>3, <1>4, <1>6, <1>8, <1>9, <2>1 DEF EebusTypeOK, EebusInv
<1>11. Socket'
  BY <1>1, <1>8 DEF Socket
<1>12. Silent'
  BY <1>1 DEF Silent
<1>13. Delivers'
  BY <1>1, <1>8 DEF Delivers
<1>14. Redials'
  BY <1>1, <1>8 DEF Redials
<1>15. Alone'
  <2> SUFFICES ASSUME ~heartbeat PROVE Alone'
    BY <1>1 DEF Alone
  <2>1. alone_age' = Older(alone_age, EebusAgeMax) /\ alone_age' \in Nat
        /\ alone_age' <= alone_age + 1 /\ alone_age' <= EebusAgeMax
    BY <1>1, <1>2, OlderType
  <2>2. state.up \in Nat /\ state'.up \in Nat
        /\ (state.up < InitTimeout => state'.up = state.up + 1)
        /\ (state.up >= InitTimeout => state'.up >= InitTimeout)
    <3>1. state.up \in Nat
      BY <1>2 DEF BridgeState
    <3>2. state'.up = Older(state.up, InitTimeout) /\ InitTimeout \in Nat
      BY <1>2, <1>3
    <3>3. Older(state.up, InitTimeout) \in Nat
      BY <3>1, <3>2, OlderType
    <3>4. state.up < InitTimeout => Older(state.up, InitTimeout) = state.up + 1
      BY <3>1, <3>2, OlderType
    <3>5. state.up >= InitTimeout => Older(state.up, InitTimeout) = InitTimeout
      BY <3>1, <3>2, OlderType
    <3> QED
      BY <3>1, <3>2, <3>3, <3>4, <3>5
  <2>3. state.up >= alone_age \/ state.up >= InitTimeout
    BY <1>2, <2>2 DEF EebusInv, Alone
  <2>4. state'.up >= alone_age' \/ state'.up >= InitTimeout
    BY <1>2, <2>1, <2>2, <2>3
  <2>5. ~state'.ok /\ (state'.seen => state'.in_failsafe)
        /\ (state'.up >= InitTimeout => state'.in_failsafe)
        /\ (state.in_failsafe => state'.in_failsafe)
    BY <1>3
  <2>6. alone_age' >= InitTimeout => state'.in_failsafe
    BY <1>2, <2>1, <2>2, <2>4, <2>5
  <2>7. state'.in_failsafe => told' = FailsafeLine
    BY <1>1, <1>4
  <2>8. alone_age' <= told_age' + InitTimeout
    <3>1. CASE alone_age < InitTimeout
      BY <1>2, <1>7, <2>1, <3>1
    <3>2. CASE alone_age >= InitTimeout
      <4>1. state.in_failsafe /\ told = FailsafeLine /\ alone_age <= told_age + InitTimeout
        BY <1>2, <3>2 DEF EebusInv, Alone, FailsafeLine
      <4>2. line = told
        BY <1>1, <2>5, <2>7, <4>1
      <4>3. told_age' = Older(told_age, EebusAgeMax)
        BY <1>6, <4>2
      <4>4. told_age' = told_age + 1 \/ told_age' = EebusAgeMax
        <5>1. CASE told_age < EebusAgeMax
          BY <1>2, <4>3, <5>1, OlderType
        <5>2. CASE told_age >= EebusAgeMax
          BY <1>2, <4>3, <5>2, OlderType
        <5> QED
          BY <1>2, <5>1, <5>2
      <4> QED
        BY <1>2, <2>1, <4>1, <4>4
    <3> QED
      BY <1>2, <3>1, <3>2
  <2> QED
    BY <1>1, <2>4, <2>5, <2>6, <2>7, <2>8 DEF Alone, FailsafeLine
<1> QED
  BY <1>10, <1>11, <1>12, <1>13, <1>14, <1>15 DEF EebusInv
\* The gateway takes up a connection, or a line of the one it has.
LEMMA AcceptInv ==
  ASSUME EebusInv, Accept
  PROVE  EebusInv'
<1>1. /\ served = NoLimit /\ pending # NoLimit
      /\ served' = pending /\ pending' = NoLimit /\ quiet' = 0
      /\ dialed' = IF dialed = "pending" THEN "served" ELSE dialed
      /\ UNCHANGED <<eebus_view, heartbeat, running, state, last, sent, told, told_age,
                     alone_age, silent_age>>
  BY DEF Accept, GatewayUnchanged, history
<1>2. EebusTypeOK'
  <2>1. dialed' \in {"none", "pending", "served", "dead", "reset"}
        /\ quiet' \in 0 .. Silence
    BY <1>1, EebusAssumption DEF EebusInv, EebusTypeOK
  <2> QED
    BY <1>1, <2>1 DEF EebusInv, EebusTypeOK
<1>3. Socket'
  BY <1>1 DEF EebusInv, Socket
<1>4. Silent' /\ Alone'
  BY <1>1 DEF EebusInv, Silent, Alone
<1>5. ASSUME running = "up" PROVE Delivers' /\ Redials'
  <2>1. Delivers /\ Redials /\ dialed # "served"
    BY <1>1, <1>5 DEF EebusInv, Socket
  <2>2. CASE dialed = "pending"
    <3>1. last = told /\ told \in Line /\ pending = Lines(last) /\ told_age <= 2 * KeepAlive + 1
      BY <2>1, <2>2 DEF Delivers, EebusInv, EebusTypeOK
    <3>2. pending.lines = <<last>> /\ pending.lines # <<>>
      BY <3>1, LinesStream, SomethingIsNotNothing
    <3> QED
      BY <1>1, <2>2, <3>1, <3>2 DEF Delivers, Redials
  <2>3. CASE dialed # "pending"
    BY <1>1, <2>1, <2>3 DEF Delivers, Redials
  <2> QED
    BY <2>2, <2>3
<1> QED
  BY <1>1, <1>2, <1>3, <1>4, <1>5 DEF EebusInv

LEMMA ReadLineInv ==
  ASSUME EebusInv, ReadLine
  PROVE  EebusInv'
<1>1. /\ served # NoLimit /\ served.lines # <<>>
      /\ eebus_view' = OnMessage(Head(served.lines))
      /\ served' = [served EXCEPT !.lines = Tail(@)]
      /\ quiet' = 0
      /\ UNCHANGED <<dialed, pending, heartbeat, running, state, last, sent, told, told_age,
                     alone_age, silent_age>>
  BY DEF ReadLine, GatewayUnchanged, history
<1>2. served \in Stream
  BY <1>1 DEF EebusInv, EebusTypeOK
<1>3. PICK line \in Line : served.lines = <<line>>
  BY <1>1, <1>2, StreamHas
<1>4. /\ served' \in Stream /\ served' # NoLimit /\ served'.lines = <<>>
      /\ served'.ended = served.ended /\ eebus_view' = OnMessage(line)
  BY <1>1, <1>2, <1>3, TailStream
<1>5. EebusTypeOK'
  <2>1. eebus_view' \in EebusView
    BY <1>4, ViewType DEF EebusInv, EebusTypeOK
  <2>2. quiet' \in 0 .. Silence
    BY <1>1, EebusAssumption
  <2> QED
    BY <1>1, <1>4, <2>1, <2>2 DEF EebusInv, EebusTypeOK
<1>6. Socket'
  BY <1>1, <1>4 DEF EebusInv, Socket
<1>7. Silent' /\ Alone'
  BY <1>1 DEF EebusInv, Silent, Alone
<1>8. ASSUME running = "up" PROVE Delivers' /\ Redials'
  <2>1. Delivers /\ Redials /\ sent \in Nat
    BY <1>8, EebusAssumption DEF EebusInv, EebusTypeOK
  <2>2. dialed = "served" => line = told
    BY <1>1, <1>3, <2>1 DEF Delivers
  <2> QED
    BY <1>1, <1>4, <2>1, <2>2 DEF Delivers, Redials
<1> QED
  BY <1>1, <1>5, <1>6, <1>7, <1>8 DEF EebusInv

\* It drops the connection at its end, or when nothing has come: never one
\* that a bridge that is up keeps alive.
LEMMA LeaveInv ==
  ASSUME EebusInv, ReadEnd \/ SilenceOver
  PROVE  EebusInv'
<1>1. /\ eebus_view' = OnLost(eebus_view)
      /\ served' = NoLimit /\ quiet' = 0
      /\ dialed' = IF dialed = "served" THEN "dead" ELSE dialed
      /\ UNCHANGED <<pending, heartbeat, running, state, last, sent, told, told_age,
                     alone_age, silent_age>>
  BY DEF ReadEnd, SilenceOver, Leave, GatewayUnchanged, history
<1>2. eebus_view' \in EebusView /\ Dims'
  <2>1. eebus_view \in EebusView /\ told \in Line
    BY DEF EebusInv, EebusTypeOK
  <2> QED
    BY <1>1, <2>1, ViewType DEF Dims
<1>3. EebusTypeOK'
  <2>1. quiet' \in 0 .. Silence
        /\ dialed' \in {"none", "pending", "served", "dead", "reset"}
    BY <1>1, EebusAssumption DEF EebusInv, EebusTypeOK
  <2> QED
    BY <1>1, <1>2, <2>1 DEF EebusInv, EebusTypeOK
<1>4. Socket'
  BY <1>1 DEF EebusInv, Socket
<1>5. Silent' /\ Alone'
  BY <1>1, <1>2 DEF EebusInv, Silent, Alone
<1>6. ASSUME running = "up" PROVE Delivers' /\ Redials'
  <2>1. Delivers /\ Redials
    BY <1>6 DEF EebusInv
  <2>2. dialed # "served"
    <3> SUFFICES ASSUME dialed = "served" PROVE FALSE
      OBVIOUS
    <3>1. served # NoLimit /\ ~served.ended
      BY DEF EebusInv, Socket
    <3>2. served.lines = <<>> /\ quiet >= Silence
      BY <3>1 DEF ReadEnd, SilenceOver, Idle
    <3>3. quiet <= sent
      BY <2>1, <3>2 DEF Delivers
    <3>4. sent \in Nat /\ sent < KeepAlive /\ quiet \in Nat /\ KeepAlive \in Nat
          /\ Silence \in Nat /\ KeepAlive < Silence
      BY EebusAssumption DEF EebusInv, EebusTypeOK
    <3> QED
      BY <3>2, <3>3, <3>4
  <2> QED
    BY <1>1, <2>1, <2>2 DEF Delivers, Redials
<1> QED
  BY <1>1, <1>3, <1>4, <1>5, <1>6 DEF EebusInv

\* The guard.
LEMMA GuardInv ==
  ASSUME EebusInv, HeartbeatChanges \/ GuardWrites
  PROVE  EebusInv'
<1>1. CASE HeartbeatChanges
  <2>1. /\ heartbeat' = ~heartbeat /\ alone_age' = 0
        /\ UNCHANGED <<running, state, dialed, last, sent, served, pending, quiet,
                       eebus_view, told, told_age, silent_age>>
    BY <1>1 DEF HeartbeatChanges, link, socket
  <2>2. heartbeat' \in BOOLEAN /\ alone_age' \in 0 .. EebusAgeMax
    BY <2>1, EebusAssumption
  <2> QED
    BY <2>1, <2>2 DEF EebusInv, EebusTypeOK, Socket, Silent, Dims, Alone, Delivers, Redials
<1>2. CASE GuardWrites
  <2>1. UNCHANGED <<heartbeat, running, dialed, last, sent, served, pending, quiet,
                    eebus_view, told, told_age, alone_age, silent_age>>
    BY <1>2 DEF GuardWrites, link, socket, history
  <2>2. PICK active \in BOOLEAN, w \in Limits, d \in Durations :
          state' = SetLimit(state, active, w, d)
    BY <1>2 DEF GuardWrites
  <2>3. state \in BridgeState
    BY DEF EebusInv, EebusTypeOK
  <2>4. /\ state' \in BridgeState /\ state'.ok = state.ok /\ state'.seen = state.seen
        /\ state'.up = state.up /\ state'.in_failsafe = state.in_failsafe
    BY <2>2, <2>3, SetLimitType
  <2>5. EebusTypeOK'
    BY <2>1, <2>4 DEF EebusInv, EebusTypeOK
  <2>6. Alone'
    BY <2>1, <2>4 DEF EebusInv, Alone
  <2>7. Socket' /\ Silent'
    BY <2>1 DEF EebusInv, Socket, Silent, Dims
  <2>8. running' = "up" => Delivers' /\ Redials'
    BY <2>1 DEF EebusInv, Delivers, Redials
  <2> QED
    BY <2>5, <2>6, <2>7, <2>8 DEF EebusInv
<1> QED
  BY <1>1, <1>2

\* What breaks.
LEMMA BridgeHangsInv ==
  ASSUME EebusInv, BridgeHangs
  PROVE  EebusInv'
<1>1. /\ running = "up" /\ running' = "hung" /\ alone_age' = 0
      /\ UNCHANGED <<heartbeat, state, dialed, last, sent, served, pending, quiet,
                     eebus_view, told, told_age, silent_age>>
  BY DEF BridgeHangs, link, socket
<1>2. EebusTypeOK'
  BY <1>1, EebusAssumption DEF EebusInv, EebusTypeOK
<1>3. Socket' /\ Silent' /\ Alone' /\ running' # "up"
  BY <1>1 DEF EebusInv, Socket, Silent, Alone, Dims
<1> QED
  BY <1>2, <1>3 DEF EebusInv

LEMMA BridgeStopsInv ==
  ASSUME EebusInv, BridgeStops
  PROVE  EebusInv'
<1>1. /\ running' = "down" /\ dialed' = "none"
      /\ served' = End(served) /\ pending' = End(pending) /\ alone_age' = 0
      /\ UNCHANGED <<heartbeat, state, last, sent, quiet, eebus_view, told, told_age,
                     silent_age>>
  BY DEF BridgeStops
<1>2. served \in Stream \cup {NoLimit} /\ pending \in Stream \cup {NoLimit}
  BY DEF EebusInv, EebusTypeOK
<1>3. End(NoLimit) = NoLimit
  BY DEF End
<1>4. /\ served' \in Stream \cup {NoLimit} /\ pending' \in Stream \cup {NoLimit}
      /\ served' # NoLimit => served # NoLimit /\ served'.ended /\ served'.lines = served.lines
      /\ pending' # NoLimit => pending # NoLimit /\ pending'.ended
      /\ pending = NoLimit => pending' = NoLimit
      /\ served = NoLimit => served' = NoLimit
  BY <1>1, <1>2, <1>3, EndStream
<1>5. EebusTypeOK'
  BY <1>1, <1>4, EebusAssumption DEF EebusInv, EebusTypeOK
<1>6. Socket' /\ Silent' /\ Alone' /\ running' # "up"
  BY <1>1, <1>4 DEF EebusInv, Socket, Silent, Alone, Dims
<1> QED
  BY <1>5, <1>6 DEF EebusInv

LEMMA BridgeStartsInv ==
  ASSUME EebusInv, BridgeStarts
  PROVE  EebusInv'
<1>1. /\ running = "down" /\ running' = "up"
      /\ state' = NewState /\ last' = NoLimit /\ sent' = 0
      /\ told' = Output(NewState) /\ told_age' = 0 /\ silent_age' = 0
      /\ UNCHANGED <<heartbeat, dialed, served, pending, quiet, eebus_view, alone_age>>
  BY DEF BridgeStarts, socket
<1>2. state' \in BridgeState /\ told' \in Line
  BY <1>1, NewStateType, OutputType
<1>3. sent' \in 0 .. KeepAlive - 1 /\ told_age' \in 0 .. EebusAgeMax
      /\ silent_age' \in 0 .. EebusAgeMax /\ KeepAlive \in Nat
  BY <1>1, EebusAssumption
<1>4. EebusTypeOK'
  BY <1>1, <1>2, <1>3 DEF EebusInv, EebusTypeOK
<1>5. dialed' = "none" /\ Socket'
  BY <1>1 DEF EebusInv, Socket
<1>6. Silent' /\ Alone'
  BY <1>1 DEF EebusInv, Silent, Alone
<1>7. Delivers' /\ Redials'
  BY <1>1, <1>3, <1>5 DEF Delivers, Redials
<1> QED
  BY <1>4, <1>5, <1>6, <1>7 DEF EebusInv

LEMMA GatewayRestartsInv ==
  ASSUME EebusInv, GatewayRestarts
  PROVE  EebusInv'
<1>1. /\ eebus_view' = NoMessage
      /\ served' = NoLimit /\ pending' = NoLimit /\ quiet' = 0
      /\ dialed' = IF dialed \in {"pending", "served"} THEN "dead" ELSE dialed
      /\ told_age' = 0 /\ alone_age' = 0 /\ silent_age' = 0
      /\ UNCHANGED <<heartbeat, running, state, last, sent, told>>
  BY DEF GatewayRestarts
<1>2. eebus_view' \in EebusView
  BY <1>1 DEF NoMessage, EebusView, Watts
<1>3. told_age' \in 0 .. EebusAgeMax /\ quiet' \in 0 .. Silence
      /\ alone_age' \in 0 .. EebusAgeMax /\ silent_age' \in 0 .. EebusAgeMax
      /\ KeepAlive \in Nat
  BY <1>1, EebusAssumption
<1>4. dialed' \in {"none", "dead", "reset"} /\ sent \in Nat
  BY <1>1, EebusAssumption DEF EebusInv, EebusTypeOK
<1>5. EebusTypeOK'
  BY <1>1, <1>2, <1>3, <1>4 DEF EebusInv, EebusTypeOK
<1>6. Socket'
  BY <1>1, <1>4 DEF EebusInv, Socket
<1>7. Silent' /\ Alone'
  BY <1>1 DEF Silent, Alone
<1>8. Delivers' /\ Redials'
  BY <1>1, <1>3, <1>4 DEF Delivers, Redials
<1> QED
  BY <1>5, <1>6, <1>7, <1>8 DEF EebusInv

LEMMA EebusInit_Inv == EebusInit => EebusInv
<1> SUFFICES ASSUME EebusInit PROVE EebusInv
  OBVIOUS
<1> USE DEF EebusInit
<1>1. NewState \in BridgeState /\ Output(NewState) \in Line /\ NoMessage \in EebusView
  BY NewStateType, OutputType DEF NoMessage, EebusView, Watts
<1>2. EebusTypeOK
  BY <1>1, EebusAssumption DEF EebusTypeOK
<1>3. Socket /\ Silent /\ Alone /\ running # "up"
  BY DEF Socket, Silent, Alone
<1> QED
  BY <1>2, <1>3 DEF EebusInv

LEMMA EebusStays ==
  ASSUME EebusInv, [EebusNext]_evars
  PROVE  EebusInv'
<1>1. CASE Accept
  BY <1>1, AcceptInv
<1>2. CASE ReadLine
  BY <1>2, ReadLineInv
<1>3. CASE ReadEnd \/ SilenceOver
  BY <1>3, LeaveInv
<1>4. CASE HeartbeatChanges \/ GuardWrites
  BY <1>4, GuardInv
<1>5. CASE BridgeHangs
  BY <1>5, BridgeHangsInv
<1>6. CASE BridgeStops
  BY <1>6, BridgeStopsInv
<1>7. CASE BridgeStarts
  BY <1>7, BridgeStartsInv
<1>8. CASE GatewayRestarts
  BY <1>8, GatewayRestartsInv
<1>9. CASE EebusTick
  BY <1>9, QuietTickInv, LoopTickInv
<1>10. CASE UNCHANGED evars
  BY <1>10 DEF evars, link, socket, history, EebusInv, EebusTypeOK, Socket, Silent, Dims,
               Alone, Delivers, Redials
<1> QED
  BY <1>1, <1>2, <1>3, <1>4, <1>5, <1>6, <1>7, <1>8, <1>9, <1>10 DEF EebusNext

-----------------------------------------------------------------------------
LEMMA ToldInv ==
  ASSUME EebusInv
  PROVE  ToldIsApplied
<1> SUFFICES ASSUME running = "up", told_age > RedialWithin
             PROVE  eebus_view = OnMessage(told)
  BY DEF ToldIsApplied
<1>1. told_age \in Nat /\ KeepAlive \in Nat /\ sent \in Nat /\ sent < KeepAlive
      /\ dialed \in {"none", "pending", "served", "dead", "reset"}
  BY EebusAssumption DEF EebusInv, EebusTypeOK
<1>2. Delivers /\ Redials
  BY DEF EebusInv
<1>3. told_age > 2 * KeepAlive + 1
  BY <1>1 DEF RedialWithin
<1>4. dialed = "served"
  BY <1>1, <1>2, <1>3 DEF Delivers, Redials
<1> QED
  BY <1>1, <1>2, <1>3, <1>4 DEF Delivers

LEMMA SilenceInv ==
  ASSUME EebusInv
  PROVE  SilenceDims
<1> SUFFICES ASSUME silent_age > Silence PROVE Dims
  BY DEF SilenceDims, Dims
<1>1. silent_age \in Nat /\ Silence \in Nat /\ quiet \in Nat /\ quiet <= Silence
  BY EebusAssumption DEF EebusInv, EebusTypeOK
<1> QED
  BY <1>1 DEF EebusInv, Silent

LEMMA GuardLossInv ==
  ASSUME EebusInv
  PROVE  GuardLossDims
<1> SUFFICES ASSUME alone_age > InitTimeout + RedialWithin
             PROVE  eebus_view.active /\ eebus_view.limit = FailsafeW
  BY DEF GuardLossDims
<1>1. /\ alone_age \in Nat /\ told_age \in Nat /\ KeepAlive \in Nat /\ InitTimeout \in Nat
      /\ RedialWithin \in Nat
  BY EebusAssumption DEF EebusInv, EebusTypeOK, RedialWithin
<1>2. Alone /\ alone_age > 0 /\ alone_age >= InitTimeout
  BY <1>1 DEF EebusInv
<1>3. running = "up" /\ told = FailsafeLine /\ told_age > RedialWithin
  BY <1>1, <1>2 DEF Alone, FailsafeLine
<1>4. eebus_view = OnMessage(FailsafeLine)
  BY <1>3, ToldInv DEF ToldIsApplied
<1> QED
  BY <1>4 DEF OnMessage, FailsafeLine

\* What the energy guard set, or the failsafe limit when it, the bridge or
\* the gateway has failed, is what the control loop sees, within the times of
\* state.go, link.go and serve_bridge.
THEOREM GuardIsFollowedHolds == EebusSpec => []GuardIsFollowed
<1>1. EebusInit => EebusInv
  BY EebusInit_Inv
<1>2. EebusInv /\ [EebusNext]_evars => EebusInv'
  BY EebusStays
<1>3. EebusInv => GuardIsFollowed
  BY ToldInv, SilenceInv, GuardLossInv DEF GuardIsFollowed
<1> QED
  BY <1>1, <1>2, <1>3, PTL DEF EebusSpec
=============================================================================
