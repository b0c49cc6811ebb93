---------------------------- MODULE Dispatch_proof ----------------------------
(* What a control cycle sends fits the budget and can be followed, for every *)
(* site a configuration may describe, however many devices it has; and any   *)
(* file the gateway accepts is one that it can run on.                       *)
EXTENDS Dispatch, Setup, WellFoundedInduction, FiniteSetTheorems, TLAPS

-----------------------------------------------------------------------------
\* Induction over the naturals and over the subsets of a finite set, for sets.

LEMMA SetInduction ==
  ASSUME NEW S \in SUBSET Nat, 0 \in S, \A n \in S : n + 1 \in S
  PROVE  S = Nat
<1> DEFINE R == OpToRel(<, Nat)
           T == Nat \ S
<1> SUFFICES ASSUME T # {} PROVE FALSE
  OBVIOUS
<1>1. PICK m \in T : \A k \in T : <<k, m>> \notin R
  BY NatLessThanWellFounded, WFMin
<1>2. \A k \in T : ~(k < m)
  BY <1>1 DEF OpToRel
<1>3. m - 1 \in Nat /\ m - 1 \in S
  BY <1>2
<1> QED
  BY <1>3

LEMMA SubsetInduction ==
  ASSUME NEW S, IsFiniteSet(S), NEW P \in SUBSET SUBSET S, {} \in P,
         \A t \in P, x \in S : x \notin t => t \cup {x} \in P
  PROVE  S \in P
<1> DEFINE N == {n \in Nat : \A t \in SUBSET S : Cardinality(t) = n => t \in P}
<1>1. 0 \in N
  <2> SUFFICES ASSUME NEW t \in SUBSET S, Cardinality(t) = 0 PROVE t \in P
    OBVIOUS
  <2>1. IsFiniteSet(t)
    BY FS_Subset
  <2>2. t = {}
    BY <2>1, FS_EmptySet
  <2> QED
    BY <2>2
<1>2. \A n \in N : n + 1 \in N
  <2> SUFFICES ASSUME NEW n \in N, NEW t \in SUBSET S, Cardinality(t) = n + 1 PROVE t \in P
    OBVIOUS
  <2>1. IsFiniteSet(t)
    BY FS_Subset
  <2>2. t # {}
    BY <2>1, FS_EmptySet
  <2>3. PICK x : x \in t
    BY <2>2
  <2>4. IsFiniteSet(t \ {x}) /\ Cardinality(t \ {x}) = Cardinality(t) - 1
    BY <2>1, <2>3, FS_RemoveElement
  <2>5. t \ {x} \in P
    BY <2>4
  <2>6. (t \ {x}) \cup {x} \in P
    BY <2>3, <2>5
  <2>7. (t \ {x}) \cup {x} = t
    BY <2>3
  <2> QED
    BY <2>6, <2>7
<1> HIDE DEF N
<1>3. N = Nat
  <2>1. N \in SUBSET Nat
    BY DEF N
  <2> QED
    BY <1>1, <1>2, <2>1, SetInduction
<1>4. Cardinality(S) \in Nat
  BY FS_CardinalityType
<1> QED
  BY <1>3, <1>4 DEF N

-----------------------------------------------------------------------------
\* Sums.

\* Which element SumFunction takes next.
Pick(t) == CHOOSE x \in t : TRUE

\* What the recursion in SumFunction defines, for subsets of at most n elements.
SumsUpTo(it, f, S, n) ==
  \A t \in SUBSET S : IsFiniteSet(t) /\ Cardinality(t) <= n =>
    it[t] = IF t = {} THEN 0 ELSE f[Pick(t)] + it[t \ {Pick(t)}]

\* What SumFunction chooses.
IsSum(it, f, S) ==
  it = [t \in SUBSET S |-> IF t = {} THEN 0 ELSE f[Pick(t)] + it[t \ {Pick(t)}]]

LEMMA PickIn ==
  ASSUME NEW t, t # {}
  PROVE  Pick(t) \in t
BY DEF Pick

\* There is such a function.
LEMMA SumExists ==
  ASSUME NEW S, IsFiniteSet(S), NEW f
  PROVE  \E it : IsSum(it, f, S)
<1> DEFINE N == {n \in Nat : \E it : it = [t \in SUBSET S |-> it[t]] /\ SumsUpTo(it, f, S, n)}
<1>1. 0 \in N
  <2> DEFINE it == [t \in SUBSET S |-> 0]
  <2>1. SumsUpTo(it, f, S, 0)
    <3> SUFFICES ASSUME NEW t \in SUBSET S, IsFiniteSet(t), Cardinality(t) <= 0
                 PROVE  it[t] = IF t = {} THEN 0 ELSE f[Pick(t)] + it[t \ {Pick(t)}]
      BY DEF SumsUpTo
    <3>1. Cardinality(t) = 0
      BY FS_CardinalityType
    <3>2. t = {}
      BY <3>1, FS_EmptySet
    <3> QED
      BY <3>2
  <2>2. it = [t \in SUBSET S |-> it[t]]
    OBVIOUS
  <2> HIDE DEF it
  <2> QED
    BY <2>1, <2>2
<1>2. \A n \in N : n + 1 \in N
  <2> SUFFICES ASSUME NEW n \in N PROVE n + 1 \in N
    OBVIOUS
  <2>1. PICK it : it = [t \in SUBSET S |-> it[t]] /\ SumsUpTo(it, f, S, n)
    OBVIOUS
  <2> DEFINE up == [t \in SUBSET S |-> IF t = {} THEN 0
                                       ELSE IF Cardinality(t) <= n THEN it[t]
                                       ELSE f[Pick(t)] + it[t \ {Pick(t)}]]
  <2>2. \A t \in SUBSET S : Cardinality(t) <= n => up[t] = it[t]
    <3> SUFFICES ASSUME NEW t \in SUBSET S, Cardinality(t) <= n PROVE up[t] = it[t]
      OBVIOUS
    <3>1. CASE t = {}
      <4>1. IsFiniteSet(t)
        BY FS_Subset
      <4>2. it[t] = 0
        BY <2>1, <3>1, <4>1 DEF SumsUpTo
      <4> QED
        BY <3>1, <4>2
    <3>2. CASE t # {}
      BY <3>2
    <3> QED
      BY <3>1, <3>2
  <2>3. SumsUpTo(up, f, S, n + 1)
    <3> SUFFICES ASSUME NEW t \in SUBSET S, IsFiniteSet(t), Cardinality(t) <= n + 1
                 PROVE  up[t] = IF t = {} THEN 0 ELSE f[Pick(t)] + up[t \ {Pick(t)}]
      BY DEF SumsUpTo
    <3>1. CASE t = {}
      BY <3>1
    <3>2. CASE t # {}
      <4>1. Pick(t) \in t
        BY <3>2, PickIn
      <4>2. Cardinality(t \ {Pick(t)}) = Cardinality(t) - 1 /\ Cardinality(t) \in Nat
        BY <4>1, FS_RemoveElement, FS_CardinalityType
      <4>3. up[t \ {Pick(t)}] = it[t \ {Pick(t)}]
        <5>1. n \in Nat /\ Cardinality(t \ {Pick(t)}) <= n
          BY <4>2
        <5>2. t \ {Pick(t)} \in SUBSET S
          OBVIOUS
        <5> HIDE DEF up
        <5> QED
          BY <2>2, <5>1, <5>2
      <4>4. CASE Cardinality(t) <= n
        <5>1. it[t] = f[Pick(t)] + it[t \ {Pick(t)}]
          BY <2>1, <3>2, <4>4 DEF SumsUpTo
        <5>2. up[t] = it[t]
          BY <2>2, <4>4
        <5> HIDE DEF up
        <5> QED
          BY <3>2, <4>3, <5>1, <5>2
      <4>5. CASE ~(Cardinality(t) <= n)
        BY <3>2, <4>3, <4>5
      <4> QED
        BY <4>4, <4>5
    <3> QED
      BY <3>1, <3>2
  <2>4. up = [t \in SUBSET S |-> up[t]]
    OBVIOUS
  <2> HIDE DEF up
  <2> QED
    BY <2>3, <2>4
<1> HIDE DEF N
<1>3. N = Nat
  <2>1. N \in SUBSET Nat
    BY DEF N
  <2> QED
    BY <1>1, <1>2, <2>1, SetInduction
<1>4. Cardinality(S) \in N
  BY <1>3, FS_CardinalityType
<1>5. PICK it : it = [t \in SUBSET S |-> it[t]] /\ SumsUpTo(it, f, S, Cardinality(S))
  BY <1>4 DEF N
<1>6. \A t \in SUBSET S : it[t] = IF t = {} THEN 0 ELSE f[Pick(t)] + it[t \ {Pick(t)}]
  <2> SUFFICES ASSUME NEW t \in SUBSET S
               PROVE  it[t] = IF t = {} THEN 0 ELSE f[Pick(t)] + it[t \ {Pick(t)}]
    OBVIOUS
  <2>1. IsFiniteSet(t) /\ Cardinality(t) <= Cardinality(S)
    BY FS_Subset
  <2> QED
    BY <1>5, <2>1 DEF SumsUpTo
<1>7. it = [t \in SUBSET S |-> IF t = {} THEN 0 ELSE f[Pick(t)] + it[t \ {Pick(t)}]]
  BY <1>5, <1>6
<1> QED
  BY <1>7 DEF IsSum

\* A function that adds up f over the subsets of S, one element after the other.
Sums(it, f, S) ==
  \A t \in SUBSET S : it[t] = IF t = {} THEN 0 ELSE f[Pick(t)] + it[t \ {Pick(t)}]

LEMMA SumRuns ==
  ASSUME NEW f, IsFiniteSet(DOMAIN f)
  PROVE  \E it : Sums(it, f, DOMAIN f) /\ SumFunction(f) = it[DOMAIN f]
<1> DEFINE it == CHOOSE it : IsSum(it, f, DOMAIN f)
<1>1. IsSum(it, f, DOMAIN f)
  <2>1. \E h : IsSum(h, f, DOMAIN f)
    BY SumExists
  <2> QED
    BY <2>1, Zenon
<1>2. SumFunction(f) = it[DOMAIN f]
  BY DEF SumFunction, SumFunctionOnSet, FoldFunctionOnSet, MapThenFoldSet, Pick, IsSum
<1> HIDE DEF it
<1>3. Sums(it, f, DOMAIN f)
  BY <1>1 DEF Sums, IsSum
<1> QED
  BY <1>2, <1>3

\* In whatever order.
Adds(it, f, S) ==
  \A t \in SUBSET S : it[t] \in Int /\ \A x \in t : it[t] = f[x] + it[t \ {x}]

LEMMA SumsAny ==
  ASSUME NEW S, IsFiniteSet(S), NEW f \in [S -> Int], NEW it, Sums(it, f, S)
  PROVE  Adds(it, f, S)
<1> DEFINE Good(t) == it[t] \in Int /\ \A x \in t : it[t] = f[x] + it[t \ {x}]
           N == {n \in Nat : \A t \in SUBSET S : Cardinality(t) <= n => Good(t)}
<1>1. 0 \in N
  <2> SUFFICES ASSUME NEW t \in SUBSET S, Cardinality(t) <= 0 PROVE Good(t)
    OBVIOUS
  <2>1. t = {}
    BY FS_Subset, FS_EmptySet, FS_CardinalityType
  <2>2. it[t] = 0
    BY <2>1 DEF Sums
  <2> QED
    BY <2>1, <2>2
<1>2. \A n \in N : n + 1 \in N
  <2> SUFFICES ASSUME NEW n \in N, NEW t \in SUBSET S, Cardinality(t) <= n + 1 PROVE Good(t)
    OBVIOUS
  <2>0. n \in Nat /\ \A u \in SUBSET S : Cardinality(u) <= n => Good(u)
    OBVIOUS
  <2>a. CASE t = {}
    <3>1. it[t] = 0
      BY <2>a DEF Sums
    <3> QED
      BY <2>a, <3>1
  <2>b. CASE t # {}
    <3>1. IsFiniteSet(t)
      BY FS_Subset
    <3>2. \A x \in t : t \ {x} \in SUBSET S /\ Cardinality(t \ {x}) <= n
      <4> SUFFICES ASSUME NEW x \in t PROVE t \ {x} \in SUBSET S /\ Cardinality(t \ {x}) <= n
        OBVIOUS
      <4>1. Cardinality(t \ {x}) = Cardinality(t) - 1 /\ Cardinality(t) \in Nat
        BY <3>1, FS_RemoveElement, FS_CardinalityType
      <4> QED
        BY <2>0, <4>1
    <3>3. \A x \in t : Good(t \ {x})
      BY <2>0, <3>2
    <3> DEFINE p == Pick(t)
    <3>4. p \in t
      BY <2>b, PickIn
    <3>5. it[t] = f[p] + it[t \ {p}]
      BY <2>b DEF Sums
    <3> HIDE DEF p, N
    <3>6. it[t] \in Int
      <4>1. f[p] \in Int /\ it[t \ {p}] \in Int
        BY <3>3, <3>4
      <4> QED
        BY <3>5, <4>1
    <3>7. ASSUME NEW x \in t PROVE it[t] = f[x] + it[t \ {x}]
      <4>1. CASE x = p
        BY <3>5, <4>1
      <4>2. CASE x # p
        <5>1. it[t \ {p}] = f[x] + it[(t \ {p}) \ {x}]
          BY <3>3, <3>4, <4>2
        <5>2. it[t \ {x}] = f[p] + it[(t \ {x}) \ {p}]
          BY <3>3, <3>4, <4>2
        <5>3. (t \ {p}) \ {x} = (t \ {x}) \ {p}
          OBVIOUS
        <5>4. f[p] \in Int /\ f[x] \in Int
          BY <3>4
        <5>5. it[(t \ {x}) \ {p}] \in Int
          <6>1. IsFiniteSet(t \ {x}) /\ (t \ {x}) \ {p} \in SUBSET t
            BY <3>1, FS_RemoveElement
          <6>2. Cardinality((t \ {x}) \ {p}) <= n
            <7>1. p \in t \ {x} /\ Cardinality(t \ {x}) <= n /\ Cardinality(t \ {x}) \in Nat
              BY <3>2, <3>4, <4>2, <6>1, FS_CardinalityType
            <7>2. Cardinality((t \ {x}) \ {p}) = Cardinality(t \ {x}) - 1
              BY <6>1, <7>1, FS_RemoveElement
            <7> QED
              BY <2>0, <7>1, <7>2
          <6> QED
            BY <2>0, <6>1, <6>2
        <5> DEFINE rest == it[(t \ {x}) \ {p}]
        <5>6. it[t] = f[p] + (f[x] + rest) /\ it[t \ {x}] = f[p] + rest
          BY <3>5, <5>1, <5>2, <5>3
        <5>7. rest \in Int
          BY <5>5
        <5> HIDE DEF rest
        <5> QED
          BY <5>4, <5>6, <5>7
      <4> QED
        BY <4>1, <4>2
    <3> QED
      BY <3>6, <3>7
  <2> QED
    BY <2>a, <2>b
<1> HIDE DEF N, Good
<1>3. N = Nat
  <2>1. N \in SUBSET Nat
    BY DEF N
  <2> QED
    BY <1>1, <1>2, <2>1, SetInduction
<1>4. \A t \in SUBSET S : Good(t)
  <2> SUFFICES ASSUME NEW t \in SUBSET S PROVE Good(t)
    OBVIOUS
  <2>1. Cardinality(t) \in N
    BY <1>3, FS_Subset, FS_CardinalityType
  <2> QED
    BY <2>1 DEF N
<1> QED
  BY <1>4 DEF Good, Adds

\* Two functions that agree on a set have the same sum over it.
LEMMA SumsAgree ==
  ASSUME NEW S, IsFiniteSet(S), NEW f \in [S -> Int], NEW it, Sums(it, f, S),
         NEW T, IsFiniteSet(T), NEW g \in [T -> Int], NEW jt, Sums(jt, g, T),
         NEW u, u \subseteq S, u \subseteq T, \A i \in u : f[i] = g[i]
  PROVE  it[u] = jt[u]
<1>a. Adds(it, f, S)
  BY SumsAny
<1>b. Adds(jt, g, T)
  BY SumsAny
<1> DEFINE P == {t \in SUBSET u : it[t] = jt[t]}
<1>1. {} \in P
  BY DEF Sums
<1>2. \A t \in P, x \in u : x \notin t => t \cup {x} \in P
  <2> SUFFICES ASSUME NEW t \in P, NEW x \in u, x \notin t PROVE t \cup {x} \in P
    OBVIOUS
  <2> DEFINE more == t \cup {x}
  <2>1. more \ {x} = t /\ more \in SUBSET S /\ more \in SUBSET T /\ x \in more /\ more \in SUBSET u
    OBVIOUS
  <2>2. it[t] = jt[t]
    OBVIOUS
  <2> HIDE DEF more, P
  <2>3. it[more] = f[x] + it[t]
    BY <2>1, <1>a DEF Adds
  <2>4. jt[more] = g[x] + jt[t]
    BY <2>1, <1>b DEF Adds
  <2>5. it[more] = jt[more]
    BY <2>2, <2>3, <2>4
  <2> QED
    BY <2>1, <2>5 DEF P, more
<1>3. IsFiniteSet(u)
  BY FS_Subset
<1> HIDE DEF P
<1>4. P \in SUBSET SUBSET u
  BY DEF P
<1>5. u \in P
  BY <1>1, <1>2, <1>3, <1>4, SubsetInduction
<1> QED
  BY <1>5 DEF P

\* A sum of integers is one, nothing adds up to 0, and each element can be
\* taken out.
LEMMA SumInt ==
  ASSUME NEW S, IsFiniteSet(S), NEW f \in [S -> Int]
  PROVE  SumFunction(f) \in Int
<1>1. DOMAIN f = S
  OBVIOUS
<1>2. PICK it : Sums(it, f, S) /\ SumFunction(f) = it[S]
  BY <1>1, SumRuns
<1>3. Adds(it, f, S)
  BY <1>2, SumsAny
<1> QED
  BY <1>2, <1>3 DEF Adds

LEMMA SumEmpty ==
  ASSUME NEW f, DOMAIN f = {}
  PROVE  SumFunction(f) = 0
<1>1. IsFiniteSet({})
  BY FS_EmptySet
<1>2. PICK it : Sums(it, f, {}) /\ SumFunction(f) = it[{}]
  BY <1>1, SumRuns
<1> QED
  BY <1>2 DEF Sums

LEMMA SumOut ==
  ASSUME NEW S, IsFiniteSet(S), NEW f \in [S -> Int], NEW x \in S,
         NEW g \in [S \ {x} -> Int], \A i \in S \ {x} : g[i] = f[i]
  PROVE  SumFunction(f) = f[x] + SumFunction(g)
<1>0. DOMAIN f = S /\ DOMAIN g = S \ {x} /\ IsFiniteSet(S \ {x})
  BY FS_RemoveElement
<1>1. PICK it : Sums(it, f, S) /\ SumFunction(f) = it[S]
  BY <1>0, SumRuns
<1>2. PICK jt : Sums(jt, g, S \ {x}) /\ SumFunction(g) = jt[S \ {x}]
  BY <1>0, SumRuns
<1>3. it[S] = f[x] + it[S \ {x}]
  <2>1. Adds(it, f, S)
    BY <1>1, SumsAny
  <2> QED
    BY <2>1 DEF Adds
<1>4. it[S \ {x}] = jt[S \ {x}]
  <2> DEFINE u == S \ {x}
  <2>1. u \subseteq S /\ \A i \in u : f[i] = g[i]
    OBVIOUS
  <2>2. IsFiniteSet(u) /\ g \in [u -> Int] /\ Sums(jt, g, u)
    BY <1>0, <1>2
  <2> HIDE DEF u
  <2>3. it[u] = jt[u]
    BY <1>1, <2>1, <2>2, SumsAgree
  <2> QED
    BY <2>3 DEF u
<1> QED
  BY <1>1, <1>2, <1>3, <1>4

\* An element more.
LEMMA SumMore ==
  ASSUME NEW S, IsFiniteSet(S), NEW x, x \notin S, NEW f \in [S \cup {x} -> Int],
         NEW g \in [S -> Int], \A i \in S : g[i] = f[i]
  PROVE  SumFunction(f) = f[x] + SumFunction(g)
<1> DEFINE T == S \cup {x}
<1>1. IsFiniteSet(T) /\ T \ {x} = S /\ x \in T
  BY FS_AddElement
<1>2. f \in [T -> Int]
  OBVIOUS
<1> HIDE DEF T
<1> QED
  BY <1>1, <1>2, SumOut

\* Sums over a part of S grow with it, and are compared element by element.
LEMMA SumMonotone ==
  ASSUME NEW S, IsFiniteSet(S), NEW f \in [S -> Int], NEW g \in [S -> Int],
         \A i \in S : f[i] <= g[i]
  PROVE  SumFunction(f) <= SumFunction(g)
<1> DEFINE F(t) == [i \in t |-> f[i]]
           G(t) == [i \in t |-> g[i]]
           P == {t \in SUBSET S : SumFunction(F(t)) <= SumFunction(G(t))}
<1>1. {} \in P
  <2>1. SumFunction(F({})) = 0 /\ SumFunction(G({})) = 0
    BY SumEmpty
  <2> QED
    BY <2>1
<1>2. \A t \in P, x \in S : x \notin t => t \cup {x} \in P
  <2> SUFFICES ASSUME NEW t \in P, NEW x \in S, x \notin t PROVE t \cup {x} \in P
    OBVIOUS
  <2>0. IsFiniteSet(t)
    BY FS_Subset
  <2>1. SumFunction(F(t \cup {x})) = f[x] + SumFunction(F(t))
    <3> DEFINE h == F(t \cup {x})
               k == F(t)
    <3>1. h \in [t \cup {x} -> Int] /\ k \in [t -> Int] /\ (\A i \in t : k[i] = h[i]) /\ h[x] = f[x]
      OBVIOUS
    <3> HIDE DEF h, k, F, G, P
    <3>2. SumFunction(h) = h[x] + SumFunction(k)
      BY <2>0, <3>1, SumMore
    <3> QED
      BY <3>1, <3>2 DEF h, k
  <2>2. SumFunction(G(t \cup {x})) = g[x] + SumFunction(G(t))
    <3> DEFINE h == G(t \cup {x})
               k == G(t)
    <3>1. h \in [t \cup {x} -> Int] /\ k \in [t -> Int] /\ (\A i \in t : k[i] = h[i]) /\ h[x] = g[x]
      OBVIOUS
    <3> HIDE DEF h, k, F, G, P
    <3>2. SumFunction(h) = h[x] + SumFunction(k)
      BY <2>0, <3>1, SumMore
    <3> QED
      BY <3>1, <3>2 DEF h, k
  <2>3. SumFunction(F(t)) <= SumFunction(G(t))
    OBVIOUS
  <2>4. SumFunction(F(t)) \in Int /\ SumFunction(G(t)) \in Int
    <3>1. F(t) \in [t -> Int] /\ G(t) \in [t -> Int]
      OBVIOUS
    <3> HIDE DEF F, G
    <3> QED
      BY <2>0, <3>1, SumInt
  <2>5. f[x] \in Int /\ g[x] \in Int /\ f[x] <= g[x]
    OBVIOUS
  <2> HIDE DEF F, G
  <2>6. SumFunction(F(t \cup {x})) <= SumFunction(G(t \cup {x}))
    BY <2>1, <2>2, <2>3, <2>4, <2>5
  <2> QED
    BY <2>6
<1> HIDE DEF P
<1>3. P \in SUBSET SUBSET S
  BY DEF P
<1>4. S \in P
  BY <1>1, <1>2, <1>3, SubsetInduction
<1>5. F(S) = f /\ G(S) = g
  OBVIOUS
<1> QED
  BY <1>4, <1>5 DEF P

LEMMA SumNothing ==
  ASSUME NEW S, IsFiniteSet(S)
  PROVE  SumFunction([i \in S |-> 0]) = 0
<1> DEFINE P == {t \in SUBSET S : SumFunction([i \in t |-> 0]) = 0}
<1>1. {} \in P
  BY SumEmpty
<1>2. \A t \in P, x \in S : x \notin t => t \cup {x} \in P
  <2> SUFFICES ASSUME NEW t \in P, NEW x \in S, x \notin t PROVE t \cup {x} \in P
    OBVIOUS
  <2> DEFINE h == [i \in t \cup {x} |-> 0]
             k == [i \in t |-> 0]
  <2>0. IsFiniteSet(t)
    BY FS_Subset
  <2>1. h \in [t \cup {x} -> Int] /\ k \in [t -> Int] /\ (\A i \in t : k[i] = h[i]) /\ h[x] = 0
    OBVIOUS
  <2>2. SumFunction(k) = 0
    OBVIOUS
  <2> HIDE DEF h, k
  <2>3. SumFunction(h) = h[x] + SumFunction(k)
    BY <2>0, <2>1, SumMore
  <2>4. SumFunction(h) = 0
    BY <2>1, <2>2, <2>3
  <2> QED
    BY <2>4 DEF h
<1> HIDE DEF P
<1>3. P \in SUBSET SUBSET S
  BY DEF P
<1>4. S \in P
  BY <1>1, <1>2, <1>3, SubsetInduction
<1> QED
  BY <1>4 DEF P

LEMMA SumNat ==
  ASSUME NEW S, IsFiniteSet(S), NEW f \in [S -> Int], \A i \in S : f[i] >= 0
  PROVE  SumFunction(f) \in Nat
<1> DEFINE z == [i \in S |-> 0]
<1>1. z \in [S -> Int] /\ \A i \in S : z[i] <= f[i]
  OBVIOUS
<1>2. SumFunction(z) = 0
  BY SumNothing
<1> HIDE DEF z
<1>3. SumFunction(z) <= SumFunction(f)
  BY <1>1, SumMonotone
<1>4. SumFunction(f) \in Int
  BY SumInt
<1> QED
  BY <1>2, <1>3, <1>4

\* One element changed.
LEMMA SumChange ==
  ASSUME NEW S, IsFiniteSet(S), NEW f \in [S -> Int], NEW g \in [S -> Int],
         NEW x \in S, \A i \in S \ {x} : g[i] = f[i]
  PROVE  SumFunction(g) = SumFunction(f) - f[x] + g[x]
<1> DEFINE h == [i \in S \ {x} |-> f[i]]
<1>1. h \in [S \ {x} -> Int] /\ \A i \in S \ {x} : h[i] = f[i] /\ h[i] = g[i]
  OBVIOUS
<1>2. IsFiniteSet(S \ {x})
  BY FS_RemoveElement
<1> HIDE DEF h
<1>3. SumFunction(f) = f[x] + SumFunction(h)
  BY <1>1, SumOut
<1>4. SumFunction(g) = g[x] + SumFunction(h)
  BY <1>1, SumOut
<1>5. SumFunction(h) \in Int
  BY <1>1, <1>2, SumInt
<1>6. f[x] \in Int /\ g[x] \in Int
  OBVIOUS
<1> QED
  BY <1>3, <1>4, <1>5, <1>6

-----------------------------------------------------------------------------
\* Folds over a sequence.

LEMMA MaxIn ==
  ASSUME NEW n \in Nat, NEW s \in SUBSET (1 .. n), s # {}
  PROVE  Max(s) \in s /\ \A y \in s : y <= Max(s)
<1> DEFINE N == {m \in Nat : \A t \in SUBSET (1 .. m) : t # {} => \E x \in t : \A y \in t : x >= y}
<1>1. 0 \in N
  <2>1. 1 .. 0 = {}
    OBVIOUS
  <2> QED
    BY <2>1
<1>2. \A m \in N : m + 1 \in N
  <2> SUFFICES ASSUME NEW m \in N, NEW t \in SUBSET (1 .. m + 1), t # {}
               PROVE  \E x \in t : \A y \in t : x >= y
    OBVIOUS
  <2>1. CASE m + 1 \in t
    BY <2>1
  <2>2. CASE m + 1 \notin t
    <3>1. t \in SUBSET (1 .. m)
      BY <2>2
    <3> QED
      BY <3>1
  <2> QED
    BY <2>1, <2>2
<1> HIDE DEF N
<1>3. N = Nat
  <2>1. N \in SUBSET Nat
    BY DEF N
  <2> QED
    BY <1>1, <1>2, <2>1, SetInduction
<1>4. \E x \in s : \A y \in s : x >= y
  BY <1>3 DEF N
<1>5. Max(s) \in s /\ \A y \in s : Max(s) >= y
  BY <1>4 DEF Max
<1> QED
  BY <1>5

LEMMA MaxOfPrefix ==
  ASSUME NEW n \in Nat \ {0}
  PROVE  Max(1 .. n) = n /\ (1 .. n) \ {n} = 1 .. n - 1
<1>1. 1 .. n # {} /\ n \in 1 .. n
  OBVIOUS
<1>2. Max(1 .. n) \in 1 .. n /\ \A y \in 1 .. n : y <= Max(1 .. n)
  BY <1>1, MaxIn
<1> QED
  BY <1>1, <1>2

\* A fold of n steps, from the lowest index up, as FoldLeft chooses it.
FoldsTo(it, n, A, base, step) ==
  /\ it \in [SUBSET (1 .. n) -> A]
  /\ \A s \in SUBSET (1 .. n) :
       it[s] = IF s = {} THEN base ELSE step[<<Max(s), it[s \ {Max(s)}]>>]

LEMMA FoldExists ==
  ASSUME NEW n \in Nat, NEW A, NEW base \in A, NEW step \in [(1 .. n) \X A -> A]
  PROVE  \E it : FoldsTo(it, n, A, base, step)
<1> DEFINE N == {m \in Nat : m <= n => \E it : FoldsTo(it, m, A, base, step)}
<1>1. 0 \in N
  <2> DEFINE it == [s \in SUBSET (1 .. 0) |-> base]
  <2>1. FoldsTo(it, 0, A, base, step)
    <3>1. \A s \in SUBSET (1 .. 0) : s = {}
      OBVIOUS
    <3> QED
      BY <3>1 DEF FoldsTo
  <2> HIDE DEF it
  <2> QED
    BY <2>1
<1>2. \A m \in N : m + 1 \in N
  <2> SUFFICES ASSUME NEW m \in Nat, m \in N, m + 1 <= n
               PROVE  \E it : FoldsTo(it, m + 1, A, base, step)
    OBVIOUS
  <2>1. PICK it : FoldsTo(it, m, A, base, step)
    OBVIOUS
  <2> DEFINE up == [s \in SUBSET (1 .. m + 1) |->
                      IF m + 1 \in s THEN step[<<m + 1, it[s \ {m + 1}]>>] ELSE it[s]]
  <2>2. \A s \in SUBSET (1 .. m) : up[s] = it[s]
    OBVIOUS
  <2>3. \A s \in SUBSET (1 .. m + 1) : s \ {m + 1} \in SUBSET (1 .. m)
    OBVIOUS
  <2>4. up \in [SUBSET (1 .. m + 1) -> A]
    <3> SUFFICES ASSUME NEW s \in SUBSET (1 .. m + 1)
                 PROVE  (IF m + 1 \in s THEN step[<<m + 1, it[s \ {m + 1}]>>] ELSE it[s]) \in A
      OBVIOUS
    <3>1. CASE m + 1 \in s
      <4>1. it[s \ {m + 1}] \in A
        BY <2>1, <2>3 DEF FoldsTo
      <4>2. m + 1 \in 1 .. n
        OBVIOUS
      <4> QED
        BY <3>1, <4>1, <4>2
    <3>2. CASE m + 1 \notin s
      <4>1. s \in SUBSET (1 .. m)
        BY <3>2
      <4> QED
        BY <2>1, <3>2, <4>1 DEF FoldsTo
    <3> QED
      BY <3>1, <3>2
  <2>5. ASSUME NEW s \in SUBSET (1 .. m + 1)
        PROVE  up[s] = IF s = {} THEN base ELSE step[<<Max(s), up[s \ {Max(s)}]>>]
    <3>1. CASE m + 1 \in s
      <4>1. Max(s) = m + 1
        <5>1. Max(s) \in s /\ \A y \in s : y <= Max(s)
          <6> DEFINE l == m + 1
          <6>1. l \in Nat /\ s \in SUBSET (1 .. l) /\ s # {}
            BY <3>1
          <6> HIDE DEF l
          <6> QED
            BY <6>1, MaxIn
        <5>2. Max(s) \in 1 .. m + 1 /\ m + 1 <= Max(s)
          BY <3>1, <5>1
        <5> QED
          BY <5>2
      <4>2. up[s] = step[<<m + 1, it[s \ {m + 1}]>>]
        BY <3>1
      <4>3. up[s \ {m + 1}] = it[s \ {m + 1}]
        BY <2>2, <2>3
      <4> HIDE DEF up
      <4> QED
        BY <3>1, <4>1, <4>2, <4>3
    <3>2. CASE m + 1 \notin s /\ s # {}
      <4>1. s \in SUBSET (1 .. m)
        BY <3>2
      <4>2. up[s] = it[s] /\ up[s \ {Max(s)}] = it[s \ {Max(s)}]
        BY <2>2, <4>1
      <4> HIDE DEF up
      <4> QED
        BY <2>1, <3>2, <4>1, <4>2 DEF FoldsTo
    <3>3. CASE s = {}
      <4>1. s \in SUBSET (1 .. m)
        BY <3>3
      <4>2. up[s] = it[s]
        BY <2>2, <4>1
      <4> HIDE DEF up
      <4> QED
        BY <2>1, <3>3, <4>1, <4>2 DEF FoldsTo
    <3> QED
      BY <3>1, <3>2, <3>3
  <2> HIDE DEF up
  <2>6. FoldsTo(up, m + 1, A, base, step)
    BY <2>4, <2>5 DEF FoldsTo
  <2> QED
    BY <2>6
<1> HIDE DEF N
<1>3. N = Nat
  <2>1. N \in SUBSET Nat
    BY DEF N
  <2> QED
    BY <1>1, <1>2, <2>1, SetInduction
<1> QED
  BY <1>3 DEF N

-----------------------------------------------------------------------------
\* What is known of a site and of a cycle's surroundings.

SiteOK == site \in SiteConfigs /\ ValidSite(site) /\ site.patience \in Nat

LEMMA ChargerFacts ==
  ASSUME SiteOK
  PROVE  /\ Len(site.chargers) \in Nat /\ Chargers = 1 .. Len(site.chargers)
         /\ \A i \in Chargers :
              /\ site.chargers[i] \in ChargerSpecs
              /\ site.chargers[i].max \in EvMinCurrentA .. 63
              /\ site.chargers[i].failsafe \in Int
<1>1. site.chargers \in Seq(ChargerSpecs)
  BY DEF SiteOK, SiteConfigs
<1>2. \A i \in DOMAIN site.chargers : ValidCharger(site.chargers[i])
  BY DEF SiteOK, ValidSite
<1>3. Len(site.chargers) \in Nat /\ Chargers = 1 .. Len(site.chargers)
  BY <1>1 DEF Chargers
<1>4. ASSUME NEW i \in Chargers
      PROVE  /\ site.chargers[i] \in ChargerSpecs
             /\ site.chargers[i].max \in EvMinCurrentA .. 63
             /\ site.chargers[i].failsafe \in Int
  <2>1. site.chargers[i] \in ChargerSpecs
    BY <1>1, <1>3
  <2>2. site.chargers[i].max \in EvMinCurrentA .. 63
    BY <1>2 DEF Chargers, ValidCharger
  <2> QED
    BY <2>1, <2>2 DEF ChargerSpecs
<1> QED
  BY <1>3, <1>4

LEMMA HeatPumpFacts ==
  ASSUME SiteOK
  PROVE  /\ Len(site.heat_pumps) \in Nat /\ HeatPumps = 1 .. Len(site.heat_pumps)
         /\ \A i \in HeatPumps :
              /\ site.heat_pumps[i] \in HeatPumpSpecs
              /\ site.heat_pumps[i].rated \in Nat
              /\ site.heat_pumps[i].min \in 0 .. site.heat_pumps[i].rated
<1>1. site.heat_pumps \in Seq(HeatPumpSpecs)
  BY DEF SiteOK, SiteConfigs
<1>2. \A i \in DOMAIN site.heat_pumps : ValidHeatPump(site.heat_pumps[i])
  BY DEF SiteOK, ValidSite
<1>3. Len(site.heat_pumps) \in Nat /\ HeatPumps = 1 .. Len(site.heat_pumps)
  BY <1>1 DEF HeatPumps
<1>4. ASSUME NEW i \in HeatPumps
      PROVE  /\ site.heat_pumps[i] \in HeatPumpSpecs
             /\ site.heat_pumps[i].rated \in Nat
             /\ site.heat_pumps[i].min \in 0 .. site.heat_pumps[i].rated
  <2>1. site.heat_pumps[i] \in HeatPumpSpecs
    BY <1>1, <1>3
  <2>2. site.heat_pumps[i].rated \in Int /\ site.heat_pumps[i].min \in Int
    BY <2>1 DEF HeatPumpSpecs
  <2>3. /\ site.heat_pumps[i].rated > 0 /\ 0 <= site.heat_pumps[i].min
        /\ site.heat_pumps[i].min <= site.heat_pumps[i].rated
    BY <1>2 DEF HeatPumps, ValidHeatPump
  <2> QED
    BY <2>1, <2>2, <2>3
<1> QED
  BY <1>3, <1>4

LEMMA BatteryFacts ==
  ASSUME SiteOK
  PROVE  /\ Len(site.batteries) \in Nat /\ Batteries = 1 .. Len(site.batteries)
         /\ \A i \in Batteries : site.batteries[i].charge \in Nat /\ site.batteries[i].discharge \in Nat
<1>1. site.batteries \in Seq(BatterySpecs)
  BY DEF SiteOK, SiteConfigs
<1>2. \A i \in DOMAIN site.batteries : ValidBattery(site.batteries[i])
  BY DEF SiteOK, ValidSite
<1>3. Len(site.batteries) \in Nat /\ Batteries = 1 .. Len(site.batteries)
  BY <1>1 DEF Batteries
<1>4. ASSUME NEW i \in Batteries
      PROVE  site.batteries[i].charge \in Nat /\ site.batteries[i].discharge \in Nat
  <2>1. site.batteries[i] \in BatterySpecs
    BY <1>1, <1>3
  <2>2. site.batteries[i].charge \in Int /\ site.batteries[i].discharge \in Int
    BY <2>1 DEF BatterySpecs
  <2>3. site.batteries[i].charge >= 0 /\ site.batteries[i].discharge >= 0
    BY <1>2 DEF Batteries, ValidBattery
  <2> QED
    BY <2>2, <2>3
<1> QED
  BY <1>3, <1>4

LEMMA InverterFacts ==
  ASSUME SiteOK
  PROVE  /\ Len(site.inverters) \in Nat /\ Inverters = 1 .. Len(site.inverters)
         /\ \A i \in Inverters : site.inverters[i] \in Nat
<1>1. site.inverters \in Seq(Nat)
  BY DEF SiteOK, SiteConfigs
<1> QED
  BY <1>1 DEF Inverters

LEMMA SiteNumbers ==
  ASSUME SiteOK
  PROVE  /\ site.pv_installed \in Nat \ {0} /\ site.connection \in Nat \ {0}
         /\ site.pv_ramp \in Nat \ {0} /\ site.margin \in Nat /\ site.min_dwell \in Nat
         /\ site.pv_follow_timeout \in Nat /\ site.patience \in Nat
         /\ site.deadline_guard \in Int /\ site.import_target \in Int
         /\ site.at_connection \in BOOLEAN
         /\ site.policy \in Policies /\ ValidPolicy(site.policy)
<1>1. /\ site.pv_installed \in Int /\ site.connection \in Int /\ site.pv_ramp \in Int
      /\ site.margin \in Int /\ site.min_dwell \in Int /\ site.pv_follow_timeout \in Int
      /\ site.deadline_guard \in Int /\ site.import_target \in Int
      /\ site.at_connection \in BOOLEAN /\ site.policy \in Policies
  BY DEF SiteOK, SiteConfigs
<1>2. /\ site.pv_installed > 0 /\ site.connection > 0 /\ site.pv_ramp > 0
      /\ site.margin >= 0 /\ site.min_dwell >= 0 /\ site.pv_follow_timeout >= 0
      /\ ValidPolicy(site.policy)
  BY DEF SiteOK, ValidSite
<1> QED
  BY <1>1, <1>2 DEF SiteOK

LEMMA FiniteDevices ==
  ASSUME SiteOK
  PROVE  /\ IsFiniteSet(Chargers) /\ IsFiniteSet(HeatPumps)
         /\ IsFiniteSet(Batteries) /\ IsFiniteSet(Inverters)
<1>1. \A n \in Nat : IsFiniteSet(1 .. n)
  BY FS_Interval
<1> QED
  BY <1>1, ChargerFacts, HeatPumpFacts, BatteryFacts, InverterFacts

LEMMA EnvFacts ==
  ASSUME NEW e \in EnvironmentsOf(site)
  PROVE  /\ e.dt \in Nat /\ e.base \in Int /\ e.sun \in Percent /\ e.sun_reported \in BOOLEAN
         /\ e.meter \in {"ok", "wrong", "off"} /\ e.dim \in BOOLEAN
         /\ e.feed_in \in Percent /\ e.emergency \in BOOLEAN /\ e.exhausted \in BOOLEAN
         /\ e.grid_plan \in OptInt /\ e.dim_expected \in BOOLEAN
         /\ \A i \in Inverters : e.inverters[i] \in {"ok", "stuck", "off"}
         /\ \A i \in Chargers : /\ e.cars[i].online \in BOOLEAN /\ e.cars[i].waiting \in BOOLEAN
                                /\ e.cars[i].laxity \in Int /\ e.cars[i].plan \in OptInt
         /\ \A i \in HeatPumps : /\ e.pumps[i].online \in BOOLEAN
                                 /\ e.pumps[i].demand \in Int /\ e.pumps[i].plan \in OptInt
         /\ \A i \in Batteries : /\ e.bats[i].online \in BOOLEAN
                                 /\ e.bats[i].below \in Nat /\ e.bats[i].above \in Nat
<1>1. /\ e.dt \in Nat /\ e.base \in Int /\ e.sun \in Percent /\ e.sun_reported \in BOOLEAN
      /\ e.meter \in {"ok", "wrong", "off"} /\ e.dim \in BOOLEAN
      /\ e.feed_in \in Percent /\ e.emergency \in BOOLEAN /\ e.exhausted \in BOOLEAN
      /\ e.grid_plan \in OptInt /\ e.dim_expected \in BOOLEAN
  BY DEF EnvironmentsOf
<1>2. /\ e.inverters \in [DOMAIN site.inverters -> {"ok", "stuck", "off"}]
      /\ e.cars \in [DOMAIN site.chargers ->
             [online : BOOLEAN, waiting : BOOLEAN, laxity : Int, plan : OptInt]]
      /\ e.pumps \in [DOMAIN site.heat_pumps -> [online : BOOLEAN, demand : Int, plan : OptInt]]
      /\ e.bats \in [DOMAIN site.batteries -> [online : BOOLEAN, below : Nat, above : Nat]]
  BY DEF EnvironmentsOf
<1>3. \A i \in Inverters : e.inverters[i] \in {"ok", "stuck", "off"}
  BY <1>2 DEF Inverters
<1>4. \A i \in Chargers : /\ e.cars[i].online \in BOOLEAN /\ e.cars[i].waiting \in BOOLEAN
                          /\ e.cars[i].laxity \in Int /\ e.cars[i].plan \in OptInt
  BY <1>2 DEF Chargers
<1>5. \A i \in HeatPumps : /\ e.pumps[i].online \in BOOLEAN
                           /\ e.pumps[i].demand \in Int /\ e.pumps[i].plan \in OptInt
  BY <1>2 DEF HeatPumps
<1>6. \A i \in Batteries : /\ e.bats[i].online \in BOOLEAN
                           /\ e.bats[i].below \in Nat /\ e.bats[i].above \in Nat
  BY <1>2 DEF Batteries
<1> QED
  BY <1>1, <1>3, <1>4, <1>5, <1>6

\* The choices of one number or another.
LEMMA LeastFacts ==
  ASSUME NEW x \in Int, NEW y \in Int
  PROVE  /\ Least(x, y) \in Int /\ Least(x, y) <= x /\ Least(x, y) <= y
         /\ Least(x, y) = x \/ Least(x, y) = y
BY DEF Least

LEMMA MostFacts ==
  ASSUME NEW x \in Int, NEW y \in Int
  PROVE  /\ Most(x, y) \in Int /\ Most(x, y) >= x /\ Most(x, y) >= y
         /\ Most(x, y) = x \/ Most(x, y) = y
BY DEF Most

LEMMA PositiveFacts ==
  ASSUME NEW x \in Int
  PROVE  Positive(x) \in Nat /\ Positive(x) >= x /\ (Positive(x) = x \/ Positive(x) = 0)
BY DEF Positive, Most

-----------------------------------------------------------------------------
\* The folds of the allocation, as the runs of their steps.

\* What holds at 0 and is kept up to n holds at n.
LEMMA UpTo ==
  ASSUME NEW n \in Nat, NEW P \in SUBSET (0 .. n), 0 \in P,
         \A k \in 1 .. n : k - 1 \in P => k \in P
  PROVE  n \in P
<1> DEFINE N == {k \in Nat : k <= n => k \in P}
<1>1. 0 \in N
  OBVIOUS
<1>2. \A k \in N : k + 1 \in N
  <2> SUFFICES ASSUME NEW k \in N, k + 1 <= n PROVE k + 1 \in P
    OBVIOUS
  <2>1. k \in Nat /\ k \in P
    OBVIOUS
  <2> DEFINE l == k + 1
  <2>2. l \in 1 .. n /\ l - 1 = k
    BY <2>1
  <2> HIDE DEF l
  <2>3. l \in P
    BY <2>1, <2>2
  <2> QED
    BY <2>3 DEF l
<1> HIDE DEF N
<1>3. N = Nat
  <2>1. N \in SUBSET Nat
    BY DEF N
  <2> QED
    BY <1>1, <1>2, <2>1, SetInduction
<1> QED
  BY <1>3 DEF N

\* The first k steps of a fold.
LEMMA FirstSteps ==
  ASSUME NEW n \in Nat
  PROVE  /\ \A k \in 0 .. n : 1 .. k \in SUBSET (1 .. n)
         /\ \A k \in 1 .. n : /\ 1 .. k # {} /\ Max(1 .. k) = k
                              /\ (1 .. k) \ {k} = 1 .. k - 1
         /\ 1 .. 0 = {}
<1>1. ASSUME NEW k \in 1 .. n
      PROVE  1 .. k # {} /\ Max(1 .. k) = k /\ (1 .. k) \ {k} = 1 .. k - 1
  <2>1. k \in Nat \ {0}
    OBVIOUS
  <2> QED
    BY <2>1, MaxOfPrefix
<1> QED
  BY <1>1

HeatPumpSequence == [i \in HeatPumps |-> i]

HeatShares == [heat : [HeatPumps -> Int], left : Int]

LEMMA GuaranteeType ==
  ASSUME SiteOK, NEW e \in EnvironmentsOf(site), NEW acc \in HeatShares, NEW i \in HeatPumps
  PROVE  Guarantee(e, acc, i) \in HeatShares
<1>1. acc.heat \in [HeatPumps -> Int] /\ acc.left \in Int
  BY DEF HeatShares
<1>2. Demand(e, i) \in Int
  BY HeatPumpFacts, EnvFacts DEF Demand, OrElse, OptInt, Least
<1> DEFINE g == AsModulated(i, Least(Least(Demand(e, i), (2 * site.heat_pumps[i].rated) \div 5), acc.left))
<1>3. g \in Int
  BY <1>1, <1>2, HeatPumpFacts DEF AsModulated, Least
<1> HIDE DEF g
<1>4. [heat |-> [acc.heat EXCEPT ![i] = g], left |-> acc.left - g] \in HeatShares
  BY <1>1, <1>3 DEF HeatShares
<1> QED
  BY <1>4 DEF Guarantee, g

LEMMA RaiseToDemandType ==
  ASSUME SiteOK, NEW e \in EnvironmentsOf(site), NEW acc \in HeatShares, NEW i \in HeatPumps
  PROVE  RaiseToDemand(e, acc, i) \in HeatShares
<1>1. acc.heat \in [HeatPumps -> Int] /\ acc.left \in Int
  BY DEF HeatShares
<1>2. Demand(e, i) \in Int
  BY HeatPumpFacts, EnvFacts DEF Demand, OrElse, OptInt, Least
<1> DEFINE extra == Least(Positive(Demand(e, i) - acc.heat[i]), acc.left)
           g == acc.heat[i] + extra
<1>3. g \in Int /\ extra \in Int
  BY <1>1, <1>2 DEF Least, Positive, Most
<1> HIDE DEF g, extra
<1>4. [heat |-> [acc.heat EXCEPT ![i] = g], left |-> acc.left - extra] \in HeatShares
  BY <1>1, <1>3 DEF HeatShares
<1> QED
  BY <1>4 DEF RaiseToDemand, g, extra

\* What the fold of Guarantee chooses, and its steps.
IsGuarantee(it, e, start) ==
  it = [s \in SUBSET (DOMAIN HeatPumpSequence) |->
          IF s = {} THEN start
          ELSE Guarantee(e, it[s \ {Max(s)}], HeatPumpSequence[Max(s)])]

GuaranteeRun(g, e, start, n) ==
  /\ g[0] = start
  /\ \A k \in 1 .. n : g[k] = Guarantee(e, g[k - 1], k)

LEMMA GuaranteeExists ==
  ASSUME SiteOK, NEW e \in EnvironmentsOf(site), NEW start \in HeatShares
  PROVE  \E it : IsGuarantee(it, e, start)
<1> DEFINE n == Len(site.heat_pumps)
           step == [p \in (1 .. n) \X HeatShares |-> Guarantee(e, p[2], p[1])]
<1>1. n \in Nat /\ DOMAIN HeatPumpSequence = 1 .. n /\ \A i \in 1 .. n : HeatPumpSequence[i] = i
  BY HeatPumpFacts DEF HeatPumpSequence
<1>2. step \in [(1 .. n) \X HeatShares -> HeatShares]
  <2> SUFFICES ASSUME NEW i \in 1 .. n, NEW a \in HeatShares PROVE Guarantee(e, a, i) \in HeatShares
    OBVIOUS
  <2> QED
    BY <1>1, GuaranteeType, HeatPumpFacts
<1>3. \A i \in 1 .. n, a \in HeatShares : step[<<i, a>>] = Guarantee(e, a, i)
  OBVIOUS
<1> HIDE DEF n, step
<1>4. PICK it : FoldsTo(it, n, HeatShares, start, step)
  BY <1>1, <1>2, FoldExists
<1>5. ASSUME NEW s \in SUBSET (1 .. n)
      PROVE  it[s] = IF s = {} THEN start
                     ELSE Guarantee(e, it[s \ {Max(s)}], HeatPumpSequence[Max(s)])
  <2>1. CASE s = {}
    BY <1>4, <2>1 DEF FoldsTo
  <2>2. CASE s # {}
    <3>1. Max(s) \in 1 .. n
      BY <1>1, <2>2, MaxIn
    <3>2. it[s \ {Max(s)}] \in HeatShares
      BY <1>4 DEF FoldsTo
    <3>3. it[s] = step[<<Max(s), it[s \ {Max(s)}]>>]
      BY <1>4, <2>2 DEF FoldsTo
    <3> QED
      BY <1>1, <1>3, <2>2, <3>1, <3>2, <3>3
  <2> QED
    BY <2>1, <2>2
<1>6. it \in [SUBSET (1 .. n) -> HeatShares]
  BY <1>4 DEF FoldsTo
<1>7. it = [s \in SUBSET (1 .. n) |->
              IF s = {} THEN start
              ELSE Guarantee(e, it[s \ {Max(s)}], HeatPumpSequence[Max(s)])]
  BY <1>5, <1>6
<1> QED
  BY <1>1, <1>7, ZenonT(30) DEF IsGuarantee

\* Whatever is chosen runs through the steps.
LEMMA GuaranteeSteps ==
  ASSUME SiteOK, NEW e \in EnvironmentsOf(site), NEW start \in HeatShares, NEW it, IsGuarantee(it, e, start)
  PROVE  \E g : GuaranteeRun(g, e, start, Len(site.heat_pumps)) /\ g[Len(site.heat_pumps)] = it[DOMAIN HeatPumpSequence]
<1> DEFINE n == Len(site.heat_pumps)
           g == [k \in 0 .. n |-> it[1 .. k]]
<1>1. n \in Nat /\ DOMAIN HeatPumpSequence = 1 .. n /\ \A i \in 1 .. n : HeatPumpSequence[i] = i
  BY HeatPumpFacts DEF HeatPumpSequence
<1> HIDE DEF n
<1>2. g[0] = start
  <2>1. it[1 .. 0] = start
    BY <1>1, FirstSteps DEF IsGuarantee
  <2> QED
    BY <1>1, <2>1
<1>3. ASSUME NEW k \in 1 .. n PROVE g[k] = Guarantee(e, g[k - 1], k)
  <2>1. 1 .. k \in SUBSET (1 .. n) /\ 1 .. k # {} /\ Max(1 .. k) = k /\ (1 .. k) \ {k} = 1 .. k - 1
    BY <1>1, FirstSteps
  <2> DEFINE s == 1 .. k
  <2>2. s \in SUBSET (DOMAIN HeatPumpSequence) /\ s # {}
    BY <1>1, <2>1
  <2> HIDE DEF s
  <2>3. it[s] = Guarantee(e, it[s \ {Max(s)}], HeatPumpSequence[Max(s)])
    BY <2>2 DEF IsGuarantee
  <2>4. it[1 .. k] = Guarantee(e, it[1 .. k - 1], k)
    BY <1>1, <2>1, <2>3 DEF s
  <2> QED
    BY <1>1, <2>4
<1>4. g[n] = it[DOMAIN HeatPumpSequence]
  BY <1>1
<1> HIDE DEF g
<1>5. GuaranteeRun(g, e, start, n)
  BY <1>2, <1>3 DEF GuaranteeRun
<1> QED
  BY <1>4, <1>5 DEF n

\* What the fold of RaiseToDemand chooses, and its steps.
IsRaiseToDemand(it, e, start) ==
  it = [s \in SUBSET (DOMAIN HeatPumpSequence) |->
          IF s = {} THEN start
          ELSE RaiseToDemand(e, it[s \ {Max(s)}], HeatPumpSequence[Max(s)])]

RaiseToDemandRun(g, e, start, n) ==
  /\ g[0] = start
  /\ \A k \in 1 .. n : g[k] = RaiseToDemand(e, g[k - 1], k)

LEMMA RaiseToDemandExists ==
  ASSUME SiteOK, NEW e \in EnvironmentsOf(site), NEW start \in HeatShares
  PROVE  \E it : IsRaiseToDemand(it, e, start)
<1> DEFINE n == Len(site.heat_pumps)
           step == [p \in (1 .. n) \X HeatShares |-> RaiseToDemand(e, p[2], p[1])]
<1>1. n \in Nat /\ DOMAIN HeatPumpSequence = 1 .. n /\ \A i \in 1 .. n : HeatPumpSequence[i] = i
  BY HeatPumpFacts DEF HeatPumpSequence
<1>2. step \in [(1 .. n) \X HeatShares -> HeatShares]
  <2> SUFFICES ASSUME NEW i \in 1 .. n, NEW a \in HeatShares PROVE RaiseToDemand(e, a, i) \in HeatShares
    OBVIOUS
  <2> QED
    BY <1>1, RaiseToDemandType, HeatPumpFacts
<1>3. \A i \in 1 .. n, a \in HeatShares : step[<<i, a>>] = RaiseToDemand(e, a, i)
  OBVIOUS
<1> HIDE DEF n, step
<1>4. PICK it : FoldsTo(it, n, HeatShares, start, step)
  BY <1>1, <1>2, FoldExists
<1>5. ASSUME NEW s \in SUBSET (1 .. n)
      PROVE  it[s] = IF s = {} THEN start
                     ELSE RaiseToDemand(e, it[s \ {Max(s)}], HeatPumpSequence[Max(s)])
  <2>1. CASE s = {}
    BY <1>4, <2>1 DEF FoldsTo
  <2>2. CASE s # {}
    <3>1. Max(s) \in 1 .. n
      BY <1>1, <2>2, MaxIn
    <3>2. it[s \ {Max(s)}] \in HeatShares
      BY <1>4 DEF FoldsTo
    <3>3. it[s] = step[<<Max(s), it[s \ {Max(s)}]>>]
      BY <1>4, <2>2 DEF FoldsTo
    <3> QED
      BY <1>1, <1>3, <2>2, <3>1, <3>2, <3>3
  <2> QED
    BY <2>1, <2>2
<1>6. it \in [SUBSET (1 .. n) -> HeatShares]
  BY <1>4 DEF FoldsTo
<1>7. it = [s \in SUBSET (1 .. n) |->
              IF s = {} THEN start
              ELSE RaiseToDemand(e, it[s \ {Max(s)}], HeatPumpSequence[Max(s)])]
  BY <1>5, <1>6
<1> QED
  BY <1>1, <1>7, ZenonT(30) DEF IsRaiseToDemand

\* Whatever is chosen runs through the steps.
LEMMA RaiseToDemandSteps ==
  ASSUME SiteOK, NEW e \in EnvironmentsOf(site), NEW start \in HeatShares, NEW it, IsRaiseToDemand(it, e, start)
  PROVE  \E g : RaiseToDemandRun(g, e, start, Len(site.heat_pumps)) /\ g[Len(site.heat_pumps)] = it[DOMAIN HeatPumpSequence]
<1> DEFINE n == Len(site.heat_pumps)
           g == [k \in 0 .. n |-> it[1 .. k]]
<1>1. n \in Nat /\ DOMAIN HeatPumpSequence = 1 .. n /\ \A i \in 1 .. n : HeatPumpSequence[i] = i
  BY HeatPumpFacts DEF HeatPumpSequence
<1> HIDE DEF n
<1>2. g[0] = start
  <2>1. it[1 .. 0] = start
    BY <1>1, FirstSteps DEF IsRaiseToDemand
  <2> QED
    BY <1>1, <2>1
<1>3. ASSUME NEW k \in 1 .. n PROVE g[k] = RaiseToDemand(e, g[k - 1], k)
  <2>1. 1 .. k \in SUBSET (1 .. n) /\ 1 .. k # {} /\ Max(1 .. k) = k /\ (1 .. k) \ {k} = 1 .. k - 1
    BY <1>1, FirstSteps
  <2> DEFINE s == 1 .. k
  <2>2. s \in SUBSET (DOMAIN HeatPumpSequence) /\ s # {}
    BY <1>1, <2>1
  <2> HIDE DEF s
  <2>3. it[s] = RaiseToDemand(e, it[s \ {Max(s)}], HeatPumpSequence[Max(s)])
    BY <2>2 DEF IsRaiseToDemand
  <2>4. it[1 .. k] = RaiseToDemand(e, it[1 .. k - 1], k)
    BY <1>1, <2>1, <2>3 DEF s
  <2> QED
    BY <1>1, <2>4
<1>4. g[n] = it[DOMAIN HeatPumpSequence]
  BY <1>1
<1> HIDE DEF g
<1>5. RaiseToDemandRun(g, e, start, n)
  BY <1>2, <1>3 DEF RaiseToDemandRun
<1> QED
  BY <1>4, <1>5 DEF n

AllRated == [i \in HeatPumps |-> site.heat_pumps[i].rated]

LEMMA HeatGuaranteedRuns ==
  ASSUME SiteOK, NEW e \in EnvironmentsOf(site), NEW left \in Int
  PROVE  \E g : /\ GuaranteeRun(g, e, [heat |-> AllRated, left |-> left], Len(site.heat_pumps))
                /\ HeatGuaranteed(e, left) = g[Len(site.heat_pumps)]
<1> DEFINE start == [heat |-> AllRated, left |-> left]
           it == CHOOSE it : IsGuarantee(it, e, start)
<1>1. start \in HeatShares
  BY HeatPumpFacts DEF HeatShares, AllRated
<1>2. IsGuarantee(it, e, start)
  <2>1. \E h : IsGuarantee(h, e, start)
    BY <1>1, GuaranteeExists
  <2> QED
    BY <2>1, Zenon
<1>3. HeatGuaranteed(e, left) = it[DOMAIN HeatPumpSequence]
  BY DEF HeatGuaranteed, FoldLeft, MapThenFoldSet, IsGuarantee, HeatPumpSequence, AllRated
<1> HIDE DEF start, it
<1>4. \E g : /\ GuaranteeRun(g, e, start, Len(site.heat_pumps))
             /\ g[Len(site.heat_pumps)] = it[DOMAIN HeatPumpSequence]
  BY <1>1, <1>2, GuaranteeSteps
<1> QED
  BY <1>3, <1>4 DEF start

LEMMA HeatToppedUpRuns ==
  ASSUME SiteOK, NEW e \in EnvironmentsOf(site), NEW start \in HeatShares
  PROVE  \E g : /\ RaiseToDemandRun(g, e, start, Len(site.heat_pumps))
                /\ HeatToppedUp(e, start) = g[Len(site.heat_pumps)]
<1> DEFINE it == CHOOSE it : IsRaiseToDemand(it, e, start)
<1>1. IsRaiseToDemand(it, e, start)
  <2>1. \E h : IsRaiseToDemand(h, e, start)
    BY RaiseToDemandExists
  <2> QED
    BY <2>1, Zenon
<1>2. HeatToppedUp(e, start) = it[DOMAIN HeatPumpSequence]
  BY DEF HeatToppedUp, FoldLeft, MapThenFoldSet, IsRaiseToDemand, HeatPumpSequence
<1> HIDE DEF it
<1>3. \E g : /\ RaiseToDemandRun(g, e, start, Len(site.heat_pumps))
             /\ g[Len(site.heat_pumps)] = it[DOMAIN HeatPumpSequence]
  BY <1>1, RaiseToDemandSteps
<1> QED
  BY <1>2, <1>3

-----------------------------------------------------------------------------
\* What the heat pumps get.

\* What a map grants to a set of devices.
Taken(h, S) == SumFunction([i \in S |-> h[i]])

LEMMA TakenInt ==
  ASSUME NEW D, NEW h \in [D -> Int], NEW S \in SUBSET D, IsFiniteSet(S)
  PROVE  Taken(h, S) \in Int
<1> DEFINE f == [i \in S |-> h[i]]
<1>1. f \in [S -> Int]
  OBVIOUS
<1> HIDE DEF f
<1>2. SumFunction(f) \in Int
  BY <1>1, SumInt
<1> QED
  BY <1>2 DEF Taken, f

LEMMA TakenNat ==
  ASSUME NEW D, NEW h \in [D -> Int], NEW S \in SUBSET D, IsFiniteSet(S), \A i \in S : h[i] >= 0
  PROVE  Taken(h, S) \in Nat
<1> DEFINE f == [i \in S |-> h[i]]
<1>1. f \in [S -> Int] /\ \A i \in S : f[i] >= 0
  OBVIOUS
<1> HIDE DEF f
<1>2. SumFunction(f) \in Nat
  BY <1>1, SumNat
<1> QED
  BY <1>2 DEF Taken, f

LEMMA TakenMore ==
  ASSUME NEW D, NEW h \in [D -> Int], NEW S \in SUBSET D, IsFiniteSet(S), NEW x \in D \ S
  PROVE  Taken(h, S \cup {x}) = h[x] + Taken(h, S)
<1> DEFINE f == [i \in S \cup {x} |-> h[i]]
           g == [i \in S |-> h[i]]
<1>1. f \in [S \cup {x} -> Int] /\ g \in [S -> Int] /\ (\A i \in S : g[i] = f[i]) /\ f[x] = h[x]
  OBVIOUS
<1> HIDE DEF f, g
<1>2. SumFunction(f) = f[x] + SumFunction(g)
  BY <1>1, SumMore
<1> QED
  BY <1>1, <1>2 DEF Taken, f, g

LEMMA TakenSame ==
  ASSUME NEW S, NEW h, NEW k, \A i \in S : h[i] = k[i]
  PROVE  Taken(h, S) = Taken(k, S)
<1>1. [i \in S |-> h[i]] = [i \in S |-> k[i]]
  OBVIOUS
<1> QED
  BY <1>1 DEF Taken

LEMMA TakenChange ==
  ASSUME NEW D, NEW h \in [D -> Int], NEW k \in [D -> Int], NEW S \in SUBSET D, IsFiniteSet(S),
         NEW x \in S, \A i \in S \ {x} : k[i] = h[i]
  PROVE  Taken(k, S) = Taken(h, S) - h[x] + k[x]
<1> DEFINE f == [i \in S |-> h[i]]
           g == [i \in S |-> k[i]]
<1>1. f \in [S -> Int] /\ g \in [S -> Int] /\ (\A i \in S \ {x} : g[i] = f[i]) /\ f[x] = h[x] /\ g[x] = k[x]
  OBVIOUS
<1> HIDE DEF f, g
<1>2. SumFunction(g) = SumFunction(f) - f[x] + g[x]
  BY <1>1, SumChange
<1> QED
  BY <1>1, <1>2 DEF Taken, f, g

LEMMA TakenNone ==
  ASSUME NEW h
  PROVE  Taken(h, {}) = 0
<1> DEFINE f == [i \in {} |-> h[i]]
<1>1. DOMAIN f = {}
  OBVIOUS
<1> HIDE DEF f
<1>2. SumFunction(f) = 0
  BY <1>1, SumEmpty
<1> QED
  BY <1>2 DEF Taken, f

\* The heat pumps that share the budget.
OwnPumps == {i \in HeatPumps : ~Exempt(site.heat_pumps[i])}

LEMMA OwnPumpsFinite ==
  ASSUME SiteOK, NEW S \in SUBSET OwnPumps
  PROVE  IsFiniteSet(S) /\ S \in SUBSET HeatPumps
<1>1. S \in SUBSET HeatPumps
  BY DEF OwnPumps
<1> QED
  BY <1>1, FiniteDevices, FS_Subset

\* A limit each heat pump can follow.
CanRun(i, w) == w = 0 \/ w \in site.heat_pumps[i].min .. site.heat_pumps[i].rated

PumpsCanRun(heat) == heat \in [HeatPumps -> Int] /\ \A i \in HeatPumps : CanRun(i, heat[i])

\* After k heat pumps of the first loop.
GuaranteedSoFar(acc, left, k) ==
  /\ PumpsCanRun(acc.heat)
  /\ acc.left \in Nat
  /\ acc.left + Taken(acc.heat, {i \in OwnPumps : i <= k}) = left

LEMMA GuaranteeKeeps ==
  ASSUME SiteOK, NEW e \in EnvironmentsOf(site), NEW left \in Nat, NEW k \in HeatPumps,
         NEW acc, GuaranteedSoFar(acc, left, k - 1)
  PROVE  GuaranteedSoFar(Guarantee(e, acc, k), left, k)
<1> DEFINE S == {i \in OwnPumps : i <= k - 1}
           T == {i \in OwnPumps : i <= k}
           g == AsModulated(k, Least(Least(Demand(e, k), (2 * site.heat_pumps[k].rated) \div 5), acc.left))
           new == [heat |-> [acc.heat EXCEPT ![k] = g], left |-> acc.left - g]
<1>1. acc.heat \in [HeatPumps -> Int] /\ acc.left \in Nat /\ acc.left + Taken(acc.heat, S) = left
  BY DEF GuaranteedSoFar, PumpsCanRun
<1>a. \A i \in HeatPumps : CanRun(i, acc.heat[i])
  BY DEF GuaranteedSoFar, PumpsCanRun
<1>0. S \in SUBSET HeatPumps /\ IsFiniteSet(S)
  BY OwnPumpsFinite
<1>b. \A i \in HeatPumps : i \in Nat
  BY HeatPumpFacts
<1>2. CASE Exempt(site.heat_pumps[k])
  <2>1. T = S
    BY <1>2, <1>b DEF OwnPumps
  <2>2. Guarantee(e, acc, k) = acc
    BY <1>2 DEF Guarantee
  <2>3. GuaranteedSoFar(acc, left, k)
    BY <1>1, <1>a, <2>1 DEF GuaranteedSoFar, PumpsCanRun
  <2> QED
    BY <2>2, <2>3
<1>3. CASE ~Exempt(site.heat_pumps[k])
  <2>1. T = S \cup {k} /\ k \in HeatPumps \ S
    BY <1>3, <1>b DEF OwnPumps
  <2>2. Guarantee(e, acc, k) = new
    BY <1>3 DEF Guarantee
  <2>3. Demand(e, k) \in Int
    BY HeatPumpFacts, EnvFacts DEF Demand, OrElse, OptInt, Least
  <2>4. g \in Int /\ g >= 0 /\ g <= acc.left /\ CanRun(k, g)
    <3>1. /\ site.heat_pumps[k].rated \in Nat
          /\ site.heat_pumps[k].min \in 0 .. site.heat_pumps[k].rated
      BY HeatPumpFacts
    <3> DEFINE share == (2 * site.heat_pumps[k].rated) \div 5
               w == Least(Least(Demand(e, k), share), acc.left)
    <3>2. share \in Int /\ share <= site.heat_pumps[k].rated
      BY <3>1
    <3> HIDE DEF share
    <3>3. w \in Int /\ w <= share /\ w <= acc.left
      BY <1>1, <2>3, <3>2 DEF Least
    <3> HIDE DEF w
    <3>4. g = IF w < site.heat_pumps[k].min THEN 0 ELSE w
      BY DEF AsModulated, w, share
    <3> HIDE DEF g
    <3> QED
      BY <1>1, <3>1, <3>2, <3>3, <3>4 DEF CanRun
  <2> DEFINE heat == [acc.heat EXCEPT ![k] = g]
  <2>5. new.heat = heat /\ new.left = acc.left - g
    OBVIOUS
  <2>6. heat \in [HeatPumps -> Int] /\ heat[k] = g /\ \A i \in S : heat[i] = acc.heat[i]
    BY <1>1, <2>1, <2>4
  <2>c. \A i \in HeatPumps : CanRun(i, heat[i])
    BY <1>1, <1>a, <2>4
  <2> HIDE DEF S, T, new, g, heat
  <2>7. Taken(heat, S \cup {k}) = heat[k] + Taken(heat, S)
    BY <1>0, <2>1, <2>6, TakenMore
  <2>8. Taken(heat, S) = Taken(acc.heat, S)
    BY <2>6, TakenSame
  <2>9. Taken(acc.heat, S) \in Int
    BY <1>0, <1>1, TakenInt
  <2>10. (acc.left - g) + Taken(heat, T) = left /\ acc.left - g \in Nat
    BY <1>1, <2>1, <2>4, <2>6, <2>7, <2>8, <2>9
  <2>11. GuaranteedSoFar(new, left, k)
    BY <2>5, <2>6, <2>c, <2>10 DEF GuaranteedSoFar, PumpsCanRun, T
  <2> QED
    BY <2>2, <2>11
<1> QED
  BY <1>2, <1>3

\* What is left after both loops, and what it was spent on.
HeatIsShared(s, left) ==
  /\ PumpsCanRun(s.heat)
  /\ s.left \in Nat
  /\ s.left + Taken(s.heat, OwnPumps) = left

LEMMA HeatGuaranteedKeeps ==
  ASSUME SiteOK, NEW e \in EnvironmentsOf(site), NEW left \in Nat
  PROVE  /\ HeatIsShared(HeatGuaranteed(e, left), left)
         /\ HeatGuaranteed(e, left) \in HeatShares
<1> DEFINE n == Len(site.heat_pumps)
           start == [heat |-> AllRated, left |-> left]
<1>1. n \in Nat /\ HeatPumps = 1 .. n
  BY HeatPumpFacts
<1>2. PICK g : GuaranteeRun(g, e, start, n) /\ HeatGuaranteed(e, left) = g[n]
  BY HeatGuaranteedRuns
<1> DEFINE P == {k \in 0 .. n : GuaranteedSoFar(g[k], left, k) /\ g[k] \in HeatShares}
<1>3. 0 \in P
  <2>1. g[0] = start
    BY <1>2 DEF GuaranteeRun
  <2>2. {i \in OwnPumps : i <= 0} = {}
    BY <1>1 DEF OwnPumps
  <2>3. Taken(AllRated, {}) = 0
    BY TakenNone
  <2>4. PumpsCanRun(AllRated) /\ AllRated \in [HeatPumps -> Int]
    BY HeatPumpFacts DEF PumpsCanRun, CanRun, AllRated
  <2>5. start.heat = AllRated /\ start.left = left
    OBVIOUS
  <2>6. GuaranteedSoFar(start, left, 0)
    BY <2>2, <2>3, <2>4, <2>5 DEF GuaranteedSoFar
  <2>7. start \in HeatShares
    BY <2>4 DEF HeatShares
  <2> HIDE DEF start
  <2> QED
    BY <1>1, <2>1, <2>6, <2>7
<1> HIDE DEF n, start
<1>4. \A k \in 1 .. n : k - 1 \in P => k \in P
  <2> SUFFICES ASSUME NEW k \in 1 .. n, k - 1 \in P PROVE k \in P
    OBVIOUS
  <2>1. g[k] = Guarantee(e, g[k - 1], k)
    BY <1>2 DEF GuaranteeRun
  <2>2. GuaranteedSoFar(g[k - 1], left, k - 1) /\ g[k - 1] \in HeatShares /\ k \in HeatPumps
    BY <1>1
  <2>3. GuaranteedSoFar(g[k], left, k) /\ g[k] \in HeatShares
    BY <2>1, <2>2, GuaranteeKeeps, GuaranteeType
  <2> QED
    BY <1>1, <2>3
<1>5. n \in P
  <2>1. P \in SUBSET (0 .. n)
    OBVIOUS
  <2> HIDE DEF P
  <2> QED
    BY <1>1, <1>3, <1>4, <2>1, UpTo
<1>6. {i \in OwnPumps : i <= n} = OwnPumps
  BY <1>1 DEF OwnPumps
<1> QED
  BY <1>2, <1>5, <1>6 DEF GuaranteedSoFar, HeatIsShared

LEMMA RaiseToDemandKeeps ==
  ASSUME SiteOK, NEW e \in EnvironmentsOf(site), NEW left \in Int, NEW k \in HeatPumps,
         NEW acc, HeatIsShared(acc, left)
  PROVE  HeatIsShared(RaiseToDemand(e, acc, k), left)
<1> DEFINE extra == Least(Positive(Demand(e, k) - acc.heat[k]), acc.left)
           g == acc.heat[k] + extra
           heat == [acc.heat EXCEPT ![k] = g]
           new == [heat |-> heat, left |-> acc.left - extra]
<1>1. acc.heat \in [HeatPumps -> Int] /\ acc.left \in Nat /\ acc.left + Taken(acc.heat, OwnPumps) = left
  BY DEF HeatIsShared, PumpsCanRun
<1>2. \A i \in HeatPumps : CanRun(i, acc.heat[i])
  BY DEF HeatIsShared, PumpsCanRun
<1>3. CASE Exempt(site.heat_pumps[k]) \/ g < site.heat_pumps[k].min
  BY <1>3 DEF RaiseToDemand
<1>4. CASE ~(Exempt(site.heat_pumps[k]) \/ g < site.heat_pumps[k].min)
  <2>1. RaiseToDemand(e, acc, k) = new
    BY <1>4 DEF RaiseToDemand
  <2>2. /\ site.heat_pumps[k].rated \in Nat
        /\ site.heat_pumps[k].min \in 0 .. site.heat_pumps[k].rated
    BY HeatPumpFacts
  <2>3. Demand(e, k) \in Int /\ Demand(e, k) <= site.heat_pumps[k].rated
    BY <2>2, EnvFacts DEF Demand, OrElse, OptInt, Least
  <2>4. extra \in Nat /\ extra <= acc.left /\ g \in Int /\ CanRun(k, g)
    <3>1. acc.heat[k] \in Int /\ (acc.heat[k] = 0 \/ acc.heat[k] \in site.heat_pumps[k].min .. site.heat_pumps[k].rated)
      BY <1>1, <1>2 DEF CanRun
    <3>2. extra \in Nat /\ extra <= acc.left /\ (extra = 0 \/ acc.heat[k] + extra <= Demand(e, k))
      BY <1>1, <2>3, <3>1 DEF Least, Positive, Most
    <3> HIDE DEF extra
    <3>3. g >= site.heat_pumps[k].min /\ g \in Int
      BY <1>4, <2>2, <3>1, <3>2
    <3> QED
      BY <2>2, <2>3, <3>1, <3>2, <3>3 DEF CanRun
  <2>5. heat \in [HeatPumps -> Int] /\ heat[k] = g /\ (\A i \in OwnPumps \ {k} : heat[i] = acc.heat[i])
    BY <1>1, <2>4 DEF OwnPumps
  <2>6. \A i \in HeatPumps : CanRun(i, heat[i])
    BY <1>1, <1>2, <2>4
  <2>7. k \in OwnPumps /\ OwnPumps \in SUBSET HeatPumps /\ IsFiniteSet(OwnPumps)
    BY <1>4, OwnPumpsFinite DEF OwnPumps
  <2>8. new.heat = heat /\ new.left = acc.left - extra
    OBVIOUS
  <2>9. g = acc.heat[k] + extra /\ acc.heat[k] \in Int
    BY <1>1
  <2> HIDE DEF heat, new, g, extra
  <2>10. Taken(heat, OwnPumps) = Taken(acc.heat, OwnPumps) - acc.heat[k] + heat[k]
    BY <1>1, <2>5, <2>7, TakenChange
  <2>11. Taken(acc.heat, OwnPumps) \in Int
    BY <1>1, <2>7, TakenInt
  <2>12. (acc.left - extra) + Taken(heat, OwnPumps) = left /\ acc.left - extra \in Nat
    BY <1>1, <2>4, <2>5, <2>9, <2>10, <2>11
  <2>13. HeatIsShared(new, left)
    BY <2>5, <2>6, <2>8, <2>12 DEF HeatIsShared, PumpsCanRun
  <2> QED
    BY <2>1, <2>13
<1> QED
  BY <1>3, <1>4

LEMMA HeatToppedUpKeeps ==
  ASSUME SiteOK, NEW e \in EnvironmentsOf(site), NEW left \in Int,
         NEW start \in HeatShares, HeatIsShared(start, left)
  PROVE  HeatIsShared(HeatToppedUp(e, start), left)
<1> DEFINE n == Len(site.heat_pumps)
<1>1. n \in Nat /\ HeatPumps = 1 .. n
  BY HeatPumpFacts
<1>2. PICK g : RaiseToDemandRun(g, e, start, n) /\ HeatToppedUp(e, start) = g[n]
  BY HeatToppedUpRuns
<1> HIDE DEF n
<1> DEFINE P == {k \in 0 .. n : HeatIsShared(g[k], left)}
<1>3. 0 \in P
  BY <1>1, <1>2 DEF RaiseToDemandRun
<1>4. \A k \in 1 .. n : k - 1 \in P => k \in P
  <2> SUFFICES ASSUME NEW k \in 1 .. n, k - 1 \in P PROVE k \in P
    OBVIOUS
  <2>1. g[k] = RaiseToDemand(e, g[k - 1], k)
    BY <1>2 DEF RaiseToDemandRun
  <2>2. HeatIsShared(g[k - 1], left) /\ k \in HeatPumps
    BY <1>1
  <2>3. HeatIsShared(g[k], left)
    BY <2>1, <2>2, RaiseToDemandKeeps
  <2> QED
    BY <1>1, <2>3
<1>5. n \in P
  <2>1. P \in SUBSET (0 .. n)
    OBVIOUS
  <2> HIDE DEF P
  <2> QED
    BY <1>1, <1>3, <1>4, <2>1, UpTo
<1> QED
  BY <1>2, <1>5

-----------------------------------------------------------------------------
\* Which cars get their turn.

LEMMA CapFacts ==
  ASSUME SiteOK, NEW e \in EnvironmentsOf(site), NEW i \in Chargers
  PROVE  CapA(e, i) = 0 \/ CapA(e, i) \in EvMinCurrentA .. site.chargers[i].max
<1> DEFINE plan == e.cars[i].plan
           max == site.chargers[i].max
<1>1. plan \in OptInt /\ max \in EvMinCurrentA .. 63
  BY ChargerFacts, EnvFacts
<1>2. CASE plan = None \/ e.cars[i].laxity <= site.deadline_guard
  <2>1. CapA(e, i) = max
    BY <1>2 DEF CapA
  <2> HIDE DEF max
  <2> QED
    BY <1>1, <2>1 DEF EvMinCurrentA, max
<1>3. CASE ~(plan = None \/ e.cars[i].laxity <= site.deadline_guard)
  <2>1. CapA(e, i) = IF 2 * plan < ThreePhaseW(EvMinCurrentA) THEN 0
                     ELSE Clamp((2 * plan + 690) \div 1380, EvMinCurrentA, max)
    BY <1>3 DEF CapA
  <2>2. plan \in Int
    BY <1>1, <1>3 DEF OptInt
  <2> DEFINE x == (2 * plan + 690) \div 1380
  <2>3. x \in Int
    BY <2>2
  <2> HIDE DEF plan, max, x
  <2>4. Clamp(x, EvMinCurrentA, max) \in EvMinCurrentA .. max
    BY <1>1, <2>3 DEF Clamp, Least, Most, EvMinCurrentA
  <2> QED
    BY <2>1, <2>4 DEF x, max
<1> QED
  BY <1>2, <1>3

LEMMA SharingFacts ==
  ASSUME SiteOK, NEW e \in EnvironmentsOf(site)
  PROVE  /\ Sharing(e) \in SUBSET Chargers /\ IsFiniteSet(Sharing(e))
         /\ Cardinality(Sharing(e)) \in Nat
         /\ \A i \in Sharing(e) : CapA(e, i) \in EvMinCurrentA .. site.chargers[i].max
<1>1. Sharing(e) \in SUBSET Chargers
  BY DEF Sharing, Waiting
<1>2. IsFiniteSet(Sharing(e)) /\ Cardinality(Sharing(e)) \in Nat
  BY <1>1, FiniteDevices, FS_Subset, FS_CardinalityType
<1>3. ASSUME NEW i \in Sharing(e) PROVE CapA(e, i) \in EvMinCurrentA .. site.chargers[i].max
  <2>1. i \in Chargers /\ CapA(e, i) > 0
    BY DEF Sharing, Waiting
  <2>2. CapA(e, i) = 0 \/ CapA(e, i) \in EvMinCurrentA .. site.chargers[i].max
    BY <2>1, CapFacts
  <2> QED
    BY <2>1, <2>2
<1> QED
  BY <1>1, <1>2, <1>3

\* What the order reads of the state.
ChargersOK ==
  /\ charger_on \in [Chargers -> BOOLEAN]
  /\ switched_age \in [Chargers -> 0 .. site.min_dwell]
  /\ session \in [Chargers -> 0 .. site.patience + 2]

LEMMA RankFacts ==
  ASSUME SiteOK, ChargersOK, NEW i \in Chargers, NEW dt \in Nat
  PROVE  Rank(i, dt) \in 0 .. 2
BY DEF Rank

LEMMA BeforeOrders ==
  ASSUME SiteOK, ChargersOK, NEW e \in EnvironmentsOf(site)
  PROVE  /\ \A i \in Chargers : ~Before(e, i, i)
         /\ \A i, j \in Chargers : i # j => Before(e, i, j) \/ Before(e, j, i)
         /\ \A i, j, k \in Chargers : Before(e, i, j) /\ Before(e, j, k) => Before(e, i, k)
<1> DEFINE R(i) == Rank(i, e.dt)
           X(i) == e.cars[i].laxity
           K(i) == session[i]
<1>1. \A i \in Chargers : R(i) \in Int /\ X(i) \in Int /\ K(i) \in Int /\ i \in Int
  <2> SUFFICES ASSUME NEW i \in Chargers PROVE R(i) \in Int /\ X(i) \in Int /\ K(i) \in Int /\ i \in Int
    OBVIOUS
  <2>1. R(i) \in Int
    BY RankFacts, EnvFacts
  <2>2. X(i) \in Int
    BY EnvFacts
  <2>3. K(i) \in Int
    BY DEF ChargersOK
  <2>4. i \in Int
    BY ChargerFacts
  <2> QED
    BY <2>1, <2>2, <2>3, <2>4
<1>2. \A i, j \in Chargers : Before(e, i, j) <=>
        \/ R(i) < R(j)
        \/ R(i) = R(j) /\ X(i) < X(j)
        \/ R(i) = R(j) /\ X(i) = X(j) /\ K(i) < K(j)
        \/ R(i) = R(j) /\ X(i) = X(j) /\ K(i) = K(j) /\ i < j
  BY DEF Before
<1> HIDE DEF R, X, K
<1>3. \A i \in Chargers : ~Before(e, i, i)
  BY <1>1, <1>2
<1>4. \A i, j \in Chargers : i # j => Before(e, i, j) \/ Before(e, j, i)
  BY <1>1, <1>2
<1>5. \A i, j, k \in Chargers : Before(e, i, j) /\ Before(e, j, k) => Before(e, i, k)
  <2> SUFFICES ASSUME NEW i \in Chargers, NEW j \in Chargers, NEW k \in Chargers,
                      Before(e, i, j), Before(e, j, k)
               PROVE  Before(e, i, k)
    OBVIOUS
  <2> QED
    BY <1>1, <1>2
<1> QED
  BY <1>3, <1>4, <1>5

\* Among some chargers one comes last.
LEMMA LastOne ==
  ASSUME SiteOK, ChargersOK, NEW e \in EnvironmentsOf(site), NEW S \in SUBSET Chargers, S # {}
  PROVE  \E m \in S : \A i \in S \ {m} : Before(e, i, m)
<1> DEFINE P == {t \in SUBSET S : t # {} => \E m \in t : \A i \in t \ {m} : Before(e, i, m)}
<1>1. {} \in P
  OBVIOUS
<1>2. \A t \in P, x \in S : x \notin t => t \cup {x} \in P
  <2> SUFFICES ASSUME NEW t \in P, NEW x \in S, x \notin t
               PROVE  \E m \in t \cup {x} : \A i \in (t \cup {x}) \ {m} : Before(e, i, m)
    OBVIOUS
  <2>1. CASE t = {}
    BY <2>1
  <2>2. CASE t # {}
    <3>1. PICK m \in t : \A i \in t \ {m} : Before(e, i, m)
      BY <2>2
    <3>2. t \subseteq Chargers /\ x \in Chargers /\ m \in Chargers /\ x # m
      BY <3>1
    <3>3. CASE Before(e, x, m)
      BY <3>1, <3>3
    <3>4. CASE Before(e, m, x)
      <4>1. \A i \in t : Before(e, i, x)
        <5> SUFFICES ASSUME NEW i \in t PROVE Before(e, i, x)
          OBVIOUS
        <5>1. CASE i = m
          BY <3>4, <5>1
        <5>2. CASE i # m
          BY <3>1, <3>2, <3>4, <5>2, BeforeOrders
        <5> QED
          BY <5>1, <5>2
      <4> QED
        BY <4>1
    <3> QED
      BY <3>2, <3>3, <3>4, BeforeOrders
  <2> QED
    BY <2>1, <2>2
<1>3. IsFiniteSet(S)
  BY FiniteDevices, FS_Subset
<1> HIDE DEF P
<1>4. P \in SUBSET SUBSET S
  BY DEF P
<1>5. S \in P
  BY <1>1, <1>2, <1>3, <1>4, SubsetInduction
<1> QED
  BY <1>5 DEF P

Sorts(e, o, S, n) ==
  o \in [1 .. n -> S] /\ \A j, k \in 1 .. n : j < k => Before(e, o[j], o[k])

LEMMA OrderExists ==
  ASSUME SiteOK, ChargersOK, NEW e \in EnvironmentsOf(site)
  PROVE  \E o : Sorts(e, o, Sharing(e), Cardinality(Sharing(e)))
<1> DEFINE N == {n \in Nat : \A S \in SUBSET Chargers :
                   Cardinality(S) = n => \E o : Sorts(e, o, S, n)}
<1>1. 0 \in N
  <2> SUFFICES ASSUME NEW S \in SUBSET Chargers PROVE \E o : Sorts(e, o, S, 0)
    OBVIOUS
  <2> DEFINE o == [k \in 1 .. 0 |-> k]
  <2>1. 1 .. 0 = {}
    OBVIOUS
  <2>2. Sorts(e, o, S, 0)
    BY <2>1 DEF Sorts
  <2> HIDE DEF o
  <2> QED
    BY <2>2
<1>2. \A n \in N : n + 1 \in N
  <2> SUFFICES ASSUME NEW n \in N, NEW S \in SUBSET Chargers, Cardinality(S) = n + 1
               PROVE  \E o : Sorts(e, o, S, n + 1)
    OBVIOUS
  <2>0. n \in Nat /\ IsFiniteSet(S)
    BY FiniteDevices, FS_Subset
  <2>1. S # {}
    BY <2>0, FS_EmptySet
  <2>2. PICK m \in S : \A i \in S \ {m} : Before(e, i, m)
    BY <2>1, LastOne
  <2>3. Cardinality(S \ {m}) = n
    <3>1. Cardinality(S \ {m}) = Cardinality(S) - 1
      BY <2>0, FS_RemoveElement
    <3> HIDE DEF N
    <3> QED
      BY <2>0, <3>1
  <2>4. PICK o : Sorts(e, o, S \ {m}, n)
    <3>1. S \ {m} \in SUBSET Chargers
      OBVIOUS
    <3> QED
      BY <2>3, <3>1
  <2> DEFINE up == [k \in 1 .. n + 1 |-> IF k <= n THEN o[k] ELSE m]
  <2> HIDE DEF N
  <2>5. \A k \in 1 .. n : o[k] \in S \ {m}
    BY <2>4 DEF Sorts
  <2>6. up \in [1 .. n + 1 -> S]
    BY <2>0, <2>5
  <2>7. ASSUME NEW j \in 1 .. n + 1, NEW k \in 1 .. n + 1, j < k PROVE Before(e, up[j], up[k])
    <3>1. j \in 1 .. n /\ up[j] = o[j]
      BY <2>0, <2>7
    <3>2. CASE k <= n
      <4>1. up[k] = o[k] /\ k \in 1 .. n
        BY <2>0, <3>2
      <4> QED
        BY <2>4, <2>7, <3>1, <4>1 DEF Sorts
    <3>3. CASE ~(k <= n)
      <4>1. up[k] = m
        BY <3>3
      <4> QED
        BY <2>2, <2>5, <3>1, <4>1
    <3> QED
      BY <3>2, <3>3
  <2> HIDE DEF up
  <2>8. Sorts(e, up, S, n + 1)
    BY <2>6, <2>7 DEF Sorts
  <2> QED
    BY <2>8
<1> HIDE DEF N
<1>3. N = Nat
  <2>1. N \in SUBSET Nat
    BY DEF N
  <2> QED
    BY <1>1, <1>2, <2>1, SetInduction
<1> QED
  BY <1>3, SharingFacts DEF N

\* Every car at most once, each before those that follow it.
LEMMA OrderFacts ==
  ASSUME SiteOK, ChargersOK, NEW e \in EnvironmentsOf(site)
  PROVE  /\ Sorts(e, Order(e), Sharing(e), Cardinality(Sharing(e)))
         /\ Order(e) \in Seq(Sharing(e))
         /\ Len(Order(e)) = Cardinality(Sharing(e))
         /\ \A j, k \in 1 .. Len(Order(e)) : j # k => Order(e)[j] # Order(e)[k]
<1> DEFINE n == Cardinality(Sharing(e))
           S == Sharing(e)
<1>1. PICK o : Sorts(e, o, S, n)
  BY OrderExists
<1>2. \E p \in [1 .. n -> S] : \A j, k \in DOMAIN p : j < k => Before(e, p[j], p[k])
  <2>1. DOMAIN o = 1 .. n
    BY <1>1 DEF Sorts
  <2> QED
    BY <1>1, <2>1 DEF Sorts
<1>3. Order(e) \in [1 .. n -> S] /\ \A j, k \in DOMAIN Order(e) : j < k => Before(e, Order(e)[j], Order(e)[k])
  BY <1>2 DEF Order
<1>4. n \in Nat /\ S \in SUBSET Chargers
  BY SharingFacts
<1> HIDE DEF n, S
<1>5. DOMAIN Order(e) = 1 .. n
  BY <1>3
<1>6. Order(e) \in Seq(S) /\ Len(Order(e)) = n
  BY <1>3, <1>4
<1>7. ASSUME NEW j \in 1 .. n, NEW k \in 1 .. n, j # k PROVE Order(e)[j] # Order(e)[k]
  <2>1. Order(e)[j] \in Chargers /\ Order(e)[k] \in Chargers
    BY <1>3, <1>4
  <2>2. Before(e, Order(e)[j], Order(e)[k]) \/ Before(e, Order(e)[k], Order(e)[j])
    BY <1>3, <1>4, <1>5, <1>7
  <2> QED
    BY <2>1, <2>2, BeforeOrders
<1>8. Sorts(e, Order(e), S, n)
  BY <1>3, <1>5 DEF Sorts
<1> QED
  BY <1>6, <1>7, <1>8 DEF n, S

-----------------------------------------------------------------------------
\* What the cars get.

Watts(amps) == [i \in Chargers |-> ThreePhaseW(amps[i])]

LEMMA WattsType ==
  ASSUME NEW amps \in [Chargers -> Int]
  PROVE  Watts(amps) \in [Chargers -> Int]
BY DEF Watts, ThreePhaseW

LEMMA FunctionIsSequence ==
  ASSUME NEW n \in Nat, NEW R, NEW f \in [1 .. n -> R]
  PROVE  f \in Seq(R) /\ Len(f) = n
OBVIOUS

LEMMA ActiveFacts ==
  ASSUME SiteOK, ChargersOK, NEW e \in EnvironmentsOf(site), NEW fit \in 0 .. Len(Order(e)),
         NEW active, active = SubSeq(Order(e), 1, fit)
  PROVE  /\ active \in Seq(Range(active)) /\ Len(active) = fit
         /\ Range(active) \in SUBSET Sharing(e)
         /\ Range(active) = {Order(e)[k] : k \in 1 .. fit}
<1>1. Order(e) \in Seq(Sharing(e))
  BY OrderFacts
<1>2. Len(Order(e)) \in Nat /\ fit \in Nat /\ fit <= Len(Order(e))
  BY <1>1
<1>3. DOMAIN active = 1 .. fit /\ \A k \in 1 .. fit : active[k] = Order(e)[k]
  BY <1>1, <1>2
<1>4. Range(active) = {Order(e)[k] : k \in 1 .. fit}
  BY <1>3 DEF Range
<1>5. \A k \in 1 .. fit : Order(e)[k] \in Sharing(e)
  BY <1>1, <1>2
<1>6. active = [k \in 1 .. fit |-> active[k]]
  BY <1>1, <1>2
<1>7. active \in [1 .. fit -> Range(active)]
  BY <1>3, <1>4, <1>6
<1>8. active \in Seq(Range(active)) /\ Len(active) = fit
  <2> DEFINE R == Range(active)
  <2>1. active \in [1 .. fit -> R]
    BY <1>7
  <2> HIDE DEF R
  <2>2. active \in Seq(R) /\ Len(active) = fit
    BY <1>2, <2>1, FunctionIsSequence
  <2> QED
    BY <2>2 DEF R
<1> QED
  BY <1>4, <1>5, <1>8

\* 6 A for each of those that fit.
LEMMA MinimumTaken ==
  ASSUME SiteOK, ChargersOK, NEW e \in EnvironmentsOf(site), NEW fit \in 0 .. Len(Order(e)),
         NEW active, active = SubSeq(Order(e), 1, fit)
  PROVE  /\ MinimumAmps(e, active) \in [Chargers -> Int]
         /\ Taken(Watts(MinimumAmps(e, active)), Sharing(e)) = fit * ThreePhaseW(EvMinCurrentA)
<1> DEFINE S == Sharing(e)
           o == Order(e)
           min == MinimumAmps(e, active)
           W(k) == [i \in S |-> IF \E j \in 1 .. k : o[j] = i THEN 4140 ELSE 0]
           P == {k \in 0 .. fit : Taken(W(k), S) = 4140 * k}
<1>1. /\ Len(o) \in Nat /\ IsFiniteSet(S) /\ S \in SUBSET Chargers /\ fit \in Nat
      /\ \A k \in 1 .. Len(o) : o[k] \in S
      /\ \A j, k \in 1 .. Len(o) : j # k => o[j] # o[k]
  BY OrderFacts, SharingFacts
<1>2. \A k \in Nat : W(k) \in [S -> Int]
  OBVIOUS
<1>3. 0 \in P
  <2> DEFINE z == [i \in S |-> 0]
  <2>1. W(0) = z
    OBVIOUS
  <2>2. Taken(W(0), S) = SumFunction(z)
    <3>1. [i \in S |-> z[i]] = z
      OBVIOUS
    <3> QED
      BY <2>1, <3>1 DEF Taken
  <2>3. SumFunction(z) = 0
    BY <1>1, SumNothing
  <2> QED
    BY <1>1, <2>2, <2>3
<1> HIDE DEF S, o
<1>4. \A k \in 1 .. fit : k - 1 \in P => k \in P
  <2> SUFFICES ASSUME NEW k \in 1 .. fit, Taken(W(k - 1), S) = 4140 * (k - 1)
               PROVE  Taken(W(k), S) = 4140 * k
    OBVIOUS
  <2> DEFINE h == W(k - 1)
             g == W(k)
             x == o[k]
  <2>1. x \in S /\ k \in 1 .. Len(o) /\ k - 1 \in Nat /\ \A j \in 1 .. k - 1 : j \in 1 .. Len(o) /\ j # k
    <3> HIDE DEF W, P, x
    <3>1. fit <= Len(o)
      BY <1>1 DEF o
    <3>2. k \in 1 .. Len(o) /\ k - 1 \in Nat /\ \A j \in 1 .. k - 1 : j \in 1 .. Len(o) /\ j # k
      BY <1>1, <3>1
    <3> QED
      BY <1>1, <3>2 DEF x
  <2>2. ~\E j \in 1 .. k - 1 : o[j] = x
    BY <1>1, <2>1
  <2>3. h[x] = 0 /\ g[x] = 4140
    BY <2>1, <2>2
  <2>4. \A i \in S \ {x} : g[i] = h[i]
    OBVIOUS
  <2>5. h \in [S -> Int] /\ g \in [S -> Int]
    OBVIOUS
  <2>a. Taken(h, S) = 4140 * (k - 1)
    OBVIOUS
  <2> HIDE DEF h, g, x, W, P
  <2>6. Taken(g, S) = Taken(h, S) - h[x] + g[x]
    <3>1. S \in SUBSET S /\ IsFiniteSet(S) /\ x \in S
      BY <1>1, <2>1
    <3> QED
      BY <2>4, <2>5, <3>1, TakenChange, Z3
  <2>7. Taken(g, S) = 4140 * k
    BY <2>1, <2>3, <2>6, <2>a
  <2> QED
    BY <2>7 DEF g, W
<1>5. fit \in P
  <2>1. P \in SUBSET (0 .. fit)
    OBVIOUS
  <2> HIDE DEF P
  <2> QED
    BY <1>1, <1>3, <1>4, <2>1, UpTo
<1>6. Range(active) = {o[k] : k \in 1 .. fit}
  BY ActiveFacts DEF o
<1>7. \A i \in S : Watts(min)[i] = W(fit)[i]
  <2> SUFFICES ASSUME NEW i \in S PROVE Watts(min)[i] = W(fit)[i]
    OBVIOUS
  <2>1. i \in Chargers /\ ~Exempt(site.chargers[i])
    BY <1>1 DEF S, Sharing
  <2>2. min[i] = IF i \in Range(active) THEN EvMinCurrentA ELSE 0
    BY <2>1 DEF MinimumAmps
  <2>3. Watts(min)[i] = ThreePhaseW(min[i])
    BY <2>1 DEF Watts
  <2>4. i \in Range(active) <=> \E j \in 1 .. fit : o[j] = i
    BY <1>6
  <2> HIDE DEF min
  <2> QED
    BY <2>2, <2>3, <2>4 DEF ThreePhaseW, EvMinCurrentA
<1>8. Taken(Watts(min), S) = Taken(W(fit), S)
  <2> DEFINE h == Watts(min)
             g == W(fit)
  <2>1. \A i \in S : h[i] = g[i]
    BY <1>7
  <2> HIDE DEF h, g, min
  <2>2. Taken(h, S) = Taken(g, S)
    BY <2>1, TakenSame
  <2> QED
    BY <2>2 DEF h, g
<1>9. min \in [Chargers -> Int]
  <2>1. \A i \in Chargers : CapA(e, i) \in Int
    BY CapFacts, ChargerFacts DEF EvMinCurrentA
  <2> QED
    BY <2>1 DEF MinimumAmps, EvMinCurrentA
<1>10. Taken(Watts(min), S) = fit * ThreePhaseW(EvMinCurrentA)
  <2> HIDE DEF W, min
  <2> QED
    BY <1>1, <1>5, <1>8 DEF ThreePhaseW, EvMinCurrentA
<1> QED
  BY <1>9, <1>10 DEF S

FillStates == [amps : [Chargers -> Int], spare : Int, open : Seq(Chargers)]

LEMMA TopUpType ==
  ASSUME SiteOK, NEW e \in EnvironmentsOf(site), NEW share \in Int,
         NEW acc \in FillStates, NEW i \in Chargers
  PROVE  TopUp(e, share, acc, i) \in FillStates
<1>1. acc.amps \in [Chargers -> Int] /\ acc.spare \in Int /\ acc.open \in Seq(Chargers)
  BY DEF FillStates
<1>2. CapA(e, i) \in Int
  BY CapFacts, ChargerFacts DEF EvMinCurrentA
<1> DEFINE room == CapA(e, i) - acc.amps[i]
           add == Least(share, Least(room, acc.spare))
           amps == [acc.amps EXCEPT ![i] = @ + add]
           open == IF room - add >= 1 THEN Append(acc.open, i) ELSE acc.open
<1>3. add \in Int
  BY <1>1, <1>2 DEF Least
<1>4. TopUp(e, share, acc, i) = [amps |-> amps, spare |-> acc.spare - add, open |-> open]
  BY DEF TopUp
<1>5. open \in Seq(Chargers)
  <2>1. Append(acc.open, i) \in Seq(Chargers)
    BY <1>1
  <2> QED
    BY <1>1, <2>1
<1> HIDE DEF add, open
<1>6. amps \in [Chargers -> Int] /\ acc.spare - add \in Int
  BY <1>1, <1>3
<1> HIDE DEF amps
<1> QED
  BY <1>4, <1>5, <1>6 DEF FillStates

\* What the fold of TopUp chooses, and its steps.
IsTopUp(it, e, share, seq, start) ==
  it = [s \in SUBSET (DOMAIN seq) |->
          IF s = {} THEN start
          ELSE TopUp(e, share, it[s \ {Max(s)}], seq[Max(s)])]

TopUpRun(g, e, share, seq, start, n) ==
  /\ g[0] = start
  /\ \A k \in 1 .. n : g[k] = TopUp(e, share, g[k - 1], seq[k])

LEMMA TopUpExists ==
  ASSUME SiteOK, NEW e \in EnvironmentsOf(site), NEW share \in Int, NEW seq \in Seq(Chargers), NEW start \in FillStates
  PROVE  \E it : IsTopUp(it, e, share, seq, start)
<1> DEFINE n == Len(seq)
           step == [p \in (1 .. n) \X FillStates |-> TopUp(e, share, p[2], seq[p[1]])]
<1>1. n \in Nat /\ DOMAIN seq = 1 .. n
  BY SMT
<1>2. step \in [(1 .. n) \X FillStates -> FillStates]
  <2> SUFFICES ASSUME NEW i \in 1 .. n, NEW a \in FillStates PROVE TopUp(e, share, a, seq[i]) \in FillStates
    OBVIOUS
  <2> QED
    BY <1>1, TopUpType
<1>3. \A i \in 1 .. n, a \in FillStates : step[<<i, a>>] = TopUp(e, share, a, seq[i])
  OBVIOUS
<1> HIDE DEF n, step
<1>4. PICK it : FoldsTo(it, n, FillStates, start, step)
  BY <1>1, <1>2, FoldExists
<1>5. ASSUME NEW s \in SUBSET (1 .. n)
      PROVE  it[s] = IF s = {} THEN start
                     ELSE TopUp(e, share, it[s \ {Max(s)}], seq[Max(s)])
  <2>1. CASE s = {}
    BY <1>4, <2>1 DEF FoldsTo
  <2>2. CASE s # {}
    <3>1. Max(s) \in 1 .. n
      BY <1>1, <2>2, MaxIn
    <3>2. it[s \ {Max(s)}] \in FillStates
      BY <1>4 DEF FoldsTo
    <3>3. it[s] = step[<<Max(s), it[s \ {Max(s)}]>>]
      BY <1>4, <2>2 DEF FoldsTo
    <3> QED
      BY <1>1, <1>3, <2>2, <3>1, <3>2, <3>3
  <2> QED
    BY <2>1, <2>2
<1>6. it \in [SUBSET (1 .. n) -> FillStates]
  BY <1>4 DEF FoldsTo
<1>7. it = [s \in SUBSET (1 .. n) |->
              IF s = {} THEN start
              ELSE TopUp(e, share, it[s \ {Max(s)}], seq[Max(s)])]
  BY <1>5, <1>6
<1> QED
  BY <1>1, <1>7 DEF IsTopUp

\* Whatever is chosen runs through the steps.
LEMMA TopUpSteps ==
  ASSUME SiteOK, NEW e \in EnvironmentsOf(site), NEW share \in Int, NEW seq \in Seq(Chargers), NEW start \in FillStates, NEW it, IsTopUp(it, e, share, seq, start)
  PROVE  \E g : TopUpRun(g, e, share, seq, start, Len(seq)) /\ g[Len(seq)] = it[DOMAIN seq]
<1> DEFINE n == Len(seq)
           g == [k \in 0 .. n |-> it[1 .. k]]
<1>1. n \in Nat /\ DOMAIN seq = 1 .. n
  BY SMT
<1> HIDE DEF n
<1>2. g[0] = start
  <2>1. it[1 .. 0] = start
    BY <1>1, FirstSteps DEF IsTopUp
  <2> QED
    BY <1>1, <2>1
<1>3. ASSUME NEW k \in 1 .. n PROVE g[k] = TopUp(e, share, g[k - 1], seq[k])
  <2>1. 1 .. k \in SUBSET (1 .. n) /\ 1 .. k # {} /\ Max(1 .. k) = k /\ (1 .. k) \ {k} = 1 .. k - 1
    BY <1>1, FirstSteps
  <2> DEFINE s == 1 .. k
  <2>2. s \in SUBSET (DOMAIN seq) /\ s # {}
    BY <1>1, <2>1
  <2> HIDE DEF s
  <2>3. it[s] = TopUp(e, share, it[s \ {Max(s)}], seq[Max(s)])
    BY <2>2 DEF IsTopUp
  <2>4. it[1 .. k] = TopUp(e, share, it[1 .. k - 1], seq[k])
    BY <1>1, <2>1, <2>3 DEF s
  <2> QED
    BY <1>1, <2>4
<1>4. g[n] = it[DOMAIN seq]
  BY <1>1
<1> HIDE DEF g
<1>5. TopUpRun(g, e, share, seq, start, n)
  BY <1>2, <1>3 DEF TopUpRun
<1> QED
  BY <1>4, <1>5 DEF n


RoundShare(s) == Most(s.spare \div Len(s.open), 1)

LEMMA FillRoundRuns ==
  ASSUME SiteOK, NEW e \in EnvironmentsOf(site), NEW s \in FillStates,
         s.spare >= 1, s.open # <<>>
  PROVE  /\ RoundShare(s) \in Nat
         /\ [s EXCEPT !.open = <<>>] \in FillStates
         /\ \E g : /\ TopUpRun(g, e, RoundShare(s), s.open, [s EXCEPT !.open = <<>>], Len(s.open))
                   /\ FillRound(e, s) = g[Len(s.open)]
<1> DEFINE start == [s EXCEPT !.open = <<>>]
           seq == s.open
           share == RoundShare(s)
           it == CHOOSE it : IsTopUp(it, e, share, seq, start)
<1>1. s.amps \in [Chargers -> Int] /\ s.spare \in Int /\ seq \in Seq(Chargers)
  BY DEF FillStates
<1>2. Len(seq) \in Nat /\ Len(seq) # 0
  BY <1>1
<1>3. share \in Nat
  BY <1>1, <1>2 DEF Most, RoundShare
<1>4. start \in FillStates
  <2>1. <<>> \in Seq(Chargers)
    OBVIOUS
  <2> QED
    BY <2>1 DEF FillStates
<1>5. FillRound(e, s) = it[DOMAIN seq]
  <2>1. ~(s.spare < 1 \/ s.open = <<>>)
    BY <1>1
  <2> QED
    BY <2>1 DEF FillRound, FoldLeft, MapThenFoldSet, IsTopUp, RoundShare
<1>6. IsTopUp(it, e, share, seq, start)
  <2> HIDE DEF share, seq, start
  <2>1. \E h : IsTopUp(h, e, share, seq, start)
    <3>1. share \in Int
      BY <1>3
    <3> QED
      BY <1>1, <1>4, <3>1, TopUpExists
  <2> QED
    BY <2>1, Zenon
<1> HIDE DEF it, share, seq, start
<1>7. \E g : TopUpRun(g, e, share, seq, start, Len(seq)) /\ g[Len(seq)] = it[DOMAIN seq]
  <2>1. share \in Int
    BY <1>3
  <2> QED
    BY <1>1, <1>4, <1>6, <2>1, TopUpSteps
<1> QED
  BY <1>3, <1>4, <1>5, <1>7 DEF share, seq, start

LEMMA FillRoundType ==
  ASSUME SiteOK, NEW e \in EnvironmentsOf(site), NEW s \in FillStates
  PROVE  FillRound(e, s) \in FillStates
<1>0. s.spare \in Int /\ s.open \in Seq(Chargers)
  BY DEF FillStates
<1>1. CASE s.spare < 1 \/ s.open = <<>>
  BY <1>1 DEF FillRound
<1>2. CASE ~(s.spare < 1 \/ s.open = <<>>)
  <2> DEFINE n == Len(s.open)
             start == [s EXCEPT !.open = <<>>]
             share == RoundShare(s)
             seq == s.open
  <2>1. s.spare >= 1 /\ s.open # <<>>
    BY <1>0, <1>2
  <2>2. PICK g : TopUpRun(g, e, share, seq, start, n) /\ FillRound(e, s) = g[n]
    BY <2>1, FillRoundRuns
  <2>3. start \in FillStates /\ share \in Nat /\ n \in Nat /\ seq \in Seq(Chargers) /\ n = Len(seq)
    BY <1>0, <2>1, FillRoundRuns
  <2> HIDE DEF n, start, share, seq
  <2> DEFINE P == {k \in 0 .. n : g[k] \in FillStates}
  <2>4. 0 \in P
    BY <2>2, <2>3 DEF TopUpRun
  <2>5. \A k \in 1 .. n : k - 1 \in P => k \in P
    <3> SUFFICES ASSUME NEW k \in 1 .. n, k - 1 \in P PROVE k \in P
      OBVIOUS
    <3>1. g[k] = TopUp(e, share, g[k - 1], seq[k])
      BY <2>2 DEF TopUpRun
    <3>2. g[k - 1] \in FillStates /\ seq[k] \in Chargers /\ share \in Int
      BY <2>3
    <3>3. g[k] \in FillStates
      BY <3>1, <3>2, TopUpType
    <3> QED
      BY <2>3, <3>3
  <2>6. n \in P
    <3>1. P \in SUBSET (0 .. n)
      OBVIOUS
    <3> HIDE DEF P
    <3> QED
      BY <2>3, <2>4, <2>5, <3>1, UpTo
  <2> QED
    BY <2>2, <2>6
<1> QED
  BY <1>1, <1>2

\* What the fold of Fill chooses, and its steps.
IsFill(it, e, seq, start) ==
  it = [s \in SUBSET (DOMAIN seq) |->
          IF s = {} THEN start
          ELSE FillRound(e, it[s \ {Max(s)}])]

FillRun(g, e, seq, start, n) ==
  /\ g[0] = start
  /\ \A k \in 1 .. n : g[k] = FillRound(e, g[k - 1])

LEMMA FillExists ==
  ASSUME SiteOK, NEW e \in EnvironmentsOf(site), NEW seq \in Seq(Nat), NEW start \in FillStates
  PROVE  \E it : IsFill(it, e, seq, start)
<1> DEFINE n == Len(seq)
           step == [p \in (1 .. n) \X FillStates |-> FillRound(e, p[2])]
<1>1. n \in Nat /\ DOMAIN seq = 1 .. n
  BY SMT
<1>2. step \in [(1 .. n) \X FillStates -> FillStates]
  <2> SUFFICES ASSUME NEW i \in 1 .. n, NEW a \in FillStates PROVE FillRound(e, a) \in FillStates
    OBVIOUS
  <2> QED
    BY <1>1, FillRoundType
<1>3. \A i \in 1 .. n, a \in FillStates : step[<<i, a>>] = FillRound(e, a)
  OBVIOUS
<1> HIDE DEF n, step
<1>4. PICK it : FoldsTo(it, n, FillStates, start, step)
  BY <1>1, <1>2, FoldExists
<1>5. ASSUME NEW s \in SUBSET (1 .. n)
      PROVE  it[s] = IF s = {} THEN start
                     ELSE FillRound(e, it[s \ {Max(s)}])
  <2>1. CASE s = {}
    BY <1>4, <2>1 DEF FoldsTo
  <2>2. CASE s # {}
    <3>1. Max(s) \in 1 .. n
      BY <1>1, <2>2, MaxIn
    <3>2. it[s \ {Max(s)}] \in FillStates
      BY <1>4 DEF FoldsTo
    <3>3. it[s] = step[<<Max(s), it[s \ {Max(s)}]>>]
      BY <1>4, <2>2 DEF FoldsTo
    <3> QED
      BY <1>1, <1>3, <2>2, <3>1, <3>2, <3>3
  <2> QED
    BY <2>1, <2>2
<1>6. it \in [SUBSET (1 .. n) -> FillStates]
  BY <1>4 DEF FoldsTo
<1>7. it = [s \in SUBSET (1 .. n) |->
              IF s = {} THEN start
              ELSE FillRound(e, it[s \ {Max(s)}])]
  BY <1>5, <1>6
<1> QED
  BY <1>1, <1>7 DEF IsFill

\* Whatever is chosen runs through the steps.
LEMMA FillSteps ==
  ASSUME SiteOK, NEW e \in EnvironmentsOf(site), NEW seq \in Seq(Nat), NEW start \in FillStates, NEW it, IsFill(it, e, seq, start)
  PROVE  \E g : FillRun(g, e, seq, start, Len(seq)) /\ g[Len(seq)] = it[DOMAIN seq]
<1> DEFINE n == Len(seq)
           g == [k \in 0 .. n |-> it[1 .. k]]
<1>1. n \in Nat /\ DOMAIN seq = 1 .. n
  BY SMT
<1> HIDE DEF n
<1>2. g[0] = start
  <2>1. it[1 .. 0] = start
    BY <1>1, FirstSteps DEF IsFill
  <2> QED
    BY <1>1, <2>1
<1>3. ASSUME NEW k \in 1 .. n PROVE g[k] = FillRound(e, g[k - 1])
  <2>1. 1 .. k \in SUBSET (1 .. n) /\ 1 .. k # {} /\ Max(1 .. k) = k /\ (1 .. k) \ {k} = 1 .. k - 1
    BY <1>1, FirstSteps
  <2> DEFINE s == 1 .. k
  <2>2. s \in SUBSET (DOMAIN seq) /\ s # {}
    BY <1>1, <2>1
  <2> HIDE DEF s
  <2>3. it[s] = FillRound(e, it[s \ {Max(s)}])
    BY <2>2 DEF IsFill
  <2>4. it[1 .. k] = FillRound(e, it[1 .. k - 1])
    BY <1>1, <2>1, <2>3 DEF s
  <2> QED
    BY <1>1, <2>4
<1>4. g[n] = it[DOMAIN seq]
  BY <1>1
<1> HIDE DEF g
<1>5. FillRun(g, e, seq, start, n)
  BY <1>2, <1>3 DEF FillRun
<1> QED
  BY <1>4, <1>5 DEF n

\* The cars in A share the rest: w is what is spent on cars and what is left.
CarsFit(s, e, A, base, w) ==
  /\ s \in FillStates /\ s.open \in Seq(A) /\ s.spare \in Nat
  /\ \A i \in A : s.amps[i] \in EvMinCurrentA .. CapA(e, i)
  /\ \A i \in Chargers \ A : s.amps[i] = base[i]
  /\ ThreePhaseW(s.spare) + Taken(Watts(s.amps), Sharing(e)) = w

LEMMA TopUpKeeps ==
  ASSUME SiteOK, NEW e \in EnvironmentsOf(site), NEW A \in SUBSET Sharing(e),
         NEW base, NEW w \in Int, NEW share \in Nat, NEW i \in A,
         NEW acc, CarsFit(acc, e, A, base, w)
  PROVE  CarsFit(TopUp(e, share, acc, i), e, A, base, w)
<1> DEFINE room == CapA(e, i) - acc.amps[i]
           add == Least(share, Least(room, acc.spare))
           amps == [acc.amps EXCEPT ![i] = @ + add]
           open == IF room - add >= 1 THEN Append(acc.open, i) ELSE acc.open
           new == TopUp(e, share, acc, i)
           S == Sharing(e)
<1>1. acc.amps \in [Chargers -> Int] /\ acc.spare \in Nat /\ acc.open \in Seq(A)
  BY DEF CarsFit, FillStates
<1>2. /\ S \in SUBSET Chargers /\ IsFiniteSet(S) /\ i \in S /\ i \in Chargers /\ A \in SUBSET Chargers
      /\ CapA(e, i) \in Int
  BY SharingFacts DEF EvMinCurrentA
<1>3. acc.amps[i] \in Int /\ acc.amps[i] >= EvMinCurrentA /\ acc.amps[i] <= CapA(e, i)
  BY <1>2 DEF CarsFit, EvMinCurrentA
<1>4. add \in Nat /\ add <= acc.spare /\ acc.amps[i] + add <= CapA(e, i)
  <2> HIDE DEF S
  <2> QED
    BY <1>1, <1>2, <1>3 DEF Least
<1>5. new = [amps |-> amps, spare |-> acc.spare - add, open |-> open]
  BY DEF TopUp
<1>6. new \in FillStates
  <2>1. acc \in FillStates /\ share \in Int
    BY DEF CarsFit
  <2> QED
    BY <1>2, <2>1, TopUpType
<1>7. open \in Seq(A)
  <2>1. Append(acc.open, i) \in Seq(A)
    BY <1>1
  <2> QED
    BY <1>1, <2>1
<1>8. new.amps = amps /\ new.spare = acc.spare - add /\ new.open = open
  BY <1>5
<1>9. amps \in [Chargers -> Int] /\ amps[i] = acc.amps[i] + add /\ \A j \in Chargers \ {i} : amps[j] = acc.amps[j]
  <2> HIDE DEF add, open, new, S
  <2> QED
    BY <1>1, <1>2, <1>3, <1>4
<1> HIDE DEF add, amps, open, new
<1>10. \A j \in A : amps[j] \in EvMinCurrentA .. CapA(e, j)
  <2> SUFFICES ASSUME NEW j \in A PROVE amps[j] \in EvMinCurrentA .. CapA(e, j)
    OBVIOUS
  <2>1. CASE j = i
    BY <1>3, <1>4, <1>9, <2>1 DEF EvMinCurrentA
  <2>2. CASE j # i
    BY <1>2, <1>9, <2>2 DEF CarsFit
  <2> QED
    BY <2>1, <2>2
<1>11. \A j \in Chargers \ A : amps[j] = base[j]
  BY <1>9 DEF CarsFit
<1>12. Taken(Watts(amps), S) = Taken(Watts(acc.amps), S) + ThreePhaseW(add)
  <2> DEFINE h == Watts(acc.amps)
             g == Watts(amps)
  <2>1. h \in [Chargers -> Int] /\ g \in [Chargers -> Int]
    BY <1>1, <1>9, WattsType
  <2>2. \A j \in S \ {i} : g[j] = h[j]
    BY <1>2, <1>9 DEF Watts
  <2>3. g[i] = h[i] + ThreePhaseW(add) /\ h[i] \in Int /\ ThreePhaseW(add) \in Int
    BY <1>2, <1>3, <1>4, <1>9 DEF Watts, ThreePhaseW
  <2> HIDE DEF h, g, S
  <2>4. Taken(g, S) = Taken(h, S) - h[i] + g[i]
    BY <1>2, <2>1, <2>2, TakenChange
  <2>5. Taken(h, S) \in Int
    BY <1>2, <2>1, TakenInt
  <2>6. Taken(g, S) = Taken(h, S) + ThreePhaseW(add)
    BY <2>3, <2>4, <2>5
  <2> QED
    BY <2>6 DEF h, g
<1>13. ThreePhaseW(acc.spare - add) + Taken(Watts(amps), S) = w
  <2>1. ThreePhaseW(acc.spare) + Taken(Watts(acc.amps), S) = w
    BY DEF CarsFit
  <2>2. Taken(Watts(acc.amps), S) \in Int
    BY <1>1, <1>2, WattsType, TakenInt
  <2> QED
    BY <1>1, <1>4, <1>12, <2>1, <2>2 DEF ThreePhaseW
<1>14. acc.spare - add \in Nat
  BY <1>1, <1>4
<1> QED
  BY <1>6, <1>7, <1>8, <1>10, <1>11, <1>13, <1>14 DEF CarsFit, new

LEMMA FillRoundKeeps ==
  ASSUME SiteOK, NEW e \in EnvironmentsOf(site), NEW A \in SUBSET Sharing(e),
         NEW base, NEW w \in Int, NEW s, CarsFit(s, e, A, base, w)
  PROVE  CarsFit(FillRound(e, s), e, A, base, w)
<1>0. s.spare \in Nat /\ s.open \in Seq(A) /\ s \in FillStates
  BY DEF CarsFit
<1>1. CASE s.spare < 1 \/ s.open = <<>>
  BY <1>1 DEF FillRound
<1>2. CASE ~(s.spare < 1 \/ s.open = <<>>)
  <2> DEFINE n == Len(s.open)
             start == [s EXCEPT !.open = <<>>]
             share == RoundShare(s)
             seq == s.open
  <2>1. s.spare >= 1 /\ s.open # <<>>
    BY <1>0, <1>2
  <2>2. PICK g : TopUpRun(g, e, share, seq, start, n) /\ FillRound(e, s) = g[n]
    BY <1>0, <2>1, FillRoundRuns
  <2>3. start \in FillStates /\ share \in Nat /\ n \in Nat /\ seq \in Seq(A) /\ n = Len(seq)
    BY <1>0, <2>1, FillRoundRuns
  <2>a. start.amps = s.amps /\ start.spare = s.spare /\ start.open = <<>>
    BY <1>0 DEF FillStates
  <2> HIDE DEF n, start, share, seq
  <2>b. CarsFit(start, e, A, base, w)
    <3>1. <<>> \in Seq(A)
      OBVIOUS
    <3> QED
      BY <2>3, <2>a, <3>1 DEF CarsFit
  <2> DEFINE P == {k \in 0 .. n : CarsFit(g[k], e, A, base, w)}
  <2>4. 0 \in P
    BY <2>2, <2>3, <2>b DEF TopUpRun
  <2>5. \A k \in 1 .. n : k - 1 \in P => k \in P
    <3> SUFFICES ASSUME NEW k \in 1 .. n, k - 1 \in P PROVE k \in P
      OBVIOUS
    <3>1. g[k] = TopUp(e, share, g[k - 1], seq[k])
      BY <2>2 DEF TopUpRun
    <3>2. CarsFit(g[k - 1], e, A, base, w) /\ seq[k] \in A
      BY <2>3
    <3>3. CarsFit(g[k], e, A, base, w)
      BY <2>3, <3>1, <3>2, TopUpKeeps
    <3> QED
      BY <2>3, <3>3
  <2>6. n \in P
    <3>1. P \in SUBSET (0 .. n)
      OBVIOUS
    <3> HIDE DEF P
    <3> QED
      BY <2>3, <2>4, <2>5, <3>1, UpTo
  <2> QED
    BY <2>2, <2>6
<1> QED
  BY <1>1, <1>2

Rounds(start) == [k \in 1 .. Len(start.open) + 2 |-> k]

LEMMA FilledRuns ==
  ASSUME SiteOK, NEW e \in EnvironmentsOf(site), NEW start \in FillStates
  PROVE  /\ Len(Rounds(start)) \in Nat
         /\ \E g : /\ FillRun(g, e, Rounds(start), start, Len(Rounds(start)))
                   /\ Filled(e, start) = g[Len(Rounds(start))].amps
<1> DEFINE n == Len(start.open) + 2
           seq == Rounds(start)
           it == CHOOSE it : IsFill(it, e, seq, start)
<1>1. start.open \in Seq(Chargers)
  BY DEF FillStates
<1>2. n \in Nat
  BY <1>1
<1>3. seq \in [1 .. n -> Nat]
  BY DEF Rounds
<1>4. seq \in Seq(Nat) /\ Len(seq) = n
  <2> HIDE DEF n, seq
  <2> QED
    BY <1>2, <1>3, FunctionIsSequence
<1>5. Filled(e, start) = it[DOMAIN seq].amps
  BY DEF Filled, FoldLeft, MapThenFoldSet, IsFill, Rounds
<1> HIDE DEF n, seq
<1>6. IsFill(it, e, seq, start)
  <2>1. \E h : IsFill(h, e, seq, start)
    BY <1>4, FillExists
  <2> QED
    BY <2>1, Zenon
<1> HIDE DEF it
<1>7. \E g : FillRun(g, e, seq, start, Len(seq)) /\ g[Len(seq)] = it[DOMAIN seq]
  BY <1>4, <1>6, FillSteps
<1> QED
  BY <1>2, <1>4, <1>5, <1>7 DEF seq

LEMMA FilledKeeps ==
  ASSUME SiteOK, NEW e \in EnvironmentsOf(site), NEW A \in SUBSET Sharing(e),
         NEW base, NEW w \in Int, NEW start, CarsFit(start, e, A, base, w)
  PROVE  \E s : CarsFit(s, e, A, base, w) /\ Filled(e, start) = s.amps
<1> DEFINE n == Len(Rounds(start))
           seq == Rounds(start)
<1>1. start \in FillStates
  BY DEF CarsFit
<1>2. n \in Nat
  BY <1>1, FilledRuns
<1>3. PICK g : FillRun(g, e, seq, start, n) /\ Filled(e, start) = g[n].amps
  BY <1>1, FilledRuns
<1> HIDE DEF n, seq
<1> DEFINE P == {k \in 0 .. n : CarsFit(g[k], e, A, base, w)}
<1>4. 0 \in P
  BY <1>2, <1>3 DEF FillRun
<1>5. \A k \in 1 .. n : k - 1 \in P => k \in P
  <2> SUFFICES ASSUME NEW k \in 1 .. n, k - 1 \in P PROVE k \in P
    OBVIOUS
  <2>1. g[k] = FillRound(e, g[k - 1])
    BY <1>3 DEF FillRun
  <2>2. CarsFit(g[k - 1], e, A, base, w)
    OBVIOUS
  <2>3. CarsFit(g[k], e, A, base, w)
    BY <2>1, <2>2, FillRoundKeeps
  <2> QED
    BY <1>2, <2>3
<1>6. n \in P
  <2>1. P \in SUBSET (0 .. n)
    OBVIOUS
  <2> HIDE DEF P
  <2> QED
    BY <1>2, <1>4, <1>5, <2>1, UpTo
<1> QED
  BY <1>3, <1>6

-----------------------------------------------------------------------------
\* The allocation as a whole.

SetpointsOK ==
  /\ setpoints.charger_a \in [Chargers -> Nat]
  /\ setpoints.heat_pump_limit \in [HeatPumps -> Nat]
  /\ setpoints.battery \in [Batteries -> Int]
  /\ setpoints.heat_pump_ext \in [HeatPumps -> OptInt]

LEMMA DemandFacts ==
  ASSUME SiteOK, NEW e \in EnvironmentsOf(site), NEW i \in HeatPumps
  PROVE  Demand(e, i) \in Int
BY HeatPumpFacts, EnvFacts DEF Demand, OrElse, OptInt, Least

LEMMA ChargerDrawType ==
  ASSUME SiteOK, SetpointsOK, NEW e \in EnvironmentsOf(site), NEW i \in Chargers
  PROVE  ChargerDraw(e, i) \in Int
BY ChargerFacts DEF ChargerDraw, SetpointsOK, ThreePhaseW

LEMMA ExemptDrawType ==
  ASSUME SiteOK, SetpointsOK, NEW e \in EnvironmentsOf(site)
  PROVE  ExemptDraw(e) \in Int
<1> DEFINE S == {i \in HeatPumps : Exempt(site.heat_pumps[i])}
           T == {i \in Waiting(e) : Exempt(site.chargers[i])}
           f == [i \in S |-> Demand(e, i)]
           g == [i \in T |-> ChargerDraw(e, i)]
<1>1. S \in SUBSET HeatPumps /\ T \in SUBSET Chargers
  BY DEF Waiting
<1>2. IsFiniteSet(S) /\ IsFiniteSet(T)
  BY <1>1, FiniteDevices, FS_Subset
<1>3. f \in [S -> Int]
  BY <1>1, DemandFacts
<1>4. g \in [T -> Int]
  BY <1>1, ChargerDrawType
<1>5. ExemptDraw(e) = SumFunction(f) + SumFunction(g)
  BY DEF ExemptDraw, SumOver
<1> HIDE DEF S, T, f, g
<1>6. SumFunction(f) \in Int
  BY <1>2, <1>3, SumInt
<1>7. SumFunction(g) \in Int
  BY <1>2, <1>4, SumInt
<1> QED
  BY <1>5, <1>6, <1>7

\* What a car can charge with.
CanCharge(i, a) == a = 0 \/ a \in EvMinCurrentA .. site.chargers[i].max

CarsCanCharge(amps) == amps \in [Chargers -> Int] /\ \A i \in Chargers : CanCharge(i, amps[i])

\* Which of the cars get their turn: the first in the order.
FirstInOrder(e, amps) ==
  \E fit \in 0 .. Len(Order(e)) :
    \A i \in Sharing(e) : amps[i] > 0 <=> \E k \in 1 .. fit : Order(e)[k] = i

\* A car with no share gets nothing, unless the contract leaves it out.
OthersWait(e, amps) ==
  \A i \in Chargers : i \notin Sharing(e) /\ ~Exempt(site.chargers[i]) => amps[i] = 0

LEMMA AllocateLimitedKeeps ==
  ASSUME SiteOK, ChargersOK, NEW e \in EnvironmentsOf(site), NEW budget \in Int,
         NEW exempt \in Int, ExemptDraw(e) = exempt,
         NEW a, a = AllocateLimited(e, budget)
  PROVE  /\ CarsCanCharge(a.amps) /\ PumpsCanRun(a.heat) /\ FirstInOrder(e, a.amps)
         /\ OthersWait(e, a.amps)
         /\ Taken(Watts(a.amps), Sharing(e)) + Taken(a.heat, OwnPumps)
              <= Positive(Positive(budget) - exempt)
<1> DEFINE left == Positive(Positive(budget) - exempt)
           shared == HeatGuaranteed(e, left)
           fit == Least(shared.left \div ThreePhaseW(EvMinCurrentA), Len(Order(e)))
           active == SubSeq(Order(e), 1, fit)
           rest == [shared EXCEPT !.left = @ - fit * ThreePhaseW(EvMinCurrentA)]
           topped == HeatToppedUp(e, rest)
           min == MinimumAmps(e, active)
           start == [amps |-> min, open |-> active, spare |-> ThreePhaseA(topped.left)]
           amps == Filled(e, start)
           S == Sharing(e)
<1>1. a = [amps |-> amps, heat |-> topped.heat]
  BY DEF AllocateLimited
<1>2. left \in Nat
  BY DEF Positive, Most
<1>3. HeatIsShared(shared, left) /\ shared \in HeatShares
  <2> HIDE DEF left
  <2> QED
    BY <1>2, HeatGuaranteedKeeps
<1>4. Len(Order(e)) \in Nat
  BY OrderFacts
<1> HIDE DEF left, shared
<1>5. shared.left \in Nat /\ shared.heat \in [HeatPumps -> Int]
  BY <1>3 DEF HeatIsShared, PumpsCanRun
<1>6. fit \in 0 .. Len(Order(e)) /\ fit * ThreePhaseW(EvMinCurrentA) <= shared.left /\ fit \in Nat
  BY <1>4, <1>5 DEF Least, ThreePhaseW, EvMinCurrentA
<1> HIDE DEF fit
<1>7. rest.left = shared.left - fit * ThreePhaseW(EvMinCurrentA) /\ rest.heat = shared.heat /\ rest \in HeatShares
  <2>1. shared.left - fit * ThreePhaseW(EvMinCurrentA) \in Int
    BY <1>5, <1>6 DEF ThreePhaseW, EvMinCurrentA
  <2> QED
    BY <1>3, <2>1 DEF HeatShares
<1> HIDE DEF rest
<1> DEFINE cost == fit * ThreePhaseW(EvMinCurrentA)
<1>8. cost \in Nat
  BY <1>6 DEF ThreePhaseW, EvMinCurrentA
<1>9. HeatIsShared(rest, left - cost)
  <2>1. Taken(shared.heat, OwnPumps) \in Int
    BY <1>5, OwnPumpsFinite, TakenInt
  <2>2. rest.left \in Nat /\ rest.left + Taken(rest.heat, OwnPumps) = left - cost
    <3> HIDE DEF cost
    <3>1. shared.left + Taken(shared.heat, OwnPumps) = left
      BY <1>3 DEF HeatIsShared
    <3>2. rest.left = shared.left - cost /\ cost <= shared.left
      BY <1>6, <1>7 DEF cost
    <3> QED
      BY <1>2, <1>5, <1>7, <1>8, <2>1, <3>1, <3>2
  <2> QED
    BY <1>3, <1>7, <2>2 DEF HeatIsShared
<1> HIDE DEF cost
<1>10. HeatIsShared(topped, left - cost)
  <2>1. left - cost \in Int
    BY <1>2, <1>8
  <2> QED
    BY <1>7, <1>9, <2>1, HeatToppedUpKeeps
<1> HIDE DEF topped
<1>11. /\ active \in Seq(Range(active)) /\ Range(active) \in SUBSET S
       /\ Range(active) = {Order(e)[k] : k \in 1 .. fit}
  BY <1>6, ActiveFacts
<1>12. min \in [Chargers -> Int] /\ Taken(Watts(min), S) = cost
  BY <1>6, MinimumTaken DEF cost
<1> HIDE DEF active
<1> DEFINE A == Range(active)
           spare == ThreePhaseA(topped.left)
           w == ThreePhaseW(spare) + cost
<1>13. topped.left \in Nat /\ spare \in Nat /\ ThreePhaseW(spare) <= topped.left /\ w \in Int
  BY <1>8, <1>10 DEF HeatIsShared, ThreePhaseA, ThreePhaseW
<1>14. S \in SUBSET Chargers /\ \A i \in S : CapA(e, i) \in EvMinCurrentA .. site.chargers[i].max
  BY SharingFacts
<1>15. CarsFit(start, e, A, min, w)
  <2>1. start.amps = min /\ start.open = active /\ start.spare = spare
    OBVIOUS
  <2>2. active \in Seq(Chargers)
    BY <1>11, <1>14
  <2>3. start \in FillStates
    <3>1. ThreePhaseA(topped.left) \in Int
      BY <1>13
    <3> HIDE DEF min
    <3> QED
      BY <1>12, <2>2, <3>1 DEF FillStates
  <2>4. ASSUME NEW i \in A PROVE min[i] \in EvMinCurrentA .. CapA(e, i)
    <3>1. i \in Chargers /\ i \in S /\ ~Exempt(site.chargers[i])
      BY <1>11, <1>14 DEF Sharing
    <3>2. min[i] = EvMinCurrentA
      BY <3>1 DEF MinimumAmps
    <3> HIDE DEF min, S
    <3> QED
      BY <1>14, <3>1, <3>2 DEF EvMinCurrentA
  <2> HIDE DEF start, min, S, A, spare
  <2> QED
    BY <1>11, <1>12, <1>13, <2>1, <2>3, <2>4 DEF CarsFit, w, S, A
<1> HIDE DEF start, min, w, spare, A
<1>16. PICK s : CarsFit(s, e, A, min, w) /\ amps = s.amps
  <2>1. A \in SUBSET Sharing(e) /\ w \in Int
    BY <1>11, <1>13 DEF A
  <2> HIDE DEF S
  <2>2. \E s : CarsFit(s, e, A, min, w) /\ Filled(e, start) = s.amps
    BY <1>15, <2>1, FilledKeeps
  <2> QED
    BY <2>2
<1> HIDE DEF amps
<1>17. amps \in [Chargers -> Int] /\ s.spare \in Nat /\ ThreePhaseW(s.spare) + Taken(Watts(amps), S) = w
  BY <1>16 DEF CarsFit, FillStates
<1>18. ASSUME NEW i \in Chargers
       PROVE  /\ CanCharge(i, amps[i]) /\ (i \in S => (amps[i] > 0 <=> i \in A))
              /\ i \notin S /\ ~Exempt(site.chargers[i]) => amps[i] = 0
  <2>1. CASE i \in A
    <3>1. amps[i] \in EvMinCurrentA .. CapA(e, i) /\ i \in S
      BY <1>11, <1>16, <2>1 DEF CarsFit, A
    <3>2. CapA(e, i) \in EvMinCurrentA .. site.chargers[i].max
      BY <1>14, <3>1
    <3>3. site.chargers[i].max \in Int
      BY ChargerFacts
    <3> HIDE DEF S
    <3> QED
      BY <1>17, <2>1, <3>1, <3>2, <3>3 DEF CanCharge, EvMinCurrentA
  <2>2. CASE i \notin A
    <3>1. amps[i] = min[i]
      BY <1>16, <2>2 DEF CarsFit
    <3>2. CASE Exempt(site.chargers[i])
      <4>1. min[i] = CapA(e, i)
        BY <3>2 DEF min, MinimumAmps
      <4>2. i \notin S
        BY <3>2 DEF Sharing
      <4>3. CanCharge(i, amps[i])
        BY <3>1, <4>1, CapFacts DEF CanCharge
      <4> QED
        BY <3>2, <4>2, <4>3
    <3>3. CASE ~Exempt(site.chargers[i])
      <4>1. min[i] = 0
        BY <2>2, <3>3 DEF min, MinimumAmps, A
      <4> QED
        BY <2>2, <3>1, <4>1 DEF CanCharge
    <3> QED
      BY <3>2, <3>3
  <2> QED
    BY <2>1, <2>2
<1>19. FirstInOrder(e, amps)
  <2>1. \A i \in S : amps[i] > 0 <=> \E k \in 1 .. fit : Order(e)[k] = i
    BY <1>11, <1>14, <1>18 DEF A
  <2> QED
    BY <1>6, <2>1 DEF FirstInOrder
<1>20. Taken(Watts(amps), S) + Taken(topped.heat, OwnPumps) <= left
  <2>1. Taken(Watts(amps), S) \in Int
    BY <1>14, <1>17, WattsType, TakenInt, SharingFacts
  <2>2. topped.heat \in [HeatPumps -> Int] /\ topped.left + Taken(topped.heat, OwnPumps) = left - cost
    BY <1>10 DEF HeatIsShared, PumpsCanRun
  <2>3. Taken(topped.heat, OwnPumps) \in Int
    BY <2>2, OwnPumpsFinite, TakenInt
  <2>4. ThreePhaseW(s.spare) \in Nat /\ ThreePhaseW(spare) \in Nat
    BY <1>13, <1>17 DEF ThreePhaseW
  <2> HIDE DEF S
  <2> QED
    BY <1>2, <1>8, <1>13, <1>17, <2>1, <2>2, <2>3, <2>4 DEF w
<1>21. PumpsCanRun(topped.heat)
  BY <1>10 DEF HeatIsShared
<1>22. CarsCanCharge(amps)
  BY <1>17, <1>18 DEF CarsCanCharge
<1>23. a.amps = amps /\ a.heat = topped.heat
  BY <1>1
<1>24. OthersWait(e, amps)
  BY <1>18 DEF OthersWait
<1> QED
  BY <1>19, <1>20, <1>21, <1>22, <1>23, <1>24 DEF left

-----------------------------------------------------------------------------
\* What the other computations of a cycle return.

LEMMA SumOverInt ==
  ASSUME NEW S, IsFiniteSet(S), NEW f, \A i \in S : f[i] \in Int
  PROVE  SumFunction([i \in S |-> f[i]]) \in Int
<1> DEFINE g == [i \in S |-> f[i]]
<1>1. g \in [S -> Int]
  OBVIOUS
<1> HIDE DEF g
<1>2. SumFunction(g) \in Int
  BY <1>1, SumInt
<1> QED
  BY <1>2 DEF g

FlowsOK(flows) ==
  /\ flows.loads \in Int /\ flows.battery \in Int /\ flows.pv \in Int
  /\ flows.base \in Int /\ flows.grid \in Int

ReadingsOK(r) ==
  /\ r.grid \in OptInt /\ r.pv \in OptInt /\ r.available \in OptInt
  /\ r.loads \in Int /\ r.battery \in Int
  /\ \A i \in Inverters : r.inverters[i].online \in BOOLEAN /\ r.inverters[i].w \in Int

LEMMA HeatPumpDrawType ==
  ASSUME SiteOK, SetpointsOK, NEW e \in EnvironmentsOf(site), NEW i \in HeatPumps
  PROVE  HeatPumpDraw(e, i) \in Int
<1>1. setpoints.heat_pump_limit[i] \in Int /\ setpoints.heat_pump_ext[i] \in OptInt
  BY DEF SetpointsOK
<1>2. e.pumps[i].demand \in Int /\ site.heat_pumps[i].rated \in Int
  BY EnvFacts, HeatPumpFacts
<1> QED
  BY <1>1, <1>2 DEF HeatPumpDraw, Least, OrElse, OptInt

LEMMA SunOnType ==
  ASSUME SiteOK, NEW e \in EnvironmentsOf(site), NEW i \in Inverters
  PROVE  SunOn(e, i) \in Int
<1>1. site.inverters[i] \in Int /\ e.sun \in Int
  <2>1. e.sun \in Percent
    BY EnvFacts
  <2>2. e.sun \in Int
    BY <2>1 DEF Percent
  <2> QED
    BY <2>2, InverterFacts
<1>2. site.inverters[i] * e.sun \in Int
  BY <1>1
<1> QED
  BY <1>2 DEF SunOn

LEMMA InverterOutputType ==
  ASSUME SiteOK, sent_pct \in [Inverters -> Percent], NEW e \in EnvironmentsOf(site), NEW i \in Inverters
  PROVE  InverterOutput(e, i) \in Int
<1>1. site.inverters[i] \in Int /\ sent_pct[i] \in Int
  <2>1. sent_pct[i] \in Percent
    OBVIOUS
  <2> QED
    <3>1. sent_pct[i] \in Int
      BY <2>1 DEF Percent
    <3> QED
      BY <3>1, InverterFacts
<1>2. site.inverters[i] * sent_pct[i] \in Int
  BY <1>1
<1>3. SunOn(e, i) \in Int
  BY SunOnType
<1> QED
  BY <1>2, <1>3 DEF InverterOutput, Least

LEMMA FlowsFacts ==
  ASSUME SiteOK, SetpointsOK, sent_pct \in [Inverters -> Percent], NEW e \in EnvironmentsOf(site)
  PROVE  FlowsOK(Flows(e))
<1> DEFINE c == [i \in Chargers |-> ChargerDraw(e, i)]
           h == [i \in HeatPumps |-> HeatPumpDraw(e, i)]
           b == [i \in Batteries |-> BatteryFlow(e, i)]
           p == [i \in Inverters |-> InverterOutput(e, i)]
<1>1. c \in [Chargers -> Int] /\ h \in [HeatPumps -> Int] /\ p \in [Inverters -> Int]
  BY ChargerDrawType, HeatPumpDrawType, InverterOutputType
<1>2. b \in [Batteries -> Int]
  <2>1. \A i \in Batteries : setpoints.battery[i] \in Int
    BY DEF SetpointsOK
  <2> QED
    BY <2>1 DEF BatteryFlow
<1>3. Flows(e) = [loads |-> SumFunction(c) + SumFunction(h), battery |-> SumFunction(b), pv |-> SumFunction(p),
                  base |-> e.base,
                  grid |-> e.base + (SumFunction(c) + SumFunction(h)) + SumFunction(b) - SumFunction(p)]
  BY DEF Flows, SumOver
<1> HIDE DEF c, h, b, p
<1>4. SumFunction(c) \in Int /\ SumFunction(h) \in Int /\ SumFunction(b) \in Int /\ SumFunction(p) \in Int
  BY <1>1, <1>2, FiniteDevices, SumInt
<1>5. e.base \in Int
  BY EnvFacts
<1> QED
  BY <1>3, <1>4, <1>5 DEF FlowsOK

LEMMA ReadingsFacts ==
  ASSUME SiteOK, SetpointsOK, sent_pct \in [Inverters -> Percent], NEW e \in EnvironmentsOf(site),
         NEW flows, FlowsOK(flows)
  PROVE  ReadingsOK(Plausible(ReadingsOf(e, flows)))
<1> DEFINE S == {i \in Chargers : e.cars[i].online}
           T == {i \in HeatPumps : e.pumps[i].online}
           c == [i \in S |-> ChargerDraw(e, i)]
           h == [i \in T |-> HeatPumpDraw(e, i)]
           a == [i \in Inverters |-> SunOn(e, i)]
           r == ReadingsOf(e, flows)
<1>1. IsFiniteSet(S) /\ IsFiniteSet(T)
  <2>1. S \in SUBSET Chargers /\ T \in SUBSET HeatPumps
    OBVIOUS
  <2> QED
    BY <2>1, FiniteDevices, FS_Subset
<1>2. c \in [S -> Int] /\ h \in [T -> Int] /\ a \in [Inverters -> Int]
  BY ChargerDrawType, HeatPumpDrawType, SunOnType
<1>3. OnlineLoads(e) = SumFunction(c) + SumFunction(h)
  BY DEF OnlineLoads, SumOver
<1>4. SumOver(LAMBDA i : SunOn(e, i), Inverters) = SumFunction(a)
  BY DEF SumOver
<1> HIDE DEF S, T, c, h, a
<1>5. SumFunction(c) \in Int /\ SumFunction(h) \in Int /\ SumFunction(a) \in Int
  BY <1>1, <1>2, FiniteDevices, SumInt
<1>6. OnlineLoads(e) \in Int /\ SumOver(LAMBDA i : SunOn(e, i), Inverters) \in Int
  BY <1>3, <1>4, <1>5
<1>7. /\ flows.grid \in Int /\ flows.pv \in Int /\ flows.battery \in Int /\ site.connection \in Int
      /\ site.pv_installed \in Int /\ e.meter \in {"ok", "wrong", "off"}
  BY SiteNumbers, EnvFacts DEF FlowsOK
<1>8. r.grid = CASE e.meter = "ok" -> flows.grid
                 [] e.meter = "wrong" -> 2 * site.connection
                 [] e.meter = "off" -> None
  BY DEF ReadingsOf
<1>9. r.grid \in OptInt
  <2> HIDE DEF r
  <2> QED
    BY <1>7, <1>8 DEF OptInt
<1>10. r.pv \in OptInt /\ r.battery = flows.battery /\ r.loads = OnlineLoads(e)
  BY <1>7 DEF ReadingsOf, OptInt
<1>11. r.available \in OptInt
  BY <1>6 DEF ReadingsOf, OptInt
<1>12. \A i \in Inverters : r.inverters[i].online \in BOOLEAN /\ r.inverters[i].w \in Int
  <2>1. \A i \in Inverters : InverterOutput(e, i) \in Int
    BY InverterOutputType
  <2>2. \A i \in Inverters : r.inverters[i] = [online |-> e.inverters[i] # "off", w |-> InverterOutput(e, i)]
    BY DEF ReadingsOf
  <2> HIDE DEF r
  <2> SUFFICES ASSUME NEW i \in Inverters PROVE r.inverters[i].online \in BOOLEAN /\ r.inverters[i].w \in Int
    OBVIOUS
  <2> DEFINE on == e.inverters[i] # "off"
             w == InverterOutput(e, i)
  <2>3. r.inverters[i] = [online |-> on, w |-> w]
    BY <2>2
  <2>a. on \in BOOLEAN /\ w \in Int
    BY <2>1
  <2> HIDE DEF on, w
  <2>4. r.inverters[i].w \in Int
    BY <2>3, <2>a
  <2>5. r.inverters[i].online \in BOOLEAN
    BY <2>3, <2>a
  <2> QED
    BY <2>4, <2>5
<1>13. DOMAIN r = {"grid", "pv", "loads", "battery", "available", "inverters"}
  BY DEF ReadingsOf
<1> HIDE DEF r
<1> DEFINE q == Plausible(r)
<1>14. /\ q.loads = r.loads /\ q.battery = r.battery /\ q.available = r.available
       /\ q.inverters = r.inverters
  BY <1>13 DEF Plausible
<1>15. q.grid \in OptInt
  <2>1. q.grid = None \/ q.grid = r.grid
    BY <1>13 DEF Plausible
  <2> QED
    BY <1>9, <2>1 DEF OptInt
<1>16. q.pv \in OptInt
  <2>1. q.pv = None \/ (r.pv # None /\ q.pv = Positive(r.pv))
    BY <1>13 DEF Plausible
  <2> HIDE DEF q
  <2> QED
    BY <1>10, <2>1 DEF OptInt, Positive, Most
<1> HIDE DEF q
<1>17. q.loads \in Int /\ q.battery \in Int /\ q.available \in OptInt
  BY <1>6, <1>7, <1>10, <1>11, <1>14
<1>18. ReadingsOK(q)
  BY <1>12, <1>14, <1>15, <1>16, <1>17 DEF ReadingsOK
<1> QED
  BY <1>18 DEF q, r

LEMMA BaseLoadFacts ==
  ASSUME NEW r, ReadingsOK(r)
  PROVE  /\ BaseLoad(r) \in OptInt
         /\ BaseLoad(r) # None => r.grid \in Int /\ r.pv \in Int
         /\ Surplus(r) \in Nat \cup {None}
<1>1. /\ r.grid \in OptInt /\ r.pv \in OptInt /\ r.loads \in Int /\ r.battery \in Int
      /\ None \notin Int
  BY DispatchAssumption DEF ReadingsOK
<1>2. BaseLoad(r) = IF r.grid = None \/ r.pv = None THEN None ELSE r.grid + r.pv - r.loads - r.battery
  BY DEF BaseLoad
<1>3. BaseLoad(r) \in OptInt /\ (BaseLoad(r) # None => r.grid \in Int /\ r.pv \in Int)
  BY <1>1, <1>2 DEF OptInt
<1>4. Surplus(r) \in Nat \cup {None}
  BY <1>3 DEF Surplus, Positive, Most, OptInt
<1> QED
  BY <1>3, <1>4

LEMMA AllowedExportType ==
  ASSUME SiteOK, NEW pct \in Percent
  PROVE  AllowedExport(pct) \in Nat
<1>1. site.pv_installed \in Nat /\ pct \in Nat
  BY SiteNumbers DEF Percent
<1>2. site.pv_installed * pct \in Nat
  BY <1>1
<1> QED
  BY <1>2 DEF AllowedExport

LEMMA FloorType ==
  ASSUME SiteOK
  PROVE  FloorW(site) \in Int
<1>1. site.policy \in Policies /\ site.policy.contract \in ConsumptionRules
  BY SiteNumbers DEF Policies
<1>2. CASE site.policy.contract # None
  <2>1. site.policy.contract \in [min_w : Int, max_minutes : Int]
    BY <1>1, <1>2 DEF ConsumptionRules
  <2> QED
    BY <1>2, <2>1 DEF FloorW
<1>3. CASE site.policy.contract = None
  <2> DEFINE hp == [i \in HeatPumps |-> site.heat_pumps[i].rated]
             n == Len(site.chargers) + Len(site.batteries) + Len(hp)
  <2>1. hp \in [HeatPumps -> Int] /\ hp \in [1 .. Len(site.heat_pumps) -> Int]
    BY HeatPumpFacts
  <2>2. FloorW(site) = PminW(Len(site.chargers) + Len(site.batteries), hp)
    BY <1>3 DEF FloorW, HeatPumps
  <2> HIDE DEF hp
  <2>3. SumFunction(hp) \in Int
    BY <2>1, FiniteDevices, SumInt
  <2>4. n \in Nat
    <3>1. Len(hp) \in Nat
      BY <2>1, HeatPumpFacts, FunctionIsSequence
    <3>2. Len(site.chargers) \in Nat /\ Len(site.batteries) \in Nat
      BY ChargerFacts, BatteryFacts
    <3> DEFINE a == Len(site.chargers)
               b == Len(site.batteries)
               c == Len(hp)
    <3>3. a \in Nat /\ b \in Nat /\ c \in Nat
      BY <3>1, <3>2
    <3> HIDE DEF a, b, c
    <3>4. a + b + c \in Nat
      BY <3>3
    <3> QED
      BY <3>4 DEF a, b, c
  <2>5. SimultaneityFactor(n) \in Int
    <3> HIDE DEF n
    <3> QED
      BY <2>4 DEF SimultaneityFactor
  <2>6. (n - 1) * 42 * SimultaneityFactor(n) \in Int
    <3> HIDE DEF n
    <3> QED
      BY <2>4, <2>5
  <2> DEFINE large == \E i \in DOMAIN hp : hp[i] > 11000
             base == IF large THEN (2 * SumFunction(hp)) \div 5 ELSE 4200
  <2>7. base \in Int
    <3>1. (2 * SumFunction(hp)) \div 5 \in Int
      BY <2>3
    <3> HIDE DEF large
    <3> QED
      BY <3>1
  <2>8. FloorW(site) = IF n = 0 THEN 0 ELSE base + (n - 1) * 42 * SimultaneityFactor(n)
    BY <2>2 DEF PminW
  <2> HIDE DEF n, base
  <2> QED
    BY <2>6, <2>7, <2>8
<1> QED
  BY <1>2, <1>3

LEMMA WantedType ==
  ASSUME SiteOK, NEW e \in EnvironmentsOf(site), NEW r, ReadingsOK(r), r.grid # None,
         NEW constrained \in BOOLEAN, NEW floor \in Int, NEW limit \in Percent
  PROVE  Wanted(e, r, constrained, floor, limit) \in Int
<1> DEFINE base == BaseLoad(r)
           idle == r.grid - r.battery
           reference == IF r.available # None THEN r.available ELSE r.pv
           free == IF None \in {base, r.available} THEN None ELSE base + r.loads - r.available
           surplus == IF None \in {base, reference} THEN 0 ELSE Positive(reference - base - r.loads)
           blind == limit < 100 /\ free = None
           planned == e.grid_plan - idle
           stored == IF free # None /\ limit < 100
                     THEN Most(planned, -free - AllowedExport(limit)) ELSE planned
           guided == IF blind THEN Positive(stored) ELSE stored
           net == IF free # None THEN free ELSE idle
           under == IF None \in {base, reference} THEN 0 ELSE base - reference
<1>1. /\ r.grid \in Int /\ r.battery \in Int /\ r.loads \in Int /\ r.available \in OptInt
      /\ r.pv \in OptInt /\ e.grid_plan \in OptInt /\ site.import_target \in Int
      /\ base \in OptInt /\ AllowedExport(limit) \in Int
  BY BaseLoadFacts, SiteNumbers, EnvFacts, AllowedExportType DEF ReadingsOK, OptInt
<1>2. Wanted(e, r, constrained, floor, limit) =
        IF e.grid_plan # None /\ (~constrained \/ e.dim_expected)
        THEN NotFromTheGrid(guided, surplus, constrained)
        ELSE IF constrained THEN -Positive(floor + under)
        ELSE IF net < 0 THEN -net
        ELSE IF blind THEN 0
        ELSE -Positive(net - site.import_target)
  BY DEF Wanted
<1> HIDE DEF base
<1>3. idle \in Int /\ reference \in OptInt /\ free \in OptInt
  BY <1>1 DEF OptInt
<1> HIDE DEF idle, reference, free
<1>4. surplus \in Int /\ under \in Int /\ net \in Int
  BY <1>1, <1>3 DEF OptInt, Positive, Most
<1>5. e.grid_plan # None => guided \in Int
  <2> SUFFICES ASSUME e.grid_plan # None PROVE guided \in Int
    OBVIOUS
  <2>1. planned \in Int
    BY <1>1, <1>3 DEF OptInt
  <2> HIDE DEF planned
  <2>2. stored \in Int
    BY <1>1, <1>3, <2>1 DEF OptInt, Most
  <2> HIDE DEF stored
  <2> QED
    BY <2>2 DEF Positive, Most
<1> HIDE DEF surplus, under, net, guided, blind
<1>6. e.grid_plan # None => NotFromTheGrid(guided, surplus, constrained) \in Int
  BY <1>4, <1>5 DEF NotFromTheGrid, Least
<1>7. -Positive(floor + under) \in Int /\ -net \in Int /\ -Positive(net - site.import_target) \in Int
  BY <1>1, <1>4 DEF Positive, Most
<1> QED
  BY <1>2, <1>6, <1>7

BatteryPlans == [want : Int, power : [Batteries -> Int]]
BatterySequence == [i \in Batteries |-> i]

LEMMA ShareType ==
  ASSUME SiteOK, NEW e \in EnvironmentsOf(site), NEW acc \in BatteryPlans, NEW i \in Batteries
  PROVE  Share(e, acc, i) \in BatteryPlans
<1> DEFINE low == -Least(site.batteries[i].discharge, 4 * e.bats[i].below)
           high == Least(site.batteries[i].charge, 4 * e.bats[i].above)
           p == IF e.bats[i].online THEN Clamp(acc.want, low, high) ELSE 0
<1>1. acc.want \in Int /\ acc.power \in [Batteries -> Int]
  BY DEF BatteryPlans
<1>2. low \in Int /\ high \in Int
  <2>1. /\ site.batteries[i].discharge \in Int /\ site.batteries[i].charge \in Int
        /\ e.bats[i].below \in Int /\ e.bats[i].above \in Int
    BY BatteryFacts, EnvFacts
  <2> QED
    BY <2>1 DEF Least
<1> HIDE DEF low, high
<1>3. p \in Int
  BY <1>1, <1>2 DEF Clamp, Least, Most
<1>4. Share(e, acc, i) = [want |-> acc.want - p, power |-> [acc.power EXCEPT ![i] = p]]
  BY DEF Share, low, high
<1> HIDE DEF p
<1> QED
  BY <1>1, <1>3, <1>4 DEF BatteryPlans

\* What the fold of Share chooses, and its steps.
IsShare(it, e, start) ==
  it = [s \in SUBSET (DOMAIN BatterySequence) |->
          IF s = {} THEN start
          ELSE Share(e, it[s \ {Max(s)}], BatterySequence[Max(s)])]

ShareRun(g, e, start, n) ==
  /\ g[0] = start
  /\ \A k \in 1 .. n : g[k] = Share(e, g[k - 1], k)

LEMMA ShareExists ==
  ASSUME SiteOK, NEW e \in EnvironmentsOf(site), NEW start \in BatteryPlans
  PROVE  \E it : IsShare(it, e, start)
<1> DEFINE n == Len(site.batteries)
           step == [p \in (1 .. n) \X BatteryPlans |-> Share(e, p[2], p[1])]
<1>1. n \in Nat /\ DOMAIN BatterySequence = 1 .. n /\ \A i \in 1 .. n : BatterySequence[i] = i
  BY BatteryFacts DEF BatterySequence
<1>2. step \in [(1 .. n) \X BatteryPlans -> BatteryPlans]
  <2> SUFFICES ASSUME NEW i \in 1 .. n, NEW a \in BatteryPlans PROVE Share(e, a, i) \in BatteryPlans
    OBVIOUS
  <2> QED
    BY <1>1, ShareType, BatteryFacts
<1>3. \A i \in 1 .. n, a \in BatteryPlans : step[<<i, a>>] = Share(e, a, i)
  OBVIOUS
<1> HIDE DEF n, step
<1>4. PICK it : FoldsTo(it, n, BatteryPlans, start, step)
  BY <1>1, <1>2, FoldExists
<1>5. ASSUME NEW s \in SUBSET (1 .. n)
      PROVE  it[s] = IF s = {} THEN start
                     ELSE Share(e, it[s \ {Max(s)}], BatterySequence[Max(s)])
  <2>1. CASE s = {}
    BY <1>4, <2>1 DEF FoldsTo
  <2>2. CASE s # {}
    <3>1. Max(s) \in 1 .. n
      BY <1>1, <2>2, MaxIn
    <3>2. it[s \ {Max(s)}] \in BatteryPlans
      BY <1>4 DEF FoldsTo
    <3>3. it[s] = step[<<Max(s), it[s \ {Max(s)}]>>]
      BY <1>4, <2>2 DEF FoldsTo
    <3> QED
      BY <1>1, <1>3, <2>2, <3>1, <3>2, <3>3
  <2> QED
    BY <2>1, <2>2
<1>6. it \in [SUBSET (1 .. n) -> BatteryPlans]
  BY <1>4 DEF FoldsTo
<1>7. it = [s \in SUBSET (1 .. n) |->
              IF s = {} THEN start
              ELSE Share(e, it[s \ {Max(s)}], BatterySequence[Max(s)])]
  BY <1>5, <1>6
<1> QED
  BY <1>1, <1>7, ZenonT(30) DEF IsShare

\* Whatever is chosen runs through the steps.
LEMMA ShareSteps ==
  ASSUME SiteOK, NEW e \in EnvironmentsOf(site), NEW start \in BatteryPlans, NEW it, IsShare(it, e, start)
  PROVE  \E g : ShareRun(g, e, start, Len(site.batteries)) /\ g[Len(site.batteries)] = it[DOMAIN BatterySequence]
<1> DEFINE n == Len(site.batteries)
           g == [k \in 0 .. n |-> it[1 .. k]]
<1>1. n \in Nat /\ DOMAIN BatterySequence = 1 .. n /\ \A i \in 1 .. n : BatterySequence[i] = i
  BY BatteryFacts DEF BatterySequence
<1> HIDE DEF n
<1>2. g[0] = start
  <2>1. it[1 .. 0] = start
    BY <1>1, FirstSteps DEF IsShare
  <2> QED
    BY <1>1, <2>1
<1>3. ASSUME NEW k \in 1 .. n PROVE g[k] = Share(e, g[k - 1], k)
  <2>1. 1 .. k \in SUBSET (1 .. n) /\ 1 .. k # {} /\ Max(1 .. k) = k /\ (1 .. k) \ {k} = 1 .. k - 1
    BY <1>1, FirstSteps
  <2> DEFINE s == 1 .. k
  <2>2. s \in SUBSET (DOMAIN BatterySequence) /\ s # {}
    BY <1>1, <2>1
  <2> HIDE DEF s
  <2>3. it[s] = Share(e, it[s \ {Max(s)}], BatterySequence[Max(s)])
    BY <2>2 DEF IsShare
  <2>4. it[1 .. k] = Share(e, it[1 .. k - 1], k)
    BY <1>1, <2>1, <2>3 DEF s
  <2> QED
    BY <1>1, <2>4
<1>4. g[n] = it[DOMAIN BatterySequence]
  BY <1>1
<1> HIDE DEF g
<1>5. ShareRun(g, e, start, n)
  BY <1>2, <1>3 DEF ShareRun
<1> QED
  BY <1>4, <1>5 DEF n

LEMMA PlanBatteriesRuns ==
  ASSUME SiteOK, NEW e \in EnvironmentsOf(site), NEW r, ReadingsOK(r), r.grid # None,
         NEW constrained \in BOOLEAN, NEW floor \in Int, NEW limit \in Percent
  PROVE  \E g : /\ ShareRun(g, e, [want |-> Wanted(e, r, constrained, floor, limit),
                                   power |-> [i \in Batteries |-> 0]], Len(site.batteries))
                /\ PlanBatteries(e, r, constrained, floor, limit) = g[Len(site.batteries)].power
<1> DEFINE still == [i \in Batteries |-> 0]
           want == Wanted(e, r, constrained, floor, limit)
           start == [want |-> want, power |-> still]
           it == CHOOSE it : IsShare(it, e, start)
<1>1. PlanBatteries(e, r, constrained, floor, limit) = it[DOMAIN BatterySequence].power
  BY DEF PlanBatteries, FoldLeft, MapThenFoldSet, IsShare, BatterySequence
<1>2. start \in BatteryPlans
  <2>1. want \in Int
    BY WantedType
  <2> HIDE DEF want
  <2> QED
    BY <2>1 DEF BatteryPlans
<1> HIDE DEF start
<1>3. IsShare(it, e, start)
  <2>1. \E h : IsShare(h, e, start)
    BY <1>2, ShareExists
  <2> QED
    BY <2>1, Zenon
<1> HIDE DEF it
<1>4. \E g : ShareRun(g, e, start, Len(site.batteries)) /\ g[Len(site.batteries)] = it[DOMAIN BatterySequence]
  BY <1>2, <1>3, ShareSteps
<1> QED
  BY <1>1, <1>4 DEF start

LEMMA PlanBatteriesType ==
  ASSUME SiteOK, NEW e \in EnvironmentsOf(site), NEW r, ReadingsOK(r),
         NEW constrained \in BOOLEAN, NEW floor \in Int, NEW limit \in Percent
  PROVE  PlanBatteries(e, r, constrained, floor, limit) \in [Batteries -> Int]
<1>1. CASE r.grid = None
  BY <1>1 DEF PlanBatteries
<1>2. CASE r.grid # None
  <2> DEFINE n == Len(site.batteries)
             start == [want |-> Wanted(e, r, constrained, floor, limit), power |-> [i \in Batteries |-> 0]]
  <2>1. PICK g : ShareRun(g, e, start, n) /\ PlanBatteries(e, r, constrained, floor, limit) = g[n].power
    BY <1>2, PlanBatteriesRuns
  <2>2. start \in BatteryPlans
    <3> DEFINE want == Wanted(e, r, constrained, floor, limit)
    <3>1. want \in Int
      BY <1>2, WantedType
    <3> HIDE DEF want
    <3>2. [want |-> want, power |-> [i \in Batteries |-> 0]] \in BatteryPlans
      BY <3>1 DEF BatteryPlans
    <3> QED
      BY <3>2 DEF want
  <2>3. n \in Nat /\ Batteries = 1 .. n
    BY BatteryFacts
  <2> HIDE DEF n, start
  <2> DEFINE P == {k \in 0 .. n : g[k] \in BatteryPlans}
  <2>4. 0 \in P
    BY <2>1, <2>2, <2>3 DEF ShareRun
  <2>5. \A k \in 1 .. n : k - 1 \in P => k \in P
    <3> SUFFICES ASSUME NEW k \in 1 .. n, k - 1 \in P PROVE k \in P
      OBVIOUS
    <3>1. g[k] = Share(e, g[k - 1], k)
      BY <2>1 DEF ShareRun
    <3>2. g[k - 1] \in BatteryPlans /\ k \in Batteries
      BY <2>3
    <3>3. g[k] \in BatteryPlans
      BY <3>1, <3>2, ShareType
    <3> QED
      BY <2>3, <3>3
  <2>6. n \in P
    <3>1. P \in SUBSET (0 .. n)
      OBVIOUS
    <3> HIDE DEF P
    <3> QED
      BY <2>3, <2>4, <2>5, <3>1, UpTo
  <2> QED
    BY <2>1, <2>6 DEF BatteryPlans
<1> QED
  BY <1>1, <1>2

LEMMA FeedInPctType ==
  ASSUME SiteOK, NEW e \in EnvironmentsOf(site)
  PROVE  FeedInPct(e) \in Percent
<1>1. site.policy.static_cap \in OptPercent /\ e.feed_in \in Percent
  BY SiteNumbers, EnvFacts DEF Policies
<1> QED
  BY <1>1 DEF FeedInPct, Least, OrElse, OptPercent, Percent

LEMMA OverAgeType ==
  ASSUME SiteOK, NEW r, NEW dt \in Nat,
         over_age \in [Inverters -> (0 .. site.pv_follow_timeout) \cup {None}]
  PROVE  OverAge(r, dt) \in [Inverters -> (0 .. site.pv_follow_timeout) \cup {None}]
<1> DEFINE A == (0 .. site.pv_follow_timeout) \cup {None}
           over(i) == /\ r.inverters[i].online /\ sent_pct[i] < 100
                      /\ r.inverters[i].w * 100 > site.inverters[i] * sent_pct[i]
                           + Most(site.margin * 100, 2 * site.inverters[i])
           new(i) == IF over_age[i] = None THEN 0
                     ELSE Least(over_age[i] + dt, site.pv_follow_timeout)
<1>1. OverAge(r, dt) = [i \in Inverters |-> IF ~over(i) THEN None ELSE new(i)]
  BY DEF OverAge
<1>2. ASSUME NEW i \in Inverters PROVE new(i) \in A
  <2>1. over_age[i] \in A /\ site.pv_follow_timeout \in Nat
    BY SiteNumbers
  <2> QED
    BY <2>1 DEF Least
<1> HIDE DEF over, new
<1> QED
  BY <1>1, <1>2

LEMMA TargetPctType ==
  ASSUME SiteOK, NEW r, ReadingsOK(r), NEW pct \in Percent, NEW planned \in Int
  PROVE  TargetPct(pct, r, planned) \in Percent
<1> DEFINE used == Positive(r.pv + r.grid - r.battery + planned)
           room == AllowedExport(pct) + used - site.margin
           x == (room * 100) \div site.pv_installed
<1>1. CASE pct >= 100 \/ ~site.at_connection \/ None \in {r.grid, r.pv}
  BY <1>1 DEF TargetPct, Percent
<1>2. CASE ~(pct >= 100 \/ ~site.at_connection \/ None \in {r.grid, r.pv})
  <2>1. TargetPct(pct, r, planned) = Clamp(x, pct, 100)
    BY <1>2 DEF TargetPct
  <2>2. r.pv \in Int /\ r.grid \in Int /\ r.battery \in Int
    BY <1>2 DEF ReadingsOK, OptInt
  <2>3. used \in Int
    BY <2>2 DEF Positive, Most
  <2> HIDE DEF used
  <2>4. room \in Int
    BY <2>3, AllowedExportType, SiteNumbers
  <2> HIDE DEF room
  <2>5. site.pv_installed \in Nat \ {0}
    BY SiteNumbers
  <2>6. x \in Int
    BY <2>4, <2>5
  <2> HIDE DEF x
  <2> QED
    BY <2>1, <2>6 DEF Clamp, Least, Most, Percent
<1> QED
  BY <1>1, <1>2

LEMMA RampedType ==
  ASSUME SiteOK, pv_pct \in Percent, NEW target \in Percent, NEW dt \in Nat
  PROVE  Ramped(target, dt) \in Percent
<1>1. site.pv_ramp \in Nat
  BY SiteNumbers
<1>2. site.pv_ramp * dt \in Nat
  BY <1>1
<1> QED
  BY <1>2, SMTT(30) DEF Ramped, Least, Percent

LEMMA InverterPctType ==
  ASSUME SiteOK, NEW r, ReadingsOK(r), NEW pct \in Percent, NEW age
  PROVE  InverterPct(pct, r, age) \in [Inverters -> Percent]
<1> DEFINE stuck == Ignoring(age)
           free == {i \in Inverters \ stuck : r.inverters[i].online}
           f == [i \in stuck |-> r.inverters[i].w]
           g == [i \in free |-> site.inverters[i]]
           left == AllowedExport(pct) - SumFunction(f)
           rated == SumFunction(g)
           share == IF rated > 0 THEN Clamp((left * 100) \div rated, 0, pct) ELSE pct
<1>1. stuck \in SUBSET Inverters /\ free \in SUBSET Inverters
  BY DEF Ignoring
<1>2. IsFiniteSet(stuck) /\ IsFiniteSet(free)
  BY <1>1, FiniteDevices, FS_Subset
<1>3. f \in [stuck -> Int] /\ g \in [free -> Int]
  BY <1>1, InverterFacts DEF ReadingsOK
<1>4. InverterPct(pct, r, age) =
        [i \in Inverters |-> IF pct >= 100 \/ stuck = {} \/ i \in stuck THEN pct ELSE share]
  BY DEF InverterPct, SumOver
<1> HIDE DEF stuck, free, f, g
<1>5. SumFunction(f) \in Int /\ SumFunction(g) \in Int
  BY <1>2, <1>3, SumInt
<1>6. left \in Int /\ rated \in Int
  BY <1>5, AllowedExportType
<1> HIDE DEF left, rated
<1>7. share \in Percent
  <2>1. CASE rated > 0
    <3> DEFINE x == (left * 100) \div rated
    <3>1. x \in Int
      BY <1>6, <2>1
    <3>2. share = Clamp(x, 0, pct)
      BY <2>1
    <3> HIDE DEF x
    <3> QED
      BY <3>1, <3>2 DEF Clamp, Least, Most, Percent
  <2>2. CASE ~(rated > 0)
    BY <2>2
  <2> QED
    BY <2>1, <2>2
<1> HIDE DEF share
<1> QED
  BY <1>4, <1>7

\* The least of finitely many naturals.
LEMMA LeastOf ==
  ASSUME NEW S \in SUBSET Nat, S # {}
  PROVE  \E x \in S : \A y \in S : x <= y
<1>1. PICK m \in S : \A k \in S : <<k, m>> \notin OpToRel(<, Nat)
  BY NatLessThanWellFounded, WFMin
<1>2. \A k \in S : ~(k < m)
  BY <1>1 DEF OpToRel
<1> QED
  BY <1>2

LEMMA ChargedType ==
  ASSUME SiteOK, ChargersOK, NEW e \in EnvironmentsOf(site)
  PROVE  Charged(e) \in [Chargers -> 0 .. site.patience + 2]
<1> DEFINE raw == [i \in Chargers |->
                     IF ~e.cars[i].waiting THEN 0
                     ELSE session[i] + IF ChargerDraw(e, i) > 0 THEN e.dt ELSE 0]
           low == CHOOSE x \in Range(raw) : \A y \in Range(raw) : x <= y
<1>1. raw \in [Chargers -> Nat]
  <2>1. e.dt \in Nat /\ \A i \in Chargers : session[i] \in Nat
    <3>1. site.patience \in Nat
      BY SiteNumbers
    <3> QED
      BY <3>1, EnvFacts DEF ChargersOK
  <2> QED
    BY <2>1
<1>2. Charged(e) = [i \in Chargers |-> Least(raw[i] - low, site.patience + 2)]
  BY DEF Charged
<1> HIDE DEF raw
<1>3. Range(raw) \in SUBSET Nat /\ \A i \in Chargers : raw[i] \in Range(raw)
  BY <1>1 DEF Range
<1>4. ASSUME NEW i \in Chargers PROVE Least(raw[i] - low, site.patience + 2) \in 0 .. site.patience + 2
  <2>1. \E x \in Range(raw) : \A y \in Range(raw) : x <= y
    BY <1>3, LeastOf
  <2>2. low \in Range(raw) /\ \A y \in Range(raw) : low <= y
    BY <2>1
  <2> HIDE DEF low
  <2>3. low \in Nat /\ raw[i] \in Nat /\ low <= raw[i] /\ site.patience \in Nat
    BY <1>3, <2>2, SiteNumbers
  <2> QED
    BY <2>3 DEF Least
<1> HIDE DEF low
<1> QED
  BY <1>2, <1>4

FailsafeOK == \A i \in Chargers : site.chargers[i].failsafe >= 0

LEMMA OfflineReserveType ==
  ASSUME SiteOK, FailsafeOK, NEW e \in EnvironmentsOf(site)
  PROVE  OfflineReserve(e) \in Nat
<1> DEFINE S == {i \in Chargers : ~e.cars[i].online /\ ~Exempt(site.chargers[i])}
           T == {i \in HeatPumps : ~e.pumps[i].online /\ ~Exempt(site.heat_pumps[i])}
           f == [i \in S |-> ThreePhaseW(site.chargers[i].failsafe)]
           g == [i \in T |-> site.heat_pumps[i].rated]
<1>1. S \in SUBSET Chargers /\ T \in SUBSET HeatPumps
  OBVIOUS
<1>2. IsFiniteSet(S) /\ IsFiniteSet(T)
  BY <1>1, FiniteDevices, FS_Subset
<1>3. f \in [S -> Int] /\ \A i \in S : f[i] >= 0
  BY <1>1, ChargerFacts DEF FailsafeOK, ThreePhaseW
<1>4. g \in [T -> Int] /\ \A i \in T : g[i] >= 0
  BY <1>1, HeatPumpFacts
<1>5. OfflineReserve(e) = SumFunction(f) + SumFunction(g)
  BY DEF OfflineReserve, SumOver
<1> HIDE DEF S, T, f, g
<1>6. SumFunction(f) \in Nat
  BY <1>2, <1>3, SumNat
<1>7. SumFunction(g) \in Nat
  BY <1>2, <1>4, SumNat
<1> QED
  BY <1>5, <1>6, <1>7

LEMMA BudgetsFacts ==
  ASSUME SiteOK, status \in Statuses, NEW e \in EnvironmentsOf(site),
         NEW surplus \in Nat \cup {None}, NEW b \in Budgets(e, surplus)
  PROVE  b.mode \in Modes /\ b.w \in Int \cup {Infinity}
<1> DEFINE c == [i \in Chargers |-> ThreePhaseW(site.chargers[i].max)]
           h == [i \in HeatPumps |-> site.heat_pumps[i].rated]
           full == SumFunction(c) + SumFunction(h)
           held == IF surplus = None THEN {0}
                   ELSE {surplus, Least(surplus, OrElse(status.surplus, 0))}
<1>1. c \in [Chargers -> Int] /\ h \in [HeatPumps -> Int]
  <2>1. \A i \in Chargers : site.chargers[i].max \in Int
    BY ChargerFacts
  <2> QED
    BY <2>1, HeatPumpFacts DEF ThreePhaseW
<1>2. Budgets(e, surplus) =
        IF e.dim
        THEN {[mode |-> "dimmed", w |-> FloorW(site) + k - site.margin] : k \in held}
        ELSE {[mode |-> "normal", w |-> Infinity]} \cup
             (IF status.budget = Infinity THEN {}
              ELSE {[mode |-> "releasing", w |-> k] : k \in {status.budget, Most(full, status.budget)}})
  BY DEF Budgets, SumOver
<1> HIDE DEF c, h
<1>3. full \in Int
  <2>1. SumFunction(c) \in Int
    BY <1>1, FiniteDevices, SumInt
  <2>2. SumFunction(h) \in Int
    BY <1>1, FiniteDevices, SumInt
  <2> QED
    BY <2>1, <2>2
<1> HIDE DEF full
<1>4. held \in SUBSET Int
  <2>1. status.surplus \in Nat \cup {None}
    BY DEF Statuses
  <2> QED
    BY <2>1 DEF Least, OrElse
<1> HIDE DEF held
<1>5. FloorW(site) \in Int /\ site.margin \in Int /\ status.budget \in Int \cup {Infinity}
  BY FloorType, SiteNumbers DEF Statuses
<1>6. CASE e.dim
  <2>1. PICK k \in held : b = [mode |-> "dimmed", w |-> FloorW(site) + k - site.margin]
    BY <1>2, <1>6
  <2> QED
    BY <1>4, <1>5, <2>1 DEF Modes
<1>7. CASE ~e.dim
  <2>1. CASE b = [mode |-> "normal", w |-> Infinity]
    BY <2>1 DEF Modes
  <2>2. CASE b # [mode |-> "normal", w |-> Infinity]
    <3>1. status.budget # Infinity /\ \E k \in {status.budget, Most(full, status.budget)} : b = [mode |-> "releasing", w |-> k]
      BY <1>2, <1>7, <2>2
    <3> QED
      BY <1>3, <1>5, <3>1 DEF Most, Modes
  <2> QED
    BY <2>1, <2>2
<1> QED
  BY <1>6, <1>7

-----------------------------------------------------------------------------
\* The cycle.

\* The negative failsafe current that the checks of a configuration let pass
\* is left out: an unreachable charger would count as a source.
NoNegativeFailsafe ==
  \A s \in Sites : ValidSite(s) =>
    \A i \in DOMAIN s.chargers : s.chargers[i].failsafe >= 0

\* What the parts of a cycle computed, one after the other.
Computed(e, flows, r, age, pct, reserve, budget, bat, planned, loads, limit) ==
  /\ flows = Flows(e) /\ r = Plausible(ReadingsOf(e, flows))
  /\ age = OverAge(r, e.dt) /\ pct = FeedInPct(e) /\ reserve = OfflineReserve(e)
  /\ budget \in Budgets(e, Surplus(r))
  /\ bat = PlanBatteries(e, r, budget.mode # "normal", FloorW(site), pct)
  /\ planned = SumFunction(bat)
  /\ loads = Allocate(e, Less(LoadsBudget(budget.w, planned), reserve))
  /\ limit = Ramped(TargetPct(pct, r, planned), e.dt)

LEMMA CycleParts ==
  ASSUME NEW e, Cycle(e)
  PROVE  \E flows, r, age, pct, reserve, budget, bat, planned, loads, limit :
           /\ Computed(e, flows, r, age, pct, reserve, budget, bat, planned, loads, limit)
           /\ Sent(e, flows, r, age, pct, reserve, budget, bat, loads, limit)
<1> DEFINE flows == Flows(e)
           r == Plausible(ReadingsOf(e, flows))
           age == OverAge(r, e.dt)
           pct == FeedInPct(e)
           reserve == OfflineReserve(e)
<1> DEFINE Rest(f, q, a, p, v) ==
             \E budget \in Budgets(e, Surplus(q)) :
             \E bat \in {PlanBatteries(e, q, budget.mode # "normal", FloorW(site), p)} :
             \E planned \in {SumFunction(bat)} :
             \E loads \in {Allocate(e, Less(LoadsBudget(budget.w, planned), v))},
                limit \in {Ramped(TargetPct(p, q, planned), e.dt)} :
               Sent(e, f, q, a, p, v, budget, bat, loads, limit)
<1>a. \E f \in {Flows(e)} : \E q \in {Plausible(ReadingsOf(e, f))} :
        \E a \in {OverAge(q, e.dt)}, p \in {FeedInPct(e)}, v \in {OfflineReserve(e)} :
          Rest(f, q, a, p, v)
  BY DEF Cycle
<1>b. Rest(flows, r, age, pct, reserve)
  <2> HIDE DEF Rest
  <2> QED
    BY <1>a
<1>1. PICK budget \in Budgets(e, Surplus(r)) :
        \E bat \in {PlanBatteries(e, r, budget.mode # "normal", FloorW(site), pct)} :
        \E planned \in {SumFunction(bat)} :
        \E loads \in {Allocate(e, Less(LoadsBudget(budget.w, planned), reserve))},
           limit \in {Ramped(TargetPct(pct, r, planned), e.dt)} :
          Sent(e, flows, r, age, pct, reserve, budget, bat, loads, limit)
  <2> HIDE DEF flows, r, age, pct, reserve
  <2> QED
    BY <1>b
<1>2. PICK bat, planned, loads, limit :
        /\ bat = PlanBatteries(e, r, budget.mode # "normal", FloorW(site), pct)
        /\ planned = SumFunction(bat)
        /\ loads = Allocate(e, Less(LoadsBudget(budget.w, planned), reserve))
        /\ limit = Ramped(TargetPct(pct, r, planned), e.dt)
        /\ Sent(e, flows, r, age, pct, reserve, budget, bat, loads, limit)
  BY <1>1, Zenon
<1>3. Computed(e, flows, r, age, pct, reserve, budget, bat, planned, loads, limit)
  BY <1>1, <1>2, Zenon DEF Computed
<1> QED
  BY <1>2, <1>3, Zenon

Known == site \in Sites /\ DTypeOK

LEMMA KnownFacts ==
  ASSUME NoNegativeFailsafe, Known
  PROVE  /\ SiteOK /\ ChargersOK /\ SetpointsOK /\ FailsafeOK /\ status \in Statuses
         /\ Environments(site) \subseteq EnvironmentsOf(site)
         /\ pv_pct \in Percent /\ sent_pct \in [Inverters -> Percent]
         /\ over_age \in [Inverters -> (0 .. site.pv_follow_timeout) \cup {None}]
<1>1. site \in Sites /\ site \in SiteConfigs /\ ValidSite(site)
  BY DEF Known, DTypeOK
<1>2. site.patience \in Nat /\ Environments(site) \subseteq EnvironmentsOf(site)
  BY <1>1, SitesAssumption
<1>3. SiteOK
  BY <1>1, <1>2 DEF SiteOK
<1>4. FailsafeOK
  BY <1>1 DEF NoNegativeFailsafe, FailsafeOK, Chargers
<1>5. setpoints \in Setpoints
  BY DEF Known, DTypeOK
<1>6. SetpointsOK
  BY <1>5 DEF Setpoints, SetpointsOK
<1>7. ChargersOK
  BY DEF Known, DTypeOK, ChargersOK
<1> QED
  BY <1>2, <1>3, <1>4, <1>6, <1>7 DEF Known, DTypeOK

\* What is computed is of the kind that is meant.
LEMMA ComputedTypes ==
  ASSUME NoNegativeFailsafe, Known, NEW e \in Environments(site),
         NEW flows, NEW r, NEW age, NEW pct, NEW reserve, NEW budget, NEW bat, NEW planned,
         NEW loads, NEW limit,
         Computed(e, flows, r, age, pct, reserve, budget, bat, planned, loads, limit)
  PROVE  /\ e \in EnvironmentsOf(site) /\ FlowsOK(flows) /\ ReadingsOK(r)
         /\ age \in [Inverters -> (0 .. site.pv_follow_timeout) \cup {None}]
         /\ pct \in Percent /\ reserve \in Nat /\ Surplus(r) \in Nat \cup {None}
         /\ budget.mode \in Modes /\ budget.w \in Int \cup {Infinity}
         /\ bat \in [Batteries -> Int] /\ planned \in Int
         /\ limit \in Percent
<1>1. /\ SiteOK /\ SetpointsOK /\ FailsafeOK /\ status \in Statuses
      /\ e \in EnvironmentsOf(site) /\ pv_pct \in Percent /\ sent_pct \in [Inverters -> Percent]
      /\ over_age \in [Inverters -> (0 .. site.pv_follow_timeout) \cup {None}]
  BY KnownFacts
<1>2. e.dt \in Nat
  BY <1>1, EnvFacts
<1>3. FlowsOK(flows)
  BY <1>1, FlowsFacts DEF Computed
<1>4. ReadingsOK(r)
  BY <1>1, <1>3, ReadingsFacts DEF Computed
<1>5. age \in [Inverters -> (0 .. site.pv_follow_timeout) \cup {None}]
  BY <1>1, <1>2, OverAgeType DEF Computed
<1>6. pct \in Percent
  BY <1>1, FeedInPctType DEF Computed
<1>7. reserve \in Nat
  BY <1>1, OfflineReserveType DEF Computed
<1>8. Surplus(r) \in Nat \cup {None}
  BY <1>4, BaseLoadFacts
<1>9. budget.mode \in Modes /\ budget.w \in Int \cup {Infinity}
  <2>1. budget \in Budgets(e, Surplus(r))
    BY DEF Computed
  <2> QED
    BY <1>1, <1>8, <2>1, BudgetsFacts
<1>10. bat \in [Batteries -> Int]
  <2> DEFINE c == budget.mode # "normal"
             floor == FloorW(site)
  <2>1. c \in BOOLEAN /\ floor \in Int
    BY <1>1, FloorType
  <2>2. bat = PlanBatteries(e, r, c, floor, pct)
    BY DEF Computed
  <2> HIDE DEF c, floor
  <2> QED
    BY <1>1, <1>4, <1>6, <2>1, <2>2, PlanBatteriesType
<1>11. planned \in Int
  <2>1. planned = SumFunction(bat)
    BY DEF Computed
  <2> QED
    BY <1>1, <1>10, <2>1, FiniteDevices, SumInt
<1>12. limit \in Percent
  <2> DEFINE target == TargetPct(pct, r, planned)
  <2>1. target \in Percent
    BY <1>1, <1>4, <1>6, <1>11, TargetPctType
  <2>2. limit = Ramped(target, e.dt)
    BY DEF Computed
  <2> HIDE DEF target
  <2> QED
    BY <1>1, <1>2, <2>1, <2>2, RampedType
<1> QED
  BY <1>1, <1>3, <1>4, <1>5, <1>6, <1>7, <1>8, <1>9, <1>10, <1>11, <1>12

\* What the loads get, with a budget and without.
LEMMA LoadsFacts ==
  ASSUME NoNegativeFailsafe, Known, NEW e \in Environments(site),
         NEW flows, NEW r, NEW age, NEW pct, NEW reserve, NEW budget, NEW bat, NEW planned,
         NEW loads, NEW limit,
         Computed(e, flows, r, age, pct, reserve, budget, bat, planned, loads, limit)
  PROVE  /\ CarsCanCharge(loads.amps) /\ PumpsCanRun(loads.heat)
         /\ budget.w = Infinity => loads.amps = [i \in Chargers |-> CapA(e, i)]
         /\ budget.w # Infinity =>
              /\ budget.w \in Int /\ FirstInOrder(e, loads.amps) /\ OthersWait(e, loads.amps)
              /\ Taken(Watts(loads.amps), Sharing(e)) + Taken(loads.heat, OwnPumps)
                   <= Positive(Positive(budget.w - planned - reserve) - ExemptDraw(e))
<1>1. SiteOK /\ ChargersOK /\ SetpointsOK /\ e \in EnvironmentsOf(site)
  BY KnownFacts
<1>2. budget.w \in Int \cup {Infinity} /\ planned \in Int /\ reserve \in Nat
  BY ComputedTypes
<1>3. loads = Allocate(e, Less(LoadsBudget(budget.w, planned), reserve))
  BY DEF Computed
<1>4. CASE budget.w = Infinity
  <2>1. loads = [amps |-> [i \in Chargers |-> CapA(e, i)],
                 heat |-> [i \in HeatPumps |-> site.heat_pumps[i].rated]]
    BY <1>3, <1>4 DEF LoadsBudget, Less, Allocate
  <2>2. CarsCanCharge(loads.amps)
    <3>1. ASSUME NEW i \in Chargers PROVE CapA(e, i) \in Int /\ CanCharge(i, CapA(e, i))
      <4>1. CapA(e, i) = 0 \/ CapA(e, i) \in EvMinCurrentA .. site.chargers[i].max
        BY <1>1, CapFacts
      <4> QED
        BY <4>1 DEF CanCharge, EvMinCurrentA
    <3> QED
      BY <2>1, <3>1 DEF CarsCanCharge
  <2>3. PumpsCanRun(loads.heat)
    BY <1>1, <2>1, HeatPumpFacts DEF PumpsCanRun, CanRun
  <2> QED
    BY <1>4, <2>1, <2>2, <2>3
<1>5. CASE budget.w # Infinity
  <2> DEFINE b == budget.w - planned - reserve
  <2>1. budget.w \in Int /\ b \in Int /\ b # Infinity /\ budget.w - planned # Infinity
    BY <1>2, <1>5, DispatchAssumption
  <2>2. Less(LoadsBudget(budget.w, planned), reserve) = b
    BY <1>5, <2>1 DEF LoadsBudget, Less
  <2> HIDE DEF b
  <2>3. loads = AllocateLimited(e, b)
    BY <1>3, <2>1, <2>2 DEF Allocate
  <2>4. ExemptDraw(e) \in Int
    BY <1>1, ExemptDrawType
  <2>5. /\ CarsCanCharge(loads.amps) /\ PumpsCanRun(loads.heat) /\ FirstInOrder(e, loads.amps)
        /\ OthersWait(e, loads.amps)
        /\ Taken(Watts(loads.amps), Sharing(e)) + Taken(loads.heat, OwnPumps)
             <= Positive(Positive(b) - ExemptDraw(e))
    BY <1>1, <2>1, <2>3, <2>4, AllocateLimitedKeeps
  <2> QED
    BY <1>5, <2>1, <2>5 DEF b
<1> QED
  BY <1>4, <1>5

LEMMA InitKnown ==
  ASSUME NoNegativeFailsafe, DInit
  PROVE  Known /\ truth = None
<1>1. site \in Sites /\ ValidSite(site) /\ site \in SiteConfigs /\ site.patience \in Nat
  BY SitesAssumption DEF DInit
<1>2. SiteOK /\ FailsafeOK
  BY <1>1 DEF SiteOK, NoNegativeFailsafe, FailsafeOK, Chargers
<1>3. site.min_dwell \in Nat /\ site.pv_follow_timeout \in Nat /\ site.patience \in Nat
  BY <1>2, SiteNumbers
<1>4. /\ charger_on \in [Chargers -> BOOLEAN]
      /\ switched_age \in [Chargers -> 0 .. site.min_dwell]
      /\ session \in [Chargers -> 0 .. site.patience + 2]
  <2>1. site.min_dwell \in 0 .. site.min_dwell /\ 0 \in 0 .. site.patience + 2
    BY <1>3
  <2> QED
    BY <2>1 DEF DInit
<1>5. /\ pv_pct \in Percent /\ sent_pct \in [Inverters -> Percent]
      /\ over_age \in [Inverters -> (0 .. site.pv_follow_timeout) \cup {None}]
  BY DEF DInit, Percent
<1>6. setpoints \in Setpoints
  <2>1. \A i \in Chargers : site.chargers[i].failsafe \in Nat
    BY <1>2, ChargerFacts DEF FailsafeOK
  <2>2. \A i \in HeatPumps : (2 * site.heat_pumps[i].rated) \div 5 \in Nat
    BY <1>2, HeatPumpFacts
  <2>3. setpoints = [charger_a |-> [i \in Chargers |-> site.chargers[i].failsafe],
                     heat_pump_limit |-> [i \in HeatPumps |-> (2 * site.heat_pumps[i].rated) \div 5],
                     battery |-> [i \in Batteries |-> 0],
                     heat_pump_ext |-> [i \in HeatPumps |-> None]]
    BY DEF DInit
  <2> QED
    BY <2>1, <2>2, <2>3 DEF Setpoints, OptInt
<1>7. status \in Statuses
  BY DEF DInit, Statuses, Modes, Percent
<1>8. truth = None
  BY DEF DInit
<1> QED
  BY <1>1, <1>4, <1>5, <1>6, <1>7, <1>8 DEF Known, DTypeOK

\* A cycle leaves everything of its kind, and within the limits.
LEMMA CycleKeeps ==
  ASSUME NoNegativeFailsafe, Known, NEW e \in Environments(site), Cycle(e)
  PROVE  Known' /\ BudgetIsKept' /\ LimitsCanBeFollowed'
<1>1. PICK flows, r, age, pct, reserve, budget, bat, planned, loads, limit :
        /\ Computed(e, flows, r, age, pct, reserve, budget, bat, planned, loads, limit)
        /\ Sent(e, flows, r, age, pct, reserve, budget, bat, loads, limit)
  BY CycleParts
<1>2. /\ e \in EnvironmentsOf(site) /\ FlowsOK(flows) /\ ReadingsOK(r)
      /\ age \in [Inverters -> (0 .. site.pv_follow_timeout) \cup {None}]
      /\ pct \in Percent /\ reserve \in Nat /\ Surplus(r) \in Nat \cup {None}
      /\ budget.mode \in Modes /\ budget.w \in Int \cup {Infinity}
      /\ bat \in [Batteries -> Int] /\ planned \in Int
      /\ limit \in Percent
  BY <1>1, ComputedTypes
<1>3. /\ CarsCanCharge(loads.amps) /\ PumpsCanRun(loads.heat)
      /\ budget.w # Infinity =>
           /\ budget.w \in Int
           /\ Taken(Watts(loads.amps), Sharing(e)) + Taken(loads.heat, OwnPumps)
                <= Positive(Positive(budget.w - planned - reserve) - ExemptDraw(e))
  BY <1>1, LoadsFacts
<1>4. SiteOK /\ ChargersOK /\ SetpointsOK
  BY KnownFacts
<1>5. /\ site' = site /\ Chargers' = Chargers /\ HeatPumps' = HeatPumps
      /\ Batteries' = Batteries /\ Inverters' = Inverters
  <2>1. site' = site
    BY <1>1 DEF Sent
  <2> QED
    BY <2>1 DEF Chargers, HeatPumps, Batteries, Inverters
<1>6. loads.amps \in [Chargers -> Nat] /\ loads.heat \in [HeatPumps -> Nat]
  <2>1. loads.amps \in [Chargers -> Int] /\ \A i \in Chargers : loads.amps[i] >= 0
    <3>1. \A i \in Chargers : site.chargers[i].max \in Int
      BY <1>4, ChargerFacts
    <3> QED
      BY <1>3, <3>1 DEF CarsCanCharge, CanCharge, EvMinCurrentA
  <2>2. loads.heat \in [HeatPumps -> Int] /\ \A i \in HeatPumps : loads.heat[i] >= 0
    BY <1>3, <1>4, HeatPumpFacts DEF PumpsCanRun, CanRun
  <2> QED
    BY <2>1, <2>2
<1>7. setpoints'.charger_a = loads.amps /\ setpoints'.heat_pump_limit = loads.heat /\ setpoints'.battery = bat
  BY <1>1 DEF Sent
<1>8. setpoints' \in Setpoints'
  <2> DEFINE ext == [i \in HeatPumps |->
                       IF e.pumps[i].plan = None THEN None
                       ELSE Positive(Least(e.pumps[i].plan, loads.heat[i]))]
  <2>1. setpoints' = [charger_a |-> loads.amps, heat_pump_limit |-> loads.heat,
                      battery |-> bat, heat_pump_ext |-> ext]
    BY <1>1 DEF Sent
  <2>2. ext \in [HeatPumps -> OptInt]
    <3> SUFFICES ASSUME NEW i \in HeatPumps
                 PROVE  (IF e.pumps[i].plan = None THEN None
                         ELSE Positive(Least(e.pumps[i].plan, loads.heat[i]))) \in OptInt
      OBVIOUS
    <3>1. e.pumps[i].plan \in OptInt /\ loads.heat[i] \in Int
      BY <1>2, <1>6, EnvFacts
    <3> QED
      BY <3>1 DEF OptInt, Positive, Least, Most
  <2> HIDE DEF ext
  <2> QED
    BY <1>2, <1>5, <1>6, <2>1, <2>2 DEF Setpoints
<1>9. status' = [mode |-> budget.mode, budget |-> budget.w, feed_in |-> pct,
                 surplus |-> Surplus(r), reserve |-> reserve, ignoring |-> Ignoring(age)]
  BY <1>1 DEF Sent
<1>10. status' \in Statuses'
  <2>1. Ignoring(age) \in SUBSET Inverters
    BY DEF Ignoring
  <2> QED
    BY <1>2, <1>5, <1>9, <2>1 DEF Statuses
<1>11. /\ charger_on' \in [Chargers -> BOOLEAN]
       /\ switched_age' \in [Chargers -> 0 .. site.min_dwell]
  <2> DEFINE on == [i \in Chargers |-> loads.amps[i] > 0 /\ i \in Waiting(e)]
  <2>1. on \in [Chargers -> BOOLEAN]
    OBVIOUS
  <2>2. Switch(on, e.dt)
    BY <1>1 DEF Sent
  <2> HIDE DEF on
  <2>3. charger_on' \in [Chargers -> BOOLEAN]
    BY <2>1, <2>2 DEF Switch
  <2>4. switched_age' = [i \in Chargers |->
          IF on[i] # charger_on[i] THEN 0 ELSE Least(switched_age[i] + e.dt, site.min_dwell)]
    BY <2>2 DEF Switch
  <2>5. ASSUME NEW i \in Chargers
        PROVE  0 \in 0 .. site.min_dwell /\ Least(switched_age[i] + e.dt, site.min_dwell) \in 0 .. site.min_dwell
    <3>1. switched_age[i] \in 0 .. site.min_dwell /\ e.dt \in Nat /\ site.min_dwell \in Nat
      BY <1>2, <1>4, EnvFacts, SiteNumbers DEF ChargersOK
    <3> QED
      BY <3>1 DEF Least
  <2>6. switched_age' \in [Chargers -> 0 .. site.min_dwell]
    <3> DEFINE stays(i) == Least(switched_age[i] + e.dt, site.min_dwell)
               same(i) == on[i] # charger_on[i]
    <3>1. switched_age' = [i \in Chargers |-> IF same(i) THEN 0 ELSE stays(i)]
      BY <2>4
    <3>2. \A i \in Chargers : 0 \in 0 .. site.min_dwell /\ stays(i) \in 0 .. site.min_dwell
      BY <2>5
    <3> HIDE DEF stays, same
    <3> QED
      BY <3>1, <3>2
  <2> QED
    BY <2>3, <2>6
<1>12. sent_pct' \in [Inverters -> Percent]
  <2>1. sent_pct' = InverterPct(limit, r, age)
    BY <1>1 DEF Sent
  <2> QED
    BY <1>2, <1>4, <2>1, InverterPctType
<1>13. session' \in [Chargers -> 0 .. site.patience + 2]
  <2>1. session' = Charged(e)
    BY <1>1 DEF Sent
  <2> QED
    BY <1>2, <1>4, <2>1, ChargedType
<1>14. pv_pct' = limit /\ over_age' = age
  BY <1>1 DEF Sent
<1>15. Known'
  <2>1. site \in Sites /\ site \in SiteConfigs /\ ValidSite(site)
    BY DEF Known, DTypeOK
  <2>2. ValidSite(site)'
    BY <1>5, <2>1 DEF ValidSite
  <2> QED
    BY <1>2, <1>5, <1>8, <1>10, <1>11, <1>12, <1>13, <1>14, <2>1, <2>2 DEF Known, DTypeOK
<1>16. truth'.env = e /\ truth'.exempt = ExemptDraw(e)
  BY <1>1 DEF Sent
<1>17. LimitsCanBeFollowed'
  <2>1. ASSUME NEW i \in Chargers
        PROVE  setpoints'.charger_a[i] \in {0} \cup (EvMinCurrentA .. site.chargers[i].max)
    BY <1>3, <1>7 DEF CarsCanCharge, CanCharge
  <2>2. ASSUME NEW i \in HeatPumps
        PROVE  \/ setpoints'.heat_pump_limit[i] = 0
               \/ setpoints'.heat_pump_limit[i] \in site.heat_pumps[i].min .. site.heat_pumps[i].rated
    BY <1>3, <1>7 DEF PumpsCanRun, CanRun
  <2> QED
    BY <1>5, <2>1, <2>2 DEF LimitsCanBeFollowed
<1>18. BudgetIsKept'
  <2>1. CASE budget.w = Infinity
    BY <1>9, <2>1 DEF BudgetIsKept
  <2>2. CASE budget.w # Infinity
    <3> DEFINE S == Sharing(e)
               c == [i \in S |-> ThreePhaseW(loads.amps[i])]
               h == [i \in OwnPumps |-> loads.heat[i]]
    <3>1. Sharing(truth.env)' = S
      BY <1>5, <1>16 DEF Sharing, Waiting, CapA, Exempt
    <3>2. {i \in HeatPumps : ~Exempt(site.heat_pumps[i])}' = OwnPumps
      BY <1>5 DEF OwnPumps, Exempt
    <3>3. LoadsGranted(truth.env)' = SumFunction(c) + SumFunction(h)
      BY <1>7, <3>1, <3>2 DEF LoadsGranted, SumOver
    <3>4. Taken(loads.heat, OwnPumps) = SumFunction(h)
      BY DEF Taken
    <3>5. Taken(Watts(loads.amps), S) = SumFunction(c)
      <4>1. S \in SUBSET Chargers
        BY DEF Sharing, Waiting
      <4>2. [i \in S |-> Watts(loads.amps)[i]] = c
        BY <4>1 DEF Watts
      <4> QED
        BY <4>2 DEF Taken
    <3> DEFINE x == ExemptDraw(e)
               b == budget.w - planned - reserve
    <3>6. SumFunction(c) + SumFunction(h) <= Positive(Positive(b) - x)
      BY <1>3, <2>2, <3>4, <3>5
    <3>7. x \in Int /\ b \in Int
      BY <1>2, <1>3, <1>4, <2>2, ExemptDrawType
    <3>8. status'.budget - SumFunction(setpoints'.battery) - status'.reserve = b
      <4>1. planned = SumFunction(bat)
        BY <1>1 DEF Computed
      <4> QED
        BY <1>7, <1>9, <4>1
    <3>9. SumFunction(c) \in Int /\ SumFunction(h) \in Int
      <4>1. S \in SUBSET Chargers /\ IsFiniteSet(S) /\ IsFiniteSet(OwnPumps) /\ OwnPumps \in SUBSET HeatPumps
        BY <1>2, <1>4, SharingFacts, OwnPumpsFinite
      <4>2. c \in [S -> Int] /\ h \in [OwnPumps -> Int]
        BY <1>6, <4>1 DEF ThreePhaseW
      <4> HIDE DEF c, h, S
      <4>3. SumFunction(c) \in Int
        BY <4>1, <4>2, SumInt
      <4>4. SumFunction(h) \in Int
        BY <4>1, <4>2, SumInt
      <4> QED
        BY <4>3, <4>4
    <3> DEFINE g == SumFunction(c) + SumFunction(h)
    <3>10. g + x <= Most(Positive(b), x)
      <4> HIDE DEF c, h, x, b
      <4>1. g \in Int
        BY <3>9
      <4> HIDE DEF g
      <4>2. g <= Positive(Positive(b) - x)
        BY <3>6 DEF g
      <4> QED
        BY <3>7, <4>1, <4>2 DEF Most, Positive
    <3> HIDE DEF g, c, h, x, b, S
    <3>11. LoadsGranted(truth.env)' + x <= Most(Positive(b), x)
      BY <3>3, <3>10 DEF g
    <3>12. truth'.exempt = x
      BY <1>16 DEF x
    <3> QED
      BY <3>8, <3>11, <3>12 DEF BudgetIsKept
  <2> QED
    BY <2>1, <2>2
<1> QED
  BY <1>15, <1>17, <1>18

\* What every state keeps.
Fits == Known /\ BudgetIsKept /\ LimitsCanBeFollowed

LEMMA FitsAlways ==
  ASSUME NoNegativeFailsafe
  PROVE  DSpec => []Fits
<1>1. DInit => Fits
  <2> SUFFICES ASSUME DInit PROVE Fits
    OBVIOUS
  <2>1. Known /\ truth = None
    BY InitKnown
  <2> QED
    BY <2>1 DEF Fits, BudgetIsKept, LimitsCanBeFollowed
<1>2. Fits /\ [DNext]_dvars => Fits'
  <2> SUFFICES ASSUME Fits, [DNext]_dvars PROVE Fits'
    OBVIOUS
  <2>1. CASE DNext
    <3>1. PICK e \in Environments(site) : Cycle(e)
      BY <2>1 DEF DNext
    <3> QED
      BY <3>1, CycleKeeps DEF Fits
  <2>2. CASE UNCHANGED dvars
    <3>1. /\ site' = site /\ charger_on' = charger_on /\ switched_age' = switched_age
          /\ pv_pct' = pv_pct /\ sent_pct' = sent_pct /\ over_age' = over_age
          /\ setpoints' = setpoints /\ status' = status /\ session' = session
          /\ truth' = truth /\ waited' = waited
      BY <2>2 DEF dvars
    <3>2. Known'
      BY <3>1 DEF Fits, Known, DTypeOK, ValidSite, Chargers, HeatPumps, Batteries, Inverters,
                  Setpoints, Statuses
    <3>3. BudgetIsKept'
      <4>1. \A e : Waiting(e)' = Waiting(e)
        BY <3>1 DEF Waiting, CapA, Chargers
      <4>2. \A e : Sharing(e)' = Sharing(e)
        BY <3>1, <4>1 DEF Sharing, Exempt
      <4>3. \A e : LoadsGranted(e)' = LoadsGranted(e)
        BY <3>1, <4>2 DEF LoadsGranted, SumOver, Exempt, HeatPumps
      <4> QED
        BY <3>1, <4>3 DEF Fits, BudgetIsKept
    <3>4. LimitsCanBeFollowed'
      BY <3>1 DEF Fits, LimitsCanBeFollowed, Chargers, HeatPumps
    <3> QED
      BY <3>2, <3>3, <3>4 DEF Fits
  <2> QED
    BY <2>1, <2>2
<1> QED
  BY <1>1, <1>2, PTL DEF DSpec

\* What a cycle sends fits the budget and can be followed by every device that
\* receives it, at every valid site, with however many devices, and whatever
\* the plan, the DSO and the devices do: SetpointsFit, of allocate,
\* plan_batteries and the feed-in limit together.
THEOREM SetpointsFitAlways ==
  ASSUME NoNegativeFailsafe
  PROVE  DSpec => []SetpointsFit
<1>1. Fits => SetpointsFit
  BY DEF Fits, SetpointsFit, Known
<1> QED
  BY <1>1, FitsAlways, PTL



-----------------------------------------------------------------------------
\* Who charges first.

\* Every car that shares the budget has its place in the order.
LEMMA OrderTakesAll ==
  ASSUME SiteOK, ChargersOK, NEW e \in EnvironmentsOf(site), NEW i \in Sharing(e)
  PROVE  \E k \in 1 .. Len(Order(e)) : Order(e)[k] = i
<1> DEFINE S == Sharing(e)
           n == Cardinality(S)
           o == Order(e)
<1>1. /\ o \in [1 .. n -> S] /\ Len(o) = n /\ n \in Nat /\ IsFiniteSet(S)
      /\ \A j, k \in 1 .. n : j # k => o[j] # o[k]
  BY OrderFacts, SharingFacts DEF Sorts
<1> HIDE DEF S, n, o
<1>2. o \in Injection(1 .. n, S)
  BY <1>1 DEF Injection, IsInjective
<1>3. Cardinality(1 .. n) = Cardinality(S)
  <2>1. Cardinality(1 .. n) = n
    BY <1>1, FS_Interval
  <2> QED
    BY <2>1 DEF n
<1>4. o \in Surjection(1 .. n, S)
  BY <1>1, <1>2, <1>3, FS_Injection
<1>5. i \in S
  BY DEF S
<1>6. \E k \in 1 .. n : o[k] = i
  BY <1>4, <1>5 DEF Surjection
<1> QED
  BY <1>1, <1>6 DEF o

\* A car that charges comes before one that shares the budget and does not.
LEMMA FirstGoFirst ==
  ASSUME SiteOK, ChargersOK, NEW e \in EnvironmentsOf(site), NEW amps, FirstInOrder(e, amps),
         NEW i \in Sharing(e), NEW j \in Sharing(e), ~(amps[i] > 0), amps[j] > 0
  PROVE  Before(e, j, i)
<1> DEFINE o == Order(e)
<1>1. PICK fit \in 0 .. Len(o) :
        \A c \in Sharing(e) : amps[c] > 0 <=> \E k \in 1 .. fit : o[k] = c
  BY DEF FirstInOrder
<1>2. PICK k \in 1 .. fit : o[k] = j
  BY <1>1
<1>3. PICK m \in 1 .. Len(o) : o[m] = i
  BY OrderTakesAll
<1>4. m \notin 1 .. fit
  BY <1>1, <1>3
<1>5. Len(o) \in Nat /\ Len(o) = Cardinality(Sharing(e))
  BY OrderFacts, SharingFacts
<1>6. \A a, b \in 1 .. Len(o) : a < b => Before(e, o[a], o[b])
  BY <1>5, OrderFacts DEF Sorts
<1> HIDE DEF o
<1>7. k \in 1 .. Len(o) /\ k < m
  BY <1>1, <1>2, <1>3, <1>4, <1>5
<1> QED
  BY <1>2, <1>3, <1>6, <1>7

\* Who charges after a cycle, and with what.
LEMMA CycleServes ==
  ASSUME NoNegativeFailsafe, Known, NEW e \in Environments(site), Cycle(e)
  PROVE  /\ SiteOK /\ ChargersOK /\ e \in EnvironmentsOf(site) /\ e.dt \in Nat
         /\ site' = site /\ truth'.env = e
         /\ \A i \in Chargers : charger_on'[i] <=> setpoints'.charger_a[i] > 0 /\ i \in Waiting(e)
         /\ status'.budget = Infinity => \A i \in Chargers : setpoints'.charger_a[i] = CapA(e, i)
         /\ status'.budget # Infinity => FirstInOrder(e, setpoints'.charger_a)
<1>1. PICK flows, r, age, pct, reserve, budget, bat, planned, loads, limit :
        /\ Computed(e, flows, r, age, pct, reserve, budget, bat, planned, loads, limit)
        /\ Sent(e, flows, r, age, pct, reserve, budget, bat, loads, limit)
  BY CycleParts
<1>2. /\ SiteOK /\ ChargersOK /\ e \in EnvironmentsOf(site)
  BY KnownFacts
<1>3. e.dt \in Nat
  BY <1>2, EnvFacts
<1>4. /\ site' = site /\ truth'.env = e /\ status'.budget = budget.w
      /\ setpoints'.charger_a = loads.amps
  BY <1>1 DEF Sent
<1>5. \A i \in Chargers : charger_on'[i] <=> loads.amps[i] > 0 /\ i \in Waiting(e)
  BY <1>1 DEF Sent, Switch
<1>6. /\ budget.w = Infinity => loads.amps = [i \in Chargers |-> CapA(e, i)]
      /\ budget.w # Infinity => FirstInOrder(e, loads.amps)
  BY <1>1, LoadsFacts
<1> QED
  BY <1>2, <1>3, <1>4, <1>5, <1>6

\* The step DwellKept allows.
DwellStep ==
  LET e == truth'.env
  IN  status'.budget # Infinity =>
      \A i, j \in Sharing(e) :
        /\ charger_on[i] /\ Locked(i, e.dt) /\ ~charger_on'[i] /\ charger_on'[j]
             => charger_on[j] /\ Locked(j, e.dt)
        /\ ~charger_on[i] /\ Locked(i, e.dt) /\ charger_on'[i]
             => charger_on'[j] \/ (~charger_on[j] /\ Locked(j, e.dt))

LEMMA CycleDwells ==
  ASSUME NoNegativeFailsafe, Known, NEW e \in Environments(site), Cycle(e)
  PROVE  DwellStep
<1> DEFINE a == setpoints'.charger_a
<1>1. /\ SiteOK /\ ChargersOK /\ e \in EnvironmentsOf(site) /\ e.dt \in Nat /\ truth'.env = e
      /\ \A i \in Chargers : charger_on'[i] <=> a[i] > 0 /\ i \in Waiting(e)
      /\ status'.budget # Infinity => FirstInOrder(e, a)
  BY CycleServes
<1> HIDE DEF a
<1> SUFFICES ASSUME status'.budget # Infinity, NEW i \in Sharing(e), NEW j \in Sharing(e)
             PROVE  /\ charger_on[i] /\ Locked(i, e.dt) /\ ~charger_on'[i] /\ charger_on'[j]
                         => charger_on[j] /\ Locked(j, e.dt)
                    /\ ~charger_on[i] /\ Locked(i, e.dt) /\ charger_on'[i]
                         => charger_on'[j] \/ (~charger_on[j] /\ Locked(j, e.dt))
  BY <1>1 DEF DwellStep
<1>2. \A c \in Sharing(e) : c \in Chargers /\ c \in Waiting(e)
  BY DEF Sharing, Waiting
<1>3. \A c \in Sharing(e) : charger_on'[c] <=> a[c] > 0
  BY <1>1, <1>2
<1>4. Rank(i, e.dt) \in 0 .. 2 /\ Rank(j, e.dt) \in 0 .. 2
  BY <1>1, <1>2, RankFacts
<1>5. ASSUME charger_on[i], Locked(i, e.dt), ~charger_on'[i], charger_on'[j]
      PROVE  charger_on[j] /\ Locked(j, e.dt)
  <2>1. Before(e, j, i)
    BY <1>1, <1>3, <1>5, FirstGoFirst
  <2>2. Rank(i, e.dt) = 0
    BY <1>5 DEF Rank
  <2>3. Rank(j, e.dt) < Rank(i, e.dt) \/ Rank(j, e.dt) = Rank(i, e.dt)
    BY <2>1 DEF Before
  <2>4. Rank(j, e.dt) = 0
    BY <1>4, <2>2, <2>3
  <2> QED
    BY <2>4 DEF Rank
<1>6. ASSUME ~charger_on[i], Locked(i, e.dt), charger_on'[i], ~charger_on'[j]
      PROVE  ~charger_on[j] /\ Locked(j, e.dt)
  <2>1. Before(e, i, j)
    BY <1>1, <1>3, <1>6, FirstGoFirst
  <2>2. Rank(i, e.dt) = 2
    BY <1>6 DEF Rank
  <2>3. Rank(i, e.dt) < Rank(j, e.dt) \/ Rank(j, e.dt) = Rank(i, e.dt)
    BY <2>1 DEF Before
  <2>4. Rank(j, e.dt) = 2
    BY <1>4, <2>2, <2>3
  <2> QED
    BY <2>4 DEF Rank
<1> QED
  BY <1>5, <1>6

\* A charger inside its dwell time yields to none that may be switched, and
\* does not start in place of one that waits longer: DwellKept, of allocate's
\* order, whatever cars come and go and however the budget changes.
THEOREM DwellKeptAlways ==
  ASSUME NoNegativeFailsafe
  PROVE  DSpec => DwellKept
<1>1. Fits /\ [DNext]_dvars => [DwellStep]_dvars
  <2> SUFFICES ASSUME Fits, DNext PROVE DwellStep
    OBVIOUS
  <2>1. PICK e \in Environments(site) : Cycle(e)
    BY DEF DNext
  <2> QED
    BY <2>1, CycleDwells DEF Fits
<1> QED
  BY <1>1, FitsAlways, PTL DEF DSpec, DwellKept, DwellStep

\* The step DepartureBeforePlan allows.
DepartureStep ==
  LET e == truth'.env
      late == {i \in Chargers : /\ e.cars[i].online /\ e.cars[i].waiting
                                /\ e.cars[i].laxity <= site.deadline_guard
                                /\ ~Exempt(site.chargers[i])}
  IN  \A i \in late :
        /\ status'.budget = Infinity =>
             setpoints'.charger_a[i] = site.chargers[i].max
        /\ \A j \in Waiting(e) :
             /\ charger_on'[j] /\ ~charger_on'[i]
             /\ ~Exempt(site.chargers[j])
             => \/ e.cars[j].laxity <= e.cars[i].laxity
                \/ Locked(i, e.dt) \/ Locked(j, e.dt)

LEMMA CycleHeedsDepartures ==
  ASSUME NoNegativeFailsafe, Known, NEW e \in Environments(site), Cycle(e)
  PROVE  DepartureStep
<1> DEFINE a == setpoints'.charger_a
           Late(i) == /\ e.cars[i].online /\ e.cars[i].waiting
                      /\ e.cars[i].laxity <= site.deadline_guard
                      /\ ~Exempt(site.chargers[i])
<1>1. /\ SiteOK /\ ChargersOK /\ e \in EnvironmentsOf(site) /\ e.dt \in Nat /\ truth'.env = e
      /\ \A i \in Chargers : charger_on'[i] <=> a[i] > 0 /\ i \in Waiting(e)
      /\ status'.budget = Infinity => \A i \in Chargers : a[i] = CapA(e, i)
      /\ status'.budget # Infinity => FirstInOrder(e, a)
  BY CycleServes
<1>2. ASSUME NEW i \in Chargers, Late(i)
      PROVE  /\ CapA(e, i) = site.chargers[i].max /\ CapA(e, i) > 0
             /\ i \in Waiting(e) /\ i \in Sharing(e)
  <2>1. CapA(e, i) = site.chargers[i].max
    BY <1>2 DEF CapA
  <2>2. site.chargers[i].max \in EvMinCurrentA .. 63
    BY <1>1, ChargerFacts
  <2>3. CapA(e, i) > 0
    BY <2>1, <2>2 DEF EvMinCurrentA
  <2>4. i \in Waiting(e)
    BY <1>2, <2>3 DEF Waiting
  <2> QED
    BY <1>2, <2>1, <2>3, <2>4 DEF Sharing
<1>3. ASSUME NEW i \in Chargers, Late(i), NEW j \in Waiting(e),
             charger_on'[j], ~charger_on'[i], ~Exempt(site.chargers[j])
      PROVE  \/ e.cars[j].laxity <= e.cars[i].laxity
             \/ Locked(i, e.dt) \/ Locked(j, e.dt)
  <2>1. i \in Sharing(e) /\ i \in Waiting(e) /\ j \in Sharing(e) /\ j \in Chargers
    BY <1>2, <1>3 DEF Sharing, Waiting
  <2>2. ~(a[i] > 0) /\ a[j] > 0
    BY <1>1, <1>3, <2>1
  <2>3. status'.budget # Infinity
    BY <1>1, <1>2, <1>3, <2>2
  <2>4. FirstInOrder(e, a)
    BY <1>1, <2>3
  <2> HIDE DEF a, Late
  <2>5. Before(e, j, i)
    BY <1>1, <2>1, <2>2, <2>4, FirstGoFirst
  <2> SUFFICES ASSUME ~Locked(i, e.dt), ~Locked(j, e.dt)
               PROVE  e.cars[j].laxity <= e.cars[i].laxity
    OBVIOUS
  <2>6. Rank(i, e.dt) = 1 /\ Rank(j, e.dt) = 1
    BY DEF Rank
  <2>7. e.cars[j].laxity < e.cars[i].laxity \/ e.cars[j].laxity = e.cars[i].laxity
    BY <2>5, <2>6 DEF Before
  <2>8. e.cars[i].laxity \in Int /\ e.cars[j].laxity \in Int
    BY <1>1, <1>3, <2>1, EnvFacts
  <2> QED
    BY <2>7, <2>8
<1>4. ASSUME NEW i \in Chargers, Late(i), status'.budget = Infinity
      PROVE  a[i] = site.chargers[i].max
  BY <1>1, <1>2, <1>4
<1> QED
  BY <1>1, <1>3, <1>4 DEF DepartureStep

\* No car leaves late for the plan's sake: DepartureBeforePlan, of the cap and
\* the order in allocate, for every number of cars and every plan.
THEOREM DepartureBeforePlanAlways ==
  ASSUME NoNegativeFailsafe
  PROVE  DSpec => DepartureBeforePlan
<1>1. Fits /\ [DNext]_dvars => [DepartureStep]_dvars
  <2> SUFFICES ASSUME Fits, DNext PROVE DepartureStep
    OBVIOUS
  <2>1. PICK e \in Environments(site) : Cycle(e)
    BY DEF DNext
  <2> QED
    BY <2>1, CycleHeedsDepartures DEF Fits
<1> QED
  BY <1>1, FitsAlways, PTL DEF DSpec, DepartureBeforePlan, DepartureStep

-----------------------------------------------------------------------------
\* What the inverters could give, and do give.
LEMMA OutputFacts ==
  ASSUME SiteOK, sent_pct \in [Inverters -> Percent], NEW e \in EnvironmentsOf(site), NEW i \in Inverters
  PROVE  /\ SunOn(e, i) \in Nat /\ InverterOutput(e, i) \in Nat
         /\ InverterOutput(e, i) <= SunOn(e, i)
         /\ sent_pct[i] = 100 => InverterOutput(e, i) = SunOn(e, i)
<1> DEFINE w == site.inverters[i]
           s == e.sun
           p == sent_pct[i]
<1>1. w \in Nat /\ s \in 0 .. 100 /\ p \in 0 .. 100
  BY InverterFacts, EnvFacts DEF Percent
<1>2. SunOn(e, i) = (w * s) \div 100
  BY DEF SunOn
<1>3. InverterOutput(e, i) = IF e.inverters[i] # "ok" THEN SunOn(e, i)
                             ELSE Least(SunOn(e, i), (w * p) \div 100)
  BY DEF InverterOutput
<1> HIDE DEF w, s, p
<1>4. w * s \in Nat /\ w * p \in Nat
  BY <1>1
<1>5. SunOn(e, i) \in Nat /\ (w * p) \div 100 \in Nat
  <2> DEFINE a == w * s
             b == w * p
  <2>1. a \in Nat /\ b \in Nat
    BY <1>4
  <2> HIDE DEF a, b
  <2>2. a \div 100 \in Nat /\ b \div 100 \in Nat
    BY <2>1
  <2> QED
    BY <1>2, <2>2 DEF a, b
<1>6. p = 100 => SunOn(e, i) <= (w * p) \div 100
  <2> SUFFICES ASSUME p = 100 PROVE SunOn(e, i) <= (w * p) \div 100
    OBVIOUS
  <2> DEFINE a == w * s
             b == w * p
  <2>1. a <= b
    BY <1>1
  <2>2. a \in Nat /\ b \in Nat
    BY <1>4
  <2> HIDE DEF a, b
  <2>3. a \div 100 <= b \div 100
    BY <2>1, <2>2
  <2> QED
    BY <1>2, <2>3 DEF a, b
<1> DEFINE q == (w * p) \div 100
           o == SunOn(e, i)
<1>7. o \in Nat /\ q \in Nat /\ (p = 100 => o <= q)
  BY <1>5, <1>6
<1>8. InverterOutput(e, i) = IF e.inverters[i] # "ok" THEN o ELSE Least(o, q)
  BY <1>3
<1> HIDE DEF q, o
<1>9. InverterOutput(e, i) \in Nat /\ InverterOutput(e, i) <= o /\ (p = 100 => InverterOutput(e, i) = o)
  BY <1>7, <1>8 DEF Least
<1> QED
  BY <1>7, <1>9 DEF o, p

\* What all of them could give.
SunGiven(e) == SumFunction([i \in Inverters |-> SunOn(e, i)])

LEMMA PlantFacts ==
  ASSUME SiteOK, SetpointsOK, sent_pct \in [Inverters -> Percent], NEW e \in EnvironmentsOf(site)
  PROVE  /\ Flows(e).pv \in Nat /\ SunGiven(e) \in Int /\ Flows(e).pv <= SunGiven(e)
         /\ ~SunHidden => Flows(e).pv = SunGiven(e)
         /\ Flows(e).base = e.base
         /\ Flows(e).grid = e.base + Flows(e).loads + Flows(e).battery - Flows(e).pv
         /\ Flows(e).battery = SumFunction([i \in Batteries |-> BatteryFlow(e, i)])
<1> DEFINE p == [i \in Inverters |-> InverterOutput(e, i)]
           a == [i \in Inverters |-> SunOn(e, i)]
<1>1. p \in [Inverters -> Int] /\ a \in [Inverters -> Int] /\ \A i \in Inverters : p[i] >= 0 /\ p[i] <= a[i]
  BY OutputFacts
<1>2. Flows(e).pv = SumFunction(p) /\ SunGiven(e) = SumFunction(a)
  BY DEF Flows, SumOver, SunGiven
<1>3. /\ Flows(e).base = e.base
      /\ Flows(e).grid = e.base + Flows(e).loads + Flows(e).battery - Flows(e).pv
      /\ Flows(e).battery = SumFunction([i \in Batteries |-> BatteryFlow(e, i)])
  BY DEF Flows, SumOver
<1>4. ~SunHidden => p = a
  <2> SUFFICES ASSUME ~SunHidden PROVE p = a
    OBVIOUS
  <2>1. \A i \in Inverters : sent_pct[i] = 100
    <3> SUFFICES ASSUME NEW i \in Inverters PROVE sent_pct[i] = 100
      OBVIOUS
    <3>1. sent_pct[i] \in Percent /\ ~(sent_pct[i] < 100)
      BY DEF SunHidden
    <3> QED
      BY <3>1 DEF Percent
  <2>2. \A i \in Inverters : InverterOutput(e, i) = SunOn(e, i)
    BY <2>1, OutputFacts
  <2> QED
    BY <2>2
<1> HIDE DEF p, a
<1>5. SumFunction(p) \in Nat /\ SumFunction(a) \in Int /\ SumFunction(p) <= SumFunction(a)
  <2>1. IsFiniteSet(Inverters)
    BY FiniteDevices
  <2>2. SumFunction(p) \in Nat
    BY <1>1, <2>1, SumNat
  <2>3. SumFunction(a) \in Int
    BY <1>1, <2>1, SumInt
  <2>4. SumFunction(p) <= SumFunction(a)
    BY <1>1, <2>1, SumMonotone
  <2> QED
    BY <2>2, <2>3, <2>4
<1> QED
  BY <1>2, <1>3, <1>4, <1>5

LEMMA PlausibleParts ==
  ASSUME NEW q, DOMAIN q = {"grid", "pv", "loads", "battery", "available", "inverters"}
  PROVE  /\ Plausible(q).battery = q.battery /\ Plausible(q).available = q.available
         /\ Plausible(q).pv # None => q.pv # None /\ Plausible(q).pv = Positive(q.pv)
         /\ Plausible(q).grid = IF q.grid # None /\ (2 * q.grid > 3 * site.connection
                                                      \/ 2 * q.grid < -3 * site.connection)
                                THEN None ELSE q.grid
BY DEF Plausible

\* Readings that count are true.
LEMMA ReadingsTell ==
  ASSUME SiteOK, SetpointsOK, sent_pct \in [Inverters -> Percent], NEW e \in EnvironmentsOf(site),
         NEW flows, flows = Flows(e), NEW r, r = Plausible(ReadingsOf(e, flows))
  PROVE  /\ r.grid # None => r.grid = flows.grid
         /\ r.pv # None => r.pv = flows.pv
         /\ r.battery = flows.battery
         /\ r.available # None => r.available = SunGiven(e)
<1> DEFINE q == ReadingsOf(e, flows)
<1>1. /\ q.grid = CASE e.meter = "ok" -> flows.grid
                    [] e.meter = "wrong" -> 2 * site.connection
                    [] e.meter = "off" -> None
      /\ q.pv \in {flows.pv, None} /\ q.battery = flows.battery
      /\ q.available \in {SumFunction([i \in Inverters |-> SunOn(e, i)]), None}
  BY DEF ReadingsOf, SumOver
<1>2. DOMAIN q = {"grid", "pv", "loads", "battery", "available", "inverters"}
  BY DEF ReadingsOf
<1> HIDE DEF q
<1>3. /\ r.battery = q.battery /\ r.available = q.available
      /\ r.pv # None => q.pv # None /\ r.pv = Positive(q.pv)
      /\ r.grid = IF q.grid # None /\ (2 * q.grid > 3 * site.connection \/ 2 * q.grid < -3 * site.connection)
                  THEN None ELSE q.grid
  <2>1. r = Plausible(q)
    BY DEF q
  <2> QED
    BY <1>2, <2>1, PlausibleParts
<1>4. e.meter \in {"ok", "wrong", "off"} /\ site.connection \in Nat \ {0} /\ flows.pv \in Nat
  BY EnvFacts, SiteNumbers, PlantFacts
<1>5. r.grid # None => r.grid = flows.grid
  <2>1. CASE e.meter = "ok"
    BY <1>1, <1>3, <2>1
  <2>2. CASE e.meter = "wrong"
    <3>1. q.grid = 2 * site.connection
      BY <1>1, <2>2
    <3>2. q.grid # None
      BY <1>4, <3>1, DispatchAssumption
    <3>3. 2 * q.grid > 3 * site.connection
      BY <1>4, <3>1
    <3> QED
      BY <1>3, <3>2, <3>3
  <2>3. CASE e.meter = "off"
    BY <1>1, <1>3, <2>3
  <2> QED
    BY <1>4, <2>1, <2>2, <2>3
<1>6. r.pv # None => r.pv = flows.pv
  BY <1>1, <1>3, <1>4 DEF Positive, Most
<1> QED
  BY <1>1, <1>3, <1>5, <1>6 DEF SunGiven

\* What the batteries may take while the loads are limited: nothing but the
\* sun that is left, and nothing at all without a plan.
LEMMA WantedFromTheSun ==
  ASSUME SiteOK, SetpointsOK, sent_pct \in [Inverters -> Percent], NEW e \in EnvironmentsOf(site),
         NEW flows, flows = Flows(e), NEW r, r = Plausible(ReadingsOf(e, flows)), r.grid # None,
         NEW constrained \in BOOLEAN, constrained, NEW floor \in Int, NEW limit \in Percent
  PROVE  /\ Wanted(e, r, constrained, floor, limit) \in Int
         /\ Wanted(e, r, constrained, floor, limit) <= Positive(SunGiven(e) - flows.base - flows.loads)
         /\ e.grid_plan = None => Wanted(e, r, constrained, floor, limit) <= 0
<1> DEFINE base == BaseLoad(r)
           reference == IF r.available # None THEN r.available ELSE r.pv
           surplus == IF None \in {base, reference} THEN 0 ELSE Positive(reference - base - r.loads)
           under == IF None \in {base, reference} THEN 0 ELSE base - reference
           left == SunGiven(e) - flows.base - flows.loads
           want == Wanted(e, r, constrained, floor, limit)
<1>1. FlowsOK(flows) /\ ReadingsOK(r)
  BY FlowsFacts, ReadingsFacts
<1>2. want \in Int
  BY <1>1, WantedType
<1>3. \/ e.grid_plan # None /\ \E guided : want = Least(guided, surplus)
      \/ want = -Positive(floor + under)
  BY DEF Wanted, NotFromTheGrid
<1> HIDE DEF want
<1>4. /\ flows.base \in Int /\ flows.loads \in Int /\ flows.pv \in Nat /\ flows.battery \in Int
      /\ SunGiven(e) \in Int /\ flows.pv <= SunGiven(e)
      /\ flows.grid = flows.base + flows.loads + flows.battery - flows.pv
  BY <1>1, PlantFacts DEF FlowsOK
<1>5. /\ base \in OptInt /\ (base # None => r.grid \in Int /\ r.pv \in Int)
      /\ reference \in OptInt /\ r.loads \in Int
  BY <1>1, BaseLoadFacts DEF ReadingsOK
<1>6. base # None => base + r.loads = flows.base + flows.loads /\ r.pv = flows.pv
  <2> SUFFICES ASSUME base # None PROVE base + r.loads = flows.base + flows.loads /\ r.pv = flows.pv
    OBVIOUS
  <2>1. r.grid # None /\ r.pv # None
    BY <1>5, DispatchAssumption
  <2>2. r.grid = flows.grid /\ r.pv = flows.pv /\ r.battery = flows.battery
    BY <2>1, ReadingsTell
  <2>3. base = r.grid + r.pv - r.loads - r.battery
    BY <2>1 DEF BaseLoad
  <2> HIDE DEF base
  <2> QED
    BY <1>4, <1>5, <2>2, <2>3
<1>7. base # None /\ reference # None => reference <= SunGiven(e)
  <2>1. r.available # None => r.available = SunGiven(e)
    BY ReadingsTell
  <2> HIDE DEF base
  <2> QED
    BY <1>4, <1>6, <2>1
<1> HIDE DEF base, reference, left
<1>8. surplus \in Nat /\ under \in Int /\ left \in Int /\ surplus <= Positive(left)
  <2>1. left \in Int
    BY <1>4 DEF left
  <2>2. CASE None \in {base, reference}
    BY <2>1, <2>2 DEF Positive, Most
  <2>3. CASE None \notin {base, reference}
    <3> DEFINE x == reference - base - r.loads
    <3>1. base \in Int /\ reference \in Int
      BY <1>5, <2>3 DEF OptInt
    <3>2. x \in Int
      BY <1>5, <3>1
    <3>3. x <= left
      BY <1>4, <1>5, <1>6, <1>7, <2>3, <3>1 DEF left
    <3>4. under = base - reference /\ surplus = Positive(x)
      BY <2>3
    <3> HIDE DEF x
    <3>5. surplus \in Nat /\ surplus <= Positive(left)
      BY <2>1, <3>2, <3>3, <3>4 DEF Positive, Most
    <3> QED
      BY <2>1, <3>1, <3>4, <3>5
  <2> QED
    BY <2>2, <2>3
<1> HIDE DEF surplus, under
<1>9. want = -Positive(floor + under) => want <= 0
  <2> DEFINE u == floor + under
  <2>1. u \in Int
    BY <1>8
  <2> HIDE DEF u
  <2>2. -Positive(u) <= 0
    BY <2>1 DEF Positive, Most
  <2> QED
    BY <2>2 DEF u
<1>10. (\E guided : want = Least(guided, surplus)) => want <= surplus
  <2> SUFFICES ASSUME NEW guided, want = Least(guided, surplus) PROVE want <= surplus
    OBVIOUS
  <2>1. CASE guided < surplus
    <3>1. want = guided
      BY <2>1 DEF Least
    <3> QED
      BY <1>2, <1>8, <2>1, <3>1
  <2>2. CASE ~(guided < surplus)
    <3>1. want = surplus
      BY <2>2 DEF Least
    <3> QED
      BY <1>8, <3>1
  <2> QED
    BY <2>1, <2>2
<1>11. want <= Positive(left)
  <2> DEFINE top == Positive(left)
  <2>1. top \in Nat
    BY <1>8 DEF Positive, Most
  <2>2. surplus <= top
    BY <1>8
  <2>3. want <= surplus \/ want <= 0
    BY <1>3, <1>9, <1>10
  <2> HIDE DEF top
  <2>4. want <= top
    BY <1>2, <1>8, <2>1, <2>2, <2>3
  <2> QED
    BY <2>4 DEF top
<1> QED
  BY <1>2, <1>3, <1>9, <1>11 DEF left, want

-----------------------------------------------------------------------------
\* Between nothing and what was asked for.
Towards(w, asked) == (0 <= w /\ w <= asked) \/ (asked <= w /\ w <= 0)

LEMMA ShareKeeps ==
  ASSUME SiteOK, NEW e \in EnvironmentsOf(site), NEW acc \in BatteryPlans, NEW i \in Batteries,
         NEW asked \in Int, Towards(acc.want, asked)
  PROVE  LET b == Share(e, acc, i)
         IN  /\ Towards(b.want, asked) /\ b.want = acc.want - b.power[i]
             /\ \A j \in Batteries \ {i} : b.power[j] = acc.power[j]
             /\ ~e.bats[i].online => b.power[i] = 0
<1> DEFINE low == -Least(site.batteries[i].discharge, 4 * e.bats[i].below)
           high == Least(site.batteries[i].charge, 4 * e.bats[i].above)
           p == IF e.bats[i].online THEN Clamp(acc.want, low, high) ELSE 0
           b == Share(e, acc, i)
<1>1. acc.want \in Int /\ acc.power \in [Batteries -> Int]
  BY DEF BatteryPlans
<1>2. low \in Int /\ high \in Int /\ low <= 0 /\ high >= 0
  <2>1. /\ site.batteries[i].discharge \in Nat /\ site.batteries[i].charge \in Nat
        /\ e.bats[i].below \in Nat /\ e.bats[i].above \in Nat
    BY BatteryFacts, EnvFacts
  <2> QED
    BY <2>1 DEF Least
<1> HIDE DEF low, high
<1>3. p \in Int /\ Towards(acc.want - p, asked) /\ (~e.bats[i].online => p = 0)
  BY <1>1, <1>2 DEF Clamp, Least, Most, Towards
<1>4. b = [want |-> acc.want - p, power |-> [acc.power EXCEPT ![i] = p]]
  BY DEF Share, low, high
<1> HIDE DEF p, b
<1>5. b.want = acc.want - p /\ b.power = [acc.power EXCEPT ![i] = p]
  BY <1>4
<1>6. b.power[i] = p /\ \A j \in Batteries \ {i} : b.power[j] = acc.power[j]
  BY <1>1, <1>5
<1> QED
  BY <1>3, <1>5, <1>6 DEF b

\* What the shares of the first k batteries leave.
SharedSoFar(e, acc, asked, k) ==
  /\ acc \in BatteryPlans /\ Towards(acc.want, asked)
  /\ SumFunction(acc.power) = asked - acc.want
  /\ \A i \in Batteries : i > k \/ ~e.bats[i].online => acc.power[i] = 0

\* The batteries that do not answer are left alone.
SilentTakeNone(e, bat) == \A i \in Batteries : ~e.bats[i].online => bat[i] = 0

\* Together the batteries take or give part of what they are asked to, and
\* those that do not answer are told to take nothing.
LEMMA BatteriesShareIt ==
  ASSUME SiteOK, NEW e \in EnvironmentsOf(site), NEW r, ReadingsOK(r),
         NEW constrained \in BOOLEAN, NEW floor \in Int, NEW limit \in Percent,
         NEW bat, bat = PlanBatteries(e, r, constrained, floor, limit)
  PROVE  /\ SumFunction(bat) \in Int /\ SilentTakeNone(e, bat)
         /\ r.grid = None => SumFunction(bat) = 0
         /\ r.grid # None => Towards(SumFunction(bat), Wanted(e, r, constrained, floor, limit))
<1>1. CASE r.grid = None
  <2>1. bat = [i \in Batteries |-> 0]
    BY <1>1 DEF PlanBatteries
  <2>2. SumFunction([i \in Batteries |-> 0]) = 0
    BY FiniteDevices, SumNothing
  <2> QED
    BY <1>1, <2>1, <2>2 DEF SilentTakeNone
<1>2. CASE r.grid # None
  <2> DEFINE n == Len(site.batteries)
             asked == Wanted(e, r, constrained, floor, limit)
             start == [want |-> asked, power |-> [i \in Batteries |-> 0]]
  <2>1. PICK g : ShareRun(g, e, start, n) /\ PlanBatteries(e, r, constrained, floor, limit) = g[n].power
    BY <1>2, PlanBatteriesRuns
  <2>2. asked \in Int
    BY <1>2, WantedType
  <2>3. n \in Nat /\ Batteries = 1 .. n /\ IsFiniteSet(Batteries)
    BY BatteryFacts, FiniteDevices
  <2>a. bat = g[n].power
    BY <2>1
  <2> HIDE DEF asked, n
  <2>4. SharedSoFar(e, start, asked, 0)
    <3> DEFINE z == [i \in Batteries |-> 0]
    <3>1. z \in [Batteries -> Int] /\ \A i \in Batteries : z[i] = 0
      OBVIOUS
    <3>2. SumFunction(z) = 0
      BY <2>3, SumNothing
    <3>3. start.want = asked /\ start.power = z
      OBVIOUS
    <3>4. start \in BatteryPlans
      BY <2>2 DEF BatteryPlans
    <3> HIDE DEF z, start
    <3>5. Towards(start.want, asked)
      BY <2>2, <3>3 DEF Towards
    <3>6. SumFunction(start.power) = asked - start.want
      BY <2>2, <3>2, <3>3
    <3> QED
      BY <3>1, <3>3, <3>4, <3>5, <3>6 DEF SharedSoFar
  <2> HIDE DEF start
  <2> DEFINE P == {k \in 0 .. n : SharedSoFar(e, g[k], asked, k)}
  <2>5. 0 \in P
    BY <2>1, <2>3, <2>4 DEF ShareRun
  <2>6. ASSUME NEW k \in 1 .. n, k - 1 \in P PROVE k \in P
    <3> DEFINE acc == g[k - 1]
               b == g[k]
    <3>1. b = Share(e, acc, k) /\ k \in Batteries
      BY <2>1, <2>3 DEF ShareRun
    <3>2. SharedSoFar(e, acc, asked, k - 1)
      BY <2>6
    <3> HIDE DEF acc, b
    <3>3. acc \in BatteryPlans /\ Towards(acc.want, asked)
      BY <3>2 DEF SharedSoFar
    <3>4. b \in BatteryPlans
      BY <3>1, <3>3, ShareType
    <3>5. /\ Towards(b.want, asked) /\ b.want = acc.want - b.power[k]
          /\ \A j \in Batteries \ {k} : b.power[j] = acc.power[j]
          /\ ~e.bats[k].online => b.power[k] = 0
      BY <2>2, <3>1, <3>3, ShareKeeps
    <3>6. acc.power \in [Batteries -> Int] /\ b.power \in [Batteries -> Int] /\ acc.want \in Int /\ b.want \in Int
      BY <3>3, <3>4 DEF BatteryPlans
    <3>7. acc.power[k] = 0
      BY <2>3, <3>1, <3>2 DEF SharedSoFar
    <3>8. SumFunction(b.power) = SumFunction(acc.power) - acc.power[k] + b.power[k]
      <4> DEFINE f == acc.power
                 h == b.power
      <4>1. /\ f \in [Batteries -> Int] /\ h \in [Batteries -> Int]
            /\ \A j \in Batteries \ {k} : h[j] = f[j]
        BY <3>5, <3>6
      <4> HIDE DEF f, h
      <4>2. SumFunction(h) = SumFunction(f) - f[k] + h[k]
        BY <2>3, <3>1, <4>1, SumChange
      <4> QED
        BY <4>2 DEF f, h
    <3>9. SumFunction(b.power) = asked - b.want
      <4>1. SumFunction(acc.power) = asked - acc.want
        BY <3>2 DEF SharedSoFar
      <4>2. b.power[k] \in Int
        BY <3>1, <3>6
      <4> QED
        BY <2>2, <3>5, <3>6, <3>7, <3>8, <4>1, <4>2
    <3>10. ASSUME NEW i \in Batteries, i > k \/ ~e.bats[i].online PROVE b.power[i] = 0
      <4>1. CASE i = k
        BY <2>3, <3>5, <3>10, <4>1
      <4>2. CASE i # k
        <5>1. i > k - 1 \/ ~e.bats[i].online
          BY <2>3, <3>10
        <5>2. acc.power[i] = 0
          BY <3>2, <5>1 DEF SharedSoFar
        <5> QED
          BY <3>5, <4>2, <5>2
      <4> QED
        BY <4>1, <4>2
    <3>11. SharedSoFar(e, b, asked, k)
      BY <3>4, <3>5, <3>9, <3>10 DEF SharedSoFar
    <3> QED
      BY <3>11 DEF b
  <2>7. n \in P
    <3>1. P \in SUBSET (0 .. n)
      OBVIOUS
    <3> HIDE DEF P
    <3> QED
      BY <2>3, <2>5, <2>6, <3>1, UpTo
  <2> DEFINE acc == g[n]
  <2>8. SharedSoFar(e, acc, asked, n)
    BY <2>7
  <2> HIDE DEF acc, P
  <2>9. acc.want \in Int /\ Towards(acc.want, asked) /\ SumFunction(acc.power) = asked - acc.want
    BY <2>8 DEF SharedSoFar, BatteryPlans
  <2>10. SumFunction(acc.power) \in Int /\ Towards(SumFunction(acc.power), asked)
    BY <2>2, <2>9 DEF Towards
  <2>11. \A i \in Batteries : ~e.bats[i].online => acc.power[i] = 0
    BY <2>8 DEF SharedSoFar
  <2> QED
    BY <1>2, <2>a, <2>10, <2>11 DEF acc, asked, SilentTakeNone
<1> QED
  BY <1>1, <1>2

\* So they keep to a bound on what they are asked to take, or to give.
LEMMA BatteriesKeepToIt ==
  ASSUME SiteOK, NEW e \in EnvironmentsOf(site), NEW r, ReadingsOK(r),
         NEW constrained \in BOOLEAN, NEW floor \in Int, NEW limit \in Percent,
         NEW bat, bat = PlanBatteries(e, r, constrained, floor, limit),
         NEW top \in Nat, r.grid # None => Wanted(e, r, constrained, floor, limit) <= top
  PROVE  SumFunction(bat) <= top /\ SilentTakeNone(e, bat)
<1> DEFINE asked == Wanted(e, r, constrained, floor, limit)
           sum == SumFunction(bat)
<1>1. /\ sum \in Int /\ SilentTakeNone(e, bat) /\ (r.grid = None => sum = 0)
      /\ r.grid # None => Towards(sum, asked)
  BY BatteriesShareIt
<1>2. r.grid # None => asked \in Int /\ asked <= top
  BY WantedType
<1> HIDE DEF asked, sum
<1>3. sum <= top
  BY <1>1, <1>2 DEF Towards
<1> QED
  BY <1>1, <1>3 DEF sum

-----------------------------------------------------------------------------
LEMMA SumOfParts ==
  ASSUME NEW S, IsFiniteSet(S), NEW f \in [S -> Int], NEW A \in SUBSET S
  PROVE  SumFunction(f) = SumFunction([i \in A |-> f[i]]) + SumFunction([i \in S \ A |-> f[i]])
<1> DEFINE F(t) == [i \in t |-> f[i]]
           B == S \ A
           P == {t \in SUBSET B : SumFunction(F(A \cup t)) = SumFunction(F(A)) + SumFunction(F(t))}
<1>0. IsFiniteSet(A) /\ IsFiniteSet(B) /\ \A t \in SUBSET S : IsFiniteSet(t) /\ F(t) \in [t -> Int]
  <2>1. \A t \in SUBSET S : IsFiniteSet(t)
    BY FS_Subset
  <2>2. A \in SUBSET S /\ B \in SUBSET S
    OBVIOUS
  <2>3. \A t \in SUBSET S : F(t) \in [t -> Int]
    OBVIOUS
  <2> QED
    BY <2>1, <2>2, <2>3
<1>1. {} \in P
  <2>1. SumFunction(F({})) = 0
    BY SumEmpty
  <2>2. SumFunction(F(A)) \in Int
    <3>1. F(A) \in [A -> Int]
      BY <1>0
    <3> HIDE DEF F
    <3> QED
      BY <1>0, <3>1, SumInt
  <2>3. A \cup {} = A
    OBVIOUS
  <2> HIDE DEF F
  <2> QED
    BY <2>1, <2>2, <2>3
<1>2. \A t \in P, x \in B : x \notin t => t \cup {x} \in P
  <2> SUFFICES ASSUME NEW t \in P, NEW x \in B, x \notin t PROVE t \cup {x} \in P
    OBVIOUS
  <2> DEFINE u == A \cup t
  <2>1. u \in SUBSET S /\ t \in SUBSET S /\ x \notin u /\ x \in S /\ A \cup (t \cup {x}) = u \cup {x}
    OBVIOUS
  <2>2. SumFunction(F(u)) = SumFunction(F(A)) + SumFunction(F(t))
    OBVIOUS
  <2>3. \A v \in SUBSET S : x \notin v => SumFunction(F(v \cup {x})) = f[x] + SumFunction(F(v))
    <3> SUFFICES ASSUME NEW v \in SUBSET S, x \notin v
                 PROVE  SumFunction(F(v \cup {x})) = f[x] + SumFunction(F(v))
      OBVIOUS
    <3> DEFINE j == F(v \cup {x})
               k == F(v)
    <3>1. j \in [v \cup {x} -> Int] /\ k \in [v -> Int] /\ (\A i \in v : k[i] = j[i]) /\ j[x] = f[x]
      BY <2>1
    <3>2. IsFiniteSet(v)
      BY <1>0
    <3> HIDE DEF j, k, F, P
    <3>3. SumFunction(j) = j[x] + SumFunction(k)
      BY <3>1, <3>2, SumMore
    <3> QED
      BY <3>1, <3>3 DEF j, k
  <2>4. SumFunction(F(A)) \in Int /\ SumFunction(F(t)) \in Int
    <3>1. F(A) \in [A -> Int] /\ F(t) \in [t -> Int] /\ IsFiniteSet(t)
      BY <1>0, <2>1
    <3> HIDE DEF F, P
    <3> QED
      BY <1>0, <3>1, SumInt
  <2>5. f[x] \in Int
    BY <2>1
  <2> HIDE DEF F, u
  <2>6. SumFunction(F(u \cup {x})) = SumFunction(F(A)) + SumFunction(F(t \cup {x}))
    <3>1. SumFunction(F(u \cup {x})) = f[x] + SumFunction(F(u))
      BY <2>1, <2>3
    <3>2. SumFunction(F(t \cup {x})) = f[x] + SumFunction(F(t))
      BY <2>1, <2>3
    <3> QED
      BY <2>2, <2>4, <2>5, <3>1, <3>2
  <2> QED
    BY <2>1, <2>6
<1> HIDE DEF P
<1>3. P \in SUBSET SUBSET B
  BY DEF P
<1>4. B \in P
  BY <1>0, <1>1, <1>2, <1>3, SubsetInduction
<1>5. F(A \cup B) = f
  OBVIOUS
<1> QED
  BY <1>4, <1>5 DEF P

\* g on A and h on the rest make up f on S.
Splits(f, S, A, g, h) ==
  /\ IsFiniteSet(S) /\ A \subseteq S /\ f \in [S -> Int]
  /\ g = [i \in A |-> g[i]] /\ \A i \in A : g[i] = f[i]
  /\ h = [i \in S \ A |-> h[i]] /\ \A i \in S \ A : h[i] = f[i]

\* A sum is the sum of its two parts.
LEMMA SumSplit ==
  ASSUME NEW S, NEW f, NEW A, NEW g, NEW h, Splits(f, S, A, g, h)
  PROVE  SumFunction(f) = SumFunction(g) + SumFunction(h)
<1>1. g = [i \in A |-> f[i]] /\ h = [i \in S \ A |-> f[i]]
  BY DEF Splits
<1>2. IsFiniteSet(S) /\ A \in SUBSET S /\ f \in [S -> Int]
  BY DEF Splits
<1>3. SumFunction(f) = SumFunction([i \in A |-> f[i]]) + SumFunction([i \in S \ A |-> f[i]])
  BY <1>2, SumOfParts
<1> QED
  BY <1>1, <1>3

\* The devices that answer draw no more than they were granted, the others no
\* more than is set aside for them, as long as the same ones answer.
LEMMA LoadsStayUnder ==
  ASSUME SiteOK, SetpointsOK, FailsafeOK, NEW e \in EnvironmentsOf(site), NEW old \in EnvironmentsOf(site),
         site.policy.contract = None, OthersWait(old, setpoints.charger_a),
         \A i \in Chargers : old.cars[i].online = e.cars[i].online,
         \A i \in HeatPumps : old.pumps[i].online = e.pumps[i].online
  PROVE  /\ Flows(e).loads <= LoadsGranted(old) + OfflineReserve(old)
         /\ Flows(e).loads \in Int /\ LoadsGranted(old) \in Int /\ OfflineReserve(old) \in Nat
<1> DEFINE On == {i \in Chargers : e.cars[i].online}
           S == Sharing(old)
           Running == {i \in HeatPumps : e.pumps[i].online}
           Lost == {i \in Chargers : ~old.cars[i].online /\ ~Exempt(site.chargers[i])}
           LostPumps == {i \in HeatPumps : ~old.pumps[i].online /\ ~Exempt(site.heat_pumps[i])}
           draw == [i \in Chargers |-> ChargerDraw(e, i)]
           heat == [i \in HeatPumps |-> HeatPumpDraw(e, i)]
           own == {i \in HeatPumps : ~Exempt(site.heat_pumps[i])}
           amps == [i \in S |-> ThreePhaseW(setpoints.charger_a[i])]
           limit == [i \in own |-> setpoints.heat_pump_limit[i]]
           failsafe == [i \in Lost |-> ThreePhaseW(site.chargers[i].failsafe)]
           rated == [i \in LostPumps |-> site.heat_pumps[i].rated]
<1>1. \A spec : ~Exempt(spec)
  BY DEF Exempt
<1>2. \A i \in Chargers : /\ e.cars[i].online \in BOOLEAN /\ e.cars[i].waiting \in BOOLEAN
                          /\ setpoints.charger_a[i] \in Nat /\ site.chargers[i].failsafe \in Nat
  BY EnvFacts, ChargerFacts DEF SetpointsOK, FailsafeOK
<1>3. \A i \in HeatPumps : /\ e.pumps[i].online \in BOOLEAN /\ setpoints.heat_pump_limit[i] \in Nat
                           /\ site.heat_pumps[i].rated \in Nat
  BY EnvFacts, HeatPumpFacts DEF SetpointsOK
<1>4. /\ On \in SUBSET Chargers /\ S \in SUBSET On /\ Running \in SUBSET HeatPumps
      /\ Lost = Chargers \ On /\ LostPumps = HeatPumps \ Running /\ own = HeatPumps
  BY <1>1, <1>2, <1>3 DEF Sharing, Waiting
<1>5. IsFiniteSet(Chargers) /\ IsFiniteSet(HeatPumps)
  BY FiniteDevices
<1>6. /\ draw \in [Chargers -> Int] /\ heat \in [HeatPumps -> Int]
      /\ amps \in [S -> Int] /\ limit \in [HeatPumps -> Int]
      /\ failsafe \in [Lost -> Int] /\ rated \in [LostPumps -> Int]
      /\ (\A i \in HeatPumps : limit[i] >= 0) /\ (\A i \in HeatPumps \ Running : limit[i] >= 0)
      /\ (\A i \in Lost : failsafe[i] >= 0) /\ (\A i \in LostPumps : rated[i] >= 0)
  <2>1. draw \in [Chargers -> Int] /\ heat \in [HeatPumps -> Int]
    BY ChargerDrawType, HeatPumpDrawType
  <2>2. amps \in [S -> Int] /\ failsafe \in [Lost -> Int] /\ \A i \in Lost : failsafe[i] >= 0
    BY <1>2, <1>4 DEF ThreePhaseW
  <2>3. /\ limit \in [HeatPumps -> Int] /\ rated \in [LostPumps -> Int]
        /\ (\A i \in HeatPumps : limit[i] >= 0) /\ (\A i \in LostPumps : rated[i] >= 0)
    BY <1>3, <1>4
  <2> QED
    BY <2>1, <2>2, <2>3
<1>7. \A i \in S : draw[i] <= amps[i]
  <2> SUFFICES ASSUME NEW i \in S PROVE draw[i] <= amps[i]
    OBVIOUS
  <2>1. i \in Chargers /\ e.cars[i].online /\ setpoints.charger_a[i] \in Nat
    BY <1>2, <1>4
  <2>2. ChargerDraw(e, i) = 0 \/ ChargerDraw(e, i) = ThreePhaseW(setpoints.charger_a[i])
    BY <2>1 DEF ChargerDraw
  <2>3. draw[i] = ChargerDraw(e, i) /\ amps[i] = ThreePhaseW(setpoints.charger_a[i])
    BY <2>1
  <2> HIDE DEF draw, amps
  <2> QED
    BY <2>1, <2>2, <2>3 DEF ThreePhaseW
<1>8. \A i \in On \ S : draw[i] = 0
  <2> SUFFICES ASSUME NEW i \in On \ S PROVE draw[i] = 0
    OBVIOUS
  <2>1. i \in Chargers /\ e.cars[i].online /\ i \notin Sharing(old)
    BY <1>4
  <2>2. setpoints.charger_a[i] = 0
    BY <1>1, <2>1 DEF OthersWait
  <2> QED
    BY <2>1, <2>2 DEF ChargerDraw, ThreePhaseW
<1>9. \A i \in Lost : draw[i] <= failsafe[i]
  <2> SUFFICES ASSUME NEW i \in Lost PROVE draw[i] <= failsafe[i]
    OBVIOUS
  <2>1. i \in Chargers /\ ~e.cars[i].online /\ site.chargers[i].failsafe \in Nat
    BY <1>2, <1>4
  <2>2. ChargerDraw(e, i) = 0 \/ ChargerDraw(e, i) = ThreePhaseW(site.chargers[i].failsafe)
    BY <2>1 DEF ChargerDraw
  <2>3. draw[i] = ChargerDraw(e, i) /\ failsafe[i] = ThreePhaseW(site.chargers[i].failsafe)
    BY <2>1
  <2> HIDE DEF draw, failsafe
  <2> QED
    BY <2>1, <2>2, <2>3 DEF ThreePhaseW
<1>10. \A i \in Running : heat[i] <= limit[i]
  <2> SUFFICES ASSUME NEW i \in Running PROVE heat[i] <= limit[i]
    OBVIOUS
  <2>1. i \in HeatPumps /\ e.pumps[i].online /\ setpoints.heat_pump_limit[i] \in Int
    BY <1>3, <1>4
  <2>2. OrElse(setpoints.heat_pump_ext[i], e.pumps[i].demand) \in Int
    <3>1. setpoints.heat_pump_ext[i] \in OptInt /\ e.pumps[i].demand \in Int
      BY <2>1, EnvFacts DEF SetpointsOK
    <3> QED
      BY <3>1 DEF OrElse, OptInt
  <2>3. heat[i] = Least(setpoints.heat_pump_limit[i], OrElse(setpoints.heat_pump_ext[i], e.pumps[i].demand))
    BY <2>1 DEF HeatPumpDraw
  <2>4. limit[i] = setpoints.heat_pump_limit[i]
    BY <1>4, <2>1
  <2> DEFINE x == setpoints.heat_pump_limit[i]
             y == OrElse(setpoints.heat_pump_ext[i], e.pumps[i].demand)
  <2> HIDE DEF heat, limit, x, y
  <2>5. x \in Int /\ y \in Int /\ heat[i] = Least(x, y) /\ limit[i] = x
    BY <2>1, <2>2, <2>3, <2>4 DEF x, y
  <2> QED
    BY <2>5 DEF Least
<1>11. \A i \in LostPumps : heat[i] <= rated[i]
  BY <1>3, <1>4 DEF HeatPumpDraw
<1>12. Flows(e).loads = SumFunction(draw) + SumFunction(heat)
  BY DEF Flows, SumOver
<1>13. LoadsGranted(old) = SumFunction(amps) + SumFunction(limit)
  BY DEF LoadsGranted, SumOver
<1>14. OfflineReserve(old) = SumFunction(failsafe) + SumFunction(rated)
  BY DEF OfflineReserve, SumOver
<1> HIDE DEF On, S, Running, Lost, LostPumps, draw, heat, own, amps, limit, failsafe, rated
<1>15. /\ IsFiniteSet(On) /\ IsFiniteSet(S) /\ IsFiniteSet(Running) /\ IsFiniteSet(Lost) /\ IsFiniteSet(LostPumps)
       /\ IsFiniteSet(On \ S)
  <2>1. On \ S \in SUBSET Chargers /\ S \in SUBSET Chargers /\ Lost \in SUBSET Chargers /\ LostPumps \in SUBSET HeatPumps
    BY <1>4
  <2> QED
    BY <1>4, <1>5, <2>1, FS_Subset
<1>16. /\ SumFunction(draw) \in Int /\ SumFunction(amps) \in Int /\ SumFunction(failsafe) \in Nat
       /\ SumFunction(draw) <= SumFunction(amps) + SumFunction(failsafe)
  <2> DEFINE on == [i \in On |-> draw[i]]
             off == [i \in Chargers \ On |-> draw[i]]
             share == [i \in S |-> on[i]]
             rest == [i \in On \ S |-> on[i]]
             nothing == [i \in On \ S |-> 0]
  <2>1. on \in [On -> Int] /\ off \in [Lost -> Int] /\ share \in [S -> Int]
    BY <1>4, <1>6
  <2>2. /\ (\A i \in S : share[i] <= amps[i]) /\ (\A i \in Lost : off[i] <= failsafe[i])
        /\ rest = nothing
    <3>1. \A i \in On \ S : rest[i] = 0
      BY <1>8
    <3>2. \A i \in S : share[i] = draw[i]
      BY <1>4
    <3>3. \A i \in Lost : off[i] = draw[i]
      BY <1>4
    <3>4. rest = nothing
      BY <3>1
    <3> QED
      BY <1>7, <1>9, <3>2, <3>3, <3>4
  <2>3. Splits(draw, Chargers, On, on, off)
    BY <1>4, <1>5, <1>6, <2>1 DEF Splits
  <2>4. Splits(on, On, S, share, rest)
    BY <1>4, <1>15, <2>1 DEF Splits
  <2> HIDE DEF on, off, share, rest
  <2>a. /\ SumFunction(draw) = SumFunction(on) + SumFunction(off)
        /\ SumFunction(on) = SumFunction(share) + SumFunction(rest)
    BY <2>3, <2>4, SumSplit
  <2>5. SumFunction(nothing) = 0
    BY <1>15, SumNothing
  <2> HIDE DEF nothing
  <2>6. SumFunction(share) <= SumFunction(amps)
    BY <1>6, <1>15, <2>1, <2>2, SumMonotone
  <2>7. SumFunction(off) <= SumFunction(failsafe)
    BY <1>6, <1>15, <2>1, <2>2, SumMonotone
  <2>8. SumFunction(failsafe) \in Nat
    BY <1>6, <1>15, SumNat
  <2>9. SumFunction(draw) \in Int /\ SumFunction(amps) \in Int
    BY <1>5, <1>6, <1>15, SumInt
  <2>10. SumFunction(share) \in Int /\ SumFunction(off) \in Int
    BY <1>15, <2>1, SumInt
  <2> QED
    BY <2>2, <2>a, <2>5, <2>6, <2>7, <2>8, <2>9, <2>10
<1>17. /\ SumFunction(heat) \in Int /\ SumFunction(limit) \in Int /\ SumFunction(rated) \in Nat
       /\ SumFunction(heat) <= SumFunction(limit) + SumFunction(rated)
  <2> DEFINE on == [i \in Running |-> heat[i]]
             off == [i \in HeatPumps \ Running |-> heat[i]]
             lim == [i \in Running |-> limit[i]]
             left == [i \in HeatPumps \ Running |-> limit[i]]
  <2>1. /\ on \in [Running -> Int] /\ off \in [LostPumps -> Int] /\ lim \in [Running -> Int]
        /\ left \in [LostPumps -> Int] /\ \A i \in LostPumps : left[i] >= 0
    BY <1>4, <1>6
  <2>2. (\A i \in Running : on[i] <= lim[i]) /\ (\A i \in LostPumps : off[i] <= rated[i])
    <3>1. \A i \in Running : on[i] = heat[i] /\ lim[i] = limit[i]
      OBVIOUS
    <3>2. \A i \in LostPumps : off[i] = heat[i]
      BY <1>4
    <3> QED
      BY <1>10, <1>11, <3>1, <3>2
  <2>3. Splits(heat, HeatPumps, Running, on, off)
    BY <1>4, <1>5, <1>6 DEF Splits
  <2>4. Splits(limit, HeatPumps, Running, lim, left)
    BY <1>4, <1>5, <1>6 DEF Splits
  <2> HIDE DEF on, off, lim, left
  <2>a. /\ SumFunction(heat) = SumFunction(on) + SumFunction(off)
        /\ SumFunction(limit) = SumFunction(lim) + SumFunction(left)
    BY <2>3, <2>4, SumSplit
  <2>5. SumFunction(on) <= SumFunction(lim)
    BY <1>15, <2>1, <2>2, SumMonotone
  <2>6. SumFunction(off) <= SumFunction(rated)
    BY <1>6, <1>15, <2>1, <2>2, SumMonotone
  <2>7. SumFunction(left) \in Nat
    BY <1>15, <2>1, SumNat
  <2>8. SumFunction(rated) \in Nat
    BY <1>6, <1>15, SumNat
  <2>9. SumFunction(on) \in Int /\ SumFunction(off) \in Int /\ SumFunction(lim) \in Int
    BY <1>15, <2>1, SumInt
  <2>10. SumFunction(heat) \in Int /\ SumFunction(limit) \in Int
    BY <1>5, <1>6, SumInt
  <2> QED
    BY <2>a, <2>5, <2>6, <2>7, <2>8, <2>9, <2>10
<1> QED
  BY <1>12, <1>13, <1>14, <1>16, <1>17

-----------------------------------------------------------------------------
\* What a dimmed cycle told the batteries: to take no more than the open sun
\* leaves, nothing without a plan, and nothing if they did not answer.
BatteriesToldFromSun ==
  truth # None /\ status.mode = "dimmed" =>
    /\ truth.env \in EnvironmentsOf(site)
    /\ FlowsOK(truth.flows) /\ truth.flows.base = truth.env.base
    /\ OpenSunLeft(truth.env, truth.flows) \in Int
    /\ SumFunction(setpoints.battery) <= Positive(OpenSunLeft(truth.env, truth.flows))
    /\ truth.env.grid_plan = None => SumFunction(setpoints.battery) <= 0
    /\ \A i \in Batteries : ~truth.env.bats[i].online => setpoints.battery[i] = 0

\* What a dimmed cycle went by for the loads.
LoadsToldFromFloor ==
  truth # None /\ status.mode = "dimmed" =>
    /\ status.budget \in Int /\ status.budget <= FloorW(site) + OrElse(status.surplus, 0)
    /\ status.reserve = OfflineReserve(truth.env)
    /\ site.policy.contract = None => truth.exempt = 0
    /\ OthersWait(truth.env, setpoints.charger_a)

\* What depends on the site alone stays.
LEMMA SiteStays ==
  ASSUME site' = site
  PROVE  /\ Chargers' = Chargers /\ HeatPumps' = HeatPumps /\ Batteries' = Batteries /\ Inverters' = Inverters
         /\ \A e : OfflineReserve(e)' = OfflineReserve(e)
         /\ \A e, amps : OthersWait(e, amps)' = OthersWait(e, amps)
         /\ \A e, flows : OpenSunLeft(e, flows)' = OpenSunLeft(e, flows)
<1>1. Chargers' = Chargers /\ HeatPumps' = HeatPumps /\ Batteries' = Batteries /\ Inverters' = Inverters
  BY DEF Chargers, HeatPumps, Batteries, Inverters
<1>2. \A e : OfflineReserve(e)' = OfflineReserve(e)
  BY <1>1 DEF OfflineReserve, SumOver, Exempt
<1>3. \A e, amps : OthersWait(e, amps)' = OthersWait(e, amps)
  BY <1>1 DEF OthersWait, Sharing, Waiting, CapA, Exempt
<1>4. \A e, flows : OpenSunLeft(e, flows)' = OpenSunLeft(e, flows)
  BY <1>1 DEF OpenSunLeft, SumOver, SunOn
<1> QED
  BY <1>1, <1>2, <1>3, <1>4

\* The budget of a dimmed cycle.
LEMMA DimmedBudget ==
  ASSUME SiteOK, status \in Statuses, NEW e \in EnvironmentsOf(site), NEW surplus \in Nat \cup {None},
         NEW b \in Budgets(e, surplus), b.mode = "dimmed"
  PROVE  b.w \in Int /\ b.w <= FloorW(site) + OrElse(surplus, 0)
<1> DEFINE held == IF surplus = None THEN {0} ELSE {surplus, Least(surplus, OrElse(status.surplus, 0))}
           floor == FloorW(site)
<1>1. e.dim
  BY DEF Budgets
<1>2. PICK h \in held : b = [mode |-> "dimmed", w |-> FloorW(site) + h - site.margin]
  BY <1>1 DEF Budgets
<1>3. h \in Int /\ h <= OrElse(surplus, 0) /\ OrElse(surplus, 0) \in Int
  <2>1. OrElse(status.surplus, 0) \in Int
    BY DEF Statuses, OrElse
  <2>2. CASE surplus = None
    BY <2>2 DEF OrElse
  <2>3. CASE surplus # None
    <3>1. surplus \in Nat /\ (h = surplus \/ h = Least(surplus, OrElse(status.surplus, 0)))
      BY <2>3
    <3> DEFINE x == OrElse(status.surplus, 0)
    <3> HIDE DEF x
    <3>2. x \in Int /\ surplus \in Int /\ (h = surplus \/ h = Least(surplus, x))
      BY <2>1, <3>1 DEF x
    <3>3. h \in Int /\ h <= surplus
      BY <3>2 DEF Least
    <3> QED
      BY <2>3, <3>1, <3>3 DEF OrElse
  <2> QED
    BY <2>2, <2>3
<1>4. floor \in Int /\ site.margin \in Nat
  BY FloorType, SiteNumbers
<1>5. b.w = floor + h - site.margin
  BY <1>2
<1> DEFINE o == OrElse(surplus, 0)
<1> HIDE DEF floor, o
<1>6. o \in Int /\ h \in Int /\ h <= o
  BY <1>3 DEF o
<1>7. b.w \in Int /\ b.w <= floor + o
  BY <1>4, <1>5, <1>6
<1> QED
  BY <1>7 DEF floor, o

LEMMA CycleTells ==
  ASSUME NoNegativeFailsafe, Known, NEW e \in Environments(site), Cycle(e)
  PROVE  BatteriesToldFromSun' /\ LoadsToldFromFloor'
<1>1. PICK flows, r, age, pct, reserve, budget, bat, planned, loads, limit :
        /\ Computed(e, flows, r, age, pct, reserve, budget, bat, planned, loads, limit)
        /\ Sent(e, flows, r, age, pct, reserve, budget, bat, loads, limit)
  BY CycleParts
<1>2. /\ e \in EnvironmentsOf(site) /\ FlowsOK(flows) /\ ReadingsOK(r)
      /\ pct \in Percent /\ reserve \in Nat /\ Surplus(r) \in Nat \cup {None}
      /\ budget.mode \in Modes /\ budget.w \in Int \cup {Infinity}
      /\ bat \in [Batteries -> Int] /\ planned \in Int
  BY <1>1, ComputedTypes
<1>3. /\ SiteOK /\ ChargersOK /\ SetpointsOK /\ status \in Statuses
      /\ sent_pct \in [Inverters -> Percent]
  BY KnownFacts
<1>4. site' = site
  BY <1>1 DEF Sent
<1>5. /\ setpoints'.charger_a = loads.amps /\ setpoints'.battery = bat
      /\ truth'.env = e /\ truth'.exempt = ExemptDraw(e) /\ truth'.flows = flows
      /\ status'.mode = budget.mode /\ status'.budget = budget.w
      /\ status'.surplus = Surplus(r) /\ status'.reserve = reserve
  BY <1>1 DEF Sent
<1>6. BatteriesToldFromSun'
  <2> DEFINE left == OpenSunLeft(e, flows)
             constrained == budget.mode # "normal"
             floor == FloorW(site)
             given == SunGiven(e)
  <2>1. left = given - flows.base - flows.loads /\ given \in Int /\ flows.base = e.base
    <3>1. flows = Flows(e)
      BY <1>1 DEF Computed
    <3>2. given \in Int /\ flows.base = e.base
      BY <1>2, <1>3, <3>1, PlantFacts
    <3>3. left = given - flows.base - flows.loads
      BY DEF OpenSunLeft, SumOver, SunGiven
    <3> QED
      BY <3>2, <3>3
  <2>2. left \in Int
    <3> HIDE DEF left, given
    <3> QED
      BY <1>2, <2>1 DEF FlowsOK
  <2>3. ASSUME budget.mode = "dimmed"
        PROVE  /\ SumFunction(bat) <= Positive(left) /\ (e.grid_plan = None => SumFunction(bat) <= 0)
               /\ \A i \in Batteries : ~e.bats[i].online => bat[i] = 0
    <3>1. constrained \in BOOLEAN /\ constrained /\ floor \in Int
      BY <1>3, <2>3, FloorType
    <3>2. bat = PlanBatteries(e, r, constrained, floor, pct) /\ flows = Flows(e) /\ r = Plausible(ReadingsOf(e, flows))
      BY <1>1 DEF Computed
    <3> HIDE DEF constrained, floor
    <3>3. r.grid # None =>
            /\ Wanted(e, r, constrained, floor, pct) <= Positive(given - flows.base - flows.loads)
            /\ e.grid_plan = None => Wanted(e, r, constrained, floor, pct) <= 0
      BY <1>2, <1>3, <3>1, <3>2, WantedFromTheSun
    <3> DEFINE top == Positive(left)
    <3>4. top \in Nat /\ (r.grid # None => Wanted(e, r, constrained, floor, pct) <= top)
      BY <2>1, <2>2, <3>3 DEF Positive, Most
    <3> HIDE DEF top
    <3>5. SumFunction(bat) <= top /\ SilentTakeNone(e, bat)
      BY <1>2, <1>3, <3>1, <3>2, <3>4, BatteriesKeepToIt
    <3>6. e.grid_plan = None => SumFunction(bat) <= 0
      <4> SUFFICES ASSUME e.grid_plan = None PROVE SumFunction(bat) <= 0
        OBVIOUS
      <4> DEFINE none == 0
      <4>1. none \in Nat /\ (r.grid # None => Wanted(e, r, constrained, floor, pct) <= none)
        BY <3>3
      <4> HIDE DEF none
      <4>2. SumFunction(bat) <= none
        BY <1>2, <1>3, <3>1, <3>2, <4>1, BatteriesKeepToIt
      <4> QED
        BY <4>2 DEF none
    <3> QED
      BY <3>5, <3>6 DEF top, SilentTakeNone
  <2>4. OpenSunLeft(truth.env, truth.flows)' = left /\ Batteries' = Batteries
    BY <1>4, <1>5, SiteStays
  <2>5. EnvironmentsOf(site)' = EnvironmentsOf(site)
    BY <1>4
  <2> HIDE DEF left
  <2> QED
    BY <1>2, <1>5, <2>1, <2>2, <2>3, <2>4, <2>5 DEF BatteriesToldFromSun
<1>7. LoadsToldFromFloor'
  <2>1. budget.mode = "dimmed" => budget.w \in Int /\ budget.w <= FloorW(site) + OrElse(Surplus(r), 0)
    <3>1. budget \in Budgets(e, Surplus(r))
      BY <1>1 DEF Computed
    <3> QED
      BY <1>2, <1>3, <3>1, DimmedBudget
  <2>2. budget.mode = "dimmed" => OthersWait(e, loads.amps)
    <3>1. budget.w # Infinity => OthersWait(e, loads.amps)
      BY <1>1, LoadsFacts
    <3> QED
      BY <2>1, <3>1, DispatchAssumption
  <2>3. site.policy.contract = None => ExemptDraw(e) = 0
    <3> SUFFICES ASSUME site.policy.contract = None PROVE ExemptDraw(e) = 0
      OBVIOUS
    <3> DEFINE f == [i \in {i \in HeatPumps : Exempt(site.heat_pumps[i])} |-> Demand(e, i)]
               g == [i \in {i \in Waiting(e) : Exempt(site.chargers[i])} |-> ChargerDraw(e, i)]
    <3>1. \A spec : ~Exempt(spec)
      BY DEF Exempt
    <3>2. DOMAIN f = {} /\ DOMAIN g = {}
      BY <3>1
    <3>3. ExemptDraw(e) = SumFunction(f) + SumFunction(g)
      BY DEF ExemptDraw, SumOver
    <3> HIDE DEF f, g
    <3>4. SumFunction(f) = 0 /\ SumFunction(g) = 0
      BY <3>2, SumEmpty
    <3> QED
      BY <3>3, <3>4
  <2>4. reserve = OfflineReserve(e)
    BY <1>1 DEF Computed
  <2>5. /\ OfflineReserve(truth.env)' = OfflineReserve(e)
        /\ OthersWait(truth.env, setpoints.charger_a)' = OthersWait(e, loads.amps)
    BY <1>4, <1>5, SiteStays
  <2>6. FloorW(site)' = FloorW(site) /\ site'.policy = site.policy
    BY <1>4
  <2> QED
    BY <1>5, <2>1, <2>2, <2>3, <2>4, <2>5, <2>6 DEF LoadsToldFromFloor
<1> QED
  BY <1>6, <1>7

\* What every state keeps of the last cycle.
Told == Fits /\ BatteriesToldFromSun /\ LoadsToldFromFloor

LEMMA ToldAlways ==
  ASSUME NoNegativeFailsafe
  PROVE  DSpec => []Told
<1>1. DInit => BatteriesToldFromSun /\ LoadsToldFromFloor
  BY InitKnown DEF BatteriesToldFromSun, LoadsToldFromFloor
<1>2. Fits /\ BatteriesToldFromSun /\ LoadsToldFromFloor /\ [DNext]_dvars
        => BatteriesToldFromSun' /\ LoadsToldFromFloor'
  <2> SUFFICES ASSUME Fits, BatteriesToldFromSun, LoadsToldFromFloor, [DNext]_dvars
               PROVE  BatteriesToldFromSun' /\ LoadsToldFromFloor'
    OBVIOUS
  <2>1. CASE DNext
    <3>1. PICK e \in Environments(site) : Cycle(e)
      BY <2>1 DEF DNext
    <3> QED
      BY <3>1, CycleTells DEF Fits
  <2>2. CASE UNCHANGED dvars
    <3>1. site' = site /\ setpoints' = setpoints /\ status' = status /\ truth' = truth
      BY <2>2 DEF dvars
    <3>2. /\ Batteries' = Batteries
          /\ OfflineReserve(truth.env)' = OfflineReserve(truth.env)
          /\ OthersWait(truth.env, setpoints.charger_a)' = OthersWait(truth.env, setpoints.charger_a)
          /\ OpenSunLeft(truth.env, truth.flows)' = OpenSunLeft(truth.env, truth.flows)
      BY <3>1, SiteStays
    <3>3. EnvironmentsOf(site)' = EnvironmentsOf(site) /\ FloorW(site)' = FloorW(site) /\ site'.policy = site.policy
      BY <3>1
    <3>4. BatteriesToldFromSun'
      BY <3>1, <3>2, <3>3 DEF BatteriesToldFromSun
    <3>5. LoadsToldFromFloor'
      BY <3>1, <3>2, <3>3 DEF LoadsToldFromFloor
    <3> QED
      BY <3>4, <3>5
  <2> QED
    BY <2>1, <2>2
<1> QED
  BY <1>1, <1>2, FitsAlways, PTL DEF DSpec, Told

-----------------------------------------------------------------------------
\* What the batteries do is what they were told, where nobody that was told
\* anything has gone.
LEMMA BatteriesObey ==
  ASSUME SiteOK, SetpointsOK, sent_pct \in [Inverters -> Percent], NEW e \in EnvironmentsOf(site),
         \A i \in Batteries : e.bats[i].online \/ setpoints.battery[i] = 0
  PROVE  Flows(e).battery = SumFunction(setpoints.battery) /\ SumFunction(setpoints.battery) \in Int
<1>1. setpoints.battery \in [Batteries -> Int]
  BY DEF SetpointsOK
<1>2. \A i \in Batteries : BatteryFlow(e, i) = setpoints.battery[i]
  BY DEF BatteryFlow
<1>3. [i \in Batteries |-> BatteryFlow(e, i)] = setpoints.battery
  BY <1>1, <1>2
<1>4. Flows(e).battery = SumFunction([i \in Batteries |-> BatteryFlow(e, i)])
  BY PlantFacts
<1> QED
  BY <1>1, <1>3, <1>4, FiniteDevices, SumInt

\* Who answers is known from what is reached.
LEMMA ReachedTells ==
  ASSUME SiteOK, NEW e \in EnvironmentsOf(site), NEW old \in EnvironmentsOf(site), Reached(old) = Reached(e)
  PROVE  /\ \A i \in Chargers : old.cars[i].online = e.cars[i].online
         /\ \A i \in HeatPumps : old.pumps[i].online = e.pumps[i].online
<1>1. Chargers = 1 .. Len(site.chargers) /\ HeatPumps = 1 .. Len(site.heat_pumps)
      /\ Len(site.chargers) \in Nat /\ Len(site.heat_pumps) \in Nat
  BY ChargerFacts, HeatPumpFacts
<1>2. \A x \in EnvironmentsOf(site), i \in Chargers : i \in Reached(x) <=> x.cars[i].online
  <2> SUFFICES ASSUME NEW x \in EnvironmentsOf(site), NEW i \in Chargers
               PROVE  i \in Reached(x) <=> x.cars[i].online
    OBVIOUS
  <2>1. \A j \in HeatPumps : i # -j
    BY <1>1
  <2> QED
    BY <2>1 DEF Reached
<1>3. \A x \in EnvironmentsOf(site), i \in HeatPumps : -i \in Reached(x) <=> x.pumps[i].online
  <2> SUFFICES ASSUME NEW x \in EnvironmentsOf(site), NEW i \in HeatPumps
               PROVE  -i \in Reached(x) <=> x.pumps[i].online
    OBVIOUS
  <2>1. (\A j \in Chargers : j # -i) /\ \A j \in HeatPumps : -j = -i => j = i
    BY <1>1
  <2>2. -i \in Reached(x) <=> \E j \in HeatPumps : x.pumps[j].online /\ -i = -j
    BY <2>1 DEF Reached
  <2> QED
    BY <2>1, <2>2
<1>4. \A x \in EnvironmentsOf(site) : /\ \A i \in Chargers : x.cars[i].online \in BOOLEAN
                                      /\ \A i \in HeatPumps : x.pumps[i].online \in BOOLEAN
  BY EnvFacts
<1>5. ASSUME NEW i \in Chargers PROVE old.cars[i].online = e.cars[i].online
  <2>1. old.cars[i].online <=> e.cars[i].online
    BY <1>2
  <2>2. old.cars[i].online \in BOOLEAN /\ e.cars[i].online \in BOOLEAN
    BY <1>4
  <2> QED
    BY <2>1, <2>2
<1>6. ASSUME NEW i \in HeatPumps PROVE old.pumps[i].online = e.pumps[i].online
  <2>1. old.pumps[i].online <=> e.pumps[i].online
    BY <1>3
  <2>2. old.pumps[i].online \in BOOLEAN /\ e.pumps[i].online \in BOOLEAN
    BY <1>4
  <2> QED
    BY <2>1, <2>2
<1> QED
  BY <1>5, <1>6

\* The step FloorIsKept allows.
FloorStep ==
  LET e == truth'.env
      f == truth'.flows
      counted == OrElse(status.surplus, 0)
  IN  /\ status.mode = "dimmed" /\ status'.mode = "dimmed"
      /\ truth # None
      /\ site.policy.contract = None
      /\ f.pv - f.base >= counted
      /\ truth.env.grid_plan # None =>
           f.pv - f.base >= OpenSunLeft(truth.env, truth.flows)
      /\ Reached(truth.env) = Reached(e)
      /\ \A i \in Batteries : e.bats[i].online
      => TrueGridDraw(e, f) <= Most(FloorW(site), status.reserve)

LEMMA CycleKeepsFloor ==
  ASSUME NoNegativeFailsafe, Told, NEW e \in Environments(site), Cycle(e)
  PROVE  FloorStep
<1> DEFINE f == Flows(e)
           old == truth.env
           left == OpenSunLeft(old, truth.flows)
           counted == OrElse(status.surplus, 0)
           floor == FloorW(site)
           bat == SumFunction(setpoints.battery)
           sun == f.pv - f.base
           granted == LoadsGranted(old)
           reserve == OfflineReserve(old)
           shared == status.budget - bat - status.reserve
           draw == f.loads + f.battery - Positive(sun)
<1>1. truth'.env = e /\ truth'.flows = f
  <2>1. PICK flows, r, age, pct, res, budget, bats, planned, loads, limit :
          /\ Computed(e, flows, r, age, pct, res, budget, bats, planned, loads, limit)
          /\ Sent(e, flows, r, age, pct, res, budget, bats, loads, limit)
    BY CycleParts
  <2> QED
    BY <2>1 DEF Sent, Computed
<1>2. /\ SiteOK /\ ChargersOK /\ SetpointsOK /\ FailsafeOK /\ status \in Statuses
      /\ sent_pct \in [Inverters -> Percent] /\ e \in EnvironmentsOf(site)
  BY KnownFacts DEF Told, Fits
<1> SUFFICES ASSUME /\ status.mode = "dimmed" /\ truth # None
                    /\ site.policy.contract = None
                    /\ sun >= counted
                    /\ old.grid_plan # None => sun >= left
                    /\ Reached(old) = Reached(e)
                    /\ \A i \in Batteries : e.bats[i].online
             PROVE  TrueGridDraw(e, f) <= Most(floor, status.reserve)
  BY <1>1 DEF FloorStep
<1>3. /\ old \in EnvironmentsOf(site) /\ left \in Int
      /\ bat <= Positive(left) /\ (old.grid_plan = None => bat <= 0)
      /\ status.budget \in Int /\ status.budget <= floor + counted
      /\ status.reserve = reserve /\ truth.exempt = 0
      /\ OthersWait(old, setpoints.charger_a)
  BY DEF Told, BatteriesToldFromSun, LoadsToldFromFloor
<1>4. f.loads <= granted + reserve /\ f.loads \in Int /\ granted \in Int /\ reserve \in Nat
  <2>1. /\ \A i \in Chargers : old.cars[i].online = e.cars[i].online
        /\ \A i \in HeatPumps : old.pumps[i].online = e.pumps[i].online
    BY <1>2, <1>3, ReachedTells
  <2> QED
    BY <1>2, <1>3, <2>1, LoadsStayUnder
<1>5. f.battery = bat /\ bat \in Int
  BY <1>2, BatteriesObey
<1>6. f.pv \in Int /\ f.base \in Int /\ sun \in Int
  BY <1>2, FlowsFacts DEF FlowsOK
<1>7. granted + truth.exempt <= Most(Positive(shared), truth.exempt)
  <2>1. status.budget # Infinity
    BY <1>3, DispatchAssumption
  <2> QED
    BY <2>1 DEF Told, Fits, BudgetIsKept
<1>8. counted \in Int /\ floor \in Int
  <2>1. counted \in Int
    BY <1>2 DEF Statuses, OrElse
  <2> QED
    BY <1>2, <2>1, FloorType
<1>9. TrueGridDraw(e, f) = Positive(draw)
  BY DEF TrueGridDraw
<1>10. sun >= counted /\ (old.grid_plan # None => sun >= left)
  OBVIOUS
<1> HIDE DEF f, old, left, counted, floor, bat, granted, reserve
<1>11. shared \in Int /\ granted <= Positive(shared)
  <2>1. shared \in Int
    BY <1>3, <1>4, <1>5
  <2> HIDE DEF shared
  <2>2. granted + 0 <= Most(Positive(shared), 0)
    BY <1>3, <1>7
  <2> QED
    BY <1>4, <2>1, <2>2 DEF Most, Positive
<1>12. draw \in Int
  BY <1>4, <1>5, <1>6 DEF Positive, Most
<1>13. CASE shared >= 0
  <2>1. Positive(shared) = shared
    BY <1>11, <1>13 DEF Positive, Most
  <2>2. f.loads + bat <= status.budget
    BY <1>3, <1>4, <1>5, <1>11, <2>1
  <2>3. Positive(sun) \in Int /\ counted <= Positive(sun)
    BY <1>6, <1>8, <1>10 DEF Positive, Most
  <2>4. draw <= floor
    BY <1>3, <1>4, <1>5, <1>8, <2>2, <2>3
  <2> HIDE DEF draw
  <2> QED
    BY <1>3, <1>4, <1>8, <1>9, <1>12, <2>4 DEF Positive, Most
<1>14. CASE ~(shared >= 0)
  <2>1. Positive(shared) = 0
    BY <1>11, <1>14 DEF Positive, Most
  <2>2. f.loads <= reserve
    BY <1>4, <1>11, <2>1
  <2>3. Positive(sun) \in Int /\ bat <= Positive(sun)
    <3>1. CASE old.grid_plan = None
      BY <1>3, <1>5, <1>6, <3>1 DEF Positive, Most
    <3>2. CASE old.grid_plan # None
      BY <1>3, <1>5, <1>6, <1>10, <3>2 DEF Positive, Most
    <3> QED
      BY <3>1, <3>2
  <2>4. draw <= reserve
    BY <1>4, <1>5, <2>2, <2>3
  <2> HIDE DEF draw
  <2> QED
    BY <1>3, <1>4, <1>8, <1>9, <1>12, <2>4 DEF Positive, Most
<1> QED
  BY <1>13, <1>14 DEF floor, f

\* The floor over two cycles, devices included, at every valid site under the
\* law's own rule: FloorIsKept, of the floor, the reserve for the devices that
\* do not answer, plan_batteries and allocate together.  Whatever the plan, the
\* meter and the cars do, the controllable devices take no more from the grid
\* than the floor, or than those that cannot be told.
THEOREM FloorIsAlwaysKept ==
  ASSUME NoNegativeFailsafe
  PROVE  DSpec => FloorIsKept
<1>1. Told /\ [DNext]_dvars => [FloorStep]_dvars
  <2> SUFFICES ASSUME Told, DNext PROVE FloorStep
    OBVIOUS
  <2>1. PICK e \in Environments(site) : Cycle(e)
    BY DEF DNext
  <2> QED
    BY <2>1, CycleKeepsFloor
<1> QED
  BY <1>1, ToldAlways, PTL DEF DSpec, FloorIsKept, FloorStep

\* The step NoGridChargingFromTheOpenSun allows.
ChargingStep ==
  status.mode = "dimmed" /\ status'.mode = "dimmed"
    /\ Settled(truth, truth') /\ truth.env.meter = "ok" /\ ~SunHidden
  => NoGridCharging(truth'.env, truth'.flows)

LEMMA CycleChargesFromSun ==
  ASSUME NoNegativeFailsafe, Told, NEW e \in Environments(site), Cycle(e)
  PROVE  ChargingStep
<1> DEFINE f == Flows(e)
           bat == SumFunction(setpoints.battery)
           given == SunGiven(e)
           left == f.pv - f.base - f.loads
<1>1. truth'.env = e /\ truth'.flows = f
  <2>1. PICK flows, r, age, pct, res, budget, bats, planned, loads, limit :
          /\ Computed(e, flows, r, age, pct, res, budget, bats, planned, loads, limit)
          /\ Sent(e, flows, r, age, pct, res, budget, bats, loads, limit)
    BY CycleParts
  <2> QED
    BY <2>1 DEF Sent, Computed
<1>2. /\ SiteOK /\ SetpointsOK /\ sent_pct \in [Inverters -> Percent] /\ e \in EnvironmentsOf(site)
  BY KnownFacts DEF Told, Fits
<1> SUFFICES ASSUME status.mode = "dimmed", Settled(truth, truth'), ~SunHidden
             PROVE  NoGridCharging(e, f)
  BY <1>1 DEF ChargingStep
<1>3. truth # None /\ truth.env = e /\ truth.flows.loads = f.loads
  BY <1>1 DEF Settled
<1>4. /\ bat <= Positive(OpenSunLeft(e, truth.flows)) /\ truth.flows.base = e.base
      /\ \A i \in Batteries : ~e.bats[i].online => setpoints.battery[i] = 0
  BY <1>3 DEF Told, BatteriesToldFromSun
<1>5. f.pv = given /\ f.base = e.base
  BY <1>2, PlantFacts
<1>6. OpenSunLeft(e, truth.flows) = left
  <2>1. OpenSunLeft(e, truth.flows) = given - truth.flows.base - truth.flows.loads
    BY DEF OpenSunLeft, SumOver, SunGiven
  <2> QED
    BY <1>3, <1>4, <1>5, <2>1
<1>7. f.battery = bat
  BY <1>2, <1>4, BatteriesObey
<1>8. f.battery <= Positive(f.pv - f.base - f.loads)
  BY <1>4, <1>6, <1>7
<1> QED
  BY <1>8 DEF NoGridCharging

\* No battery charges from the grid while the consumption is dimmed, where no
\* feed-in limit hides PV from the meter: NoGridChargingFromTheOpenSun, of
\* plan_batteries, at every valid site and whatever the plan wants.
THEOREM NoGridChargingAlways ==
  ASSUME NoNegativeFailsafe
  PROVE  DSpec => NoGridChargingFromTheOpenSun
<1>1. Told /\ [DNext]_dvars => [ChargingStep]_dvars
  <2> SUFFICES ASSUME Told, DNext PROVE ChargingStep
    OBVIOUS
  <2>1. PICK e \in Environments(site) : Cycle(e)
    BY DEF DNext
  <2> QED
    BY <2>1, CycleChargesFromSun
<1> QED
  BY <1>1, ToldAlways, PTL DEF DSpec, NoGridChargingFromTheOpenSun, ChargingStep

-----------------------------------------------------------------------------
PartSum(f, t) == SumFunction([i \in t |-> f[i]])

LEMMA PartSumMore ==
  ASSUME NEW S, IsFiniteSet(S), NEW f \in [S -> Int], NEW t \in SUBSET S, NEW x \in S, x \notin t
  PROVE  PartSum(f, t \cup {x}) = f[x] + PartSum(f, t)
<1> DEFINE h == [i \in t \cup {x} |-> f[i]]
           k == [i \in t |-> f[i]]
<1>1. h \in [t \cup {x} -> Int] /\ k \in [t -> Int] /\ (\A i \in t : k[i] = h[i]) /\ h[x] = f[x]
  OBVIOUS
<1>2. IsFiniteSet(t)
  BY FS_Subset
<1> HIDE DEF h, k
<1>3. SumFunction(h) = h[x] + SumFunction(k)
  BY <1>1, <1>2, SumMore
<1> QED
  BY <1>1, <1>3 DEF PartSum, h, k

LEMMA PartSumFacts ==
  ASSUME NEW S, IsFiniteSet(S), NEW f \in [S -> Int]
  PROVE  /\ \A t \in SUBSET S : PartSum(f, t) \in Int
         /\ PartSum(f, {}) = 0 /\ PartSum(f, S) = SumFunction(f)
<1>1. ASSUME NEW t \in SUBSET S PROVE PartSum(f, t) \in Int
  <2> DEFINE k == [i \in t |-> f[i]]
  <2>1. k \in [t -> Int] /\ IsFiniteSet(t)
    BY FS_Subset
  <2> HIDE DEF k
  <2>2. SumFunction(k) \in Int
    BY <2>1, SumInt
  <2> QED
    BY <2>2 DEF PartSum, k
<1>2. PartSum(f, {}) = 0
  BY SumEmpty DEF PartSum
<1>3. [i \in S |-> f[i]] = f
  OBVIOUS
<1>4. PartSum(f, S) = SumFunction(f)
  BY <1>3 DEF PartSum
<1> QED
  BY <1>1, <1>2, <1>4

Below(f, g, d, c, S) == \A i \in S : d * f[i] <= c * g[i]

\* Sums compared element by element, in proportion.
LEMMA SumScaled ==
  ASSUME NEW S, IsFiniteSet(S), NEW f \in [S -> Int], NEW g \in [S -> Int],
         NEW d \in Int, NEW c \in Int, Below(f, g, d, c, S)
  PROVE  d * SumFunction(f) <= c * SumFunction(g)
<1> DEFINE P == {t \in SUBSET S : d * PartSum(f, t) <= c * PartSum(g, t)}
<1>1. {} \in P
  <2>1. PartSum(f, {}) = 0 /\ PartSum(g, {}) = 0
    BY PartSumFacts
  <2>2. d * PartSum(f, {}) <= c * PartSum(g, {})
    BY <2>1
  <2> QED
    BY <2>2
<1>2. \A t \in P, x \in S : x \notin t => t \cup {x} \in P
  <2> SUFFICES ASSUME NEW t \in P, NEW x \in S, x \notin t PROVE t \cup {x} \in P
    OBVIOUS
  <2>1. t \in SUBSET S /\ t \cup {x} \in SUBSET S
    OBVIOUS
  <2> DEFINE a == PartSum(f, t)
             b == PartSum(g, t)
             u == f[x]
             v == g[x]
  <2>2. d * a <= c * b
    OBVIOUS
  <2>3. u \in Int /\ v \in Int /\ d * u <= c * v
    BY DEF Below
  <2> HIDE DEF P
  <2>4. PartSum(f, t \cup {x}) = u + a /\ PartSum(g, t \cup {x}) = v + b
    BY <2>1, PartSumMore
  <2>5. a \in Int /\ b \in Int
    BY <2>1, PartSumFacts
  <2> HIDE DEF a, b, u, v
  <2>6. d * (u + a) <= c * (v + b)
    <3>1. d * (u + a) = d * u + d * a /\ c * (v + b) = c * v + c * b
      BY <2>3, <2>5
    <3> QED
      BY <2>2, <2>3, <2>5, <3>1
  <2>7. d * PartSum(f, t \cup {x}) <= c * PartSum(g, t \cup {x})
    BY <2>4, <2>6
  <2> QED
    BY <2>1, <2>7 DEF P
<1> HIDE DEF P
<1>3. P \in SUBSET SUBSET S
  BY DEF P
<1>4. S \in P
  BY <1>1, <1>2, <1>3, SubsetInduction
<1>5. d * PartSum(f, S) <= c * PartSum(g, S)
  BY <1>4 DEF P
<1> QED
  BY <1>5, PartSumFacts

\* Only an inverter that does not follow is found to ignore its limit.
LEMMA IgnoringIsDeaf ==
  ASSUME SiteOK, SetpointsOK, sent_pct \in [Inverters -> Percent], NEW e \in EnvironmentsOf(site),
         NEW flows, NEW r, r = Plausible(ReadingsOf(e, flows)), NEW dt, NEW i \in Ignoring(OverAge(r, dt))
  PROVE  i \in Inverters /\ e.inverters[i] # "ok"
<1> DEFINE w == InverterOutput(e, i)
           bound == site.inverters[i] * sent_pct[i]
           slack == Most(site.margin * 100, 2 * site.inverters[i])
<1>1. i \in Inverters /\ OverAge(r, dt)[i] # None
  BY DEF Ignoring
<1>2. r.inverters[i].w * 100 > bound + slack
  BY <1>1 DEF OverAge
<1>3. r.inverters = ReadingsOf(e, flows).inverters
  BY DEF Plausible, ReadingsOf
<1>4. r.inverters[i].w = w
  <2> DEFINE on == e.inverters[i] # "off"
  <2>1. ReadingsOf(e, flows).inverters[i] = [online |-> on, w |-> w]
    BY <1>1 DEF ReadingsOf
  <2> HIDE DEF on, w
  <2> QED
    BY <1>3, <2>1
<1>5. site.inverters[i] \in Nat /\ sent_pct[i] \in Nat /\ site.margin \in Nat
  <2>1. sent_pct[i] \in Percent
    BY <1>1
  <2> QED
    <3>1. site.inverters[i] \in Nat
      BY <1>1, InverterFacts
    <3>2. sent_pct[i] \in Nat
      BY <2>1 DEF Percent
    <3>3. site.margin \in Nat
      BY SiteNumbers
    <3> QED
      BY <3>1, <3>2, <3>3
<1>6. bound \in Nat /\ slack \in Nat
  BY <1>5 DEF Most
<1>7. ASSUME e.inverters[i] = "ok" PROVE FALSE
  <2>1. w = Least(SunOn(e, i), bound \div 100) /\ SunOn(e, i) \in Nat
    BY <1>1, <1>7, OutputFacts DEF InverterOutput
  <2> DEFINE s == SunOn(e, i)
  <2>2. s \in Nat /\ w = Least(s, bound \div 100) /\ w * 100 > bound + slack
    BY <1>2, <1>4, <2>1
  <2> HIDE DEF s, w, bound, slack
  <2>3. bound \div 100 \in Nat /\ (bound \div 100) * 100 <= bound
    BY <1>6
  <2>4. w \in Nat /\ w <= bound \div 100
    BY <2>2, <2>3 DEF Least
  <2> QED
    BY <1>6, <2>2, <2>3, <2>4
<1> QED
  BY <1>1, <1>7

\* What the inverters are sent when all answer: those that follow make up for
\* those that do not.
SentAround(pct, stuck, e) ==
  LET left == AllowedExport(pct) - SumFunction([i \in stuck |-> SunOn(e, i)])
      rated == SumFunction([i \in Inverters \ stuck |-> site.inverters[i]])
      share == IF rated > 0 THEN Clamp((left * 100) \div rated, 0, pct) ELSE pct
  IN  [i \in Inverters |-> IF pct >= 100 \/ stuck = {} \/ i \in stuck THEN pct ELSE share]

LEMMA SentFacts ==
  ASSUME SiteOK, SetpointsOK, sent_pct \in [Inverters -> Percent], NEW e \in EnvironmentsOf(site),
         NEW flows, NEW r, r = Plausible(ReadingsOf(e, flows)), NEW dt, NEW age, age = OverAge(r, dt),
         NEW pct, \A i \in Inverters : e.inverters[i] # "off"
  PROVE  InverterPct(pct, r, age) = SentAround(pct, Ignoring(age), e)
<1> DEFINE stuck == Ignoring(age)
<1>1. \A i \in stuck : i \in Inverters /\ e.inverters[i] # "ok"
  BY IgnoringIsDeaf
<1>2. r.inverters = [i \in Inverters |-> [online |-> e.inverters[i] # "off", w |-> InverterOutput(e, i)]]
  BY DEF Plausible, ReadingsOf
<1>3. {i \in Inverters \ stuck : r.inverters[i].online} = Inverters \ stuck
  <2>1. ASSUME NEW i \in Inverters PROVE r.inverters[i].online
    <3> DEFINE on == e.inverters[i] # "off"
               w == InverterOutput(e, i)
    <3>1. r.inverters[i] = [online |-> on, w |-> w]
      BY <1>2
    <3>2. on
      OBVIOUS
    <3> HIDE DEF on, w
    <3> QED
      BY <3>1, <3>2
  <2> QED
    BY <2>1
<1>4. \A i \in stuck : r.inverters[i].w = SunOn(e, i)
  BY <1>1, <1>2 DEF InverterOutput
<1>5. [i \in stuck |-> r.inverters[i].w] = [i \in stuck |-> SunOn(e, i)]
  BY <1>4
<1> QED
  BY <1>3, <1>5 DEF InverterPct, SentAround, SumOver

\* The limit in force is the one the rules put on feed-in.
LEMMA FeedInIsLegal ==
  ASSUME SiteOK, NEW e \in EnvironmentsOf(site)
  PROVE  FeedInPct(e) = LegalPct(e)
<1>1. site.policy.static_cap \in OptPercent /\ e.feed_in \in Percent
  BY SiteNumbers, EnvFacts DEF Policies
<1> DEFINE cap == OrElse(site.policy.static_cap, 100)
           dso == IF e.exhausted /\ ~e.emergency /\ site.policy.enforce THEN 100 ELSE e.feed_in
<1>2. cap \in Int /\ dso \in Int
  BY <1>1 DEF OrElse, OptPercent, Percent
<1>3. LegalPct(e) = Least(cap, dso) /\ FeedInPct(e) = Least(dso, cap)
  BY DEF LegalPct, FeedInPct
<1> HIDE DEF cap, dso
<1> QED
  BY <1>2, <1>3 DEF Least

-----------------------------------------------------------------------------
\* What some of the inverters give, and are rated for.
Made(e, A) == SumFunction([i \in A |-> InverterOutput(e, i)])
Rated(A) == SumFunction([i \in A |-> site.inverters[i]])

LEMMA MadeFacts ==
  ASSUME SiteOK, sent_pct \in [Inverters -> Percent], NEW e \in EnvironmentsOf(site), NEW A \in SUBSET Inverters
  PROVE  /\ Made(e, A) \in Nat /\ Rated(A) \in Nat
         /\ Made(e, Inverters) = Made(e, A) + Made(e, Inverters \ A)
         /\ Flows(e).pv = Made(e, Inverters)
<1> DEFINE f == [i \in Inverters |-> InverterOutput(e, i)]
           a == [i \in A |-> InverterOutput(e, i)]
           b == [i \in Inverters \ A |-> InverterOutput(e, i)]
           w == [i \in A |-> site.inverters[i]]
<1>1. IsFiniteSet(A) /\ IsFiniteSet(Inverters)
  BY FiniteDevices, FS_Subset
<1>2. f \in [Inverters -> Int] /\ a \in [A -> Int] /\ \A i \in A : a[i] >= 0
  BY OutputFacts
<1>3. w \in [A -> Int] /\ \A i \in A : w[i] >= 0
  BY InverterFacts
<1>4. Splits(f, Inverters, A, a, b)
  <2>1. f \in [Inverters -> Int] /\ IsFiniteSet(Inverters) /\ A \subseteq Inverters
    BY <1>1, <1>2
  <2>2. a = [i \in A |-> a[i]] /\ \A i \in A : a[i] = f[i]
    OBVIOUS
  <2>3. b = [i \in Inverters \ A |-> b[i]] /\ \A i \in Inverters \ A : b[i] = f[i]
    OBVIOUS
  <2> HIDE DEF f, a, b
  <2> QED
    BY <2>1, <2>2, <2>3 DEF Splits
<1>5. /\ Made(e, A) = SumFunction(a) /\ Rated(A) = SumFunction(w) /\ Made(e, Inverters) = SumFunction(f)
      /\ Made(e, Inverters \ A) = SumFunction(b)
  BY DEF Made, Rated
<1>6. Flows(e).pv = SumFunction(f)
  BY DEF Flows, SumOver
<1> HIDE DEF f, a, b, w
<1>7. SumFunction(a) \in Nat /\ SumFunction(w) \in Nat
  BY <1>1, <1>2, <1>3, SumNat
<1>8. SumFunction(f) = SumFunction(a) + SumFunction(b)
  BY <1>4, SumSplit
<1> QED
  BY <1>5, <1>6, <1>7, <1>8

LEMMA MadeMonotone ==
  ASSUME SiteOK, sent_pct \in [Inverters -> Percent], NEW e \in EnvironmentsOf(site),
         NEW B \in SUBSET Inverters, NEW A \in SUBSET B
  PROVE  Made(e, A) <= Made(e, B)
<1> DEFINE f == [i \in B |-> InverterOutput(e, i)]
           a == [i \in A |-> InverterOutput(e, i)]
           b == [i \in B \ A |-> InverterOutput(e, i)]
<1>1. IsFiniteSet(B) /\ IsFiniteSet(A) /\ IsFiniteSet(B \ A)
  <2>1. B \in SUBSET Inverters /\ A \in SUBSET Inverters /\ B \ A \in SUBSET Inverters
    OBVIOUS
  <2> QED
    BY <2>1, FiniteDevices, FS_Subset
<1>2. f \in [B -> Int] /\ b \in [B \ A -> Int] /\ a \in [A -> Int] /\ \A i \in B \ A : b[i] >= 0
  BY OutputFacts
<1>3. [i \in A |-> f[i]] = a /\ [i \in B \ A |-> f[i]] = b
  OBVIOUS
<1>4. Made(e, A) = SumFunction(a) /\ Made(e, B) = SumFunction(f)
  BY DEF Made
<1> HIDE DEF f, a, b
<1>5. SumFunction(f) = SumFunction(a) + SumFunction(b)
  BY <1>1, <1>2, <1>3, SumOfParts
<1>6. SumFunction(b) \in Nat /\ SumFunction(a) \in Int
  BY <1>1, <1>2, SumNat, SumInt
<1> QED
  BY <1>4, <1>5, <1>6

\* None of them gives more than a share of what it is rated for.
Within(e, A, pct) == \A i \in A : 100 * InverterOutput(e, i) <= pct * site.inverters[i]

LEMMA MadeWithin ==
  ASSUME SiteOK, sent_pct \in [Inverters -> Percent], NEW e \in EnvironmentsOf(site),
         NEW A \in SUBSET Inverters, NEW pct \in Int, Within(e, A, pct)
  PROVE  100 * Made(e, A) <= pct * Rated(A)
<1> DEFINE a == [i \in A |-> InverterOutput(e, i)]
           w == [i \in A |-> site.inverters[i]]
           h == 100
<1>1. IsFiniteSet(A) /\ a \in [A -> Int] /\ w \in [A -> Int]
  BY FiniteDevices, FS_Subset, InverterFacts, OutputFacts
<1>2. Below(a, w, h, pct, A) /\ h \in Int
  BY DEF Below, Within
<1>3. Made(e, A) = SumFunction(a) /\ Rated(A) = SumFunction(w)
  BY DEF Made, Rated
<1> HIDE DEF a, w, h
<1>4. h * SumFunction(a) <= pct * SumFunction(w)
  BY <1>1, <1>2, SumScaled
<1> QED
  BY <1>3, <1>4 DEF h

LEMMA HundredthFits ==
  ASSUME NEW x \in Int, NEW y \in Int, 100 * x <= y
  PROVE  x <= y \div 100
OBVIOUS

LEMMA HundredthFacts ==
  ASSUME NEW y \in Nat
  PROVE  y \div 100 \in Nat /\ 100 * (y \div 100) <= y
OBVIOUS

\* An inverter gives no more than it has, and than it was sent if it follows.
LEMMA OutputWithin ==
  ASSUME SiteOK, sent_pct \in [Inverters -> Percent], NEW e \in EnvironmentsOf(site), NEW i \in Inverters
  PROVE  /\ 100 * InverterOutput(e, i) <= 100 * site.inverters[i]
         /\ 100 * InverterOutput(e, i) <= e.sun * site.inverters[i]
         /\ e.inverters[i] = "ok" => 100 * InverterOutput(e, i) <= sent_pct[i] * site.inverters[i]
<1> DEFINE w == site.inverters[i]
           s == e.sun
           p == sent_pct[i]
           u == w * s
           v == w * p
           o == InverterOutput(e, i)
<1>1. w \in Nat /\ s \in 0 .. 100 /\ p \in 0 .. 100
  BY InverterFacts, EnvFacts DEF Percent
<1>2. o \in Nat /\ o <= u \div 100 /\ (e.inverters[i] = "ok" => o <= v \div 100)
  <2>1. o \in Nat /\ o <= SunOn(e, i) /\ SunOn(e, i) \in Nat
    BY OutputFacts
  <2>2. SunOn(e, i) = u \div 100
    BY DEF SunOn
  <2>3. e.inverters[i] = "ok" => o = Least(SunOn(e, i), v \div 100)
    BY DEF InverterOutput
  <2>4. v \in Nat
    BY <1>1
  <2> HIDE DEF o, u, v
  <2>5. v \div 100 \in Nat
    BY <2>4
  <2>6. e.inverters[i] = "ok" => o <= v \div 100
    BY <2>1, <2>3, <2>5 DEF Least
  <2> QED
    BY <2>1, <2>2, <2>6
<1> HIDE DEF w, s, p, o
<1>3. u \in Nat /\ v \in Nat /\ u <= 100 * w /\ u = s * w /\ v = p * w
  BY <1>1
<1> HIDE DEF u, v
<1>4. 100 * (u \div 100) <= u /\ 100 * (v \div 100) <= v /\ u \div 100 \in Nat /\ v \div 100 \in Nat
  BY <1>3, HundredthFacts
<1>5. 100 * o <= u /\ (e.inverters[i] = "ok" => 100 * o <= v)
  BY <1>2, <1>3, <1>4
<1>6. 100 * o \in Nat /\ 100 * w \in Nat
  BY <1>1, <1>2
<1>7. 100 * o <= 100 * w
  BY <1>3, <1>5, <1>6
<1> QED
  BY <1>3, <1>5, <1>7 DEF o, w, s, p

\* What a share of the plant's output may be.
LEMMA ShareOfPlant ==
  ASSUME SiteOK, NEW made \in Nat, NEW rated \in Nat, rated <= site.pv_installed,
         NEW p \in Percent, NEW pct \in Percent, p <= pct, 100 * made <= p * rated
  PROVE  made <= AllowedExport(pct)
<1> DEFINE n == site.pv_installed
           y == n * pct
<1>1. n \in Nat
  BY SiteNumbers
<1> HIDE DEF n
<1>2. p \in Nat /\ pct \in Nat
  BY DEF Percent
<1>3. p * rated <= p * n
  BY <1>1, <1>2 DEF n
<1>4. p * n <= pct * n
  BY <1>1, <1>2
<1>5. y \in Nat /\ pct * n = y /\ p * rated \in Nat /\ p * n \in Nat
  BY <1>1, <1>2
<1> HIDE DEF y
<1>6. 100 * made <= y
  BY <1>3, <1>4, <1>5
<1>7. made <= y \div 100
  BY <1>5, <1>6, HundredthFits
<1> QED
  BY <1>7 DEF AllowedExport, y, n

LEMMA AllowedExportGrows ==
  ASSUME SiteOK, NEW p \in Percent, NEW pct \in Percent, p <= pct
  PROVE  AllowedExport(p) <= AllowedExport(pct) /\ AllowedExport(p) >= 0
<1> DEFINE n == site.pv_installed
           x == n * p
           y == n * pct
<1>1. n \in Nat /\ p \in Nat /\ pct \in Nat
  BY SiteNumbers DEF Percent
<1> HIDE DEF n
<1>2. x \in Nat /\ y \in Nat /\ x <= y
  BY <1>1
<1> HIDE DEF x, y
<1>3. x \div 100 <= y \div 100 /\ x \div 100 \in Nat
  BY <1>2
<1> QED
  BY <1>3 DEF AllowedExport, n, x, y

\* Those that follow are sent what those that do not leave of the limit.
SharedOut(p, stuck, e) ==
  LET left == AllowedExport(p) - Made(e, stuck)
      rated == Rated(Inverters \ stuck)
  IN  IF rated > 0 THEN Clamp((left * 100) \div rated, 0, p) ELSE p

LEMMA SharedOutHolds ==
  ASSUME SiteOK, sent_pct \in [Inverters -> Percent], NEW e \in EnvironmentsOf(site),
         NEW stuck \in SUBSET Inverters, NEW p \in Percent,
         Within(e, Inverters \ stuck, SharedOut(p, stuck, e))
  PROVE  Flows(e).pv <= AllowedExport(p) \/ Flows(e).pv <= Made(e, stuck)
<1> DEFINE free == Inverters \ stuck
           left == AllowedExport(p) - Made(e, stuck)
           rated == Rated(free)
           share == SharedOut(p, stuck, e)
           given == Made(e, free)
           loud == Made(e, stuck)
           x == (left * 100) \div rated
<1>1. free \in SUBSET Inverters
  OBVIOUS
<1>2. given \in Nat /\ rated \in Nat /\ loud \in Nat /\ Flows(e).pv = loud + given
  BY <1>1, MadeFacts
<1>3. AllowedExport(p) \in Int
  BY AllowedExportType
<1>4. share = IF rated > 0 THEN Clamp(x, 0, p) ELSE p
  BY DEF SharedOut
<1>5. p \in Nat
  BY DEF Percent
<1>6. left \in Int /\ left = AllowedExport(p) - loud
  BY <1>2, <1>3
<1>7. Within(e, free, share)
  OBVIOUS
<1> HIDE DEF free, left, rated, share, given, loud
<1>8. CASE ~(rated > 0)
  <2>1. share \in Int /\ rated = 0
    BY <1>2, <1>4, <1>5, <1>8
  <2>2. 100 * given <= share * rated
    BY <1>1, <1>7, <2>1, MadeWithin DEF given, rated
  <2>3. given = 0
    BY <1>2, <2>1, <2>2
  <2> QED
    BY <1>2, <2>3 DEF loud
<1>9. CASE rated > 0
  <2>1. x \in Int /\ x * rated <= left * 100
    <3> DEFINE y == left * 100
    <3>1. y \in Int
      BY <1>6
    <3> HIDE DEF y
    <3>2. y \div rated \in Int /\ rated * (y \div rated) <= y
      BY <1>2, <1>9, <3>1
    <3> DEFINE q == y \div rated
    <3>3. q \in Int /\ rated * q <= y /\ q = x
      BY <3>2 DEF y
    <3> HIDE DEF q, x
    <3>4. x * rated <= y
      BY <1>2, <3>3
    <3> QED
      BY <3>3, <3>4 DEF y
  <2> HIDE DEF x
  <2>2. share \in Int /\ (share <= x \/ share = 0)
    BY <1>4, <1>5, <1>9, <2>1 DEF Clamp, Least, Most
  <2>3. 100 * given <= share * rated
    BY <1>1, <1>7, <2>2, MadeWithin DEF given, rated
  <2>4. CASE share = 0
    <3>1. given = 0
      BY <1>2, <2>3, <2>4
    <3> QED
      BY <1>2, <3>1 DEF loud
  <2>5. CASE share <= x
    <3>1. share * rated <= x * rated
      BY <1>2, <1>9, <2>1, <2>2, <2>5
    <3> DEFINE a == share * rated
               b == x * rated
    <3>2. a \in Int /\ b \in Int /\ a <= b /\ 100 * given <= a /\ b <= left * 100
      BY <1>2, <2>1, <2>2, <2>3, <3>1
    <3> HIDE DEF a, b
    <3>3. given <= left
      BY <1>2, <1>6, <3>2
    <3> QED
      BY <1>2, <1>3, <1>6, <3>3
  <2> QED
    BY <2>2, <2>4, <2>5
<1> QED
  BY <1>2, <1>8, <1>9

\* The limit on the plant, while those that ignore it are known.
LEMMA PlantIsHeld ==
  ASSUME SiteOK, sent_pct \in [Inverters -> Percent], NEW e \in EnvironmentsOf(site),
         Rated(Inverters) <= site.pv_installed,
         NEW old, old.sun = e.sun, NEW p \in Percent, NEW pct \in Percent, p <= pct,
         NEW stuck \in SUBSET {i \in Inverters : e.inverters[i] # "ok"},
         sent_pct = SentAround(p, stuck, old),
         \A i \in Inverters : e.inverters[i] # "ok" =>
           i \in stuck \/ InverterOutput(e, i) * 100 <= site.inverters[i] * sent_pct[i]
  PROVE  Flows(e).pv <= Most(AllowedExport(pct), Made(e, {i \in Inverters : e.inverters[i] # "ok"}))
<1> DEFINE deaf == {i \in Inverters : e.inverters[i] # "ok"}
           loud == Made(e, deaf)
           pv == Flows(e).pv
           sent == SentAround(p, stuck, old)
           limit == AllowedExport(pct)
           share == SharedOut(p, stuck, e)
<1>1. deaf \in SUBSET Inverters /\ stuck \in SUBSET Inverters /\ stuck \in SUBSET deaf
  OBVIOUS
<1>2. loud \in Nat /\ pv \in Nat /\ limit \in Int /\ p \in Nat /\ pct \in Nat
  <2>1. Inverters \in SUBSET Inverters
    OBVIOUS
  <2>2. loud \in Nat /\ pv \in Nat
    BY <1>1, <2>1, MadeFacts
  <2> QED
    BY <2>2, AllowedExportType DEF Percent
<1>3. \A i \in Inverters \ stuck : 100 * InverterOutput(e, i) <= sent_pct[i] * site.inverters[i]
  <2> SUFFICES ASSUME NEW i \in Inverters, i \notin stuck
               PROVE  100 * InverterOutput(e, i) <= sent_pct[i] * site.inverters[i]
    OBVIOUS
  <2>1. CASE e.inverters[i] = "ok"
    BY <2>1, OutputWithin
  <2>2. CASE e.inverters[i] # "ok"
    <3>1. InverterOutput(e, i) * 100 <= site.inverters[i] * sent_pct[i]
      BY <2>2
    <3>2. InverterOutput(e, i) \in Nat /\ site.inverters[i] \in Nat /\ sent_pct[i] \in Nat
      <4>1. sent_pct[i] \in Percent
        OBVIOUS
      <4>2. InverterOutput(e, i) \in Nat /\ site.inverters[i] \in Nat
        BY OutputFacts, InverterFacts
      <4> QED
        BY <4>1, <4>2 DEF Percent
    <3> DEFINE o == InverterOutput(e, i)
               w == site.inverters[i]
               q == sent_pct[i]
    <3> HIDE DEF o, w, q
    <3>3. o * 100 <= w * q /\ o \in Nat /\ w \in Nat /\ q \in Nat
      BY <3>1, <3>2 DEF o, w, q
    <3>4. w * q = q * w
      BY <3>3
    <3> QED
      BY <3>3, <3>4 DEF o, w, q
  <2> QED
    BY <2>1, <2>2
<1>4. \A i \in Inverters : sent_pct[i] = IF p >= 100 \/ stuck = {} \/ i \in stuck THEN p ELSE share
  <2>1. \A i \in stuck : SunOn(old, i) = InverterOutput(e, i)
    BY DEF SunOn, InverterOutput
  <2>2. [i \in stuck |-> SunOn(old, i)] = [i \in stuck |-> InverterOutput(e, i)]
    BY <2>1
  <2> QED
    BY <2>2 DEF SentAround, SharedOut, Made, Rated
<1>5. CASE p >= 100 \/ stuck = {}
  <2>1. Within(e, Inverters, p)
    <3> SUFFICES ASSUME NEW i \in Inverters PROVE 100 * InverterOutput(e, i) <= p * site.inverters[i]
      BY DEF Within
    <3>1. CASE p >= 100
      <4>1. p = 100
        BY <3>1 DEF Percent
      <4> QED
        BY <4>1, OutputWithin
    <3>2. CASE stuck = {}
      <4>1. sent_pct[i] = p /\ i \in Inverters \ stuck
        BY <1>4, <3>2
      <4> QED
        BY <1>3, <4>1
    <3> QED
      BY <1>5, <3>1, <3>2
  <2>2. Inverters \in SUBSET Inverters /\ p \in Int
    BY <1>2
  <2>3. 100 * Made(e, Inverters) <= p * Rated(Inverters)
    BY <2>1, <2>2, MadeWithin
  <2>4. Made(e, Inverters) \in Nat /\ Rated(Inverters) \in Nat /\ pv = Made(e, Inverters)
    BY <2>2, MadeFacts
  <2>5. Made(e, Inverters) <= limit
    BY <2>3, <2>4, ShareOfPlant
  <2> HIDE DEF pv, limit, loud, deaf
  <2>6. pv <= Most(limit, loud)
    BY <1>2, <2>4, <2>5 DEF Most
  <2> QED
    BY <2>6 DEF pv, limit, loud, deaf
<1>6. CASE ~(p >= 100 \/ stuck = {})
  <2>1. Within(e, Inverters \ stuck, share)
    <3> SUFFICES ASSUME NEW i \in Inverters \ stuck PROVE 100 * InverterOutput(e, i) <= share * site.inverters[i]
      BY DEF Within
    <3>1. sent_pct[i] = share
      BY <1>4, <1>6
    <3> HIDE DEF share
    <3> QED
      BY <1>3, <3>1
  <2>2. pv <= AllowedExport(p) \/ pv <= Made(e, stuck)
    BY <1>1, <2>1, SharedOutHolds
  <2>3. Made(e, stuck) <= loud /\ Made(e, stuck) \in Nat
    BY <1>1, MadeMonotone, MadeFacts
  <2>4. AllowedExport(p) <= limit /\ AllowedExport(p) \in Int
    BY AllowedExportType, AllowedExportGrows
  <2> HIDE DEF pv, limit, loud, deaf
  <2>5. pv <= Most(limit, loud)
    BY <1>2, <2>2, <2>3, <2>4 DEF Most
  <2> QED
    BY <2>5 DEF pv, limit, loud, deaf
<1> QED
  BY <1>5, <1>6

-----------------------------------------------------------------------------
\* While a feed-in limit is in force and the loads are free, batteries are
\* told to give only what the sun leaves of the allowed export.
LEMMA WantedUnderLimit ==
  ASSUME SiteOK, SetpointsOK, sent_pct \in [Inverters -> Percent], NEW e \in EnvironmentsOf(site),
         NEW flows, flows = Flows(e), NEW r, r = Plausible(ReadingsOf(e, flows)), r.grid # None,
         NEW constrained \in BOOLEAN, ~constrained, NEW floor \in Int,
         NEW limit \in Percent, limit < 100, site.import_target >= 0
  PROVE  \/ Wanted(e, r, constrained, floor, limit) >= 0
         \/ Wanted(e, r, constrained, floor, limit)
              >= SunGiven(e) - AllowedExport(limit) - flows.base - flows.loads
<1> DEFINE base == BaseLoad(r)
           idle == r.grid - r.battery
           free == IF None \in {base, r.available} THEN None ELSE base + r.loads - r.available
           blind == limit < 100 /\ free = None
           planned == e.grid_plan - idle
           stored == IF free # None /\ limit < 100
                     THEN Most(planned, -free - AllowedExport(limit)) ELSE planned
           guided == IF blind THEN Positive(stored) ELSE stored
           net == IF free # None THEN free ELSE idle
           want == Wanted(e, r, constrained, floor, limit)
           gone == SunGiven(e) - AllowedExport(limit) - flows.base - flows.loads
           ae == AllowedExport(limit)
           target == site.import_target
<1>1. FlowsOK(flows) /\ ReadingsOK(r)
  BY FlowsFacts, ReadingsFacts
<1>2. want = IF e.grid_plan # None THEN guided
             ELSE IF net < 0 THEN -net ELSE IF blind THEN 0 ELSE -Positive(net - target)
  BY DEF Wanted, NotFromTheGrid
<1>3. /\ flows.base \in Int /\ flows.loads \in Int /\ flows.pv \in Nat /\ flows.battery \in Int
      /\ SunGiven(e) \in Int
      /\ flows.grid = flows.base + flows.loads + flows.battery - flows.pv
  BY <1>1, PlantFacts DEF FlowsOK
<1>4. /\ base \in OptInt /\ (base # None => r.grid \in Int /\ r.pv \in Int)
      /\ r.available \in OptInt /\ r.loads \in Int /\ r.battery \in Int /\ r.grid \in OptInt
  BY <1>1, BaseLoadFacts DEF ReadingsOK
<1>5. ae \in Int /\ ae >= 0
  <2>1. AllowedExport(limit) <= AllowedExport(limit) /\ AllowedExport(limit) >= 0
    <3>1. limit <= limit
      BY DEF Percent
    <3> QED
      BY <3>1, AllowedExportGrows
  <2> QED
    BY <2>1, AllowedExportType
<1>6. target \in Int /\ target >= 0
  BY SiteNumbers
<1>7. free # None => free = flows.base + flows.loads - SunGiven(e)
  <2> SUFFICES ASSUME free # None PROVE free = flows.base + flows.loads - SunGiven(e)
    OBVIOUS
  <2>1. base # None /\ r.available # None
    OBVIOUS
  <2>2. r.grid # None /\ r.pv # None
    BY <1>4, <2>1, DispatchAssumption
  <2>3. r.grid = flows.grid /\ r.pv = flows.pv /\ r.battery = flows.battery /\ r.available = SunGiven(e)
    BY <2>1, <2>2, ReadingsTell
  <2>4. base = r.grid + r.pv - r.loads - r.battery
    BY <2>2 DEF BaseLoad
  <2>5. free = base + r.loads - r.available
    BY <2>1
  <2>6. base \in Int
    BY <1>4, <2>1 DEF OptInt
  <2> HIDE DEF base, free
  <2> QED
    BY <1>3, <1>4, <2>3, <2>4, <2>5, <2>6
<1>8. idle \in Int /\ (e.grid_plan # None => planned \in Int)
  <2>1. r.grid \in Int /\ r.battery \in Int
    BY <1>4 DEF OptInt
  <2>2. e.grid_plan # None => e.grid_plan \in Int
    BY EnvFacts DEF OptInt
  <2> QED
    BY <2>1, <2>2
<1> HIDE DEF base, idle, free, planned, want, ae, target
<1>9. gone \in Int /\ gone = SunGiven(e) - ae - flows.base - flows.loads
  BY <1>3, <1>5 DEF ae
<1>10. free # None => free \in Int /\ gone = -free - ae
  BY <1>3, <1>5, <1>7, <1>9
<1> HIDE DEF gone
<1>11. CASE e.grid_plan # None
  <2>1. want = guided
    BY <1>2, <1>11
  <2>2. CASE free = None
    <3>1. stored = planned /\ guided = Positive(planned)
      BY <2>2
    <3>2. want >= 0
      BY <1>8, <1>11, <2>1, <3>1 DEF Positive, Most
    <3> QED
      BY <3>2 DEF want
  <2>3. CASE free # None
    <3>1. guided = Most(planned, -free - ae)
      BY <2>3 DEF ae
    <3>2. planned \in Int /\ -free - ae \in Int
      BY <1>5, <1>8, <1>10, <1>11, <2>3
    <3>3. want >= -free - ae
      BY <2>1, <3>1, <3>2 DEF Most
    <3> QED
      BY <1>10, <2>3, <3>3 DEF want, gone
  <2> QED
    BY <2>2, <2>3
<1>12. CASE e.grid_plan = None
  <2>1. net \in Int
    BY <1>8, <1>10
  <2>2. want = IF net < 0 THEN -net ELSE IF blind THEN 0 ELSE -Positive(net - target)
    BY <1>2, <1>12
  <2>3. CASE free = None
    <3>1. blind
      BY <2>3
    <3> HIDE DEF net
    <3>2. want >= 0
      BY <2>1, <2>2, <3>1
    <3> QED
      BY <3>2 DEF want
  <2>4. CASE free # None
    <3>1. net = free /\ ~blind
      BY <2>4
    <3>2. want = IF free < 0 THEN -free ELSE -Positive(free - target)
      BY <2>2, <3>1
    <3>3. free \in Int /\ gone = -free - ae /\ gone \in Int
      BY <1>9, <1>10, <2>4
    <3>4. want >= 0 \/ want >= gone
      BY <1>5, <1>6, <3>2, <3>3 DEF Positive, Most
    <3> QED
      BY <3>4 DEF want, gone
  <2> QED
    BY <2>3, <2>4
<1> QED
  BY <1>11, <1>12

\* What the site may use, and the plant may give with it, was counted on when
\* the last limit at the connection was set.
ExportTold(pct, env, flows, bat, limit) ==
  LET used == flows.base + flows.loads + bat
  IN  \/ /\ used >= 0
         /\ limit <= pct \/ limit * site.pv_installed <= 100 * (AllowedExport(pct) + used)
      \/ used < 0 /\ used >= SunGiven(env) - AllowedExport(pct)

LEMMA TargetTells ==
  ASSUME SiteOK, pv_pct \in Percent, NEW e \in EnvironmentsOf(site), NEW pct \in Percent, pct < 100,
         NEW r, ReadingsOK(r), NEW planned \in Int, NEW dt \in Nat, NEW used \in Int, used >= 0,
         site.at_connection, None \notin {r.grid, r.pv} => used >= r.pv + r.grid - r.battery + planned,
         NEW limit, limit = Ramped(TargetPct(pct, r, planned), dt)
  PROVE  limit <= pct \/ limit * site.pv_installed <= 100 * (AllowedExport(pct) + used)
<1> DEFINE target == TargetPct(pct, r, planned)
           n == site.pv_installed
<1>1. target \in Percent /\ limit \in Percent
  BY TargetPctType, RampedType
<1>2. limit <= target
  <2>1. site.pv_ramp * dt \in Nat
    BY SiteNumbers
  <2> DEFINE up == pv_pct + site.pv_ramp * dt
  <2>2. up \in Int /\ limit = IF target > pv_pct THEN Least(up, target) ELSE target
    BY <2>1 DEF Ramped, Percent
  <2> HIDE DEF up, target
  <2> QED
    BY <1>1, <2>2 DEF Least, Percent
<1>3. n \in Nat \ {0} /\ site.margin \in Nat
  BY SiteNumbers
<1>4. ~(pct >= 100)
  BY DEF Percent
<1>5. CASE None \in {r.grid, r.pv}
  <2>1. target = pct
    BY <1>4, <1>5 DEF TargetPct
  <2> QED
    BY <1>2, <2>1
<1>6. CASE None \notin {r.grid, r.pv}
  <2> DEFINE u == r.pv + r.grid - r.battery + planned
             room == AllowedExport(pct) + Positive(u) - site.margin
             y == room * 100
             x == y \div n
             top == AllowedExport(pct) + used
  <2>1. target = Clamp(x, pct, 100)
    BY <1>4, <1>6 DEF TargetPct
  <2>2. u \in Int /\ used >= u
    BY <1>6 DEF ReadingsOK, OptInt
  <2>3. Positive(u) \in Int /\ Positive(u) <= used
    <3> HIDE DEF u
    <3> QED
      BY <2>2 DEF Positive, Most
  <2>4. AllowedExport(pct) \in Int
    BY AllowedExportType
  <2>5. y \in Int /\ top \in Int /\ y <= 100 * top
    <3> HIDE DEF u
    <3> QED
      BY <1>3, <2>3, <2>4
  <2> HIDE DEF y, top, n, target
  <2>6. x \in Int /\ n * x <= y
    BY <1>3, <2>5
  <2> HIDE DEF x
  <2>7. target <= pct \/ target <= x
    BY <2>1, <2>6 DEF Clamp, Least, Most, Percent
  <2>8. limit <= x => limit * n <= 100 * top
    <3> SUFFICES ASSUME limit <= x PROVE limit * n <= 100 * top
      OBVIOUS
    <3>1. limit * n <= n * x
      BY <1>1, <1>3, <2>6 DEF Percent
    <3>2. limit * n \in Int /\ n * x \in Int
      BY <1>1, <1>3, <2>6 DEF Percent
    <3> QED
      BY <2>5, <2>6, <3>1, <3>2
  <2>9. limit <= pct \/ limit <= x
    BY <1>1, <1>2, <2>6, <2>7 DEF Percent
  <2> QED
    BY <2>8, <2>9 DEF n, top
<1> QED
  BY <1>5, <1>6

-----------------------------------------------------------------------------
\* What the inverters were told: under the limit in force, around those that do
\* not follow.
PlantTold ==
  truth # None =>
    /\ truth.env \in EnvironmentsOf(site)
    /\ status.ignoring \subseteq {i \in Inverters : truth.env.inverters[i] # "ok"}
    /\ (\A i \in Inverters : truth.env.inverters[i] # "off")
         => sent_pct = SentAround(pv_pct, status.ignoring, truth.env)
    /\ ~site.at_connection => pv_pct <= FeedInPct(truth.env)

\* What a limit at the connection went by.
ConnectionTold ==
  truth # None =>
    /\ truth.flows.base \in Int /\ truth.flows.loads \in Int
    /\ /\ site.at_connection /\ status.mode = "normal" /\ FeedInPct(truth.env) < 100
       /\ truth.flows.base + truth.flows.loads >= 0
       => ExportTold(FeedInPct(truth.env), truth.env, truth.flows, SumFunction(setpoints.battery), pv_pct)

\* The plant is no larger than the limits on it are counted from, which are
\* shares of pv_installed: no check of a configuration compares the two.
PlantAsConfigured ==
  \A s \in Sites : ValidSite(s) =>
    SumFunction([i \in DOMAIN s.inverters |-> s.inverters[i]]) <= s.pv_installed

\* No site is told to keep exporting: no check refuses an import_target below
\* zero, and the batteries of such a site would give beyond any limit.
NoExportTarget == \A s \in Sites : ValidSite(s) => s.import_target >= 0

\* What depends on the site alone stays.
LEMMA LimitsStay ==
  ASSUME site' = site
  PROVE  /\ Inverters' = Inverters /\ EnvironmentsOf(site)' = EnvironmentsOf(site)
         /\ \A p, stuck, e : SentAround(p, stuck, e)' = SentAround(p, stuck, e)
         /\ \A e : FeedInPct(e)' = FeedInPct(e)
         /\ \A pct, env, flows, bat, limit :
              ExportTold(pct, env, flows, bat, limit)' = ExportTold(pct, env, flows, bat, limit)
<1>1. Inverters' = Inverters /\ EnvironmentsOf(site)' = EnvironmentsOf(site)
  BY DEF Inverters
<1>2. \A e, i : SunOn(e, i)' = SunOn(e, i)
  BY DEF SunOn
<1>3. \A pct : AllowedExport(pct)' = AllowedExport(pct)
  BY DEF AllowedExport
<1>4. \A p, stuck, e : SentAround(p, stuck, e)' = SentAround(p, stuck, e)
  BY <1>1 DEF SentAround, SunOn, AllowedExport
<1>5. \A e : FeedInPct(e)' = FeedInPct(e)
  BY DEF FeedInPct
<1>6. \A e : SunGiven(e)' = SunGiven(e)
  BY <1>1 DEF SunGiven, SunOn
<1>7. \A pct, env, flows, bat, limit :
        ExportTold(pct, env, flows, bat, limit)' = ExportTold(pct, env, flows, bat, limit)
  BY <1>3, <1>6 DEF ExportTold
<1> QED
  BY <1>1, <1>4, <1>5, <1>7

LEMMA RampedUnder ==
  ASSUME SiteOK, pv_pct \in Percent, NEW target \in Percent, NEW dt \in Nat
  PROVE  Ramped(target, dt) <= target
<1>1. site.pv_ramp * dt \in Nat
  BY SiteNumbers
<1> DEFINE up == pv_pct + site.pv_ramp * dt
<1>2. up \in Int /\ Ramped(target, dt) = IF target > pv_pct THEN Least(up, target) ELSE target
  BY <1>1 DEF Ramped, Percent
<1> HIDE DEF up
<1> QED
  BY <1>2 DEF Least, Percent

\* The batteries a limit at the connection counts on.
LEMMA ConnectionIsTold ==
  ASSUME SiteOK, SetpointsOK, sent_pct \in [Inverters -> Percent], pv_pct \in Percent,
         NEW e \in EnvironmentsOf(site), NEW flows, flows = Flows(e),
         NEW r, r = Plausible(ReadingsOf(e, flows)), NEW pct \in Percent, pct < 100,
         NEW constrained \in BOOLEAN, ~constrained, NEW floor \in Int,
         NEW bat, bat = PlanBatteries(e, r, constrained, floor, pct),
         NEW limit, limit = Ramped(TargetPct(pct, r, SumFunction(bat)), e.dt),
         site.at_connection, site.import_target >= 0, flows.base + flows.loads >= 0
  PROVE  ExportTold(pct, e, flows, SumFunction(bat), limit)
<1> DEFINE planned == SumFunction(bat)
           used == flows.base + flows.loads + planned
           want == Wanted(e, r, constrained, floor, pct)
           ae == AllowedExport(pct)
           given == SunGiven(e)
<1>1. FlowsOK(flows) /\ ReadingsOK(r)
  BY FlowsFacts, ReadingsFacts
<1>2. /\ planned \in Int /\ (r.grid = None => planned = 0)
      /\ r.grid # None => Towards(planned, want)
  BY <1>1, BatteriesShareIt
<1>3. /\ flows.base \in Int /\ flows.loads \in Int /\ flows.pv \in Int /\ flows.battery \in Int /\ given \in Int
      /\ flows.grid = flows.base + flows.loads + flows.battery - flows.pv
  BY <1>1, PlantFacts DEF FlowsOK
<1>4. ae \in Int
  BY AllowedExportType
<1>5. r.grid # None => want \in Int /\ (want >= 0 \/ want >= given - ae - flows.base - flows.loads)
  <2>1. r.grid # None => want \in Int
    BY <1>1, WantedType
  <2>2. r.grid # None => want >= 0 \/ want >= given - ae - flows.base - flows.loads
    BY WantedUnderLimit
  <2> QED
    BY <2>1, <2>2
<1>6. None \notin {r.grid, r.pv} => used >= r.pv + r.grid - r.battery + planned
  <2> SUFFICES ASSUME None \notin {r.grid, r.pv} PROVE used >= r.pv + r.grid - r.battery + planned
    OBVIOUS
  <2>1. r.grid = flows.grid /\ r.pv = flows.pv /\ r.battery = flows.battery
    BY ReadingsTell
  <2> HIDE DEF planned
  <2> QED
    BY <1>2, <1>3, <2>1
<1>7. limit = Ramped(TargetPct(pct, r, planned), e.dt)
  OBVIOUS
<1>8. e.dt \in Nat
  BY EnvFacts
<1> HIDE DEF planned, want, ae, given
<1>9. used \in Int
  BY <1>2, <1>3
<1>10. CASE used >= 0
  <2> DEFINE u == used
  <2>1. u \in Int /\ u >= 0 /\ (None \notin {r.grid, r.pv} => u >= r.pv + r.grid - r.battery + planned)
    BY <1>6, <1>9, <1>10
  <2> HIDE DEF u
  <2>2. limit <= pct \/ limit * site.pv_installed <= 100 * (AllowedExport(pct) + u)
    BY <1>1, <1>2, <1>7, <1>8, <2>1, TargetTells
  <2>3. u = flows.base + flows.loads + SumFunction(bat)
    BY DEF u, planned
  <2> QED
    BY <2>1, <2>2, <2>3 DEF ExportTold
<1>11. CASE ~(used >= 0)
  <2>1. planned < 0
    BY <1>2, <1>3, <1>11
  <2>2. r.grid # None /\ want <= planned
    BY <1>2, <1>5, <2>1 DEF Towards
  <2>3. used >= given - ae
    BY <1>2, <1>3, <1>4, <1>5, <2>1, <2>2
  <2>4. used < 0
    BY <1>9, <1>11
  <2> QED
    BY <1>11, <2>3, <2>4 DEF ExportTold, planned, ae, given
<1> QED
  BY <1>10, <1>11

-----------------------------------------------------------------------------
LEMMA CycleTellsLimits ==
  ASSUME NoNegativeFailsafe, NoExportTarget, Known, NEW e \in Environments(site), Cycle(e)
  PROVE  PlantTold' /\ ConnectionTold'
<1>1. PICK flows, r, age, pct, reserve, budget, bat, planned, loads, limit :
        /\ Computed(e, flows, r, age, pct, reserve, budget, bat, planned, loads, limit)
        /\ Sent(e, flows, r, age, pct, reserve, budget, bat, loads, limit)
  BY CycleParts
<1>2. /\ e \in EnvironmentsOf(site) /\ FlowsOK(flows) /\ ReadingsOK(r)
      /\ pct \in Percent /\ budget.mode \in Modes /\ planned \in Int /\ limit \in Percent
  BY <1>1, ComputedTypes
<1>3. /\ SiteOK /\ SetpointsOK /\ sent_pct \in [Inverters -> Percent] /\ pv_pct \in Percent
  BY KnownFacts
<1>4. site' = site
  BY <1>1 DEF Sent
<1>5. /\ setpoints'.battery = bat /\ pv_pct' = limit /\ sent_pct' = InverterPct(limit, r, age)
      /\ truth'.env = e /\ truth'.flows = flows
      /\ status'.mode = budget.mode /\ status'.ignoring = Ignoring(age)
  BY <1>1 DEF Sent
<1>6. /\ flows = Flows(e) /\ r = Plausible(ReadingsOf(e, flows)) /\ age = OverAge(r, e.dt)
      /\ pct = FeedInPct(e) /\ planned = SumFunction(bat)
      /\ bat = PlanBatteries(e, r, budget.mode # "normal", FloorW(site), pct)
      /\ limit = Ramped(TargetPct(pct, r, planned), e.dt)
  BY <1>1 DEF Computed
<1>7. PlantTold'
  <2>1. Ignoring(age) \subseteq {i \in Inverters : e.inverters[i] # "ok"}
    BY <1>2, <1>3, <1>6, IgnoringIsDeaf
  <2>2. (\A i \in Inverters : e.inverters[i] # "off")
          => InverterPct(limit, r, age) = SentAround(limit, Ignoring(age), e)
    BY <1>2, <1>3, <1>6, SentFacts
  <2>3. ~site.at_connection => limit <= pct
    <3> SUFFICES ASSUME ~site.at_connection PROVE limit <= pct
      OBVIOUS
    <3> DEFINE target == TargetPct(pct, r, planned)
    <3>1. target \in Percent
      BY <1>2, <1>3, TargetPctType
    <3>2. target <= pct
      <4>1. CASE pct >= 100
        BY <1>2, <3>1, <4>1 DEF Percent
      <4>2. CASE ~(pct >= 100)
        <5>1. target = pct
          BY <4>2 DEF TargetPct
        <5> QED
          BY <1>2, <5>1 DEF Percent
      <4> QED
        BY <4>1, <4>2
    <3>3. limit = Ramped(target, e.dt) /\ e.dt \in Nat
      BY <1>2, <1>6, EnvFacts
    <3> HIDE DEF target
    <3>4. limit <= target
      BY <1>3, <3>1, <3>3, RampedUnder
    <3> QED
      BY <1>2, <3>1, <3>2, <3>4 DEF Percent
  <2>4. /\ Inverters' = Inverters /\ EnvironmentsOf(site)' = EnvironmentsOf(site)
        /\ SentAround(pv_pct, status.ignoring, truth.env)' = SentAround(limit, Ignoring(age), e)
        /\ FeedInPct(truth.env)' = pct
        /\ site'.at_connection = site.at_connection
    BY <1>4, <1>5, <1>6, LimitsStay
  <2> QED
    BY <1>2, <1>5, <2>1, <2>2, <2>3, <2>4 DEF PlantTold
<1>8. ConnectionTold'
  <2> DEFINE constrained == budget.mode # "normal"
             floor == FloorW(site)
  <2>1. constrained \in BOOLEAN /\ floor \in Int
    BY <1>3, FloorType
  <2>2. bat = PlanBatteries(e, r, constrained, floor, pct) /\ limit = Ramped(TargetPct(pct, r, SumFunction(bat)), e.dt)
    BY <1>6
  <2>3. budget.mode = "normal" <=> ~constrained
    OBVIOUS
  <2>4. site.import_target >= 0
    BY <1>3 DEF NoExportTarget, Known, SiteOK
  <2> HIDE DEF constrained, floor
  <2>5. site.at_connection /\ budget.mode = "normal" /\ pct < 100 /\ flows.base + flows.loads >= 0
          => ExportTold(pct, e, flows, SumFunction(bat), limit)
    BY <1>2, <1>3, <1>6, <2>1, <2>2, <2>3, <2>4, ConnectionIsTold
  <2>6. flows.base \in Int /\ flows.loads \in Int
    BY <1>2 DEF FlowsOK
  <2>7. /\ FeedInPct(truth.env)' = pct /\ site'.at_connection = site.at_connection
        /\ ExportTold(FeedInPct(truth.env), truth.env, truth.flows, SumFunction(setpoints.battery), pv_pct)'
             = ExportTold(pct, e, flows, SumFunction(bat), limit)
    BY <1>4, <1>5, <1>6, LimitsStay
  <2> QED
    BY <1>5, <2>5, <2>6, <2>7 DEF ConnectionTold
<1> QED
  BY <1>7, <1>8

\* What every state keeps of the limits of the last cycle.
LimitTold == Fits /\ PlantTold /\ ConnectionTold

LEMMA LimitToldAlways ==
  ASSUME NoNegativeFailsafe, NoExportTarget
  PROVE  DSpec => []LimitTold
<1>1. DInit => PlantTold /\ ConnectionTold
  BY InitKnown DEF PlantTold, ConnectionTold
<1>2. Fits /\ PlantTold /\ ConnectionTold /\ [DNext]_dvars => PlantTold' /\ ConnectionTold'
  <2> SUFFICES ASSUME Fits, PlantTold, ConnectionTold, [DNext]_dvars
               PROVE  PlantTold' /\ ConnectionTold'
    OBVIOUS
  <2>1. CASE DNext
    <3>1. PICK e \in Environments(site) : Cycle(e)
      BY <2>1 DEF DNext
    <3> QED
      BY <3>1, CycleTellsLimits DEF Fits
  <2>2. CASE UNCHANGED dvars
    <3>1. /\ site' = site /\ setpoints' = setpoints /\ status' = status /\ truth' = truth
          /\ pv_pct' = pv_pct /\ sent_pct' = sent_pct
      BY <2>2 DEF dvars
    <3>2. /\ Inverters' = Inverters /\ EnvironmentsOf(site)' = EnvironmentsOf(site)
          /\ SentAround(pv_pct, status.ignoring, truth.env)' = SentAround(pv_pct, status.ignoring, truth.env)
          /\ FeedInPct(truth.env)' = FeedInPct(truth.env)
          /\ site'.at_connection = site.at_connection
          /\ ExportTold(FeedInPct(truth.env), truth.env, truth.flows, SumFunction(setpoints.battery), pv_pct)'
               = ExportTold(FeedInPct(truth.env), truth.env, truth.flows, SumFunction(setpoints.battery), pv_pct)
      BY <3>1, LimitsStay
    <3>3. PlantTold'
      BY <3>1, <3>2 DEF PlantTold
    <3>4. ConnectionTold'
      BY <3>1, <3>2 DEF ConnectionTold
    <3> QED
      BY <3>3, <3>4
  <2> QED
    BY <2>1, <2>2
<1> QED
  BY <1>1, <1>2, FitsAlways, PTL DEF DSpec, LimitTold

\* The step PlantStaysUnderLimit allows.
PlantStep ==
  LET e == truth'.env
      f == truth'.flows
      deaf == {i \in Inverters : e.inverters[i] # "ok"}
      limit == AllowedExport(LegalPct(truth.env))
      loud == SumOver(LAMBDA i : InverterOutput(e, i), deaf)
  IN  /\ truth # None
      /\ ~site.at_connection
      /\ truth.env.inverters = e.inverters /\ truth.env.sun = e.sun
      /\ \A i \in Inverters : e.inverters[i] # "off"
      /\ \A i \in deaf : i \in status.ignoring
             \/ InverterOutput(e, i) * 100 <= site.inverters[i] * sent_pct[i]
      => f.pv <= Most(limit, loud)

LEMMA CycleHoldsPlant ==
  ASSUME NoNegativeFailsafe, PlantAsConfigured, LimitTold, NEW e \in Environments(site), Cycle(e)
  PROVE  PlantStep
<1> DEFINE deaf == {i \in Inverters : e.inverters[i] # "ok"}
           stuck == status.ignoring
           pct == FeedInPct(truth.env)
<1>1. truth'.env = e /\ truth'.flows = Flows(e)
  <2>1. PICK flows, r, age, p, res, budget, bats, planned, loads, limit :
          /\ Computed(e, flows, r, age, p, res, budget, bats, planned, loads, limit)
          /\ Sent(e, flows, r, age, p, res, budget, bats, loads, limit)
    BY CycleParts
  <2> QED
    BY <2>1 DEF Sent, Computed
<1>2. /\ SiteOK /\ SetpointsOK /\ sent_pct \in [Inverters -> Percent] /\ e \in EnvironmentsOf(site)
      /\ pv_pct \in Percent /\ site \in Sites
  BY KnownFacts DEF LimitTold, Fits, Known
<1> SUFFICES ASSUME /\ truth # None
                    /\ ~site.at_connection
                    /\ truth.env.inverters = e.inverters /\ truth.env.sun = e.sun
                    /\ \A i \in Inverters : e.inverters[i] # "off"
                    /\ \A i \in deaf : i \in stuck
                         \/ InverterOutput(e, i) * 100 <= site.inverters[i] * sent_pct[i]
             PROVE  Flows(e).pv <= Most(AllowedExport(LegalPct(truth.env)),
                                        SumOver(LAMBDA i : InverterOutput(e, i), deaf))
  BY <1>1 DEF PlantStep
<1>3. /\ truth.env \in EnvironmentsOf(site) /\ stuck \in SUBSET deaf
      /\ sent_pct = SentAround(pv_pct, stuck, truth.env) /\ pv_pct <= pct
  BY DEF LimitTold, PlantTold
<1>4. pct \in Percent /\ pct = LegalPct(truth.env)
  BY <1>2, <1>3, FeedInPctType, FeedInIsLegal
<1>5. Rated(Inverters) <= site.pv_installed
  BY <1>2 DEF PlantAsConfigured, Rated, Inverters, SiteOK
<1>6. \A i \in Inverters : e.inverters[i] # "ok" =>
        i \in stuck \/ InverterOutput(e, i) * 100 <= site.inverters[i] * sent_pct[i]
  OBVIOUS
<1>7. truth.env.sun = e.sun
  OBVIOUS
<1> HIDE DEF pct, stuck
<1>8. Flows(e).pv <= Most(AllowedExport(pct), Made(e, deaf))
  BY <1>2, <1>3, <1>4, <1>5, <1>6, <1>7, PlantIsHeld
<1>9. Made(e, deaf) = SumOver(LAMBDA i : InverterOutput(e, i), deaf)
  BY DEF Made, SumOver
<1> QED
  BY <1>4, <1>8, <1>9

\* The step ExportStaysUnderLimit allows.
ExportStep ==
  LET e == truth'.env
      f == truth'.flows
      old == truth.flows
  IN  /\ truth # None /\ site.at_connection
      /\ status.mode = "normal" /\ truth.env.meter = "ok"
      /\ LegalPct(truth.env) < 100
      /\ \A i \in Inverters :
           e.inverters[i] = "ok" /\ truth.env.inverters[i] = "ok"
      /\ \A i \in Batteries : e.bats[i].online
      /\ old.base + old.loads >= 0
      /\ f.base + f.loads >= old.base + old.loads
      /\ old.base + old.loads + SumFunction(setpoints.battery) < 0 => e.sun <= truth.env.sun
      => -f.grid <= AllowedExport(LegalPct(truth.env))

\* With less sun there is no more to give.
LEMMA SunGivenGrows ==
  ASSUME SiteOK, NEW e \in EnvironmentsOf(site), NEW old \in EnvironmentsOf(site), e.sun <= old.sun
  PROVE  SunGiven(e) <= SunGiven(old)
<1> DEFINE f == [i \in Inverters |-> SunOn(e, i)]
           g == [i \in Inverters |-> SunOn(old, i)]
<1>1. ASSUME NEW i \in Inverters PROVE SunOn(e, i) \in Int /\ SunOn(old, i) \in Int /\ SunOn(e, i) <= SunOn(old, i)
  <2> DEFINE w == site.inverters[i]
             s == e.sun
             t == old.sun
             x == w * s
             y == w * t
  <2>1. w \in Nat /\ s \in Nat /\ t \in Nat /\ s <= t
    <3>1. e.sun \in Percent /\ old.sun \in Percent
      BY EnvFacts
    <3>2. w \in Nat
      BY InverterFacts
    <3> QED
      BY <3>1, <3>2 DEF Percent
  <2> HIDE DEF w, s, t
  <2>2. x \in Nat /\ y \in Nat /\ x <= y
    BY <2>1
  <2> HIDE DEF x, y
  <2>3. x \div 100 \in Int /\ y \div 100 \in Int /\ x \div 100 <= y \div 100
    BY <2>2
  <2> QED
    BY <2>3 DEF SunOn, x, y, w, s, t
<1>2. f \in [Inverters -> Int] /\ g \in [Inverters -> Int] /\ \A i \in Inverters : f[i] <= g[i]
  BY <1>1
<1>3. SunGiven(e) = SumFunction(f) /\ SunGiven(old) = SumFunction(g)
  BY DEF SunGiven
<1> HIDE DEF f, g
<1> QED
  BY <1>2, <1>3, FiniteDevices, SumMonotone

LEMMA CycleHoldsExport ==
  ASSUME NoNegativeFailsafe, PlantAsConfigured, LimitTold, NEW e \in Environments(site), Cycle(e)
  PROVE  ExportStep
<1> DEFINE f == Flows(e)
           env == truth.env
           old == truth.flows
           pct == FeedInPct(env)
           ae == AllowedExport(pct)
           bat == SumFunction(setpoints.battery)
           used == old.base + old.loads + bat
           given == SunGiven(env)
           n == site.pv_installed
           rated == Rated(Inverters)
<1>1. truth'.env = e /\ truth'.flows = f
  <2>1. PICK flows, r, age, p, res, budget, bats, planned, loads, limit :
          /\ Computed(e, flows, r, age, p, res, budget, bats, planned, loads, limit)
          /\ Sent(e, flows, r, age, p, res, budget, bats, loads, limit)
    BY CycleParts
  <2> QED
    BY <2>1 DEF Sent, Computed
<1>2. /\ SiteOK /\ SetpointsOK /\ sent_pct \in [Inverters -> Percent] /\ e \in EnvironmentsOf(site)
      /\ pv_pct \in Percent /\ site \in Sites
  BY KnownFacts DEF LimitTold, Fits, Known
<1> SUFFICES ASSUME /\ truth # None /\ site.at_connection
                    /\ status.mode = "normal"
                    /\ LegalPct(env) < 100
                    /\ \A i \in Inverters : e.inverters[i] = "ok" /\ env.inverters[i] = "ok"
                    /\ \A i \in Batteries : e.bats[i].online
                    /\ old.base + old.loads >= 0
                    /\ f.base + f.loads >= old.base + old.loads
                    /\ used < 0 => e.sun <= env.sun
             PROVE  -f.grid <= AllowedExport(LegalPct(env))
  BY <1>1 DEF ExportStep
<1>3. /\ env \in EnvironmentsOf(site)
      /\ status.ignoring \subseteq {i \in Inverters : env.inverters[i] # "ok"}
      /\ (\A i \in Inverters : env.inverters[i] # "off") => sent_pct = SentAround(pv_pct, status.ignoring, env)
  BY DEF LimitTold, PlantTold
<1>4. pct \in Percent /\ pct = LegalPct(env)
  BY <1>2, <1>3, FeedInPctType, FeedInIsLegal
<1>5. ExportTold(pct, env, old, bat, pv_pct) /\ old.base \in Int /\ old.loads \in Int
  BY <1>4 DEF LimitTold, ConnectionTold
<1>6. f.battery = bat /\ bat \in Int
  BY <1>2, BatteriesObey
<1>7. /\ f.base \in Int /\ f.loads \in Int /\ f.pv \in Nat /\ SunGiven(e) \in Int /\ given \in Int
      /\ f.pv <= SunGiven(e) /\ f.grid = f.base + f.loads + f.battery - f.pv
  <2>1. FlowsOK(f)
    BY <1>2, FlowsFacts
  <2>2. f.pv \in Nat /\ SunGiven(e) \in Int /\ f.pv <= SunGiven(e)
        /\ f.base = e.base /\ f.grid = e.base + f.loads + f.battery - f.pv
    BY <1>2, PlantFacts
  <2>3. given \in Int
    BY <1>2, <1>3, PlantFacts
  <2> QED
    BY <2>1, <2>2, <2>3 DEF FlowsOK
<1>8. 100 * f.pv <= pv_pct * rated /\ rated \in Nat /\ rated <= n
  <2>1. \A i \in Inverters : sent_pct[i] = pv_pct
    <3>1. status.ignoring = {} /\ \A i \in Inverters : env.inverters[i] # "off"
      BY <1>3
    <3>2. sent_pct = SentAround(pv_pct, status.ignoring, env)
      BY <1>3, <3>1
    <3> QED
      BY <3>1, <3>2 DEF SentAround
  <2>2. Within(e, Inverters, pv_pct)
    <3> SUFFICES ASSUME NEW i \in Inverters PROVE 100 * InverterOutput(e, i) <= pv_pct * site.inverters[i]
      BY DEF Within
    <3>1. 100 * InverterOutput(e, i) <= sent_pct[i] * site.inverters[i]
      BY <1>2, OutputWithin
    <3> QED
      BY <2>1, <3>1
  <2>3. Inverters \in SUBSET Inverters /\ pv_pct \in Int
    BY <1>2 DEF Percent
  <2>4. 100 * Made(e, Inverters) <= pv_pct * Rated(Inverters)
    BY <1>2, <2>2, <2>3, MadeWithin
  <2>5. Rated(Inverters) \in Nat /\ f.pv = Made(e, Inverters)
    BY <1>2, <2>3, MadeFacts
  <2>6. Rated(Inverters) <= n
    BY <1>2 DEF PlantAsConfigured, Rated, Inverters, SiteOK
  <2>7. 100 * Made(e, Inverters) = 100 * f.pv
    BY <2>5
  <2> HIDE DEF f, n
  <2> QED
    BY <2>4, <2>5, <2>6, <2>7, Zenon
<1>9. ae \in Int /\ ae >= 0 /\ n \in Nat /\ pv_pct \in Nat
  <2> HIDE DEF pct
  <2>1. pct <= pct
    BY <1>4 DEF Percent
  <2>2. ae \in Int /\ ae >= 0
    BY <1>2, <1>4, <2>1, AllowedExportType, AllowedExportGrows
  <2>3. n \in Nat
    BY <1>2, SiteNumbers
  <2>4. pv_pct \in Nat
    BY <1>2 DEF Percent
  <2> QED
    BY <2>2, <2>3, <2>4
<1>10. f.base + f.loads >= old.base + old.loads /\ old.base + old.loads >= 0
  OBVIOUS
<1>11. \/ /\ used >= 0
          /\ pv_pct <= pct \/ pv_pct * n <= 100 * (ae + used)
       \/ used < 0 /\ used >= given - ae
  BY <1>5 DEF ExportTold
<1>12. used < 0 => SunGiven(e) <= given
  <2>1. used < 0 => e.sun <= env.sun
    OBVIOUS
  <2> QED
    BY <1>2, <1>3, <2>1, SunGivenGrows
<1>13. pv_pct <= pct => f.pv <= ae
  BY <1>2, <1>4, <1>7, <1>8, ShareOfPlant
<1> HIDE DEF f, env, old, pct, ae, bat, given, n, rated
<1>14. used \in Int
  BY <1>5, <1>6
<1>15. used >= 0 /\ pv_pct * n <= 100 * (ae + used) => f.pv <= ae + used
  <2> SUFFICES ASSUME pv_pct * n <= 100 * (ae + used) PROVE f.pv <= ae + used
    OBVIOUS
  <2> DEFINE a == pv_pct * rated
             b == pv_pct * n
             top == ae + used
  <2>1. a <= b
    <3>1. n \in Nat /\ rated \in Nat /\ rated <= n /\ pv_pct \in Nat
      BY <1>8, <1>9
    <3> QED
      BY <3>1
  <2>2. a \in Int /\ b \in Int /\ top \in Int /\ 100 * f.pv <= a /\ b <= 100 * top
    BY <1>8, <1>9, <1>14
  <2> HIDE DEF a, b, top
  <2>3. f.pv <= top
    BY <1>7, <2>1, <2>2
  <2> QED
    BY <2>3 DEF top
<1>16. (used >= 0 /\ f.pv <= ae) \/ f.pv <= ae + used
  BY <1>7, <1>9, <1>11, <1>12, <1>13, <1>14, <1>15
<1>17. -f.grid <= f.pv - used
  BY <1>5, <1>6, <1>7, <1>10
<1>18. -f.grid \in Int /\ f.pv \in Int /\ ae \in Int /\ used \in Int
  BY <1>5, <1>6, <1>7, <1>9, <1>14
<1>19. -f.grid <= ae
  BY <1>9, <1>16, <1>17, <1>18
<1> QED
  BY <1>4, <1>19 DEF ae, f, env

\* A limit on feed-in holds where it is measured: FeedInLimitIsKept, of the
\* limit sent, the inverters that do not follow it, the ramp and plan_batteries
\* together.  At every valid site, whatever the devices, the sun and the plan
\* do, the plant gives no more than the limit or than those that cannot be
\* made to follow, and where the limit is at the connection the site exports
\* no more than it may while it uses what it used.
THEOREM FeedInLimitAlwaysKept ==
  ASSUME NoNegativeFailsafe, PlantAsConfigured, NoExportTarget
  PROVE  DSpec => FeedInLimitIsKept
<1>1. LimitTold /\ [DNext]_dvars => [PlantStep]_dvars /\ [ExportStep]_dvars
  <2> SUFFICES ASSUME LimitTold, DNext PROVE PlantStep /\ ExportStep
    OBVIOUS
  <2>1. PICK e \in Environments(site) : Cycle(e)
    BY DEF DNext
  <2> QED
    BY <2>1, CycleHoldsPlant, CycleHoldsExport
<1>2. DSpec => PlantStaysUnderLimit
  BY <1>1, LimitToldAlways, PTL DEF DSpec, PlantStaysUnderLimit, PlantStep
<1>3. DSpec => ExportStaysUnderLimit
  BY <1>1, LimitToldAlways, PTL DEF DSpec, ExportStaysUnderLimit, ExportStep
<1> QED
  BY <1>2, <1>3 DEF FeedInLimitIsKept

-----------------------------------------------------------------------------
\* Files that load accepts.

\* What a section is when its missing keys are filled in.
LEMMA KeysFilledIn ==
  ASSUME NEW s
  PROVE  /\ DOMAIN WithDefaults(s) = DOMAIN s
         /\ \A k \in DOMAIN s :
              /\ s[k] # None => WithDefaults(s)[k] = s[k]
              /\ s[k] = None /\ k \in DOMAIN Defaults => WithDefaults(s)[k] = Defaults[k]
              /\ s[k] = None /\ k \notin DOMAIN Defaults /\ k \in DOMAIN MoreDefaults
                   => WithDefaults(s)[k] = MoreDefaults[k]
              /\ s[k] = None /\ k \notin DOMAIN Defaults /\ k \notin DOMAIN MoreDefaults
                   => WithDefaults(s)[k] = None
BY DEF WithDefaults

\* The sections of a file that is parsed.
LEMMA ParsedParts ==
  ASSUME NEW f \in FileSection
  PROVE  /\ Parsed(f).site = WithDefaults(f.site) /\ Parsed(f).iec104 = WithDefaults(f.iec104)
         /\ Parsed(f).chargers = EachWithDefaults(f.chargers)
         /\ Parsed(f).heat_pumps = EachWithDefaults(f.heat_pumps)
         /\ Parsed(f).batteries = f.batteries
         /\ Parsed(f).policy = f.policy
         /\ Parsed(f).planner = IF f.planner = None THEN None ELSE PlannerWithDefaults(f.planner)
BY DEF Parsed, FileSection

\* The keys of the devices that are numbers are as the file has them.
LEMMA ParsedDevices ==
  ASSUME NEW f \in FileSection
  PROVE  /\ \A i \in DOMAIN Parsed(f).chargers :
              Parsed(f).chargers[i].max \in Int /\ Parsed(f).chargers[i].failsafe \in Int
         /\ \A i \in DOMAIN Parsed(f).heat_pumps : Parsed(f).heat_pumps[i].rated \in Int
         /\ \A i \in DOMAIN Parsed(f).batteries : Parsed(f).batteries[i].capacity \in Int
         /\ \E n \in Nat : DOMAIN Parsed(f).chargers = 1 .. n /\ Len(Parsed(f).chargers) = n
         /\ \E n \in Nat : DOMAIN Parsed(f).heat_pumps = 1 .. n /\ Len(Parsed(f).heat_pumps) = n
         /\ \E n \in Nat : DOMAIN Parsed(f).batteries = 1 .. n /\ Len(Parsed(f).batteries) = n
<1> DEFINE p == Parsed(f)
<1>1. /\ f.chargers \in Seq(ChargerSection) /\ f.heat_pumps \in Seq(HeatPumpSection)
      /\ f.batteries \in Seq(BatterySection)
  BY DEF FileSection
<1>2. /\ p.chargers = [i \in DOMAIN f.chargers |-> WithDefaults(f.chargers[i])]
      /\ p.heat_pumps = [i \in DOMAIN f.heat_pumps |-> WithDefaults(f.heat_pumps[i])]
      /\ p.batteries = f.batteries
  BY ParsedParts DEF EachWithDefaults
<1> HIDE DEF p
<1>3. \A c \in ChargerSection : WithDefaults(c).max \in Int /\ WithDefaults(c).failsafe \in Int
  <2> TAKE c \in ChargerSection
  <2>1. c.max \in Int /\ c.failsafe \in Int /\ {"max", "failsafe"} \subseteq DOMAIN c
    BY DEF ChargerSection
  <2> QED
    BY <2>1, KeysFilledIn, SetupAssumption
<1>4. \A h \in HeatPumpSection : WithDefaults(h).rated \in Int
  <2> TAKE h \in HeatPumpSection
  <2>1. h.rated \in Int /\ "rated" \in DOMAIN h
    BY DEF HeatPumpSection
  <2> QED
    BY <2>1, KeysFilledIn, SetupAssumption
<1>5. \A b \in BatterySection : b.capacity \in Int
  BY DEF BatterySection
<1>6. /\ \E n \in Nat : DOMAIN f.chargers = 1 .. n /\ Len(f.chargers) = n
      /\ \E n \in Nat : DOMAIN f.heat_pumps = 1 .. n /\ Len(f.heat_pumps) = n
      /\ \E n \in Nat : DOMAIN f.batteries = 1 .. n /\ Len(f.batteries) = n
  BY <1>1
<1>7. /\ \E n \in Nat : DOMAIN p.chargers = 1 .. n /\ Len(p.chargers) = n
      /\ \E n \in Nat : DOMAIN p.heat_pumps = 1 .. n /\ Len(p.heat_pumps) = n
      /\ \E n \in Nat : DOMAIN p.batteries = 1 .. n /\ Len(p.batteries) = n
  <2>1. \E n \in Nat : DOMAIN p.chargers = 1 .. n /\ Len(p.chargers) = n
    <3>1. PICK n \in Nat : DOMAIN f.chargers = 1 .. n
      BY <1>6
    <3>2. DOMAIN p.chargers = 1 .. n
      BY <1>2, <3>1
    <3> QED
      BY <3>2, FunctionIsSequence
  <2>2. \E n \in Nat : DOMAIN p.heat_pumps = 1 .. n /\ Len(p.heat_pumps) = n
    <3>1. PICK n \in Nat : DOMAIN f.heat_pumps = 1 .. n
      BY <1>6
    <3>2. DOMAIN p.heat_pumps = 1 .. n
      BY <1>2, <3>1
    <3> QED
      BY <3>2, FunctionIsSequence
  <2> QED
    BY <1>2, <1>6, <2>1, <2>2
<1>8. /\ \A i \in DOMAIN f.chargers : f.chargers[i] \in ChargerSection
      /\ \A i \in DOMAIN f.heat_pumps : f.heat_pumps[i] \in HeatPumpSection
      /\ \A i \in DOMAIN f.batteries : f.batteries[i] \in BatterySection
  BY <1>1
<1>9. /\ \A i \in DOMAIN p.chargers : p.chargers[i].max \in Int /\ p.chargers[i].failsafe \in Int
      /\ \A i \in DOMAIN p.heat_pumps : p.heat_pumps[i].rated \in Int
      /\ \A i \in DOMAIN p.batteries : p.batteries[i].capacity \in Int
  <2>1. DOMAIN p.chargers = DOMAIN f.chargers /\ DOMAIN p.heat_pumps = DOMAIN f.heat_pumps
    BY <1>2
  <2> QED
    BY <1>2, <1>3, <1>4, <1>5, <1>8, <2>1
<1> QED
  BY <1>7, <1>9 DEF p

-----------------------------------------------------------------------------
\* The site and what its devices are sent first.

\* A sum of numbers that are all above zero, if there are any, is.
LEMMA SumPositive ==
  ASSUME NEW S, IsFiniteSet(S), S # {}, NEW g \in [S -> Int], \A i \in S : g[i] > 0
  PROVE  SumFunction(g) > 0
<1>1. PICK x : x \in S
  OBVIOUS
<1> DEFINE T == S \ {x}
           h == [i \in T |-> g[i]]
<1>2. IsFiniteSet(T) /\ h \in [T -> Int] /\ \A i \in T : h[i] >= 0
  BY FS_Subset
<1>3. SumFunction(g) = g[x] + SumFunction(h)
  BY <1>1, SumOut
<1> HIDE DEF h
<1>4. SumFunction(h) \in Nat
  BY <1>2, SumNat
<1>5. g[x] \in Int /\ g[x] > 0
  BY <1>1
<1> QED
  BY <1>3, <1>4, <1>5

LEMMA FactorNat ==
  ASSUME NEW n \in Nat
  PROVE  SimultaneityFactor(n) \in Nat
BY DEF SimultaneityFactor

\* The minimum while dimmed is never below nothing.
LEMMA MinimumNat ==
  ASSUME NEW counted \in Nat, NEW k \in Nat, NEW hp \in [1 .. k -> Int],
         \A i \in 1 .. k : hp[i] >= 0
  PROVE  PminW(counted, hp) >= 0
<1> DEFINE n == counted + Len(hp)
           sum == SumFunction(hp)
           large == \E i \in DOMAIN hp : hp[i] > 11000
           base == IF large THEN (2 * sum) \div 5 ELSE 4200
           factor == SimultaneityFactor(n)
<1>1. Len(hp) = k /\ n \in Nat
  BY FunctionIsSequence
<1>2. IsFiniteSet(1 .. k)
  BY FS_Interval
<1>3. sum \in Nat
  BY <1>2, SumNat
<1>4. PminW(counted, hp) = IF n = 0 THEN 0 ELSE base + (n - 1) * 42 * factor
  BY DEF PminW
<1> HIDE DEF n, sum, large
<1>5. factor \in Nat
  BY <1>1, FactorNat
<1>6. base \in Nat
  <2>1. (2 * sum) \div 5 \in Nat
    BY <1>3
  <2> QED
    BY <2>1
<1> HIDE DEF factor, base
<1>7. n # 0 => (n - 1) * 42 * factor \in Nat
  <2> SUFFICES ASSUME n # 0 PROVE (n - 1) * 42 * factor \in Nat
    OBVIOUS
  <2>1. (n - 1) * 42 \in Nat
    BY <1>1
  <2> DEFINE m == (n - 1) * 42
  <2> HIDE DEF m
  <2>2. m \in Nat => m * factor \in Nat
    BY <1>5
  <2> QED
    BY <2>1, <2>2 DEF m
<1> QED
  BY <1>4, <1>6, <1>7

\* What SiteOf makes of a file.
LEMMA SiteParts ==
  ASSUME NEW c, SiteOf(c) # None
  PROVE  LET s == SiteOf(c)
         IN  /\ s.policy = PolicyOf(c.site.jurisdiction, c.policy)
             /\ s.chargers = c.chargers /\ s.heat_pumps = c.heat_pumps
             /\ s.batteries = c.batteries
<1> DEFINE policy == IF c.site.jurisdiction \in Jurisdictions
                     THEN PolicyOf(c.site.jurisdiction, c.policy) ELSE None
<1>1. policy # None
  BY DEF SiteOf
<1>2. policy = PolicyOf(c.site.jurisdiction, c.policy)
  BY <1>1
<1> QED
  BY <1>1, <1>2 DEF SiteOf

\* A file that is accepted, as it is parsed.
LoadedFile(c) == \E f \in FileSection : WellFormed(f) /\ c = Parsed(f) /\ Accepted(c)

LEMMA PolicyFacts ==
  ASSUME NEW p, ValidPolicy(p)
  PROVE  /\ p.static_cap \in OptPercent
         /\ p.contract # None => p.contract.min_w >= 0
<1> DEFINE cap == p.static_cap
           c == p.contract
           budget == p.budget
           day == c.max_minutes \in 0 .. 1440
<1>1. {cap, budget} \subseteq OptPercent /\ (c # None => c.min_w >= 0 /\ day)
  BY ZenonT(30) DEF ValidPolicy
<1> HIDE DEF cap, c, budget, day
<1>2. cap \in OptPercent /\ (c # None => c.min_w >= 0)
  BY <1>1
<1> QED
  BY <1>2 DEF cap, c

LEMMA SiteIsUsable ==
  ASSUME NEW c, LoadedFile(c)
  PROVE  /\ SiteOf(c) # None /\ ValidSite(SiteOf(c))
         /\ FloorW(SiteOf(c)) >= 0
         /\ SiteOf(c).batteries # <<>> =>
              SumFunction([i \in DOMAIN SiteOf(c).batteries |->
                             SiteOf(c).batteries[i].capacity]) > 0
<1> DEFINE s == SiteOf(c)
<1>1. PICK f \in FileSection : c = Parsed(f) /\ Accepted(c)
  BY DEF LoadedFile
<1>2. s # None /\ ValidSite(s)
  BY <1>1 DEF Accepted
<1>3. s.chargers = c.chargers /\ s.heat_pumps = c.heat_pumps /\ s.batteries = c.batteries
  BY <1>2, SiteParts
<1> HIDE DEF s
<1>4. PICK n \in Nat : DOMAIN s.chargers = 1 .. n /\ Len(s.chargers) = n
  BY <1>1, <1>3, ParsedDevices
<1>5. PICK k \in Nat : DOMAIN s.heat_pumps = 1 .. k /\ Len(s.heat_pumps) = k
  BY <1>1, <1>3, ParsedDevices
<1>6. PICK m \in Nat : DOMAIN s.batteries = 1 .. m /\ Len(s.batteries) = m
  BY <1>1, <1>3, ParsedDevices
<1>7. FloorW(s) >= 0
  <2>1. CASE s.policy.contract # None
    <3>1. s.policy.contract.min_w >= 0
      BY <1>2, <2>1, PolicyFacts DEF ValidSite
    <3>2. FloorW(s) = s.policy.contract.min_w
      BY <2>1 DEF FloorW
    <3> QED
      BY <3>1, <3>2
  <2>2. CASE s.policy.contract = None
    <3> DEFINE hp == [i \in DOMAIN s.heat_pumps |-> s.heat_pumps[i].rated]
               counted == Len(s.chargers) + Len(s.batteries)
    <3>1. \A i \in 1 .. k : s.heat_pumps[i].rated \in Int /\ s.heat_pumps[i].rated > 0
      BY <1>1, <1>2, <1>3, <1>5, ParsedDevices DEF ValidSite, ValidHeatPump
    <3>2. hp \in [1 .. k -> Int] /\ \A i \in 1 .. k : hp[i] >= 0
      BY <1>5, <3>1
    <3>3. counted \in Nat
      BY <1>4, <1>6
    <3>4. FloorW(s) = PminW(counted, hp)
      BY <2>2 DEF FloorW
    <3> HIDE DEF hp, counted
    <3> QED
      BY <3>2, <3>3, <3>4, MinimumNat
  <2> QED
    BY <2>1, <2>2
<1>8. s.batteries # <<>> =>
        SumFunction([i \in DOMAIN s.batteries |-> s.batteries[i].capacity]) > 0
  <2> SUFFICES ASSUME s.batteries # <<>>
               PROVE  SumFunction([i \in DOMAIN s.batteries |-> s.batteries[i].capacity]) > 0
    OBVIOUS
  <2> DEFINE g == [i \in DOMAIN s.batteries |-> s.batteries[i].capacity]
  <2>1. \A i \in 1 .. m : s.batteries[i].capacity \in Int /\ s.batteries[i].capacity > 0
    BY <1>1, <1>2, <1>3, <1>6, ParsedDevices DEF ValidSite, ValidBattery
  <2>2. g \in [1 .. m -> Int] /\ \A i \in 1 .. m : g[i] > 0
    BY <1>6, <2>1
  <2>3. 1 .. m # {}
    <3>1. f.batteries \in Seq(BatterySection) /\ s.batteries = f.batteries
      BY <1>1, <1>3, ParsedParts DEF FileSection
    <3>2. m # 0
      BY <1>6, <3>1
    <3> QED
      BY <3>2
  <2>4. IsFiniteSet(1 .. m)
    BY FS_Interval
  <2> HIDE DEF g
  <2>5. SumFunction(g) > 0
    BY <2>2, <2>3, <2>4, SumPositive
  <2> QED
    BY <2>5 DEF g
<1> QED
  BY <1>2, <1>7, <1>8 DEF s

\* Before the first cycle the standing cap, the saved limit and the chargers'
\* limits are kept.
LEMMA FirstSetpointsFit ==
  ASSUME NEW c, LoadedFile(c), NEW pct \in 0 .. 100
  PROVE  LET s == SiteOf(c)
             first == FirstSetpoints(c, s, pct)
         IN  /\ first.pv <= pct /\ first.pv <= OrElse(s.policy.static_cap, 100)
             /\ \A i \in DOMAIN s.chargers : first.chargers[i] <= s.chargers[i].max
<1> DEFINE s == SiteOf(c)
           first == FirstSetpoints(c, s, pct)
           cap == s.policy.static_cap
<1>1. s # None /\ ValidSite(s)
  BY SiteIsUsable
<1>2. s.chargers = c.chargers
  BY <1>1, SiteParts
<1> HIDE DEF s
<1>3. cap \in OptPercent
  BY <1>1, PolicyFacts DEF ValidSite, cap
<1>4. /\ first.pv = IF OrElse(cap, 100) < pct THEN cap ELSE pct
      /\ first.chargers = [i \in DOMAIN c.chargers |-> c.chargers[i].failsafe]
  BY DEF FirstSetpoints
<1> HIDE DEF first, cap
<1>5. first.pv <= pct /\ first.pv <= OrElse(cap, 100)
  <2>1. CASE cap = None
    <3>1. OrElse(cap, 100) = 100
      BY <2>1 DEF OrElse
    <3> QED
      BY <1>4, <3>1
  <2>2. CASE cap # None
    <3>1. OrElse(cap, 100) = cap /\ cap \in 0 .. 100
      BY <1>3, <2>2 DEF OrElse, OptPercent, Percent
    <3> QED
      BY <1>4, <3>1
  <2> QED
    BY <2>1, <2>2
<1>6. \A i \in DOMAIN s.chargers : first.chargers[i] <= s.chargers[i].max
  BY <1>1, <1>2, <1>4 DEF ValidSite, ValidCharger
<1> QED
  BY <1>5, <1>6 DEF s, first, cap

-----------------------------------------------------------------------------
\* The planner.

\* The planner's sections and keys, filled in.
LEMMA ParsedPlanner ==
  ASSUME NEW q \in PlannerSection
  PROVE  LET p == PlannerWithDefaults(q)
         IN  /\ p.enabled # None /\ p.uncertainty # None /\ p.epsilon # None
             /\ p.dim_windows = q.dim_windows /\ p.building = q.building
<1> DEFINE d == WithDefaults(q)
<1>1. DOMAIN q = {"enabled", "uncertainty", "epsilon", "dim_windows", "prices", "weather",
                  "demand_charge", "building"}
      /\ q.dim_windows \in SUBSET ((Nat \X Nat) \X (Nat \X Nat))
  BY DEF PlannerSection
<1>2. /\ "enabled" \in DOMAIN Defaults /\ Defaults["enabled"] = TRUE
      /\ "uncertainty" \in DOMAIN Defaults /\ Defaults["uncertainty"] = "deterministic"
      /\ "epsilon" \in DOMAIN Defaults /\ Defaults["epsilon"] = 50
      /\ "dim_windows" \notin DOMAIN Defaults /\ "dim_windows" \notin DOMAIN MoreDefaults
      /\ "building" \notin DOMAIN Defaults /\ "building" \notin DOMAIN MoreDefaults
  BY DEF Defaults, MoreDefaults
<1>3. DOMAIN d = DOMAIN q
  BY KeysFilledIn
<1>4. d["enabled"] # None /\ d["uncertainty"] # None /\ d["epsilon"] # None
  <2>1. \A k \in {"enabled", "uncertainty", "epsilon"} :
          k \in DOMAIN q /\ k \in DOMAIN Defaults /\ Defaults[k] # None
    <3>1. \A k \in {"enabled", "uncertainty", "epsilon"} : k \in DOMAIN q /\ k \in DOMAIN Defaults
      BY <1>1, <1>2
    <3> QED
      BY <3>1, SetupAssumption
  <2>2. \A k \in DOMAIN q :
          /\ q[k] # None => d[k] = q[k]
          /\ q[k] = None /\ k \in DOMAIN Defaults => d[k] = Defaults[k]
    BY KeysFilledIn
  <2> HIDE DEF d
  <2>3. \A k \in {"enabled", "uncertainty", "epsilon"} : d[k] # None
    BY <2>1, <2>2
  <2> QED
    BY <2>3
<1>5. d["building"] = q["building"]
  BY <1>1, <1>2, KeysFilledIn
<1>6. d["dim_windows"] = q["dim_windows"]
  <2>1. q["dim_windows"] # None => d["dim_windows"] = q["dim_windows"]
    BY <1>1, KeysFilledIn
  <2>2. q["dim_windows"] = None => d["dim_windows"] = None
    BY <1>1, <1>2, KeysFilledIn
  <2> QED
    BY <2>1, <2>2
<1> HIDE DEF d
<1>7. PlannerWithDefaults(q)
        = [d EXCEPT !.prices = WithDefaults(@), !.weather = IfGiven(@), !.demand_charge = IfGiven(@)]
  BY DEF PlannerWithDefaults, d
<1> QED
  BY <1>1, <1>3, <1>4, <1>5, <1>6, <1>7

LEMMA MinutesOfDay ==
  ASSUME NEW t \in Nat \X Nat, ParseHhmm(t) # None
  PROVE  ParseHhmm(t) \in 0 .. 1440 /\ ParseHhmm(t) = 60 * t[1] + t[2] /\ t[2] < 60
BY DEF ParseHhmm

\* Two windows that are told apart in the file are told apart in minutes.
LEMMA WindowsApart ==
  ASSUME NEW v \in (Nat \X Nat) \X (Nat \X Nat), NEW w \in (Nat \X Nat) \X (Nat \X Nat),
         ParseWindow(v) # None, ParseWindow(w) # None, ParseWindow(v) = ParseWindow(w)
  PROVE  v = w
<1>1. \A x \in (Nat \X Nat) \X (Nat \X Nat) : ParseWindow(x) # None =>
        /\ ParseHhmm(x[1]) # None /\ ParseHhmm(x[2]) # None
        /\ ParseWindow(x) = <<ParseHhmm(x[1]), ParseHhmm(x[2])>>
  BY DEF ParseWindow
<1>2. ParseHhmm(v[1]) = ParseHhmm(w[1]) /\ ParseHhmm(v[2]) = ParseHhmm(w[2])
  BY <1>1
<1>3. \A s, t \in Nat \X Nat :
        ParseHhmm(s) # None /\ ParseHhmm(t) # None /\ ParseHhmm(s) = ParseHhmm(t) => s = t
  <2> TAKE s, t \in Nat \X Nat
  <2> HAVE ParseHhmm(s) # None /\ ParseHhmm(t) # None /\ ParseHhmm(s) = ParseHhmm(t)
  <2>1. 60 * s[1] + s[2] = 60 * t[1] + t[2] /\ s[2] < 60 /\ t[2] < 60
    BY MinutesOfDay
  <2>2. s[1] \in Nat /\ s[2] \in Nat /\ t[1] \in Nat /\ t[2] \in Nat
    OBVIOUS
  <2>3. s[1] = t[1] /\ s[2] = t[2]
    BY <2>1, <2>2
  <2> QED
    BY <2>3
<1>4. v[1] \in Nat \X Nat /\ v[2] \in Nat \X Nat /\ w[1] \in Nat \X Nat /\ w[2] \in Nat \X Nat
  OBVIOUS
<1>5. v[1] = w[1] /\ v[2] = w[2]
  BY <1>1, <1>2, <1>3, <1>4
<1> QED
  BY <1>5

LEMMA WindowFits ==
  ASSUME NEW w \in (Nat \X Nat) \X (Nat \X Nat), ParseWindow(w) # None
  PROVE  /\ 0 <= ParseWindow(w)[1] /\ ParseWindow(w)[1] < ParseWindow(w)[2]
         /\ ParseWindow(w)[2] <= 1440
<1>1. /\ ParseHhmm(w[1]) # None /\ ParseHhmm(w[2]) # None /\ ParseHhmm(w[1]) < ParseHhmm(w[2])
      /\ ParseWindow(w) = <<ParseHhmm(w[1]), ParseHhmm(w[2])>>
  BY DEF ParseWindow
<1> DEFINE a == ParseHhmm(w[1])
           b == ParseHhmm(w[2])
           v == ParseWindow(w)
<1>2. w[1] \in Nat \X Nat /\ w[2] \in Nat \X Nat
  OBVIOUS
<1>3. a \in 0 .. 1440
  BY <1>1, <1>2, MinutesOfDay
<1>4. b \in 0 .. 1440
  BY <1>1, <1>2, MinutesOfDay
<1>5. v = <<a, b>> /\ a < b
  BY <1>1
<1> HIDE DEF a, b, v
<1>6. 0 <= v[1] /\ v[1] < v[2] /\ v[2] <= 1440
  BY <1>3, <1>4, <1>5
<1> QED
  BY <1>6 DEF v

LEMMA EveryWindowInForce ==
  ASSUME NEW W \in SUBSET ((Nat \X Nat) \X (Nat \X Nat)), IsFiniteSet(W),
         \A w \in W : ParseWindow(w) # None
  PROVE  LET V == {ParseWindow(w) : w \in W} \ {None}
         IN  Cardinality(V) = Cardinality(W)
             /\ \A v \in V : 0 <= v[1] /\ v[1] < v[2] /\ v[2] <= 1440
<1> DEFINE V == {ParseWindow(w) : w \in W} \ {None}
           m == [w \in W |-> ParseWindow(w)]
<1>1. m \in [W -> V]
  OBVIOUS
<1>2. \A v, w \in W : m[v] = m[w] => v = w
  BY WindowsApart
<1>3. \A v \in V : \E w \in W : m[w] = v
  OBVIOUS
<1>4. m \in Bijection(W, V)
  <2> HIDE DEF m, V
  <2> QED
    BY <1>1, <1>2, <1>3 DEF Bijection, Injection, Surjection, IsInjective
<1>5. ExistsBijection(W, V)
  BY <1>4 DEF ExistsBijection
<1>6. Cardinality(V) = Cardinality(W)
  BY <1>5, FS_Bijection
<1>7. \A v \in V : 0 <= v[1] /\ v[1] < v[2] /\ v[2] <= 1440
  BY WindowFits
<1> QED
  BY <1>6, <1>7

LEMMA PlannerIsUsable ==
  ASSUME NEW c, LoadedFile(c), c.planner # None
  PROVE  LET p == c.planner
             ems == EmsOf(p, c.site.jurisdiction)
         IN  /\ PlannerTakes(ems, SiteOf(c), p.demand_charge)
             /\ Cardinality(ems.dim_windows) = Cardinality(p.dim_windows)
             /\ \A w \in ems.dim_windows : 0 <= w[1] /\ w[1] < w[2] /\ w[2] <= 1440
             /\ p.building # None => ems.day # None
             /\ ems.zone \in Zones
             /\ "file" \in p.prices.sources => p.prices.file
<1> DEFINE p == c.planner
           ems == EmsOf(p, c.site.jurisdiction)
           s == SiteOf(c)
           b == p.building
<1>1. PICK f \in FileSection : WellFormed(f) /\ c = Parsed(f) /\ Accepted(c)
  BY DEF LoadedFile
<1>2. f.planner # None /\ p = PlannerWithDefaults(f.planner) /\ f.planner \in PlannerSection
  <2>1. c.planner = IF f.planner = None THEN None ELSE PlannerWithDefaults(f.planner)
    BY <1>1, ParsedParts
  <2>2. f.planner \in PlannerSection \cup {None}
    BY DEF FileSection, Opt
  <2> QED
    BY <2>1, <2>2
<1>3. /\ p.dim_windows \in SUBSET ((Nat \X Nat) \X (Nat \X Nat)) /\ IsFiniteSet(p.dim_windows)
      /\ b \in BuildingSection \cup {None}
  <2>1. p.dim_windows = f.planner.dim_windows /\ b = f.planner.building
    BY <1>2, ParsedPlanner
  <2> HIDE DEF p, b
  <2>2. f.planner.dim_windows \in SUBSET ((Nat \X Nat) \X (Nat \X Nat))
        /\ f.planner.building \in BuildingSection \cup {None}
    BY <1>2 DEF PlannerSection, Opt
  <2> QED
    BY <1>1, <1>2, <2>1, <2>2 DEF WellFormed
<1>4. ValidPlanner(p, c.site.jurisdiction)
  BY <1>1 DEF Accepted
<1>5. /\ SumFunction([i \in DOMAIN s.batteries |-> s.batteries[i].capacity]) > 0
         \/ s.batteries = <<>>
  BY SiteIsUsable
<1> HIDE DEF p, s, b
<1>6. /\ ems.epsilon = p.epsilon /\ ems.zone = BiddingZone(p, c.site.jurisdiction)
      /\ ems.building = IF b = None THEN None ELSE [ua |-> b.ua, cap |-> b.cap]
      /\ ems.dim_windows = {ParseWindow(w) : w \in p.dim_windows} \ {None}
      /\ ems.day = IF b = None THEN None
                   ELSE LET hours == <<ParseHhmm(b.day_start), ParseHhmm(b.day_end)>>
                        IN  IF None \in {hours[1], hours[2]} THEN None ELSE hours
  BY DEF EmsOf, b
<1> HIDE DEF ems
<1>7. b # None => ValidBuilding(b) /\ b \in BuildingSection
  BY <1>3, <1>4 DEF ValidPlanner, b
<1>8. b # None => b.ua \in Int /\ b.cap \in Int /\ b.ua > 0 /\ b.cap > b.ua
  <2> SUFFICES ASSUME b # None PROVE b.ua \in Int /\ b.cap \in Int /\ b.ua > 0 /\ b.cap > b.ua
    OBVIOUS
  <2>1. b.ua \in Int /\ b.cap \in Int
    BY <1>7 DEF BuildingSection
  <2> QED
    BY <1>7, <2>1 DEF ValidBuilding
<1>9. PlannerTakes(ems, s, p.demand_charge)
  <2>1. ems.building # None => ems.building.cap > 0 /\ ems.building.ua < 4 * ems.building.cap
    <3> SUFFICES ASSUME ems.building # None
                 PROVE  ems.building.cap > 0 /\ ems.building.ua < 4 * ems.building.cap
      OBVIOUS
    <3>1. b # None /\ ems.building.cap = b.cap /\ ems.building.ua = b.ua
      BY <1>6
    <3>2. b.cap > 0 /\ b.ua < 4 * b.cap
      BY <1>8, <3>1
    <3> QED
      BY <3>1, <3>2
  <2>2. 0 < ems.epsilon /\ ems.epsilon < 500
    BY <1>4, <1>6 DEF ValidPlanner
  <2>3. p.demand_charge # None => p.demand_charge.per_kw_year >= 0
    BY <1>4 DEF ValidPlanner, ValidDemand
  <2> QED
    BY <1>5, <2>1, <2>2, <2>3 DEF PlannerTakes
<1>10. \A w \in p.dim_windows : ParseWindow(w) # None
  BY <1>4 DEF ValidPlanner
<1>11. /\ Cardinality(ems.dim_windows) = Cardinality(p.dim_windows)
       /\ \A w \in ems.dim_windows : 0 <= w[1] /\ w[1] < w[2] /\ w[2] <= 1440
  <2> DEFINE W == p.dim_windows
  <2>1. W \in SUBSET ((Nat \X Nat) \X (Nat \X Nat)) /\ IsFiniteSet(W)
        /\ \A w \in W : ParseWindow(w) # None
    BY <1>3, <1>10
  <2>2. ems.dim_windows = {ParseWindow(w) : w \in W} \ {None}
    BY <1>6
  <2> HIDE DEF W
  <2>3. Cardinality(ems.dim_windows) = Cardinality(W)
        /\ \A w \in ems.dim_windows : 0 <= w[1] /\ w[1] < w[2] /\ w[2] <= 1440
    BY <2>1, <2>2, EveryWindowInForce
  <2> QED
    BY <2>3 DEF W
<1>12. b # None => ems.day # None
  <2> SUFFICES ASSUME b # None PROVE ems.day # None
    OBVIOUS
  <2> DEFINE x == ParseHhmm(b.day_start)
             y == ParseHhmm(b.day_end)
  <2>1. x # None /\ y # None
    BY <1>7 DEF ValidBuilding
  <2>2. b.day_start \in Nat \X Nat /\ b.day_end \in Nat \X Nat
    BY <1>7 DEF BuildingSection
  <2>3. x \in Int /\ y \in Int
    BY <2>1, <2>2, MinutesOfDay
  <2>4. ems.day = <<x, y>>
    BY <1>6, <2>1
  <2> HIDE DEF x, y
  <2>5. <<x, y>> \in Int \X Int
    BY <2>3
  <2> QED
    BY <2>4, <2>5, SetupAssumption
<1>13. ems.zone \in Zones /\ ("file" \in p.prices.sources => p.prices.file)
  BY <1>4, <1>6 DEF ValidPlanner, ValidPrices
<1> QED
  BY <1>9, <1>11, <1>12, <1>13 DEF p, s, b, ems

-----------------------------------------------------------------------------
\* No key that has a default is missing.

LEMMA SiteIsComplete ==
  ASSUME NEW t \in SiteSection
  PROVE  None \notin {WithDefaults(t)[k] : k \in DOMAIN WithDefaults(t) \ {"yield"}}
<1> DEFINE w == WithDefaults(t)
<1>1. DOMAIN t = {"jurisdiction", "pv_installed", "connection", "yield", "feed_in_reference",
                  "release_ramp", "pv_ramp", "margin", "min_dwell", "deadline_guard",
                  "surplus_hold", "import_target", "release_delay_max", "pv_follow_timeout",
                  "compliance_grace", "period_ms", "stale_ms"}
  BY DEF SiteSection
<1>2. \A k \in {"jurisdiction", "deadline_guard", "surplus_hold"} :
        k \in DOMAIN Defaults /\ Defaults[k] # None
  <2>1. {"jurisdiction", "deadline_guard", "surplus_hold"} \subseteq DOMAIN Defaults
    BY DEF Defaults
  <2> QED
    BY <2>1, SetupAssumption
<1>3. \A k \in {"pv_ramp", "import_target", "release_delay_max", "pv_follow_timeout",
                "compliance_grace"} :
        k \notin DOMAIN Defaults /\ k \in DOMAIN MoreDefaults /\ MoreDefaults[k] # None
  <2> DEFINE K == {"pv_ramp", "import_target", "release_delay_max", "pv_follow_timeout",
                   "compliance_grace"}
  <2>1. \A k \in K : k \notin DOMAIN Defaults /\ k \in DOMAIN MoreDefaults
    BY DEF Defaults, MoreDefaults
  <2> QED
    BY <2>1, SetupAssumption
<1>4. \A k \in {"pv_installed", "connection", "release_ramp", "margin", "min_dwell",
                "period_ms", "stale_ms", "feed_in_reference"} : t[k] # None
  <2> DEFINE K == {"pv_installed", "connection", "release_ramp", "margin", "min_dwell",
                   "period_ms", "stale_ms"}
  <2>1. t["feed_in_reference"] \in References
    BY DEF SiteSection
  <2>2. \A k \in K : t[k] \in Int
    BY DEF SiteSection
  <2>3. \A k \in K : t[k] # None
    BY <2>2, SetupAssumption
  <2> QED
    BY <2>1, <2>3, SetupAssumption
<1>5. /\ DOMAIN w = DOMAIN t
      /\ \A k \in DOMAIN t :
           /\ t[k] # None => w[k] = t[k]
           /\ t[k] = None /\ k \in DOMAIN Defaults => w[k] = Defaults[k]
           /\ t[k] = None /\ k \notin DOMAIN Defaults /\ k \in DOMAIN MoreDefaults
                => w[k] = MoreDefaults[k]
  BY KeysFilledIn
<1> HIDE DEF w
<1>6. \A k \in DOMAIN t \ {"yield"} : w[k] # None
  BY <1>1, <1>2, <1>3, <1>4, <1>5
<1> QED
  BY <1>5, <1>6 DEF w

LEMMA LinkIsComplete ==
  ASSUME NEW t \in LinkSection
  PROVE  None \notin {WithDefaults(t)[k] : k \in DOMAIN WithDefaults(t)}
<1> DEFINE w == WithDefaults(t)
<1>1. DOMAIN t = {"common_address", "deadband", "on_link_loss", "link_loss_release"}
  BY DEF LinkSection
<1>2. \A k \in {"on_link_loss", "link_loss_release"} :
        k \in DOMAIN Defaults /\ Defaults[k] # None
  <2>1. {"on_link_loss", "link_loss_release"} \subseteq DOMAIN Defaults
    BY DEF Defaults
  <2> QED
    BY <2>1, SetupAssumption
<1>3. t["common_address"] # None /\ t["deadband"] # None
  <2>1. t["common_address"] \in U16 /\ t["deadband"] \in Int
    BY DEF LinkSection
  <2>2. U16 \subseteq Int
    BY DEF U16
  <2> QED
    BY <2>1, <2>2, SetupAssumption
<1>4. /\ DOMAIN w = DOMAIN t
      /\ \A k \in DOMAIN t :
           /\ t[k] # None => w[k] = t[k]
           /\ t[k] = None /\ k \in DOMAIN Defaults => w[k] = Defaults[k]
  BY KeysFilledIn
<1> HIDE DEF w
<1>5. \A k \in DOMAIN t : w[k] # None
  BY <1>1, <1>2, <1>3, <1>4
<1> QED
  BY <1>4, <1>5 DEF w

-----------------------------------------------------------------------------
\* The configuration, once loaded, is of a file that is accepted.

SetupInv == file \in Files /\ (config # None => LoadedFile(config))

LEMMA SetupInvHolds ==
  SetupInit /\ [][SetupNext]_setupvars => []SetupInv
<1>1. SetupInit => SetupInv
  BY DEF SetupInit, SetupInv
<1>2. SetupInv /\ [SetupNext]_setupvars => SetupInv'
  <2> SUFFICES ASSUME SetupInv, [SetupNext]_setupvars PROVE SetupInv'
    OBVIOUS
  <2>1. CASE Load
    <3>1. file' = file /\ config' = IF Accepted(Parsed(file)) THEN Parsed(file) ELSE None
      BY <2>1 DEF Load
    <3>2. WellFormed(file) /\ file \in FileSection
      BY SetupAssumption DEF SetupInv, WellFormed
    <3> QED
      BY <3>1, <3>2 DEF SetupInv, LoadedFile
  <2>2. CASE UNCHANGED setupvars
    BY <2>2 DEF setupvars, SetupInv
  <2> QED
    BY <2>1, <2>2 DEF SetupNext
<1> QED
  BY <1>1, <1>2, PTL

\* Whatever the file says, within the types of its keys: if Config::load accepts
\* it, the site is valid and its floor not negative, the first setpoints
\* keep the standing cap and the chargers' limits, the planner takes its problem,
\* every dimming window and the hours of the day are in force, every price source
\* can be asked, and no key that has a default is missing.
THEOREM AcceptedFilesAlwaysRun ==
  SetupInit /\ [][SetupNext]_setupvars => []AcceptedFilesRun
<1>1. SetupInv => AcceptedFilesRun
  <2> SUFFICES ASSUME SetupInv PROVE AcceptedFilesRun
    OBVIOUS
  <2>1. WellFormed(file)
    BY SetupAssumption DEF SetupInv
  <2>2. ASSUME config # None PROVE LoadedFile(config)
    BY <2>2 DEF SetupInv
  <2>3. AcceptedIsUsable
    <3> SUFFICES ASSUME config # None PROVE AcceptedIsUsable
      BY DEF AcceptedIsUsable
    <3> DEFINE s == SiteOf(config)
    <3>1. s # None /\ FloorW(s) >= 0
      BY <2>2, SiteIsUsable
    <3>2. \A pct \in {0, 60, 100} :
            LET first == FirstSetpoints(config, s, pct)
            IN  /\ first.pv <= pct /\ first.pv <= OrElse(s.policy.static_cap, 100)
                /\ \A i \in DOMAIN s.chargers : first.chargers[i] <= s.chargers[i].max
      BY <2>2, FirstSetpointsFit
    <3>3. config.planner # None =>
            LET p == config.planner
                ems == EmsOf(p, config.site.jurisdiction)
            IN  /\ PlannerTakes(ems, s, p.demand_charge)
                /\ Cardinality(ems.dim_windows) = Cardinality(p.dim_windows)
                /\ \A w \in ems.dim_windows : 0 <= w[1] /\ w[1] < w[2] /\ w[2] <= 1440
                /\ p.building # None => ems.day # None
                /\ ems.zone \in Zones
                /\ "file" \in p.prices.sources => p.prices.file
      BY <2>2, PlannerIsUsable
    <3> HIDE DEF s
    <3> QED
      BY <3>1, <3>2, <3>3 DEF AcceptedIsUsable, s
  <2>4. NothingMissing
    <3> SUFFICES ASSUME config # None PROVE NothingMissing
      BY DEF NothingMissing
    <3>1. PICK f \in FileSection : config = Parsed(f)
      BY <2>2 DEF LoadedFile
    <3>2. f.site \in SiteSection /\ f.iec104 \in LinkSection
          /\ f.planner \in PlannerSection \cup {None}
      BY DEF FileSection, Opt
    <3>3. /\ config.site = WithDefaults(f.site) /\ config.iec104 = WithDefaults(f.iec104)
          /\ config.planner = IF f.planner = None THEN None ELSE PlannerWithDefaults(f.planner)
      BY <3>1, ParsedParts
    <3>4. None \notin {config.site[k] : k \in DOMAIN config.site \ {"yield"}}
      BY <3>2, <3>3, SiteIsComplete
    <3>5. None \notin {config.iec104[k] : k \in DOMAIN config.iec104}
      BY <3>2, <3>3, LinkIsComplete
    <3>6. config.planner # None =>
            None \notin {config.planner.enabled, config.planner.uncertainty, config.planner.epsilon}
      BY <3>2, <3>3, ParsedPlanner
    <3> QED
      BY <3>4, <3>5, <3>6 DEF NothingMissing
  <2> QED
    BY <2>1, <2>3, <2>4 DEF AcceptedFilesRun
<1> QED
  BY <1>1, SetupInvHolds, PTL
=============================================================================
