----------------------------- MODULE OrderProofs ------------------------------
(***************************************************************************)
(* What the proofs about paths, requests, headers and pages of any length  *)
(* rest on: sets of numbers, and finite sets in order.                     *)
(***************************************************************************)
EXTENDS Orders, Integers, WellFoundedInduction, FiniteSetTheorems, FunctionTheorems, SequenceTheorems, TLAPS

\* A set of numbers has a least one.
LEMMA LeastNumber ==
    ASSUME NEW T \in SUBSET Nat, T # {}
    PROVE  \E n \in T : \A m \in T : n <= m
<1> DEFINE R == OpToRel(<, Nat)
<1>1. IsWellFoundedOn(R, Nat)
  BY NatLessThanWellFounded
<1>2. \A m, n \in Nat : m < n => <<m, n>> \in R
  BY DEF OpToRel
<1> HIDE DEF R
<1>3. PICK n \in T : \A m \in T : ~ (<<m, n>> \in R)
  BY <1>1, WFMin
<1>4. \A m \in T : ~ (m < n)
  BY <1>2, <1>3
<1>5. \A m \in T : n <= m
  BY <1>4
<1> QED
  BY <1>5

\* Induction for the numbers of a set.
LEMMA AllNumbers ==
    ASSUME NEW T \in SUBSET Nat, 0 \in T, \A n \in T : n + 1 \in T
    PROVE  T = Nat
<1> SUFFICES ASSUME Nat \ T # {} PROVE FALSE
  OBVIOUS
<1>1. PICK n \in Nat \ T : \A m \in Nat \ T : n <= m
  BY LeastNumber
<1>2. n # 0 /\ n - 1 \in Nat /\ n - 1 \in T
  BY <1>1
<1> QED
  BY <1>1, <1>2

\* Among finitely many there is one with the greatest value.
LEMMA Greatest ==
    ASSUME NEW N \in Nat, NEW v \in [1 .. N -> Nat], NEW S \in SUBSET (1 .. N), S # {}
    PROVE  \E m \in S : \A k \in S : v[k] <= v[m]
<1> DEFINE P(n) == n <= N => \A U \in SUBSET (1 .. n) :
                U # {} => \E m \in U : \A k \in U : v[k] <= v[m]
           T == {n \in Nat : P(n)}
<1>1. P(0)
  <2>1. \A U \in SUBSET (1 .. 0) : U = {}
    OBVIOUS
  <2> QED
    BY <2>1
<1>2. ASSUME NEW n \in Nat, P(n) PROVE P(n + 1)
  <2> HIDE DEF P
  <2> SUFFICES ASSUME n + 1 <= N, NEW U \in SUBSET (1 .. n + 1), U # {}
      PROVE  \E m \in U : \A k \in U : v[k] <= v[m]
    BY DEF P
  <2>1. n <= N /\ \A k \in U : v[k] \in Nat
    OBVIOUS
  <2>2. CASE U \ {n + 1} = {}
    <3>1. U = {n + 1}
      BY <2>2
    <3> QED
      BY <2>1, <3>1
  <2>3. CASE U \ {n + 1} # {}
    <3>1. U \ {n + 1} \in SUBSET (1 .. n)
      OBVIOUS
    <3>2. PICK m \in U \ {n + 1} : \A k \in U \ {n + 1} : v[k] <= v[m]
      BY <1>2, <2>1, <2>3, <3>1 DEF P
    <3>3. CASE n + 1 \notin U \/ v[n + 1] <= v[m]
      BY <3>2, <3>3
    <3>4. CASE n + 1 \in U /\ ~ (v[n + 1] <= v[m])
      <4>1. \A k \in U : v[k] <= v[n + 1]
        BY <2>1, <3>2, <3>4
      <4> QED
        BY <3>4, <4>1
    <3> QED
      BY <3>3, <3>4
  <2> QED
    BY <2>2, <2>3
<1> HIDE DEF P
<1>3. 0 \in T /\ \A n \in T : n + 1 \in T
  BY <1>1, <1>2
<1> HIDE DEF T
<1>4. T \in SUBSET Nat
  BY DEF T
<1>5. T = Nat
  BY <1>3, <1>4, AllNumbers
<1>6. P(N)
  BY <1>5 DEF T
<1>7. N <= N
  OBVIOUS
<1> QED
  BY <1>6, <1>7 DEF P
-----------------------------------------------------------------------------
(* Order                                                                   *)

StrictOrder(S, order) ==
    /\ \A x \in S : <<x, x>> \notin order
    /\ \A x, y, z \in S : <<x, y>> \in order /\ <<y, z>> \in order => <<x, z>> \in order
    /\ \A x, y \in S : x = y \/ <<x, y>> \in order \/ <<y, x>> \in order

\* The elements of a finite set with a strict order, each at its place.
LEMMA PutInOrder ==
    ASSUME NEW S, IsFiniteSet(S), NEW order, StrictOrder(S, order)
    PROVE  /\ Cardinality(S) \in Nat
           /\ InOrder(S, order) \in Seq(S)
           /\ Len(InOrder(S, order)) = Cardinality(S)
           /\ \A n \in 1 .. Cardinality(S) : InOrder(S, order)[n] \in S
           /\ \A x \in S : \E n \in 1 .. Cardinality(S) : InOrder(S, order)[n] = x
           /\ \A m, n \in 1 .. Cardinality(S) :
                m < n => <<InOrder(S, order)[m], InOrder(S, order)[n]>> \in order
<1> DEFINE pre(x) == {y \in S : <<y, x>> \in order}
           N == Cardinality(S)
           rank == [x \in S |-> Cardinality(pre(x))]
           f == InOrder(S, order)
<1>1. N \in Nat
  BY FS_CardinalityType
<1>2. ASSUME NEW x \in S PROVE IsFiniteSet(pre(x)) /\ Cardinality(pre(x)) \in 0 .. N - 1
  <2>1. pre(x) \in SUBSET S /\ pre(x) # S
    BY DEF StrictOrder
  <2> HIDE DEF pre
  <2>2. /\ IsFiniteSet(pre(x))
        /\ Cardinality(pre(x)) <= Cardinality(S)
        /\ Cardinality(S) # Cardinality(pre(x))
    BY <2>1, FS_Subset
  <2>3. Cardinality(pre(x)) \in Nat
    BY <2>2, FS_CardinalityType
  <2> QED
    BY <1>1, <2>2, <2>3
<1>3. ASSUME NEW x \in S, NEW y \in S, <<x, y>> \in order
      PROVE  Cardinality(pre(x)) < Cardinality(pre(y))
  <2>1. pre(x) \in SUBSET pre(y) /\ x \in pre(y) /\ x \notin pre(x)
    BY <1>3 DEF StrictOrder
  <2>2. pre(x) # pre(y)
    BY <2>1
  <2> HIDE DEF pre
  <2> QED
    BY <1>2, <2>1, <2>2, FS_Subset
<1>4. rank \in [S -> 0 .. N - 1] /\ \A x \in S : rank[x] = Cardinality(pre(x))
  BY <1>2
<1> HIDE DEF pre, rank, N
<1>5. \A x, y \in S : <<x, y>> \in order => rank[x] < rank[y]
  BY <1>3, <1>4
<1>6. \A x, y \in S : rank[x] = rank[y] => x = y
  <2> SUFFICES ASSUME NEW x \in S, NEW y \in S, rank[x] = rank[y], x # y PROVE FALSE
    OBVIOUS
  <2>1. rank[x] < rank[y] \/ rank[y] < rank[x]
    BY <1>5 DEF StrictOrder
  <2> QED
    BY <1>4, <2>1
<1>7. IsFiniteSet(0 .. N - 1) /\ Cardinality(0 .. N - 1) = N
  BY <1>1, FS_Interval
<1>8. rank \in Surjection(S, 0 .. N - 1)
  <2>1. rank \in Injection(S, 0 .. N - 1)
    BY <1>4, <1>6 DEF Injection, IsInjective
  <2>2. Cardinality(S) = Cardinality(0 .. N - 1)
    BY <1>7 DEF N
  <2> QED
    BY <1>7, <2>1, <2>2, FS_Injection
<1>9. \A k \in 0 .. N - 1 : \E x \in S : rank[x] = k
  BY <1>8 DEF Surjection
<1>10. f = [n \in 1 .. N |-> CHOOSE x \in S : Cardinality(pre(x)) = n - 1]
  BY DEF InOrder, f, pre, N
<1>11. ASSUME NEW n \in 1 .. N PROVE f[n] \in S /\ rank[f[n]] = n - 1
  <2>1. \E x \in S : Cardinality(pre(x)) = n - 1
    BY <1>1, <1>4, <1>9
  <2>2. f[n] = CHOOSE x \in S : Cardinality(pre(x)) = n - 1
    BY <1>10
  <2>3. f[n] \in S /\ Cardinality(pre(f[n])) = n - 1
    BY <2>1, <2>2
  <2> QED
    BY <1>4, <2>3
<1>12. f \in [1 .. N -> S] /\ f \in Seq(S) /\ Len(f) = N
  <2>1. f \in [1 .. N -> S]
    BY <1>10, <1>11
  <2> QED
    BY <1>1, <2>1
<1> HIDE DEF f
<1>13. ASSUME NEW x \in S PROVE \E n \in 1 .. N : f[n] = x
  <2>1. rank[x] + 1 \in 1 .. N
    BY <1>1, <1>4
  <2>2. rank[f[rank[x] + 1]] = rank[x] /\ f[rank[x] + 1] \in S
    BY <1>4, <1>11, <2>1
  <2> QED
    BY <1>6, <2>1, <2>2
<1>14. ASSUME NEW m \in 1 .. N, NEW n \in 1 .. N, m < n PROVE <<f[m], f[n]>> \in order
  <2>1. f[m] \in S /\ f[n] \in S /\ rank[f[m]] = m - 1 /\ rank[f[n]] = n - 1
    BY <1>11
  <2>2. f[m] # f[n] /\ ~ (rank[f[n]] < rank[f[m]])
    BY <1>1, <1>14, <2>1
  <2> QED
    BY <1>5, <2>1, <2>2 DEF StrictOrder
<1> QED
  BY <1>1, <1>11, <1>12, <1>13, <1>14 DEF f, N

\* What is left of a sequence is left in its order.
LEMMA Extracted ==
    ASSUME NEW T, NEW s \in Seq(T), NEW S \in SUBSET DOMAIN s
    PROVE  LET N == Cardinality(S)
               e == Extract(s, S)
           IN  /\ N \in Nat /\ e \in Seq(T) /\ Len(e) = N
               /\ \E at \in [1 .. N -> S] :
                    /\ \A k \in 1 .. N : e[k] = s[at[k]]
                    /\ \A n \in S : \E k \in 1 .. N : at[k] = n
                    /\ \A j, k \in 1 .. N : j < k => at[j] < at[k]
<1> DEFINE order == {pair \in S \X S : pair[1] < pair[2]}
           at == InOrder(S, order)
           N == Cardinality(S)
<1>1. /\ DOMAIN s = 1 .. Len(s) /\ Len(s) \in Nat /\ S \subseteq Nat
      /\ \A n \in DOMAIN s : s[n] \in T
  BY LenProperties, ElementOfSeq
<1>2. IsFiniteSet(S)
  <2>1. IsFiniteSet(1 .. Len(s)) /\ S \in SUBSET (1 .. Len(s))
    BY <1>1, FS_Interval
  <2> QED
    BY <2>1, FS_Subset
<1>3. \A m, n \in S : <<m, n>> \in order <=> m < n
  OBVIOUS
<1> HIDE DEF order
<1>4. StrictOrder(S, order)
  BY <1>1, <1>3 DEF StrictOrder
<1>5. /\ N \in Nat
      /\ at \in Seq(S) /\ Len(at) = N
      /\ \A k \in 1 .. N : at[k] \in S
      /\ \A n \in S : \E k \in 1 .. N : at[k] = n
      /\ \A j, k \in 1 .. N : j < k => <<at[j], at[k]>> \in order
  BY <1>2, <1>4, PutInOrder
<1>6. Extract(s, S) = [k \in 1 .. N |-> s[at[k]]]
  BY DEF Extract, order
<1> HIDE DEF at, N
<1>7. at \in [1 .. N -> S]
  BY <1>5, LenProperties
<1>8. \A j, k \in 1 .. N : j < k => at[j] < at[k]
  BY <1>3, <1>5
<1>9. Extract(s, S) \in [1 .. N -> T]
  BY <1>1, <1>5, <1>6
<1>10. Extract(s, S) \in Seq(T) /\ Len(Extract(s, S)) = N
  <2>1. N \in Nat
    BY <1>5
  <2> QED
    BY <1>9, <2>1
<1> QED
  BY <1>5, <1>6, <1>7, <1>8, <1>10 DEF N
==============================================================================
