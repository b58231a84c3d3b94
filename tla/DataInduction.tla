---------------------------- MODULE DataInduction ----------------------------
(***************************************************************************)
(* Induction over the natural numbers, and functions defined by recursion, *)
(* for sets and functions instead of operators: a set of numbers that has  *)
(* 0 and every successor of its members has all, since otherwise the       *)
(* successor would map a finite set into itself, without 0.                *)
(***************************************************************************)
EXTENDS Integers, FiniteSets, FiniteSetTheorems, TLAPS

LEMMA SetInduction ==
  ASSUME NEW S \in SUBSET Nat, 0 \in S, \A n \in S : n + 1 \in S
  PROVE  S = Nat
<1> SUFFICES ASSUME NEW m \in Nat, m \notin S PROVE FALSE
  OBVIOUS
<1> DEFINE A == {x \in S : x <= m}
           f == [x \in A |-> x + 1]
<1>1. \A x \in A : x \in S /\ x \in Nat /\ x <= m /\ x # m /\ x + 1 \in A
  <2> SUFFICES ASSUME NEW x \in A
               PROVE  x \in S /\ x \in Nat /\ x <= m /\ x # m /\ x + 1 \in A
    OBVIOUS
  <2>1. x \in S /\ x \in Nat /\ x <= m /\ x # m
    OBVIOUS
  <2>2. x + 1 \in S /\ x + 1 <= m
    BY <2>1
  <2> QED
    BY <2>1, <2>2
<1>2. 0 \in A
  OBVIOUS
<1> HIDE DEF A
<1>3. IsFiniteSet(A)
  <2>1. IsFiniteSet(0..m)
    BY FS_Interval
  <2>2. A \in SUBSET (0..m)
    BY <1>1
  <2> QED
    BY <2>1, <2>2, FS_Subset
<1>4. f \in Injection(A, A)
  BY <1>1 DEF Injection, IsInjective
<1>5. \A x \in A : f[x] # 0
  BY <1>1
<1> HIDE DEF f
<1>6. f \in Surjection(A, A)
  BY <1>3, <1>4, FS_Injection
<1> QED
  BY <1>2, <1>5, <1>6 DEF Surjection

\* What follows for a number from all smaller ones holds up to any bound.
LEMMA StrongInduction ==
  ASSUME NEW N \in Nat, NEW S,
         \A n \in 0..N : 0..(n - 1) \subseteq S => n \in S
  PROVE  0..N \subseteq S
<1> DEFINE U == {n \in Nat : 0..(n - 1) \cap 0..N \subseteq S}
<1>1. 0 \in U
  OBVIOUS
<1>2. ASSUME NEW n \in U PROVE n + 1 \in U
  <2>1. n \in Nat /\ 0..(n - 1) \cap 0..N \subseteq S
    OBVIOUS
  <2>2. n \in 0..N => n \in S
    <3> SUFFICES ASSUME n \in 0..N PROVE n \in S
      OBVIOUS
    <3>1. 0..(n - 1) \subseteq S
      BY <2>1
    <3> QED
      BY <3>1
  <2>3. 0..n = 0..(n - 1) \cup {n} /\ n + 1 - 1 = n
    BY <2>1
  <2> QED
    BY <2>1, <2>2, <2>3
<1>3. U = Nat
  <2>1. U \in SUBSET Nat
    OBVIOUS
  <2> HIDE DEF U
  <2> QED
    BY <1>1, <1>2, <2>1, SetInduction
<1>4. N + 1 \in U
  BY <1>3
<1> QED
  BY <1>4

\* Of some numbers one is the least.
LEMMA LeastExists ==
  ASSUME NEW A \in SUBSET Nat, A # {}
  PROVE  \E m \in A : \A n \in A : m <= n
<1> SUFFICES ASSUME ~ \E m \in A : \A n \in A : m <= n PROVE FALSE
  OBVIOUS
<1> DEFINE S == {n \in Nat : \A m \in A : n < m}
<1>1. 0 \in S
  <2>1. \A m \in A : m \in Nat
    OBVIOUS
  <2> SUFFICES ASSUME NEW m \in A, ~(0 < m) PROVE FALSE
    OBVIOUS
  <2>2. m = 0
    BY <2>1
  <2> QED
    BY <2>1, <2>2
<1>2. ASSUME NEW n \in S PROVE n + 1 \in S
  <2>1. n \in Nat /\ \A m \in A : m \in Nat /\ n < m
    OBVIOUS
  <2>2. \A m \in A : m # n + 1
    <3> SUFFICES ASSUME n + 1 \in A PROVE FALSE
      OBVIOUS
    <3>1. \A m \in A : n + 1 <= m
      BY <2>1
    <3> QED
      BY <3>1
  <2>3. \A m \in A : n + 1 < m
    BY <2>1, <2>2
  <2> QED
    BY <2>1, <2>3
<1>3. S = Nat
  <2> HIDE DEF S
  <2>1. S \in SUBSET Nat
    BY DEF S
  <2> QED
    BY <1>1, <1>2, <2>1, SetInduction
<1>4. PICK m \in A : TRUE
  OBVIOUS
<1>5. m < m
  BY <1>3, <1>4
<1> QED
  BY <1>5

\* And a bounded one a greatest.
LEMMA GreatestExists ==
  ASSUME NEW N \in Nat, NEW A \in SUBSET (0..N), A # {}
  PROVE  \E m \in A : \A n \in A : n <= m
<1> DEFINE B == {N - n : n \in A}
<1>1. \A n \in A : N - n \in Nat
  OBVIOUS
<1>2. B \in SUBSET Nat
  BY <1>1
<1>3. \A n \in A : N - n \in B
  OBVIOUS
<1>4. B # {}
  BY <1>3, Zenon
<1> HIDE DEF B
<1>5. PICK b \in B : \A c \in B : b <= c
  BY <1>2, <1>4, LeastExists
<1>6. PICK m \in A : b = N - m
  BY DEF B
<1>7. ASSUME NEW n \in A PROVE n <= m
  <2>1. b <= N - n
    BY <1>3, <1>5
  <2> QED
    BY <1>6, <2>1
<1> QED
  BY <1>7

\* A function whose value at k is made of k and its value at before[k].
Recursive(g, N, zero, next, before) ==
  g = [k \in 0..N |-> IF k = 0 THEN zero ELSE next[<<k, g[before[k]]>>]]

LEMMA RecursionDefines ==
  ASSUME NEW N \in Nat, NEW T, NEW zero \in T,
         NEW next \in [(1..N) \X T -> T],
         NEW before \in [1..N -> Nat], \A k \in 1..N : before[k] < k
  PROVE  \E g \in [0..N -> T] : Recursive(g, N, zero, next, before)
<1> DEFINE S == {n \in Nat : n <= N =>
                   \E g \in [0..n -> T] : Recursive(g, n, zero, next, before)}
<1>1. 0 \in S
  <2> DEFINE g == [k \in 0..0 |-> zero]
  <2>1. g \in [0..0 -> T] /\ Recursive(g, 0, zero, next, before)
    BY DEF Recursive
  <2> QED
    BY <2>1
<1>2. ASSUME NEW n \in S PROVE n + 1 \in S
  <2> SUFFICES ASSUME n + 1 <= N
               PROVE  \E g \in [0..(n + 1) -> T] :
                        Recursive(g, n + 1, zero, next, before)
    OBVIOUS
  <2>1. PICK g \in [0..n -> T] : Recursive(g, n, zero, next, before)
    OBVIOUS
  <2>2. n \in Nat /\ before[n + 1] \in 0..n /\ n + 1 \in 1..N
    OBVIOUS
  <2> DEFINE v == next[<<n + 1, g[before[n + 1]]>>]
             h == [k \in 0..(n + 1) |-> IF k <= n THEN g[k] ELSE v]
  <2>3. v \in T
    BY <2>1, <2>2
  <2> HIDE DEF v
  <2>4. /\ h \in [0..(n + 1) -> T] /\ h[n + 1] = v
        /\ \A j \in 0..n : h[j] = g[j]
    BY <2>2, <2>3
  <2> HIDE DEF h
  <2>5. ASSUME NEW k \in 0..(n + 1)
        PROVE  h[k] = IF k = 0 THEN zero ELSE next[<<k, h[before[k]]>>]
    <3>1. CASE k = n + 1
      <4>1. k # 0 /\ h[before[k]] = g[before[k]]
        BY <2>2, <2>4, <3>1
      <4> QED
        BY <2>4, <3>1, <4>1 DEF v
    <3>2. CASE k \in 0..n
      <4>1. k # 0 => before[k] \in 0..n
        BY <2>2, <3>2
      <4>2. g[k] = IF k = 0 THEN zero ELSE next[<<k, g[before[k]]>>]
        BY <2>1, <3>2 DEF Recursive
      <4>3. h[k] = g[k] /\ (k # 0 => h[before[k]] = g[before[k]])
        BY <2>4, <3>2, <4>1
      <4> QED
        BY <4>2, <4>3
    <3> QED
      BY <2>2, <3>1, <3>2
  <2>6. Recursive(h, n + 1, zero, next, before)
    BY <2>4, <2>5 DEF Recursive
  <2> QED
    BY <2>4, <2>6
<1> HIDE DEF S
<1>3. S = Nat
  <2>1. S \in SUBSET Nat
    BY DEF S
  <2> QED
    BY <1>1, <1>2, <2>1, SetInduction
<1>4. N \in S
  BY <1>3
<1> QED
  BY <1>4 DEF S
=============================================================================
