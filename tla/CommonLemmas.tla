---------------------------- MODULE CommonLemmas ----------------------------
(***************************************************************************)
(* Lemmas about numbers and sequences that several proofs rest on:         *)
(* induction and recursion, congruence, the parts of a sequence.  Those    *)
(* on induction and recursion are stated without operator parameters, so   *)
(* that every prover can use them: a set of numbers has a least element,    *)
(* and a step given as a function defines a function.                       *)
(***************************************************************************)
EXTENDS Integers, SequencesExt, FiniteSetsExt, WellFoundedInduction, SequenceTheorems, TLAPS

-----------------------------------------------------------------------------
(* Induction and recursion.                                                *)

\* A non-empty set of numbers has a least one: induction, as it is used below.
LEMMA LeastNatural ==
  ASSUME NEW T, T \subseteq Nat, T # {}
  PROVE  \E n \in T : \A m \in T : n <= m
<1>1. IsWellFoundedOn(OpToRel(<, Nat), Nat)
  BY NatLessThanWellFounded
<1>2. PICK n \in T : \A m \in T : ~(<<m, n>> \in OpToRel(<, Nat))
  BY <1>1, WFMin
<1>3. ASSUME NEW m \in T PROVE n <= m
  <2>1. ~(m < n)
    BY <1>2 DEF OpToRel
  <2>. QED
    BY <2>1
<1>. QED
  BY <1>3

\* Induction: a set of numbers that contains each number whose predecessors it
\* contains has them all.
LEMMA Induction ==
  ASSUME NEW T, \A n \in Nat : (\A m \in Nat : m < n => m \in T) => n \in T
  PROVE  Nat \subseteq T
<1>. SUFFICES ASSUME Nat \ T # {}
              PROVE  FALSE
  OBVIOUS
<1>1. PICK n \in Nat \ T : \A m \in Nat \ T : n <= m
  BY LeastNatural
<1>2. \A m \in Nat : m < n => m \in T
  BY <1>1
<1>. QED
  BY <1>1, <1>2

\* Recursion: H[n] computes the value at n from the values below n.
Computes(H, S) ==
  /\ H \in [Nat -> [[Nat -> S] -> S]]
  /\ \A n \in Nat : \A f, g \in [Nat -> S] :
        (\A m \in Nat : m < n => f[m] = g[m]) => H[n][f] = H[n][g]
Unfolds(f, H) == \A n \in Nat : f[n] = H[n][f]

LEMMA Recursion ==
  ASSUME NEW S, NEW H, S # {}, Computes(H, S)
  PROVE  \E f \in [Nat -> S] : Unfolds(f, H)
<1>. SUFFICES \E f \in [Nat -> S] : \A n \in Nat : f[n] = H[n][f]
  BY DEF Unfolds
<1>. USE DEF Computes
<1>. PICK x : x \in S
  OBVIOUS
<1>. DEFINE Upto(n) == {f \in [Nat -> S] : \A m \in Nat : m < n => f[m] = H[m][f]}
            approx(n) == CHOOSE f : f \in Upto(n + 1)
            limit == [n \in Nat |-> approx(n)[n]]
<1>1. ASSUME NEW n \in Nat, NEW k \in Nat, NEW f \in Upto(n), NEW g \in Upto(k)
      PROVE  \A m \in Nat : m < n /\ m < k => f[m] = g[m]
  <2>. DEFINE T == {m \in Nat : m < n /\ m < k => f[m] = g[m]}
  <2>1. ASSUME NEW m \in Nat, \A l \in Nat : l < m => l \in T
        PROVE  m \in T
    <3>. SUFFICES ASSUME m < n, m < k
                  PROVE  f[m] = g[m]
      OBVIOUS
    <3>1. \A l \in Nat : l < m => f[l] = g[l]
      BY <2>1
    <3>2. f[m] = H[m][f] /\ g[m] = H[m][g] /\ f \in [Nat -> S] /\ g \in [Nat -> S]
      OBVIOUS
    <3>. QED
      BY <3>1, <3>2
  <2>. HIDE DEF T
  <2>2. Nat \subseteq T
    BY <2>1, Induction
  <2>. QED
    BY <2>2 DEF T
<1>2. \A n \in Nat : Upto(n) # {}
  <2>. DEFINE T == {n \in Nat : Upto(n) # {}}
  <2>1. ASSUME NEW n \in Nat, \A m \in Nat : m < n => m \in T
        PROVE  n \in T
    <3>1. CASE n = 0
      <4>1. [m \in Nat |-> x] \in Upto(n)
        BY <3>1
      <4>. QED
        BY <4>1
    <3>2. CASE n # 0
      <4>1. PICK k \in Nat : n = k + 1
        <5>1. n - 1 \in Nat /\ n = (n - 1) + 1
          BY <3>2
        <5>. QED
          BY <5>1
      <4>0. k < n /\ k \in T
        <5>1. k < n
          BY <4>1
        <5>. HIDE DEF T
        <5>. QED
          BY <2>1, <5>1
      <4>2. PICK f \in Upto(k) : TRUE
        BY <4>0
      <4>. DEFINE g == [f EXCEPT ![k] = H[k][f]]
      <4>3. f \in [Nat -> S] /\ H[k][f] \in S
        OBVIOUS
      <4>4. g \in [Nat -> S] /\ g[k] = H[k][f] /\ \A m \in Nat : m # k => g[m] = f[m]
        BY <4>3
      <4>. HIDE DEF g
      <4>5. ASSUME NEW m \in Nat, m < n
            PROVE  g[m] = H[m][g]
        <5>1. \A l \in Nat : l < m => f[l] = g[l]
          BY <4>1, <4>4, <4>5
        <5>2. H[m][f] = H[m][g]
          BY <4>3, <4>4, <5>1
        <5>3. g[m] = H[m][f]
          BY <4>1, <4>2, <4>4, <4>5
        <5>. QED
          BY <5>2, <5>3
      <4>. QED
        BY <4>4, <4>5
    <3>. QED
      BY <3>1, <3>2
  <2>. HIDE DEF T
  <2>2. Nat \subseteq T
    BY <2>1, Induction
  <2>. QED
    BY <2>2 DEF T
<1>. HIDE DEF Upto
<1>3. \A n \in Nat : n + 1 \in Nat /\ approx(n) \in Upto(n + 1)
  <2>1. ASSUME NEW n \in Nat PROVE n + 1 \in Nat /\ approx(n) \in Upto(n + 1)
    <3>1. n + 1 \in Nat
      OBVIOUS
    <3>2. \E f : f \in Upto(n + 1)
      BY <1>2, <3>1
    <3>. QED
      BY <3>1, <3>2
  <2>. QED
    BY <2>1
<1>. HIDE DEF approx
<1>4. \A n \in Nat : approx(n) \in [Nat -> S] /\ approx(n)[n] = H[n][approx(n)]
  <2>1. ASSUME NEW n \in Nat
        PROVE  approx(n) \in [Nat -> S] /\ approx(n)[n] = H[n][approx(n)]
    <3>1. n < n + 1 /\ approx(n) \in Upto(n + 1)
      BY <1>3
    <3>. QED
      BY <3>1 DEF Upto
  <2>. QED
    BY <2>1
<1>5. limit \in [Nat -> S] /\ \A n \in Nat : limit[n] = approx(n)[n]
  BY <1>4
<1>. HIDE DEF limit
<1>6. ASSUME NEW n \in Nat
      PROVE  limit[n] = H[n][limit]
  <2>1. ASSUME NEW m \in Nat, m < n
        PROVE  limit[m] = approx(n)[m]
    <3>1. PICK k \in Nat, l \in Nat : k = m + 1 /\ l = n + 1
      BY <1>3
    <3>2. m < k /\ m < l /\ approx(m) \in Upto(k) /\ approx(n) \in Upto(l)
      BY <1>3, <2>1, <3>1
    <3>3. approx(m)[m] = approx(n)[m]
      BY <1>1, <3>2
    <3>. QED
      BY <1>5, <3>3
  <2>2. H[n][approx(n)] = H[n][limit]
    BY <1>4, <1>5, <2>1
  <2>. QED
    BY <1>4, <1>5, <2>2
<1>. QED
  BY <1>5, <1>6

\* The values of a step repeated: h[i] makes the value at i of the one before it.
Iterates(f, x, h) == f[0] = x /\ \A i \in Nat \ {0} : f[i] = h[i][f[i - 1]]

LEMMA Iteration ==
  ASSUME NEW S, NEW x \in S, NEW h \in [Nat -> [S -> S]]
  PROVE  \E f \in [Nat -> S] : Iterates(f, x, h)
<1>. DEFINE step(n, f) == IF n = 0 THEN x ELSE h[n][f[n - 1]]
            H == [n \in Nat |-> [f \in [Nat -> S] |-> step(n, f)]]
<1>1. ASSUME NEW n \in Nat, NEW f \in [Nat -> S]
      PROVE  step(n, f) \in S
  <2>1. n # 0 => n - 1 \in Nat
    OBVIOUS
  <2>. QED
    BY <2>1
<1>2. ASSUME NEW n \in Nat, NEW f \in [Nat -> S], NEW g \in [Nat -> S],
             \A m \in Nat : m < n => f[m] = g[m]
      PROVE  step(n, f) = step(n, g)
  <2>1. n # 0 => f[n - 1] = g[n - 1]
    BY <1>2
  <2>. QED
    BY <2>1
<1>. HIDE DEF step
<1>3. H \in [Nat -> [[Nat -> S] -> S]]
  BY <1>1
<1>4. \A n \in Nat : \A f \in [Nat -> S] : H[n][f] = step(n, f)
  OBVIOUS
<1>5. \A n \in Nat : \A f, g \in [Nat -> S] :
        (\A m \in Nat : m < n => f[m] = g[m]) => H[n][f] = H[n][g]
  BY <1>2, <1>4
<1>. HIDE DEF H
<1>6. Computes(H, S)
  BY <1>3, <1>5 DEF Computes
<1>7. PICK f \in [Nat -> S] : Unfolds(f, H)
  BY <1>6, Recursion
<1>8. \A n \in Nat : f[n] = step(n, f)
  BY <1>4, <1>7 DEF Unfolds
<1>. QED
  BY <1>8 DEF step, Iterates

\* Induction from one number to the next.
LEMMA StepInduction ==
  ASSUME NEW T, 0 \in T, \A n \in Nat : n \in T => n + 1 \in T
  PROVE  Nat \subseteq T
<1>1. ASSUME NEW n \in Nat, \A m \in Nat : m < n => m \in T
      PROVE  n \in T
  <2>1. CASE n # 0
    <3>1. n - 1 \in Nat /\ n - 1 < n /\ (n - 1) + 1 = n
      BY <2>1
    <3>2. n - 1 \in T
      BY <1>1, <3>1
    <3>. QED
      BY <3>1, <3>2
  <2>. QED
    BY <2>1
<1>. QED
  BY <1>1, Induction

-----------------------------------------------------------------------------
(* Recursion over any set whose elements have a rank.                      *)

LEMMA RankInduction ==
  ASSUME NEW X, NEW rank, NEW T, \A t \in X : rank[t] \in Nat,
         \A t \in X : (\A u \in X : rank[u] < rank[t] => u \in T) => t \in T
  PROVE  X \subseteq T
<1>. DEFINE N == {n \in Nat : \A t \in X : rank[t] = n => t \in T}
<1>1. ASSUME NEW n \in Nat, \A m \in Nat : m < n => m \in N
      PROVE  n \in N
  <2>. SUFFICES ASSUME NEW t \in X, rank[t] = n PROVE t \in T
    OBVIOUS
  <2>1. \A u \in X : rank[u] < rank[t] => u \in T
    BY <1>1
  <2>. QED
    BY <2>1
<1>. HIDE DEF N
<1>2. Nat \subseteq N
  BY <1>1, Induction
<1>. QED
  BY <1>2 DEF N

\* Functions that give each element t a value in D[t], and a step H that makes the value
\* of an element of those of elements of a lesser rank.
Assignments(X, D) == {f \in [X -> UNION {D[t] : t \in X}] : \A t \in X : f[t] \in D[t]}
GoesDown(H, X, D, rank) ==
  \A t \in X : /\ rank[t] \in Nat /\ D[t] # {}
               /\ \A f \in Assignments(X, D) :
                    /\ H[t][f] \in D[t]
                    /\ \A g \in Assignments(X, D) :
                         (\A u \in X : rank[u] < rank[t] => f[u] = g[u]) => H[t][f] = H[t][g]
Follows(f, H, X) == \A t \in X : f[t] = H[t][f]

LEMMA RankRecursion ==
  ASSUME NEW X, NEW rank, NEW D, NEW H, GoesDown(H, X, D, rank)
  PROVE  \E f \in Assignments(X, D) : Follows(f, H, X)
<1>a. \A t \in X : rank[t] \in Nat /\ D[t] # {}
  BY DEF GoesDown
<1>. DEFINE S == Assignments(X, D)
            x == [t \in X |-> CHOOSE d : d \in D[t]]
            h == [n \in Nat |-> [f \in S |-> [t \in X |-> H[t][f]]]]
<1>1. ASSUME NEW f, f = [t \in X |-> f[t]], \A t \in X : f[t] \in D[t]
      PROVE  f \in S
  BY <1>1 DEF Assignments
<1>2. \A f \in S : \A t \in X : f[t] \in D[t]
  BY DEF Assignments
<1>3. x \in S
  <2>1. \A t \in X : x[t] \in D[t]
    BY <1>a
  <2>2. x = [t \in X |-> x[t]]
    OBVIOUS
  <2>. HIDE DEF x
  <2>. QED
    BY <1>1, <2>1, <2>2
<1>. HIDE DEF S, x
<1>4. ASSUME NEW f \in S PROVE [t \in X |-> H[t][f]] \in S
  <2>. DEFINE g == [t \in X |-> H[t][f]]
  <2>1. \A t \in X : g[t] \in D[t]
    BY DEF GoesDown, S
  <2>2. g = [t \in X |-> g[t]]
    OBVIOUS
  <2>. HIDE DEF g
  <2>3. g \in S
    BY <1>1, <2>1, <2>2
  <2>. QED
    BY <2>3 DEF g
<1>5. h \in [Nat -> [S -> S]]
  BY <1>4
<1>6. \A n \in Nat : \A f \in S : h[n][f] = [t \in X |-> H[t][f]]
  OBVIOUS
<1>. HIDE DEF h
<1>7. PICK F \in [Nat -> S] : Iterates(F, x, h)
  BY <1>3, <1>5, Iteration
<1>8. ASSUME NEW m \in Nat, NEW t \in X, m # 0
      PROVE  m - 1 \in Nat /\ F[m - 1] \in S /\ F[m][t] = H[t][F[m - 1]]
  <2>1. m - 1 \in Nat
    BY <1>8
  <2>2. F[m] = h[m][F[m - 1]] /\ F[m - 1] \in S
    BY <1>7, <1>8, <2>1 DEF Iterates
  <2>3. h[m][F[m - 1]] = [u \in X |-> H[u][F[m - 1]]]
    BY <1>6, <2>2
  <2>4. F[m] = [u \in X |-> H[u][F[m - 1]]]
    BY <2>2, <2>3
  <2>. QED
    BY <2>1, <2>2, <2>4
<1>9. \A t \in X : rank[t] \in Nat
  BY <1>a
<1>. DEFINE T == {t \in X : \A m, k \in Nat : rank[t] < m /\ rank[t] < k => F[m][t] = F[k][t]}
<1>10. X \subseteq T
  <2>1. ASSUME NEW t \in X, \A u \in X : rank[u] < rank[t] => u \in T
        PROVE  t \in T
    <3>. SUFFICES ASSUME NEW m \in Nat, NEW k \in Nat, rank[t] < m, rank[t] < k
                  PROVE  F[m][t] = F[k][t]
      OBVIOUS
    <3>1. m # 0 /\ k # 0
      BY <1>9
    <3>2. /\ m - 1 \in Nat /\ F[m - 1] \in S /\ F[m][t] = H[t][F[m - 1]]
          /\ k - 1 \in Nat /\ F[k - 1] \in S /\ F[k][t] = H[t][F[k - 1]]
      BY <1>8, <3>1
    <3>3. ASSUME NEW u \in X, rank[u] < rank[t] PROVE F[m - 1][u] = F[k - 1][u]
      <4>1. rank[u] < m - 1 /\ rank[u] < k - 1
        BY <1>9, <3>3
      <4>2. u \in T
        BY <2>1, <3>3
      <4>. QED
        BY <3>2, <4>1, <4>2
    <3>. QED
      BY <3>2, <3>3 DEF GoesDown, S
  <2>. HIDE DEF T
  <2>. QED
    BY <1>9, <2>1, RankInduction
<1>. DEFINE L == [t \in X |-> F[rank[t] + 1][t]]
<1>11. \A t \in X : rank[t] + 1 \in Nat /\ rank[t] + 1 # 0 /\ (rank[t] + 1) - 1 = rank[t]
  BY <1>9
<1>12. ASSUME NEW t \in X PROVE L[t] \in D[t] /\ F[rank[t]] \in S /\ L[t] = H[t][F[rank[t]]]
  <2>1. F[rank[t]] \in S /\ F[rank[t] + 1][t] = H[t][F[rank[t]]]
    BY <1>8, <1>9, <1>11
  <2>2. H[t][F[rank[t]]] \in D[t]
    BY <2>1 DEF GoesDown, S
  <2>. QED
    BY <2>1, <2>2
<1>13. L \in S
  <2>1. L = [t \in X |-> L[t]]
    OBVIOUS
  <2>2. \A t \in X : L[t] \in D[t]
    BY <1>12
  <2>. HIDE DEF L
  <2>. QED
    BY <1>1, <2>1, <2>2
<1>14. ASSUME NEW t \in X PROVE L[t] = H[t][L]
  <2>1. ASSUME NEW u \in X, rank[u] < rank[t] PROVE F[rank[t]][u] = L[u]
    <3>1. rank[t] \in Nat /\ rank[u] + 1 \in Nat /\ rank[u] < rank[u] + 1
      BY <1>9
    <3>2. u \in T
      BY <1>10
    <3>3. F[rank[t]][u] = F[rank[u] + 1][u]
      BY <2>1, <3>1, <3>2
    <3>. QED
      BY <3>3
  <2>. HIDE DEF L
  <2>2. H[t][F[rank[t]]] = H[t][L]
    BY <1>12, <1>13, <2>1 DEF GoesDown, S
  <2>. QED
    BY <1>12, <2>2
<1>. QED
  BY <1>13, <1>14 DEF S, Follows

-----------------------------------------------------------------------------
(* Congruence modulo M.                                                    *)

Eqv(a, b, M) == \E t \in Int : a = b + t * M

LEMMA ModSplit ==
  ASSUME NEW M \in Nat, 1 < M, NEW a \in Int
  PROVE  a % M \in 0..(M - 1) /\ a % M \in Int /\ Eqv(a, a % M, M)
<1>1. a % M \in 0..(M - 1)
  OBVIOUS
<1>2. PICK t \in Int : t = a \div M
  OBVIOUS
<1>3. a = (a % M) + t * M
  BY <1>2
<1>. QED
  BY <1>1, <1>3 DEF Eqv

LEMMA EqvSym ==
  ASSUME NEW M \in Nat, NEW a \in Int, NEW b \in Int, Eqv(a, b, M)
  PROVE  Eqv(b, a, M)
<1>1. PICK t \in Int : a = b + t * M
  BY DEF Eqv
<1>2. b = a + (-t) * M
  BY <1>1
<1>. QED
  BY <1>2 DEF Eqv

LEMMA ModEqv ==
  ASSUME NEW M \in Nat, 1 < M, NEW a \in Int
  PROVE  Eqv(a % M, a, M)
BY ModSplit, EqvSym

LEMMA EqvTrans ==
  ASSUME NEW M \in Nat, NEW a \in Int, NEW b \in Int, NEW c \in Int,
         Eqv(a, b, M), Eqv(b, c, M)
  PROVE  Eqv(a, c, M)
<1>1. PICK t \in Int : a = b + t * M
  BY DEF Eqv
<1>2. PICK u \in Int : b = c + u * M
  BY DEF Eqv
<1>3. a = c + (t + u) * M /\ t + u \in Int
  BY <1>1, <1>2
<1>. QED
  BY <1>3 DEF Eqv

LEMMA EqvAdd ==
  ASSUME NEW M \in Nat, NEW a \in Int, NEW b \in Int, NEW c \in Int, NEW d \in Int,
         Eqv(a, b, M), Eqv(c, d, M)
  PROVE  Eqv(a + c, b + d, M)
<1>1. PICK t \in Int : a = b + t * M
  BY DEF Eqv
<1>2. PICK u \in Int : c = d + u * M
  BY DEF Eqv
<1>3. a + c = (b + d) + (t + u) * M /\ t + u \in Int
  BY <1>1, <1>2
<1>. QED
  BY <1>3 DEF Eqv

LEMMA EqvMul ==
  ASSUME NEW M \in Nat, NEW a \in Int, NEW b \in Int, NEW c \in Int, NEW d \in Int,
         Eqv(a, b, M), Eqv(c, d, M)
  PROVE  Eqv(a * c, b * d, M)
<1>1. PICK t \in Int : a = b + t * M
  BY DEF Eqv
<1>2. PICK u \in Int : c = d + u * M
  BY DEF Eqv
<1>3. a * c = b * d + (b * u + t * d + t * u * M) * M
  BY <1>1, <1>2
<1>4. b * u + t * d + t * u * M \in Int
  OBVIOUS
<1>. QED
  BY <1>3, <1>4 DEF Eqv

LEMMA EqvSelf == ASSUME NEW M \in Nat, NEW a \in Int PROVE Eqv(a, a, M)
<1>1. a = a + 0 * M
  OBVIOUS
<1>. QED
  BY <1>1 DEF Eqv

\* Congruent remainders are equal.
LEMMA EqvUnique ==
  ASSUME NEW M \in Nat, 1 < M, NEW a \in 0..(M - 1), NEW b \in 0..(M - 1), Eqv(a, b, M)
  PROVE  a = b
<1>1. PICK t \in Int : a = b + t * M
  BY DEF Eqv
<1>2. CASE t = 0
  BY <1>1, <1>2
<1>3. CASE t >= 1
  <2>1. t * M >= M
    BY <1>3
  <2>. QED
    BY <1>1, <2>1
<1>4. CASE t <= -1
  <2>1. (-t) * M >= M
    BY <1>4
  <2>2. t * M = -((-t) * M)
    OBVIOUS
  <2>. QED
    BY <1>1, <2>1, <2>2
<1>. QED
  BY <1>2, <1>3, <1>4

LEMMA EqvMod ==
  ASSUME NEW M \in Nat, 1 < M, NEW a \in Int, NEW b \in Int, Eqv(a, b, M)
  PROVE  a % M = b % M
<1>1. a % M \in 0..(M - 1) /\ b % M \in 0..(M - 1) /\ a % M \in Int /\ b % M \in Int
  BY ModSplit
<1>2. Eqv(a % M, b % M, M)
  BY <1>1, ModSplit, EqvSym, EqvTrans
<1>. QED
  BY <1>1, <1>2, EqvUnique

\* A difference is 0 modulo M just when its terms are congruent.
LEMMA ModZero ==
  ASSUME NEW M \in Nat, 1 < M, NEW a \in Int, NEW b \in Int
  PROVE  (a - b) % M = 0 <=> Eqv(a, b, M)
<1>0. a - b \in Int /\ 0 \in 0..(M - 1)
  OBVIOUS
<1>1. ASSUME (a - b) % M = 0 PROVE Eqv(a, b, M)
  <2>1. Eqv(a - b, 0, M)
    BY <1>0, <1>1, ModSplit
  <2>2. PICK t \in Int : a - b = 0 + t * M
    BY <2>1 DEF Eqv
  <2>3. t * M \in Int
    OBVIOUS
  <2>4. a = b + t * M
    BY <2>2, <2>3
  <2>. QED
    BY <2>4 DEF Eqv
<1>2. ASSUME Eqv(a, b, M) PROVE (a - b) % M = 0
  <2>1. PICK t \in Int : a = b + t * M
    BY <1>2 DEF Eqv
  <2>2. a - b = 0 + t * M
    <3>. t * M \in Int
      OBVIOUS
    <3>. QED
      BY <2>1
  <2>3. Eqv(a - b, 0, M)
    BY <2>2 DEF Eqv
  <2>4. (a - b) % M \in 0..(M - 1) /\ (a - b) % M \in Int /\ Eqv((a - b) % M, a - b, M)
    BY <1>0, ModSplit, ModEqv
  <2>5. Eqv((a - b) % M, 0, M)
    BY <1>0, <2>3, <2>4, EqvTrans
  <2>. QED
    BY <1>0, <2>4, <2>5, EqvUnique
<1>. QED
  BY <1>1, <1>2

\* Quotient and remainder, and that there is one such pair.
LEMMA Quotient ==
  ASSUME NEW M \in Nat, 0 < M, NEW a \in Nat
  PROVE  a \div M \in Nat /\ a % M \in 0..(M - 1) /\ a = (a \div M) * M + (a % M)
<1>1. a \div M \in Int /\ a % M \in 0..(M - 1) /\ a = (a \div M) * M + (a % M)
  OBVIOUS
<1>2. PICK q \in Int, r \in 0..(M - 1) : q = a \div M /\ r = a % M /\ a = q * M + r
  BY <1>1
<1>3. q >= 0
  <2>. SUFFICES ASSUME q <= -1 PROVE FALSE
    OBVIOUS
  <2>1. (-q) * M >= M
    OBVIOUS
  <2>2. q * M = -((-q) * M)
    OBVIOUS
  <2>. QED
    BY <1>2, <2>1, <2>2
<1>. QED
  BY <1>1, <1>2, <1>3

LEMMA QuotientIs ==
  ASSUME NEW M \in Nat, 0 < M, NEW a \in Nat, NEW q \in Nat, NEW r \in 0..(M - 1),
         a = q * M + r
  PROVE  a \div M = q /\ a % M = r
<1>1. PICK p \in Nat, s \in 0..(M - 1) : p = a \div M /\ s = a % M /\ a = p * M + s
  BY Quotient
<1>2. CASE p = q
  BY <1>1, <1>2
<1>3. CASE p >= q + 1
  <2>1. p * M >= (q + 1) * M
    BY <1>3
  <2>2. (q + 1) * M = q * M + M
    OBVIOUS
  <2>. QED
    BY <1>1, <2>1, <2>2
<1>4. CASE q >= p + 1
  <2>1. q * M >= (p + 1) * M
    BY <1>4
  <2>2. (p + 1) * M = p * M + M
    OBVIOUS
  <2>. QED
    BY <1>1, <2>1, <2>2
<1>. QED
  BY <1>2, <1>3, <1>4

\* Dividing twice is dividing by the product.
LEMMA QuotientTwice ==
  ASSUME NEW M \in Nat, 0 < M, NEW N \in Nat, 0 < N, NEW a \in Nat
  PROVE  a \div (N * M) = (a \div M) \div N
<1>1. PICK q \in Nat, r \in 0..(M - 1) : q = a \div M /\ a = q * M + r
  BY Quotient
<1>2. PICK p \in Nat, s \in 0..(N - 1) : p = q \div N /\ q = p * N + s
  BY Quotient
<1>3. a = p * (N * M) + (s * M + r)
  <2>1. q * M = p * (N * M) + s * M
    BY <1>2
  <2>. QED
    BY <1>1, <2>1
<1>4. s * M + r \in 0..(N * M - 1)
  <2>1. s * M \in Nat /\ (N - 1) * M = N * M - M
    OBVIOUS
  <2>2. s * M <= (N - 1) * M
    OBVIOUS
  <2>. QED
    BY <2>1, <2>2
<1>5. N * M \in Nat /\ 0 < N * M
  OBVIOUS
<1>6. a \div (N * M) = p
  BY <1>3, <1>4, <1>5, QuotientIs
<1>. QED
  BY <1>1, <1>2, <1>6

\* Half of a number, and its last bit.
LEMMA Halves ==
  ASSUME NEW j \in Nat, j # 0
  PROVE  j \div 2 \in Nat /\ j \div 2 < j /\ j % 2 \in {0, 1} /\ j = 2 * (j \div 2) + (j % 2)
<1>1. PICK h \in Int : h = j \div 2
  OBVIOUS
<1>2. j % 2 \in {0, 1} /\ j = 2 * h + (j % 2)
  BY <1>1
<1>3. 0 <= h /\ h < j
  BY <1>2
<1>. QED
  BY <1>1, <1>2, <1>3

-----------------------------------------------------------------------------
(* Sequences.                                                              *)

LEMMA MinTwo ==
  ASSUME NEW a \in Int, NEW b \in Int
  PROVE  Min({a, b}) = IF a <= b THEN a ELSE b
<1>. DEFINE m == IF a <= b THEN a ELSE b
<1>1. m \in {a, b} /\ \A y \in {a, b} : m <= y
  OBVIOUS
<1>2. \A x \in {a, b} : (\A y \in {a, b} : x <= y) => x = m
  OBVIOUS
<1>. HIDE DEF m
<1>3. Min({a, b}) = m
  BY <1>1, <1>2 DEF Min
<1>. QED
  BY <1>3 DEF m

LEMMA Concats ==
  ASSUME NEW T, NEW s \in Seq(T), NEW t \in Seq(T)
  PROVE  /\ s \o t \in Seq(T) /\ Len(s \o t) = Len(s) + Len(t)
         /\ \A i \in 1..Len(s) : (s \o t)[i] = s[i]
         /\ \A i \in 1..Len(t) : (s \o t)[Len(s) + i] = t[i]
OBVIOUS

LEMMA PartIs ==
  ASSUME NEW T, NEW s \in Seq(T), NEW from \in Int, NEW to \in Int,
         1 <= from, from <= to + 1, to <= Len(s)
  PROVE  /\ SubSeq(s, from, to) \in Seq(T) /\ Len(SubSeq(s, from, to)) = to - from + 1
         /\ \A i \in 1..(to - from + 1) : SubSeq(s, from, to)[i] = s[from + i - 1]
OBVIOUS

LEMMA PartsMeet ==
  ASSUME NEW T, NEW s \in Seq(T), NEW m \in 0..Len(s), NEW to \in m..Len(s)
  PROVE  /\ Len(SubSeq(s, m + 1, to)) = to - m
         /\ SubSeq(s, 1, m) \o SubSeq(s, m + 1, to) = SubSeq(s, 1, to)
<1>. DEFINE a == SubSeq(s, 1, m)
            b == SubSeq(s, m + 1, to)
            c == SubSeq(s, 1, to)
<1>1. m \in Nat /\ to \in Nat /\ m <= to /\ to <= Len(s)
  OBVIOUS
<1>2. a \in Seq(T) /\ Len(a) = m /\ \A i \in 1..m : a[i] = s[i]
  BY <1>1
<1>3. b \in Seq(T) /\ Len(b) = to - m /\ \A i \in 1..(to - m) : b[i] = s[m + i]
  BY <1>1
<1>4. c \in Seq(T) /\ Len(c) = to /\ \A i \in 1..to : c[i] = s[i]
  BY <1>1
<1>. HIDE DEF a, b, c
<1>5. /\ a \o b \in Seq(T) /\ Len(a \o b) = to
      /\ \A i \in 1..m : (a \o b)[i] = s[i]
      /\ \A i \in 1..(to - m) : (a \o b)[m + i] = s[m + i]
  <2>1. /\ a \o b \in Seq(T) /\ Len(a \o b) = Len(a) + Len(b)
        /\ \A i \in 1..Len(a) : (a \o b)[i] = a[i]
        /\ \A i \in 1..Len(b) : (a \o b)[Len(a) + i] = b[i]
    BY <1>2, <1>3, Concats
  <2>2. m + (to - m) = to
    BY <1>1
  <2>. QED
    BY <1>2, <1>3, <2>1, <2>2
<1>6. ASSUME NEW i \in 1..to PROVE (a \o b)[i] = c[i]
  <2>1. CASE i <= m
    BY <1>1, <1>4, <1>5, <2>1
  <2>2. CASE i > m
    <3>1. i - m \in 1..(to - m) /\ m + (i - m) = i
      BY <1>1, <2>2
    <3>. QED
      BY <1>4, <1>5, <3>1
  <2>3. i <= m \/ i > m
    BY <1>1
  <2>. QED
    BY <2>1, <2>2, <2>3
<1>7. a \o b = c
  BY <1>4, <1>5, <1>6, SeqEqual
<1>. QED
  BY <1>3, <1>7 DEF a, b, c

\* The parts of a sequence, put together again.
Grows(f, s, T) == /\ f[0] = <<>>
                  /\ \A n \in Nat : f[n] \in Seq(T)
                  /\ \A i \in 1..Len(s) : f[i] = f[i - 1] \o s[i]

LEMMA GrowsAt ==
  ASSUME NEW T, NEW s \in Seq(Seq(T)), NEW f, Grows(f, s, T), NEW i \in 1..Len(s)
  PROVE  /\ i - 1 \in Nat /\ f[i - 1] \in Seq(T) /\ s[i] \in Seq(T) /\ f[i] \in Seq(T)
         /\ f[i] = f[i - 1] \o s[i]
<1>1. i \in Nat /\ i - 1 \in Nat
  OBVIOUS
<1>2. s[i] \in Seq(T)
  BY ElementOfSeq
<1>3. f[i - 1] \in Seq(T) /\ f[i] \in Seq(T)
  BY <1>1 DEF Grows
<1>4. f[i] = f[i - 1] \o s[i]
  BY DEF Grows
<1>. QED
  BY <1>1, <1>2, <1>3, <1>4

\* What part i adds, and that what comes by then stays.
Adds(f, s, T, i) ==
  /\ Len(f[i]) = Len(f[i - 1]) + Len(s[i])
  /\ \A j \in 1..Len(f[i - 1]) : f[i][j] = f[i - 1][j]
  /\ \A j \in 1..Len(s[i]) : f[i][Len(f[i - 1]) + j] = s[i][j]
Keeps(f, s, T, i, k) ==
  Len(f[i]) <= Len(f[k]) /\ \A j \in 1..Len(f[i]) : f[k][j] = f[i][j]

LEMMA GrowsBy ==
  ASSUME NEW T, NEW s \in Seq(Seq(T)), NEW f, Grows(f, s, T), NEW i \in 1..Len(s)
  PROVE  Adds(f, s, T, i)
<1>. DEFINE a == f[i - 1]
            b == s[i]
            c == f[i]
<1>1. a \in Seq(T) /\ b \in Seq(T) /\ c = a \o b
  BY GrowsAt
<1>. HIDE DEF a, b, c
<1>2. /\ Len(c) = Len(a) + Len(b)
      /\ \A j \in 1..Len(a) : c[j] = a[j]
      /\ \A j \in 1..Len(b) : c[Len(a) + j] = b[j]
  BY <1>1, Concats
<1>. QED
  BY <1>2 DEF a, b, c, Adds

LEMMA GrowthExists ==
  ASSUME NEW T, NEW s \in Seq(Seq(T))
  PROVE  \E f : Grows(f, s, T)
<1>. DEFINE S == Seq(T)
            step(n, f) == IF n \in 1..Len(s) THEN f[n - 1] \o s[n] ELSE <<>>
            H == [n \in Nat |-> [f \in [Nat -> S] |-> step(n, f)]]
<1>1. S # {}
  BY EmptySeq
<1>2. ASSUME NEW n \in Nat, NEW f \in [Nat -> S]
      PROVE  step(n, f) \in S
  <2>1. CASE n \in 1..Len(s)
    <3>1. f[n - 1] \in S /\ s[n] \in S
      BY <2>1
    <3>. QED
      BY <2>1, <3>1
  <2>2. CASE n \notin 1..Len(s)
    BY <2>2, EmptySeq
  <2>. QED
    BY <2>1, <2>2
<1>3. ASSUME NEW n \in Nat, NEW f \in [Nat -> S], NEW g \in [Nat -> S],
             \A m \in Nat : m < n => f[m] = g[m]
      PROVE  step(n, f) = step(n, g)
  <2>1. n \in 1..Len(s) => f[n - 1] = g[n - 1]
    BY <1>3
  <2>. QED
    BY <2>1
<1>. HIDE DEF step, S
<1>4. H \in [Nat -> [[Nat -> S] -> S]]
  BY <1>2
<1>5. \A n \in Nat : \A f \in [Nat -> S] : H[n][f] = step(n, f)
  OBVIOUS
<1>6. \A n \in Nat : \A f, g \in [Nat -> S] :
        (\A m \in Nat : m < n => f[m] = g[m]) => H[n][f] = H[n][g]
  BY <1>3, <1>5
<1>. HIDE DEF H
<1>7. Computes(H, S)
  BY <1>4, <1>6 DEF Computes
<1>8. PICK f \in [Nat -> S] : Unfolds(f, H)
  BY <1>1, <1>7, Recursion
<1>9. \A n \in Nat : f[n] = step(n, f)
  BY <1>5, <1>8 DEF Unfolds
<1>10. f[0] = <<>>
  <2>1. 0 \notin 1..Len(s)
    OBVIOUS
  <2>. QED
    BY <1>9, <2>1 DEF step
<1>11. \A i \in 1..Len(s) : f[i] = f[i - 1] \o s[i]
  <2>1. \A i \in 1..Len(s) : i \in Nat
    OBVIOUS
  <2>. QED
    BY <1>9, <2>1 DEF step
<1>12. \A n \in Nat : f[n] \in Seq(T)
  BY DEF S
<1>. QED
  BY <1>10, <1>11, <1>12 DEF Grows

LEMMA FlattenIs ==
  ASSUME NEW T, NEW s \in Seq(Seq(T)), NEW f, Grows(f, s, T)
  PROVE  FlattenSeq(s) = f[Len(s)]
<1>1. CASE Len(s) = 0
  BY <1>1 DEF FlattenSeq, Grows
<1>2. CASE Len(s) # 0
  <2>. DEFINE n == Len(s)
              Eq(g) == g = [i \in 1..n |-> IF i = 1 THEN s[i] ELSE g[i - 1] \o s[i]]
              g == CHOOSE g : Eq(g)
              h == [i \in 1..n |-> f[i]]
  <2>1. n \in Nat /\ n >= 1
    BY <1>2
  <2>2. Eq(h)
    <3>1. ASSUME NEW i \in 1..n
          PROVE  h[i] = IF i = 1 THEN s[i] ELSE h[i - 1] \o s[i]
      <4>1. f[i] = f[i - 1] \o s[i] /\ s[i] \in Seq(T)
        BY GrowsAt
      <4>2. CASE i = 1
        <5>1. f[i - 1] = <<>>
          BY <4>2 DEF Grows
        <5>. QED
          BY <4>1, <4>2, <5>1
      <4>3. CASE i # 1
        <5>1. i - 1 \in 1..n
          BY <4>3
        <5>. QED
          BY <4>1, <4>3, <5>1
      <4>. QED
        BY <4>2, <4>3
    <3>2. h = [i \in 1..n |-> h[i]]
      OBVIOUS
    <3>. HIDE DEF h
    <3>. QED
      BY <3>1, <3>2
  <2>3. Eq(g)
    <3>. HIDE DEF Eq, h
    <3>. QED
      BY <2>2
  <2>4. \A i \in 1..n : g[i] = IF i = 1 THEN s[i] ELSE g[i - 1] \o s[i]
    <3>. HIDE DEF g
    <3>. QED
      BY <2>3
  <2>. DEFINE X == {i \in Nat : i \in 1..n => g[i] = f[i]}
  <2>5. ASSUME NEW i \in Nat, \A m \in Nat : m < i => m \in X
        PROVE  i \in X
    <3>. SUFFICES ASSUME i \in 1..n
                  PROVE  g[i] = f[i]
      OBVIOUS
    <3>1. f[i] = f[i - 1] \o s[i] /\ s[i] \in Seq(T)
      BY GrowsAt
    <3>2. CASE i = 1
      <4>1. f[i] = s[i]
        <5>1. f[i - 1] = <<>>
          BY <3>2 DEF Grows
        <5>. QED
          BY <3>1, <5>1
      <4>. HIDE DEF g
      <4>. QED
        BY <2>4, <3>2, <4>1
    <3>3. CASE i # 1
      <4>1. i - 1 \in Nat /\ i - 1 < i /\ i - 1 \in 1..n
        BY <3>3
      <4>2. g[i - 1] = f[i - 1]
        BY <2>5, <4>1
      <4>. HIDE DEF g
      <4>. QED
        BY <2>4, <3>1, <3>3, <4>2
    <3>. QED
      BY <3>2, <3>3
  <2>. HIDE DEF X
  <2>6. Nat \subseteq X
    BY <2>5, Induction
  <2>7. g[n] = f[n]
    <3>. HIDE DEF g, n
    <3>1. n \in X /\ n \in 1..n
      BY <2>1, <2>6
    <3>. QED
      BY <3>1 DEF X
  <2>8. FlattenSeq(s) = g[n]
    BY <1>2 DEF FlattenSeq
  <2>. QED
    BY <2>7, <2>8
<1>. QED
  BY <1>1, <1>2

\* What is put together last does not change what came before.
LEMMA GrowthKeeps ==
  ASSUME NEW T, NEW s \in Seq(Seq(T)), NEW f, Grows(f, s, T),
         NEW k \in 0..Len(s), NEW i \in 0..k
  PROVE  Keeps(f, s, T, i, k)
<1>. DEFINE X == {n \in Nat : n <= Len(s) => \A m \in 0..n : Keeps(f, s, T, m, n)}
<1>1. ASSUME NEW n \in Nat, \A m \in Nat : m < n => m \in X
      PROVE  n \in X
  <2>. SUFFICES ASSUME n <= Len(s), NEW m \in 0..n
                PROVE  Keeps(f, s, T, m, n)
    OBVIOUS
  <2>0. \A o \in 0..n : Len(f[o]) \in Nat
    <3>1. \A o \in 0..n : f[o] \in Seq(T)
      BY DEF Grows
    <3>. QED
      BY <3>1
  <2>1. CASE m = n
    BY <2>0, <2>1 DEF Keeps
  <2>2. CASE m # n
    <3>1. n - 1 \in Nat /\ n - 1 < n /\ n - 1 \in 0..n /\ m \in 0..(n - 1) /\ n \in 1..Len(s)
          /\ n - 1 <= Len(s)
      BY <2>2
    <3>2. Keeps(f, s, T, m, n - 1)
      BY <1>1, <3>1
    <3>3. Adds(f, s, T, n)
      BY <3>1, GrowsBy
    <3>4. s[n] \in Seq(T)
      BY <3>1, GrowsAt
    <3>5. PICK a, b, c, d : a = Len(f[m]) /\ b = Len(f[n - 1]) /\ c = Len(s[n]) /\ d = Len(f[n])
      OBVIOUS
    <3>6. a \in Nat /\ b \in Nat /\ c \in Nat /\ d \in Nat
      BY <2>0, <3>1, <3>4, <3>5
    <3>7. a <= b /\ \A j \in 1..a : f[n - 1][j] = f[m][j]
      BY <3>2, <3>5 DEF Keeps
    <3>8. d = b + c /\ \A j \in 1..b : f[n][j] = f[n - 1][j]
      BY <3>3, <3>5 DEF Adds
    <3>9. a <= d /\ \A j \in 1..a : f[n][j] = f[m][j]
      BY <3>6, <3>7, <3>8
    <3>. QED
      BY <3>5, <3>9 DEF Keeps
  <2>. QED
    BY <2>1, <2>2
<1>. HIDE DEF X
<1>2. Nat \subseteq X
  BY <1>1, Induction
<1>3. k \in Nat /\ k <= Len(s)
  OBVIOUS
<1>. QED
  BY <1>2, <1>3 DEF X

\* What stands at a place in the data.
At(raw, pos, x) ==
  /\ pos + Len(x) <= Len(raw)
  /\ \A i \in 1..Len(x) : raw[pos + i] = x[i]

LEMMA AtBegin ==
  ASSUME NEW T, NEW x \in Seq(T), NEW y \in Seq(T)
  PROVE  At(x \o y, 0, x) /\ At(x \o y, Len(x), y)
<1>1. Len(x) \in Nat /\ Len(y) \in Nat
  OBVIOUS
<1>2. /\ Len(x \o y) = Len(x) + Len(y)
      /\ \A i \in 1..Len(x) : (x \o y)[i] = x[i]
      /\ \A i \in 1..Len(y) : (x \o y)[Len(x) + i] = y[i]
  BY Concats
<1>. QED
  BY <1>1, <1>2 DEF At

\* A part of what stands in the data.
LEMMA AtInside ==
  ASSUME NEW T, NEW raw \in Seq(T), NEW x \in Seq(T), NEW y \in Seq(T),
         NEW p \in Nat, NEW q \in Nat, At(raw, p, x), At(x, q, y)
  PROVE  At(raw, p + q, y)
<1>1. Len(raw) \in Nat /\ Len(x) \in Nat /\ Len(y) \in Nat
  OBVIOUS
<1>2. PICK m, n : m = Len(x) /\ n = Len(y)
  OBVIOUS
<1>3. ASSUME NEW i \in 1..n PROVE raw[p + q + i] = y[i]
  <2>1. q + i \in 1..m /\ p + (q + i) = p + q + i
    BY <1>1, <1>2 DEF At
  <2>2. raw[p + (q + i)] = x[q + i]
    BY <1>2, <2>1 DEF At
  <2>3. x[q + i] = y[i]
    BY <1>2 DEF At
  <2>. QED
    BY <2>1, <2>2, <2>3
<1>4. p + q + n <= Len(raw)
  BY <1>1, <1>2 DEF At
<1>. QED
  BY <1>2, <1>3, <1>4 DEF At
=============================================================================
