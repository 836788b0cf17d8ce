----------------------------- MODULE CodecProof -----------------------------
(***************************************************************************)
(* Proofs about the codecs, for every value they take, whatever its length *)
(* and its nesting: what is encoded is decoded again, and so no two values *)
(* share an encoding; a wire that ends too early or too late decodes to    *)
(* nothing; and what is decoded takes no more bytes when it is encoded.    *)
(***************************************************************************)
EXTENDS Preimages, BaseCodecs, Mnemonic, CommonLemmas, FiniteSetTheorems

-----------------------------------------------------------------------------
(* Numbers and their digits.                                               *)

\* The values of the digits up to each place.
Sofar(f, digits, base) ==
  /\ f \in [0..Len(digits) -> Nat] /\ f[0] = 0
  /\ \A i \in 1..Len(digits) : f[i] = f[i - 1] * base + digits[i]

\* Two functions that start the same, and go on the same, are the same.
LEMMA Agree ==
  ASSUME NEW n \in Nat, NEW f, NEW g, f[0] = g[0],
         \A i \in 1..n : f[i - 1] = g[i - 1] => f[i] = g[i]
  PROVE  f[n] = g[n]
<1>. DEFINE X == {i \in Nat : i <= n => f[i] = g[i]}
<1>1. 0 \in X
  OBVIOUS
<1>2. ASSUME NEW i \in Nat, i \in X PROVE i + 1 \in X
  <2>. SUFFICES ASSUME i + 1 <= n PROVE f[i + 1] = g[i + 1]
    OBVIOUS
  <2>1. i + 1 \in 1..n /\ (i + 1) - 1 = i /\ i <= n
    OBVIOUS
  <2>. QED
    BY <1>2, <2>1
<1>. HIDE DEF X
<1>3. n \in X
  BY <1>1, <1>2, StepInduction
<1>. QED
  BY <1>3 DEF X

LEMMA NumberSteps ==
  ASSUME NEW base \in Nat, NEW digits \in Seq(Nat)
  PROVE  \E f : Sofar(f, digits, base) /\ Number(digits, base) = f[Len(digits)]
<1>a. PICK n \in Nat : n = Len(digits)
  BY LenProperties
<1>. DEFINE step(i, x) == IF i \in 1..n THEN x * base + digits[i] ELSE 0
            h == [i \in Nat |-> [x \in Nat |-> step(i, x)]]
            Eq(g) == g = [i \in 0..n |-> IF i = 0 THEN 0 ELSE g[i - 1] * base + digits[i]]
            g == CHOOSE g : Eq(g)
<1>0. n \in Nat /\ \A i \in 1..n : digits[i] \in Nat
  BY <1>a, ElementOfSeq
<1>1. ASSUME NEW i \in Nat, NEW x \in Nat PROVE step(i, x) \in Nat
  <2>1. ASSUME NEW d \in Nat PROVE x * base + d \in Nat
    OBVIOUS
  <2>2. i \in 1..n => digits[i] \in Nat
    BY <1>0
  <2>. QED
    BY <2>1, <2>2
<1>2. h \in [Nat -> [Nat -> Nat]] /\ \A i \in Nat : \A x \in Nat : h[i][x] = step(i, x)
  BY <1>1
<1>. HIDE DEF h
<1>3. PICK f \in [Nat -> Nat] : Iterates(f, 0, h)
  BY <1>2, Iteration
<1>. DEFINE r == [i \in 0..n |-> f[i]]
<1>4. \A i \in 0..n : i \in Nat /\ f[i] \in Nat
  BY <1>0
<1>5. ASSUME NEW i \in 1..n PROVE r[i] = r[i - 1] * base + digits[i]
  <2>1. i \in Nat \ {0} /\ i - 1 \in Nat /\ i - 1 \in 0..n /\ i \in 0..n
    OBVIOUS
  <2>2. f[i] = h[i][f[i - 1]]
    BY <1>3, <2>1 DEF Iterates
  <2>3. f[i - 1] \in Nat
    BY <2>1
  <2>4. f[i] = step(i, f[i - 1])
    BY <1>2, <2>1, <2>2, <2>3
  <2>. QED
    BY <2>1, <2>4
<1>6. r \in [0..n -> Nat] /\ r[0] = 0
  <2>1. f[0] = 0
    BY <1>3 DEF Iterates
  <2>2. 0 \in 0..n
    BY <1>0
  <2>. QED
    BY <1>4, <2>1, <2>2
<1>. HIDE DEF r
<1>7. Eq(r)
  <2>1. \A i \in 0..n : i # 0 => i \in 1..n
    BY <1>0
  <2>2. \A i \in 0..n : r[i] = IF i = 0 THEN 0 ELSE r[i - 1] * base + digits[i]
    BY <1>5, <1>6, <2>1
  <2>3. r = [i \in 0..n |-> r[i]]
    BY <1>6
  <2>. QED
    BY <2>2, <2>3
<1>8. Eq(g)
  <2>. HIDE DEF Eq
  <2>. QED
    BY <1>7
<1>9. DOMAIN g = 0..n /\ \A i \in 0..n : g[i] = IF i = 0 THEN 0 ELSE g[i - 1] * base + digits[i]
  <2>. HIDE DEF g
  <2>. QED
    BY <1>8
<1>10. Number(digits, base) = g[n]
  BY <1>a DEF Number, Fold
<1>. HIDE DEF g
<1>14. g[n] = r[n]
  <2>1. ASSUME NEW i \in 1..n, g[i - 1] = r[i - 1] PROVE g[i] = r[i]
    <3>1. i \in 0..n /\ i # 0
      OBVIOUS
    <3>. QED
      BY <1>5, <1>9, <2>1, <3>1
  <2>2. g[0] = r[0]
    <3>1. 0 \in 0..n
      OBVIOUS
    <3>. QED
      BY <1>6, <1>9, <3>1
  <2>. QED
    BY <2>1, <2>2, Agree
<1>15. Sofar(r, digits, base)
  BY <1>a, <1>5, <1>6 DEF Sofar
<1>. QED
  BY <1>a, <1>10, <1>14, <1>15

LEMMA NumberOf ==
  ASSUME NEW base \in Nat, NEW s \in Seq(Nat), NEW x \in Nat
  PROVE  /\ Number(s, base) \in Nat /\ Number(<<>>, base) = 0
         /\ Number(Append(s, x), base) = Number(s, base) * base + x
<1>0. Append(s, x) \in Seq(Nat) /\ <<>> \in Seq(Nat) /\ Len(<<>>) = 0
  OBVIOUS
<1>1. PICK f : Sofar(f, s, base) /\ Number(s, base) = f[Len(s)]
  BY NumberSteps
<1>2. PICK g : Sofar(g, Append(s, x), base) /\ Number(Append(s, x), base) = g[Len(Append(s, x))]
  BY <1>0, NumberSteps
<1>3. PICK e : Sofar(e, <<>>, base) /\ Number(<<>>, base) = e[0]
  BY <1>0, NumberSteps
<1>4. PICK n \in Nat : n = Len(s)
  BY LenProperties
<1>5. Len(Append(s, x)) = n + 1 /\ Append(s, x)[n + 1] = x /\ \A i \in 1..n : Append(s, x)[i] = s[i]
  BY <1>4, AppendProperties
<1>6. f \in [0..n -> Nat] /\ f[0] = 0 /\ \A i \in 1..n : f[i] = f[i - 1] * base + s[i]
  BY <1>1, <1>4 DEF Sofar
<1>7. g[0] = 0 /\ \A i \in 1..(n + 1) : g[i] = g[i - 1] * base + Append(s, x)[i]
  BY <1>2, <1>5 DEF Sofar
<1>11. g[n] = f[n] /\ f[n] \in Nat
  <2>1. ASSUME NEW i \in 1..n, g[i - 1] = f[i - 1] PROVE g[i] = f[i]
    <3>1. i \in 1..(n + 1)
      OBVIOUS
    <3>. QED
      BY <1>5, <1>6, <1>7, <2>1, <3>1
  <2>2. g[n] = f[n]
    <3>1. g[0] = f[0]
      BY <1>6, <1>7
    <3>. QED
      BY <2>1, <3>1, Agree
  <2>3. n \in 0..n
    OBVIOUS
  <2>. QED
    BY <1>6, <2>2, <2>3
<1>12. g[n + 1] = g[n] * base + x
  <2>1. n + 1 \in 1..(n + 1) /\ (n + 1) - 1 = n
    OBVIOUS
  <2>. QED
    BY <1>5, <1>7, <2>1
<1>13. e[0] = 0
  BY <1>3 DEF Sofar
<1>. QED
  BY <1>1, <1>2, <1>3, <1>4, <1>5, <1>11, <1>12, <1>13

LEMMA QuotientLess ==
  ASSUME NEW base \in Nat, 1 < base, NEW n \in Nat, n # 0
  PROVE  /\ n \div base \in Nat /\ n \div base < n
         /\ n % base \in 0..(base - 1) /\ n % base \in Nat
         /\ n = (n \div base) * base + (n % base)
<1>1. PICK q, r : q = n \div base /\ r = n % base
  OBVIOUS
<1>2. q \in Nat /\ r \in 0..(base - 1) /\ n = q * base + r
  BY <1>1, Quotient
<1>3. q < n
  <2>1. CASE q = 0
    BY <2>1
  <2>2. CASE q >= 1
    <3>1. q * base >= q * 2
      BY <1>2, <2>2
    <3>. QED
      BY <1>2, <2>2, <3>1
  <2>. QED
    BY <1>2, <2>1, <2>2
<1>. QED
  BY <1>1, <1>2, <1>3

LEMMA QuotientGrows ==
  ASSUME NEW base \in Nat, 1 < base, NEW n \in Nat, NEW m \in Nat, m <= n
  PROVE  m \div base <= n \div base
<1>1. PICK p \in Nat, r \in 0..(base - 1) : p = m \div base /\ m = p * base + r
  BY Quotient
<1>2. PICK q \in Nat, s \in 0..(base - 1) : q = n \div base /\ n = q * base + s
  BY Quotient
<1>3. ASSUME p >= q + 1 PROVE FALSE
  <2>1. p * base >= (q + 1) * base /\ (q + 1) * base = q * base + base
    BY <1>3
  <2>. QED
    BY <1>1, <1>2, <2>1
<1>. QED
  BY <1>1, <1>2, <1>3

\* A sequence is its last element after those before it.
LEMMA LastSplit ==
  ASSUME NEW T, NEW n \in Nat, NEW s \in Seq(T), Len(s) = n + 1
  PROVE  /\ SubSeq(s, 1, n) \in Seq(T) /\ Len(SubSeq(s, 1, n)) = n /\ s[n + 1] \in T
         /\ s = Append(SubSeq(s, 1, n), s[n + 1])
<1>1. s[n + 1] \in T
  BY ElementOfSeq
<1>2. /\ SubSeq(s, 1, n) \in Seq(T) /\ Len(SubSeq(s, 1, n)) = n
      /\ \A i \in 1..n : SubSeq(s, 1, n)[i] = s[i]
  BY PartIs
<1>3. PICK p : p = SubSeq(s, 1, n)
  OBVIOUS
<1>4. /\ Append(p, s[n + 1]) \in Seq(T) /\ Len(Append(p, s[n + 1])) = n + 1
      /\ \A i \in 1..n : Append(p, s[n + 1])[i] = s[i]
      /\ Append(p, s[n + 1])[n + 1] = s[n + 1]
  BY <1>1, <1>2, <1>3, AppendProperties
<1>5. \A i \in 1..(n + 1) : Append(p, s[n + 1])[i] = s[i]
  BY <1>4
<1>6. s = Append(p, s[n + 1])
  BY <1>4, <1>5, SeqEqual
<1>. QED
  BY <1>1, <1>2, <1>3, <1>6

\* The digits of a number are those of its quotient and its remainder.
LEMMA SpelledUnfolds ==
  ASSUME NEW base \in Nat, 1 < base
  PROVE  \A n \in Nat : Spelled(n, base) =
           IF n = 0 THEN <<>> ELSE Append(Spelled(n \div base, base), n % base)
<1>. DEFINE S == Seq(Nat)
            step(n, f) == IF n = 0 THEN <<>> ELSE Append(f[n \div base], n % base)
            H == [n \in Nat |-> [f \in [Nat -> S] |-> step(n, f)]]
            Eq(f) == f = [n \in Nat |-> step(n, f)]
            g == CHOOSE g : Eq(g)
<1>1. \A n \in Nat : n # 0 => n \div base \in Nat /\ n \div base < n /\ n % base \in Nat
  BY QuotientLess
<1>2. S # {} /\ <<>> \in S
  BY EmptySeq
<1>3. ASSUME NEW n \in Nat, NEW f \in [Nat -> S] PROVE step(n, f) \in S
  <2>1. CASE n = 0
    BY <1>2, <2>1
  <2>2. CASE n # 0
    <3>1. f[n \div base] \in S /\ n % base \in Nat
      BY <1>1, <2>2
    <3>. QED
      BY <2>2, <3>1, AppendProperties
  <2>. QED
    BY <2>1, <2>2
<1>4. ASSUME NEW n \in Nat, NEW f \in [Nat -> S], NEW k \in [Nat -> S],
             \A m \in Nat : m < n => f[m] = k[m]
      PROVE  step(n, f) = step(n, k)
  <2>1. n # 0 => f[n \div base] = k[n \div base]
    BY <1>1, <1>4
  <2>. QED
    BY <2>1
<1>. HIDE DEF step, S
<1>5. H \in [Nat -> [[Nat -> S] -> S]] /\ \A n \in Nat : \A f \in [Nat -> S] : H[n][f] = step(n, f)
  BY <1>3
<1>. HIDE DEF H
<1>6. Computes(H, S)
  <2>1. ASSUME NEW n \in Nat, NEW f \in [Nat -> S], NEW k \in [Nat -> S],
               \A m \in Nat : m < n => f[m] = k[m]
        PROVE  H[n][f] = H[n][k]
    <3>1. step(n, f) = step(n, k)
      BY <1>4, <2>1
    <3>. QED
      BY <1>5, <3>1
  <2>. QED
    BY <1>5, <2>1 DEF Computes
<1>7. PICK f \in [Nat -> S] : Unfolds(f, H)
  BY <1>2, <1>6, Recursion
<1>8. Eq(f)
  <2>1. f = [n \in Nat |-> f[n]]
    OBVIOUS
  <2>2. \A n \in Nat : f[n] = step(n, f)
    BY <1>5, <1>7 DEF Unfolds
  <2>. QED
    BY <2>1, <2>2
<1>9. Eq(g)
  <2>. HIDE DEF Eq
  <2>. QED
    BY <1>8
<1>10. \A n \in Nat : Spelled(n, base) = g[n]
  BY DEF Spelled, step
<1>. HIDE DEF g
<1>11. \A n \in Nat : g[n] = step(n, g)
  BY <1>9
<1>12. ASSUME NEW n \in Nat
       PROVE  Spelled(n, base) =
                IF n = 0 THEN <<>> ELSE Append(Spelled(n \div base, base), n % base)
  <2>1. n # 0 => g[n \div base] = Spelled(n \div base, base)
    BY <1>1, <1>10
  <2>2. g[n] = IF n = 0 THEN <<>> ELSE Append(g[n \div base], n % base)
    BY <1>11 DEF step
  <2>. QED
    BY <1>10, <2>1, <2>2
<1>. QED
  BY <1>12

LEMMA SpelledTyped ==
  ASSUME NEW base \in Nat, 1 < base, NEW n \in Nat
  PROVE  Spelled(n, base) \in Seq(0..(base - 1)) /\ Spelled(n, base) \in Seq(Nat)
<1>. DEFINE X == {m \in Nat : Spelled(m, base) \in Seq(0..(base - 1))}
<1>1. ASSUME NEW m \in Nat, \A k \in Nat : k < m => k \in X
      PROVE  m \in X
  <2>1. Spelled(m, base) = IF m = 0 THEN <<>> ELSE Append(Spelled(m \div base, base), m % base)
    BY SpelledUnfolds
  <2>2. CASE m = 0
    BY <2>1, <2>2, EmptySeq
  <2>3. CASE m # 0
    <3>1. m \div base \in Nat /\ m \div base < m /\ m % base \in 0..(base - 1)
      BY <2>3, QuotientLess
    <3>2. Spelled(m \div base, base) \in Seq(0..(base - 1))
      BY <1>1, <3>1
    <3>3. \A S : \A s \in Seq(S) : \A x \in S : Append(s, x) \in Seq(S)
      BY AppendProperties
    <3>4. Append(Spelled(m \div base, base), m % base) \in Seq(0..(base - 1))
      BY <3>1, <3>2, <3>3
    <3>. QED
      BY <2>1, <2>3, <3>4
  <2>. QED
    BY <2>2, <2>3
<1>. HIDE DEF X
<1>2. n \in X
  BY <1>1, Induction
<1>3. Spelled(n, base) \in Seq(0..(base - 1))
  BY <1>2 DEF X
<1>4. \A s \in Seq(0..(base - 1)) : s \in Seq(Nat)
  OBVIOUS
<1>. QED
  BY <1>3, <1>4

\* A number is what its digits spell.
LEMMA NumberSpelled ==
  ASSUME NEW base \in Nat, 1 < base, NEW n \in Nat
  PROVE  Number(Spelled(n, base), base) = n
<1>. DEFINE X == {m \in Nat : Number(Spelled(m, base), base) = m}
<1>1. ASSUME NEW m \in Nat, \A k \in Nat : k < m => k \in X
      PROVE  m \in X
  <2>1. Spelled(m, base) = IF m = 0 THEN <<>> ELSE Append(Spelled(m \div base, base), m % base)
    BY SpelledUnfolds
  <2>2. CASE m = 0
    <3>1. <<>> \in Seq(Nat)
      OBVIOUS
    <3>. QED
      BY <2>1, <2>2, <3>1, NumberOf
  <2>3. CASE m # 0
    <3>1. PICK q, r : q = m \div base /\ r = m % base
      OBVIOUS
    <3>2. q \in Nat /\ q < m /\ r \in 0..(base - 1) /\ r \in Nat /\ m = q * base + r
      BY <2>3, <3>1, QuotientLess
    <3>3. Number(Spelled(q, base), base) = q
      BY <1>1, <3>2
    <3>4. Spelled(q, base) \in Seq(Nat)
      BY <3>2, SpelledTyped
    <3>5. Number(Append(Spelled(q, base), r), base) = q * base + r
      BY <3>2, <3>3, <3>4, NumberOf
    <3>. QED
      BY <2>1, <2>3, <3>1, <3>2, <3>5
  <2>. QED
    BY <2>2, <2>3
<1>. HIDE DEF X
<1>2. n \in X
  BY <1>1, Induction
<1>. QED
  BY <1>2 DEF X

\* A greater number has no fewer digits.
LEMMA SpelledGrows ==
  ASSUME NEW base \in Nat, 1 < base, NEW n \in Nat, NEW m \in Nat, m <= n
  PROVE  Len(Spelled(m, base)) <= Len(Spelled(n, base))
<1>. DEFINE D(k) == Len(Spelled(k, base))
            X == {k \in Nat : \A j \in Nat : j <= k => D(j) <= D(k)}
<1>0. \A k \in Nat : D(k) \in Nat
  BY SpelledTyped, LenProperties
<1>1. ASSUME NEW k \in Nat, k # 0
      PROVE  k \div base \in Nat /\ k \div base < k /\ D(k) = D(k \div base) + 1
  <2>1. k \div base \in Nat /\ k \div base < k /\ k % base \in Nat
    BY <1>1, QuotientLess
  <2>2. Spelled(k, base) = Append(Spelled(k \div base, base), k % base)
    BY <1>1, SpelledUnfolds
  <2>3. Spelled(k \div base, base) \in Seq(Nat)
    BY <2>1, SpelledTyped
  <2>. QED
    BY <2>1, <2>2, <2>3, AppendProperties
<1>2. D(0) = 0
  BY SpelledUnfolds
<1>. HIDE DEF D
<1>3. ASSUME NEW k \in Nat, \A i \in Nat : i < k => i \in X
      PROVE  k \in X
  <2>. SUFFICES ASSUME NEW j \in Nat, j <= k PROVE D(j) <= D(k)
    OBVIOUS
  <2>1. CASE j = 0
    BY <1>0, <1>2, <2>1
  <2>2. CASE j # 0
    <3>1. k # 0
      BY <2>2
    <3>2. PICK p, q : p = j \div base /\ q = k \div base
      OBVIOUS
    <3>3. p \in Nat /\ q \in Nat /\ q < k /\ D(j) = D(p) + 1 /\ D(k) = D(q) + 1
      BY <1>1, <2>2, <3>1, <3>2
    <3>4. p <= q
      BY <3>2, QuotientGrows
    <3>5. D(p) <= D(q)
      BY <1>3, <3>3, <3>4
    <3>. QED
      BY <1>0, <3>3, <3>5
  <2>. QED
    BY <2>1, <2>2
<1>. HIDE DEF X
<1>4. n \in X
  BY <1>3, Induction
<1>. QED
  BY <1>4 DEF X, D

\* No digits spell a number in fewer places than its own digits take.
LEMMA SpelledLeast ==
  ASSUME NEW base \in Nat, 1 < base, NEW s \in Seq(0..(base - 1))
  PROVE  Len(Spelled(Number(s, base), base)) <= Len(s)
<1>. DEFINE X == {n \in Nat : \A u \in Seq(0..(base - 1)) :
                     Len(u) = n => Len(Spelled(Number(u, base), base)) <= n}
<1>0. \A u \in Seq(0..(base - 1)) : u \in Seq(Nat)
  OBVIOUS
<1>1. 0 \in X
  <2>. SUFFICES ASSUME NEW u \in Seq(0..(base - 1)), Len(u) = 0
                PROVE  Len(Spelled(Number(u, base), base)) <= 0
    OBVIOUS
  <2>1. u = <<>>
    BY EmptySeq
  <2>2. Number(<<>>, base) = 0
    BY <1>0, NumberOf
  <2>3. Spelled(0, base) = <<>>
    BY SpelledUnfolds
  <2>. QED
    BY <2>1, <2>2, <2>3
<1>2. ASSUME NEW n \in Nat, n \in X PROVE n + 1 \in X
  <2>. SUFFICES ASSUME NEW u \in Seq(0..(base - 1)), Len(u) = n + 1
                PROVE  Len(Spelled(Number(u, base), base)) <= n + 1
    OBVIOUS
  <2>1. PICK p \in Seq(0..(base - 1)), x \in 0..(base - 1) : u = Append(p, x) /\ Len(p) = n
    <3>1. u # <<>>
      OBVIOUS
    <3>2. SubSeq(u, 1, n) \in Seq(0..(base - 1)) /\ Len(SubSeq(u, 1, n)) = n
          /\ u = Append(SubSeq(u, 1, n), u[n + 1]) /\ u[n + 1] \in 0..(base - 1)
      BY <3>1, LastSplit
    <3>. QED
      BY <3>2
  <2>2. p \in Seq(Nat) /\ x \in Nat
    BY <1>0
  <2>3. PICK v : v = Number(p, base)
    OBVIOUS
  <2>4. v \in Nat /\ Number(u, base) = v * base + x
    BY <2>1, <2>2, <2>3, NumberOf
  <2>5. Len(Spelled(v, base)) <= n
    BY <1>2, <2>1, <2>3
  <2>6. PICK w \in Nat : w = v * base + x
    <3>1. \A a, b, c \in Nat : a * b + c \in Nat
      OBVIOUS
    <3>. QED
      BY <2>2, <2>4, <3>1
  <2>7. CASE w = 0
    <3>1. Spelled(0, base) = <<>>
      BY SpelledUnfolds
    <3>. QED
      BY <2>4, <2>6, <2>7, <3>1
  <2>8. CASE w # 0
    <3>1. w \div base = v /\ w % base = x
      <4>1. 0 < base /\ v \in Nat /\ w = v * base + x
        BY <2>4, <2>6
      <4>. QED
        BY <4>1, QuotientIs
    <3>2. Spelled(w, base) = Append(Spelled(v, base), x)
      BY <2>8, <3>1, SpelledUnfolds
    <3>3. Spelled(v, base) \in Seq(Nat)
      BY <2>4, SpelledTyped
    <3>4. Len(Spelled(w, base)) = Len(Spelled(v, base)) + 1 /\ Len(Spelled(v, base)) \in Nat
      BY <2>2, <3>2, <3>3, AppendProperties, LenProperties
    <3>. QED
      BY <2>4, <2>5, <2>6, <3>4
  <2>. QED
    BY <2>7, <2>8
<1>. HIDE DEF X
<1>3. Len(s) \in X
  BY <1>1, <1>2, StepInduction, LenProperties
<1>. QED
  BY <1>3 DEF X

-----------------------------------------------------------------------------
(* Slices, and sequences joined.                                           *)

LEMMA SliceWithin ==
  ASSUME NEW T, NEW raw \in Seq(T), NEW from \in Nat, NEW to \in Nat, from <= to, to <= Len(raw)
  PROVE  /\ Slice(raw, from, to) \in Seq(T) /\ Len(Slice(raw, from, to)) = to - from
         /\ \A i \in 1..(to - from) : Slice(raw, from, to)[i] = raw[from + i]
<1>1. PICK L \in Nat : L = Len(raw)
  BY LenProperties
<1>2. Min({to, L}) = to
  BY <1>1, MinTwo
<1>3. Slice(raw, from, to) = SubSeq(raw, from + 1, to)
  BY <1>1, <1>2 DEF Slice
<1>4. 1 <= from + 1 /\ from + 1 <= to + 1 /\ to - (from + 1) + 1 = to - from
  OBVIOUS
<1>5. /\ SubSeq(raw, from + 1, to) \in Seq(T)
      /\ Len(SubSeq(raw, from + 1, to)) = to - (from + 1) + 1
      /\ \A i \in 1..(to - (from + 1) + 1) : SubSeq(raw, from + 1, to)[i] = raw[(from + 1) + i - 1]
  BY <1>4, PartIs
<1>6. \A i \in 1..(to - from) : (from + 1) + i - 1 = from + i
  OBVIOUS
<1>. QED
  BY <1>3, <1>4, <1>5, <1>6

LEMMA SliceTyped ==
  ASSUME NEW T, NEW raw \in Seq(T), NEW from \in Nat, NEW to \in Nat
  PROVE  Slice(raw, from, to) \in Seq(T)
<1>1. PICK L \in Nat : L = Len(raw)
  BY LenProperties
<1>2. PICK e \in Nat : e = Min({to, L}) /\ e <= L
  <2>1. Min({to, L}) = IF to <= L THEN to ELSE L
    BY MinTwo
  <2>. QED
    BY <2>1
<1>3. Slice(raw, from, to) = SubSeq(raw, from + 1, e)
  BY <1>1, <1>2 DEF Slice
<1>4. CASE from <= e
  <2>1. 1 <= from + 1 /\ from + 1 <= e + 1
    BY <1>4
  <2>2. from + 1 \in Int /\ e \in Int /\ e <= Len(raw)
    BY <1>1, <1>2
  <2>. QED
    BY <1>3, <2>1, <2>2, PartIs
<1>5. CASE from > e
  <2>1. SubSeq(raw, from + 1, e) = <<>>
    BY <1>5, SubSeqEmpty
  <2>. QED
    BY <1>3, <2>1, EmptySeq
<1>. QED
  BY <1>4, <1>5

LEMMA SliceAt ==
  ASSUME NEW T, NEW raw \in Seq(T), NEW x \in Seq(T), NEW p \in Nat, NEW n \in Nat,
         n = Len(x), At(raw, p, x)
  PROVE  Slice(raw, p, p + n) = x
<1>1. p + n <= Len(raw) /\ \A i \in 1..n : raw[p + i] = x[i]
  BY DEF At
<1>2. p + n \in Nat /\ p <= p + n /\ (p + n) - p = n
  OBVIOUS
<1>3. PICK y : y = Slice(raw, p, p + n)
  OBVIOUS
<1>4. y \in Seq(T) /\ Len(y) = n /\ \A i \in 1..n : y[i] = raw[p + i]
  <2>1. /\ Slice(raw, p, p + n) \in Seq(T) /\ Len(Slice(raw, p, p + n)) = (p + n) - p
        /\ \A i \in 1..((p + n) - p) : Slice(raw, p, p + n)[i] = raw[p + i]
    <3>1. PICK to \in Nat : to = p + n
      BY <1>2
    <3>2. p <= to /\ to <= Len(raw)
      BY <1>1, <1>2, <3>1
    <3>3. /\ Slice(raw, p, to) \in Seq(T) /\ Len(Slice(raw, p, to)) = to - p
          /\ \A i \in 1..(to - p) : Slice(raw, p, to)[i] = raw[p + i]
      BY <3>2, SliceWithin
    <3>. QED
      BY <3>1, <3>3
  <2>. QED
    BY <1>2, <1>3, <2>1
<1>5. \A i \in 1..Len(y) : y[i] = x[i]
  BY <1>1, <1>4
<1>6. y = x
  BY <1>4, <1>5, SeqEqual
<1>. QED
  BY <1>3, <1>6

LEMMA Flattened ==
  ASSUME NEW T, NEW s \in Seq(Seq(T))
  PROVE  FlattenSeq(s) \in Seq(T)
<1>1. PICK f : Grows(f, s, T)
  BY GrowthExists
<1>2. FlattenSeq(s) = f[Len(s)]
  BY <1>1, FlattenIs
<1>3. Len(s) \in Nat
  BY LenProperties
<1>. QED
  BY <1>1, <1>2, <1>3 DEF Grows

\* What comes first stays in front of what the others are joined to.
LEMMA FlattenFirst ==
  ASSUME NEW T, NEW a \in Seq(T), NEW s \in Seq(Seq(T))
  PROVE  FlattenSeq(<<a>> \o s) = a \o FlattenSeq(s)
<1>. DEFINE u == <<a>> \o s
<1>1. PICK n \in Nat : n = Len(s)
  BY LenProperties
<1>2. <<a>> \in Seq(Seq(T)) /\ Len(<<a>>) = 1 /\ <<a>>[1] = a
  OBVIOUS
<1>3. /\ u \in Seq(Seq(T)) /\ Len(u) = 1 + n
      /\ \A i \in 1..1 : u[i] = <<a>>[i]
      /\ \A i \in 1..n : u[1 + i] = s[i]
  BY <1>1, <1>2, Concats
<1>4. u[1] = a
  BY <1>2, <1>3
<1>. HIDE DEF u
<1>5. PICK f : Grows(f, s, T)
  BY GrowthExists
<1>6. PICK g : Grows(g, u, T)
  BY <1>3, GrowthExists
<1>. DEFINE F == [i \in 0..n |-> a \o f[i]]
            G == [i \in 0..n |-> g[i + 1]]
<1>7. F[0] = G[0]
  <2>1. 0 \in 0..n /\ 1 \in 1..Len(u) /\ 1 - 1 = 0 /\ 0 + 1 = 1
    BY <1>3
  <2>2. g[1] = g[0] \o a
    <3>1. \A k \in 1..Len(u) : g[k] = g[k - 1] \o u[k]
      BY <1>6 DEF Grows
    <3>. QED
      BY <1>4, <2>1, <3>1
  <2>3. g[0] = <<>> /\ f[0] = <<>>
    BY <1>5, <1>6 DEF Grows
  <2>4. g[1] = a /\ a \o f[0] = a
    BY <2>2, <2>3, ConcatEmptySeq
  <2>. QED
    BY <2>1, <2>4
<1>8. ASSUME NEW i \in 1..n, F[i - 1] = G[i - 1] PROVE F[i] = G[i]
  <2>1. /\ i \in 0..n /\ i - 1 \in 0..n /\ (i - 1) + 1 = i /\ i + 1 \in 1..Len(u) /\ (i + 1) - 1 = i
        /\ i \in 1..Len(s) /\ 1 + i = i + 1
    BY <1>1, <1>3
  <2>2. f[i] = f[i - 1] \o s[i] /\ f[i - 1] \in Seq(T) /\ s[i] \in Seq(T)
    BY <1>5, <2>1, GrowsAt
  <2>3. g[i + 1] = g[i] \o u[i + 1]
    <3>1. \A k \in 1..Len(u) : g[k] = g[k - 1] \o u[k]
      BY <1>6 DEF Grows
    <3>. QED
      BY <2>1, <3>1
  <2>4. u[i + 1] = s[i]
    BY <1>3, <2>1
  <2>5. g[i] = a \o f[i - 1]
    BY <1>8, <2>1
  <2>6. (a \o f[i - 1]) \o s[i] = a \o (f[i - 1] \o s[i])
    <3>1. \A x, y \in Seq(T) : (a \o x) \o y = a \o (x \o y)
      BY ConcatAssociative
    <3>. QED
      BY <2>2, <3>1
  <2>. QED
    BY <2>1, <2>2, <2>3, <2>4, <2>5, <2>6
<1>9. n \in 0..n /\ n + 1 = 1 + n
  OBVIOUS
<1>10. F[n] = a \o f[n] /\ G[n] = g[1 + n]
  BY <1>9
<1>. HIDE DEF F, G
<1>11. F[n] = G[n]
  BY <1>7, <1>8, Agree
<1>12. FlattenSeq(s) = f[n] /\ FlattenSeq(u) = g[1 + n]
  BY <1>1, <1>3, <1>5, <1>6, FlattenIs
<1>. QED
  BY <1>10, <1>11, <1>12 DEF u

-----------------------------------------------------------------------------
(* Items: a leaf, or a list of items that are nested less deep.            *)

LEMMA ItemsUnfold ==
  \A n \in Nat : ItemsTo[n] = IF n = 0 THEN Leaves ELSE Leaves \cup ListsOf(ItemsTo[n - 1])
<1>. DEFINE Upto(n, g) == /\ g[0] = Leaves
                          /\ \A i \in 1..n : g[i] = Leaves \cup ListsOf(g[i - 1])
            some(n) == CHOOSE g : Upto(n, g)
            X == {n \in Nat : \E g : Upto(n, g)}
<1>1. 0 \in X
  <2>1. PICK g : g = [i \in 0..0 |-> Leaves]
    OBVIOUS
  <2>2. Upto(0, g)
    BY <2>1
  <2>. QED
    BY <2>2
<1>2. ASSUME NEW n \in Nat, n \in X PROVE n + 1 \in X
  <2>1. PICK g : Upto(n, g)
    BY <1>2
  <2>2. PICK h : h = [i \in 0..(n + 1) |-> IF i = 0 THEN Leaves ELSE Leaves \cup ListsOf(g[i - 1])]
    OBVIOUS
  <2>3. \A i \in 0..n : h[i] = g[i]
    <3>1. ASSUME NEW i \in 0..n PROVE h[i] = g[i]
      <4>1. i \in 0..(n + 1) /\ (i # 0 => i \in 1..n)
        OBVIOUS
      <4>. QED
        BY <2>1, <2>2, <4>1
    <3>. QED
      BY <3>1
  <2>4. ASSUME NEW i \in 1..(n + 1) PROVE h[i] = Leaves \cup ListsOf(h[i - 1])
    <3>1. i \in 0..(n + 1) /\ i # 0 /\ i - 1 \in 0..n
      OBVIOUS
    <3>2. h[i - 1] = g[i - 1]
      BY <2>3, <3>1
    <3>. QED
      BY <2>2, <3>1, <3>2
  <2>5. h[0] = Leaves
    <3>1. 0 \in 0..(n + 1)
      OBVIOUS
    <3>. QED
      BY <2>2, <3>1
  <2>. QED
    BY <2>4, <2>5
<1>3. ASSUME NEW n \in Nat PROVE Upto(n, some(n))
  <2>1. n \in X
    <3>. HIDE DEF X
    <3>. QED
      BY <1>1, <1>2, StepInduction
  <2>. QED
    BY <2>1
<1>4. ASSUME NEW n \in Nat, NEW k \in Nat, NEW g, NEW h, n <= k, Upto(n, g), Upto(k, h)
      PROVE  g[n] = h[n]
  <2>1. g[0] = h[0]
    BY <1>4
  <2>2. ASSUME NEW i \in 1..n, g[i - 1] = h[i - 1] PROVE g[i] = h[i]
    <3>1. i \in 1..k
      BY <1>4
    <3>. QED
      BY <1>4, <2>2, <3>1
  <2>. QED
    BY <2>1, <2>2, Agree
<1>. DEFINE lim == [n \in Nat |-> some(n)[n]]
            Eq(f) == f = [n \in Nat |-> IF n = 0 THEN Leaves ELSE Leaves \cup ListsOf(f[n - 1])]
<1>. HIDE DEF some
<1>5. ASSUME NEW n \in Nat PROVE lim[n] = IF n = 0 THEN Leaves ELSE Leaves \cup ListsOf(lim[n - 1])
  <2>1. Upto(n, some(n)) /\ lim[n] = some(n)[n]
    BY <1>3
  <2>2. CASE n = 0
    BY <2>1, <2>2
  <2>3. CASE n # 0
    <3>1. n - 1 \in Nat /\ n - 1 <= n /\ n \in 1..n
      BY <2>3
    <3>2. Upto(n - 1, some(n - 1))
      BY <1>3, <3>1
    <3>3. some(n)[n - 1] = some(n - 1)[n - 1]
      <4>1. Upto(n - 1, some(n))
        BY <2>1, <3>1
      <4>. HIDE DEF Upto
      <4>. QED
        BY <1>4, <3>1, <3>2, <4>1
    <3>4. lim[n - 1] = some(n - 1)[n - 1]
      BY <3>1
    <3>. QED
      BY <2>1, <2>3, <3>1, <3>3, <3>4
  <2>. QED
    BY <2>2, <2>3
<1>6. lim = [n \in Nat |-> lim[n]]
  OBVIOUS
<1>. HIDE DEF lim
<1>7. Eq(lim)
  BY <1>5, <1>6
<1>8. Eq(ItemsTo)
  <2>1. ItemsTo = CHOOSE f : Eq(f)
    BY DEF ItemsTo
  <2>. HIDE DEF Eq
  <2>. QED
    BY <1>7, <2>1
<1>. QED
  BY <1>8

AllItems == UNION {ItemsTo[n] : n \in Nat}

LEMMA Parameters ==
  /\ Base \in Nat /\ Str \in Nat /\ List \in Nat /\ ShortMax \in Nat /\ Nesting \in Nat
  /\ 1 < Base /\ 0 < Str /\ 0 < ShortMax /\ Str + ShortMax < List - 1 /\ List + ShortMax < Base - 1
BY LayoutAssumption

LEMMA ByteIs == Byte \subseteq Nat /\ \A s \in Seq(Byte) : s \in Seq(Nat)
<1>1. Byte \subseteq Nat
  BY Parameters DEF Byte
<1>. QED
  BY <1>1, SeqMonotonic

LEMMA LeafIs ==
  /\ \A item \in Leaves : /\ item.leaf = TRUE /\ item.bytes \in Seq(Byte) /\ item.items = <<>>
                          /\ item = Leaf(item.bytes)
  /\ \A b \in Seq(Byte) : Leaf(b) \in Leaves /\ Leaf(b).leaf = TRUE /\ Leaf(b).bytes = b
<1>1. ASSUME NEW item \in Leaves
      PROVE  /\ item.leaf = TRUE /\ item.bytes \in Seq(Byte) /\ item.items = <<>>
             /\ item = Leaf(item.bytes)
  BY DEF Leaves, Leaf
<1>2. ASSUME NEW b \in Seq(Byte)
      PROVE  Leaf(b) \in Leaves /\ Leaf(b).leaf = TRUE /\ Leaf(b).bytes = b
  BY DEF Leaves, Leaf
<1>. QED
  BY <1>1, <1>2

LEMMA ListIs ==
  ASSUME NEW S
  PROVE  /\ \A item \in ListsOf(S) : /\ item.leaf = FALSE /\ item.items \in Seq(S) /\ item.bytes = <<>>
                                     /\ item = ListOf(item.items)
         /\ \A s \in Seq(S) : ListOf(s) \in ListsOf(S)
         /\ \A s : ListOf(s).leaf = FALSE /\ ListOf(s).items = s
<1>1. ASSUME NEW item \in ListsOf(S)
      PROVE  /\ item.leaf = FALSE /\ item.items \in Seq(S) /\ item.bytes = <<>>
             /\ item = ListOf(item.items)
  BY DEF ListsOf, ListOf
<1>2. ASSUME NEW s \in Seq(S) PROVE ListOf(s) \in ListsOf(S)
  BY DEF ListsOf, ListOf
<1>3. ASSUME NEW s PROVE ListOf(s).leaf = FALSE /\ ListOf(s).items = s
  BY DEF ListOf
<1>. QED
  BY <1>1, <1>2, <1>3

LEMMA ListsGrow ==
  ASSUME NEW S, NEW T, S \subseteq T
  PROVE  ListsOf(S) \subseteq ListsOf(T)
<1>1. ASSUME NEW item \in ListsOf(S) PROVE item \in ListsOf(T)
  <2>1. item.items \in Seq(S) /\ item = ListOf(item.items)
    BY ListIs
  <2>2. item.items \in Seq(T)
    BY <2>1, SeqMonotonic
  <2>3. ListOf(item.items) \in ListsOf(T)
    BY <2>2, ListIs
  <2>. QED
    BY <2>1, <2>3
<1>. QED
  BY <1>1

LEMMA ItemsGrow ==
  ASSUME NEW m \in Nat, NEW n \in Nat, m <= n
  PROVE  ItemsTo[m] \subseteq ItemsTo[n]
<1>. DEFINE X == {k \in Nat : ItemsTo[k] \subseteq ItemsTo[k + 1]}
            Y == {k \in Nat : m <= k => ItemsTo[m] \subseteq ItemsTo[k]}
<1>0. \A k \in Nat : ItemsTo[k + 1] = Leaves \cup ListsOf(ItemsTo[k])
  <2>1. \A k \in Nat : k + 1 \in Nat /\ k + 1 # 0 /\ (k + 1) - 1 = k
    OBVIOUS
  <2>. QED
    BY <2>1, ItemsUnfold
<1>1. 0 \in X
  <2>1. ItemsTo[0] = Leaves
    BY ItemsUnfold
  <2>2. ItemsTo[0 + 1] = Leaves \cup ListsOf(ItemsTo[0])
    BY <1>0
  <2>. QED
    BY <2>1, <2>2
<1>2. ASSUME NEW k \in Nat, k \in X PROVE k + 1 \in X
  <2>1. ListsOf(ItemsTo[k]) \subseteq ListsOf(ItemsTo[k + 1])
    BY <1>2, ListsGrow
  <2>2. k + 1 \in Nat
    OBVIOUS
  <2>3. ItemsTo[k + 1] = Leaves \cup ListsOf(ItemsTo[k])
        /\ ItemsTo[(k + 1) + 1] = Leaves \cup ListsOf(ItemsTo[k + 1])
    BY <1>0, <2>2
  <2>. QED
    BY <2>1, <2>2, <2>3
<1>3. \A k \in Nat : ItemsTo[k] \subseteq ItemsTo[k + 1]
  <2>1. Nat \subseteq X
    <3>. HIDE DEF X
    <3>. QED
      BY <1>1, <1>2, StepInduction
  <2>. QED
    BY <2>1
<1>4. 0 \in Y
  OBVIOUS
<1>5. ASSUME NEW k \in Nat, k \in Y PROVE k + 1 \in Y
  <2>1. m <= k + 1 => m <= k \/ m = k + 1
    OBVIOUS
  <2>2. ItemsTo[k] \subseteq ItemsTo[k + 1]
    BY <1>3
  <2>. QED
    BY <1>5, <2>1, <2>2
<1>. HIDE DEF Y
<1>6. n \in Y
  BY <1>4, <1>5, StepInduction
<1>. QED
  BY <1>6 DEF Y

LEMMA ItemCases ==
  ASSUME NEW n \in Nat, NEW item \in ItemsTo[n]
  PROVE  \/ item \in Leaves
         \/ n # 0 /\ n - 1 \in Nat /\ item \in ListsOf(ItemsTo[n - 1])
<1>1. CASE n = 0
  BY <1>1, ItemsUnfold
<1>2. CASE n # 0
  <2>1. n - 1 \in Nat
    BY <1>2
  <2>2. ItemsTo[n] = Leaves \cup ListsOf(ItemsTo[n - 1])
    BY <1>2, ItemsUnfold
  <2>. QED
    BY <1>2, <2>1, <2>2
<1>. QED
  BY <1>1, <1>2

\* A list of items is an item.
LEMMA ListsAreItems ==
  ASSUME NEW s \in Seq(AllItems)
  PROVE  ListOf(s) \in AllItems
<1>. DEFINE X == {k \in Nat : k <= Len(s) =>
                     \E n \in Nat : \A i \in 1..k : s[i] \in ItemsTo[n]}
<1>0. PICK len \in Nat : len = Len(s)
  BY LenProperties
<1>1. 0 \in X
  OBVIOUS
<1>2. ASSUME NEW k \in Nat, k \in X PROVE k + 1 \in X
  <2>. SUFFICES ASSUME k + 1 <= Len(s)
                PROVE  \E n \in Nat : \A i \in 1..(k + 1) : s[i] \in ItemsTo[n]
    OBVIOUS
  <2>1. k <= Len(s) /\ k + 1 \in 1..Len(s)
    BY <1>0
  <2>2. PICK n \in Nat : \A i \in 1..k : s[i] \in ItemsTo[n]
    BY <1>2, <2>1
  <2>3. PICK m \in Nat : s[k + 1] \in ItemsTo[m]
    <3>1. s[k + 1] \in AllItems
      BY <2>1, ElementOfSeq
    <3>. QED
      BY <3>1 DEF AllItems
  <2>4. PICK j \in Nat : n <= j /\ m <= j
    <3>1. n + m \in Nat /\ n <= n + m /\ m <= n + m
      OBVIOUS
    <3>. QED
      BY <3>1
  <2>5. ItemsTo[n] \subseteq ItemsTo[j] /\ ItemsTo[m] \subseteq ItemsTo[j]
    BY <2>4, ItemsGrow
  <2>6. \A i \in 1..(k + 1) : s[i] \in ItemsTo[j]
    BY <2>2, <2>3, <2>5
  <2>. QED
    BY <2>6
<1>. HIDE DEF X
<1>3. len \in X
  BY <1>1, <1>2, StepInduction
<1>4. PICK n \in Nat : \A i \in 1..len : s[i] \in ItemsTo[n]
  <2>1. len <= Len(s)
    BY <1>0
  <2>2. \E n \in Nat : \A i \in 1..len : s[i] \in ItemsTo[n]
    BY <1>3, <2>1 DEF X
  <2>. QED
    BY <2>2
<1>5. s \in Seq(ItemsTo[n])
  <2>1. s \in [1..len -> ItemsTo[n]]
    BY <1>0, <1>4, LenProperties
  <2>. QED
    BY <2>1, SeqDef
<1>6. ListOf(s) \in ListsOf(ItemsTo[n])
  BY <1>5, ListIs
<1>7. n + 1 \in Nat /\ n + 1 # 0 /\ (n + 1) - 1 = n
  OBVIOUS
<1>8. ListOf(s) \in ItemsTo[n + 1]
  BY <1>6, <1>7, ItemsUnfold
<1>. QED
  BY <1>7, <1>8 DEF AllItems

LEMMA LeavesAreItems == Leaves \subseteq AllItems /\ Leaves \subseteq Items
<1>1. Leaves \subseteq ItemsTo[0] /\ Leaves \subseteq ItemsTo[Nesting]
  BY ItemsUnfold, Parameters
<1>. QED
  BY <1>1 DEF AllItems, Items

\* How deep an item is nested.
Level == [item \in Items |-> CHOOSE n \in Nat : /\ item \in ItemsTo[n]
                                                /\ \A m \in Nat : item \in ItemsTo[m] => n <= m]

LEMMA LevelIs ==
  ASSUME NEW item \in Items
  PROVE  /\ Level[item] \in Nat /\ item \in ItemsTo[Level[item]]
         /\ \A m \in Nat : item \in ItemsTo[m] => Level[item] <= m
<1>. DEFINE M == {n \in Nat : item \in ItemsTo[n]}
<1>1. M \subseteq Nat /\ M # {}
  BY Parameters DEF Items
<1>2. \E n \in M : \A m \in M : n <= m
  <2>. HIDE DEF M
  <2>. QED
    BY <1>1, LeastNatural
<1>3. \E n \in Nat : item \in ItemsTo[n] /\ \A m \in Nat : item \in ItemsTo[m] => n <= m
  BY <1>2
<1>. QED
  BY <1>3 DEF Level

\* The items of a list are items, less deep than the list.
LEMMA ItemParts ==
  ASSUME NEW item \in Items
  PROVE  /\ item.leaf \in BOOLEAN
         /\ item.leaf => item \in Leaves
         /\ ~item.leaf => /\ item.items \in Seq(Items) /\ item = ListOf(item.items)
                          /\ \A i \in 1..Len(item.items) : Level[item.items[i]] < Level[item]
<1>1. PICK n \in Nat : n = Level[item] /\ item \in ItemsTo[n]
  BY LevelIs
<1>2. CASE item \in Leaves
  BY <1>2, LeafIs
<1>3. CASE item \notin Leaves
  <2>1. n # 0 /\ n - 1 \in Nat /\ item \in ListsOf(ItemsTo[n - 1])
    BY <1>1, <1>3, ItemCases
  <2>2. item.leaf = FALSE /\ item.items \in Seq(ItemsTo[n - 1]) /\ item = ListOf(item.items)
    BY <2>1, ListIs
  <2>3. n <= Nesting
    BY <1>1, LevelIs, Parameters DEF Items
  <2>4. ItemsTo[n - 1] \subseteq Items
    <3>1. n - 1 <= Nesting
      BY <2>3, Parameters
    <3>. QED
      BY <2>1, <3>1, ItemsGrow, Parameters DEF Items
  <2>5. item.items \in Seq(Items)
    BY <2>2, <2>4, SeqMonotonic
  <2>6. ASSUME NEW i \in 1..Len(item.items) PROVE Level[item.items[i]] < n
    <3>1. item.items[i] \in ItemsTo[n - 1] /\ item.items[i] \in Items
      BY <2>2, <2>4, ElementOfSeq
    <3>2. Level[item.items[i]] <= n - 1 /\ Level[item.items[i]] \in Nat
      BY <2>1, <3>1, LevelIs
    <3>. QED
      BY <3>2
  <2>. QED
    BY <1>1, <2>2, <2>5, <2>6
<1>. QED
  BY <1>2, <1>3

-----------------------------------------------------------------------------
(* What is encoded.                                                        *)

\* What a header holds that gives a length.
LEMMA MinimalIs ==
  ASSUME NEW n \in Nat
  PROVE  /\ minimal_bytes(n) \in Seq(Byte) /\ minimal_bytes(n) \in Seq(Nat)
         /\ Len(minimal_bytes(n)) \in Nat /\ (n # 0 => Len(minimal_bytes(n)) >= 1)
         /\ FromBytes(minimal_bytes(n)) = n
         /\ \A m \in Nat : m <= n => Len(minimal_bytes(m)) <= Len(minimal_bytes(n))
<1>0. Base \in Nat /\ 1 < Base /\ Byte = 0..(Base - 1)
  BY Parameters DEF Byte
<1>1. minimal_bytes(n) \in Seq(Byte) /\ minimal_bytes(n) \in Seq(Nat)
  BY <1>0, SpelledTyped DEF minimal_bytes
<1>2. FromBytes(minimal_bytes(n)) = n
  BY <1>0, NumberSpelled DEF minimal_bytes, FromBytes
<1>3. ASSUME NEW m \in Nat, m <= n PROVE Len(minimal_bytes(m)) <= Len(minimal_bytes(n))
  BY <1>0, <1>3, SpelledGrows DEF minimal_bytes
<1>4. ASSUME n # 0 PROVE Len(minimal_bytes(n)) >= 1
  <2>1. n \div Base \in Nat /\ n % Base \in Nat
    BY <1>0, <1>4, QuotientLess
  <2>2. Spelled(n \div Base, Base) \in Seq(Nat)
    BY <1>0, <2>1, SpelledTyped
  <2>3. minimal_bytes(n) = Append(Spelled(n \div Base, Base), n % Base)
    BY <1>0, <1>4, SpelledUnfolds DEF minimal_bytes
  <2>4. Len(minimal_bytes(n)) = Len(Spelled(n \div Base, Base)) + 1
        /\ Len(Spelled(n \div Base, Base)) \in Nat
    BY <2>1, <2>2, <2>3, AppendProperties, LenProperties
  <2>. QED
    BY <2>4
<1>. QED
  BY <1>1, <1>2, <1>3, <1>4, LenProperties

\* The headers that count to n leave room for each other: those of strings end below the
\* first list, and those of lists below Base.
Fits(n) == /\ Str + ShortMax + Len(minimal_bytes(n)) < List
           /\ List + ShortMax + Len(minimal_bytes(n)) < Base

LEMMA FitsBelow ==
  ASSUME NEW n \in Nat, NEW m \in Nat, m <= n, Fits(n)
  PROVE  Fits(m)
<1>1. /\ Len(minimal_bytes(m)) <= Len(minimal_bytes(n))
      /\ Len(minimal_bytes(m)) \in Nat /\ Len(minimal_bytes(n)) \in Nat
  BY MinimalIs
<1>2. PICK a \in Nat, b \in Nat : a = Len(minimal_bytes(m)) /\ b = Len(minimal_bytes(n)) /\ a <= b
  BY <1>1
<1>3. Str + ShortMax + b < List /\ List + ShortMax + b < Base
  BY <1>2 DEF Fits
<1>4. Str + ShortMax + a < List /\ List + ShortMax + a < Base
  BY <1>2, <1>3, Parameters
<1>. QED
  BY <1>2, <1>4 DEF Fits

LEMMA HeaderIs ==
  ASSUME NEW n \in Nat, NEW offset \in {Str, List}
  PROVE  /\ rlp_length(n, offset) \in Seq(Nat)
         /\ Len(rlp_length(n, offset)) = IF n <= ShortMax THEN 1 ELSE 1 + Len(minimal_bytes(n))
         /\ rlp_length(n, offset)[1] = IF n <= ShortMax THEN offset + n
                                       ELSE offset + ShortMax + Len(minimal_bytes(n))
         /\ n > ShortMax => \A i \in 1..Len(minimal_bytes(n)) :
                               rlp_length(n, offset)[1 + i] = minimal_bytes(n)[i]
<1>0. offset \in Nat /\ ShortMax \in Nat
  BY Parameters
<1>1. CASE n <= ShortMax
  <2>1. rlp_length(n, offset) = <<offset + n>>
    BY <1>1 DEF rlp_length
  <2>2. offset + n \in Nat
    BY <1>0
  <2>3. ~(n > ShortMax)
    BY <1>0, <1>1
  <2>. QED
    BY <1>1, <2>1, <2>2, <2>3
<1>2. CASE ~(n <= ShortMax)
  <2>1. PICK m : m = minimal_bytes(n)
    OBVIOUS
  <2>2. m \in Seq(Nat) /\ Len(m) \in Nat
    BY <2>1, MinimalIs
  <2>3. PICK h \in Nat : h = offset + ShortMax + Len(m)
    BY <1>0, <2>2
  <2>4. rlp_length(n, offset) = <<h>> \o m
    BY <1>2, <2>1, <2>3 DEF rlp_length
  <2>5. <<h>> \in Seq(Nat) /\ Len(<<h>>) = 1 /\ <<h>>[1] = h /\ 1 \in 1..1
    OBVIOUS
  <2>6. /\ <<h>> \o m \in Seq(Nat) /\ Len(<<h>> \o m) = 1 + Len(m)
        /\ \A i \in 1..1 : (<<h>> \o m)[i] = <<h>>[i]
        /\ \A i \in 1..Len(m) : (<<h>> \o m)[1 + i] = m[i]
    BY <2>2, <2>5, Concats
  <2>7. (<<h>> \o m)[1] = h
    BY <2>5, <2>6
  <2>. QED
    BY <1>2, <2>1, <2>3, <2>4, <2>6, <2>7
<1>. QED
  BY <1>1, <1>2

\* The encodings of items, one after the other.
Encodings(items) == [i \in DOMAIN items |-> rlp_encode[items[i]]]
Joined(items) == FlattenSeq(Encodings(items))

LEMMA EncodeUnfolds ==
  \A item \in Items :
    /\ rlp_encode[item] \in Seq(Nat)
    /\ item.leaf =>
         rlp_encode[item] = IF Len(item.bytes) = 1 /\ item.bytes[1] < Str THEN item.bytes
                            ELSE rlp_length(Len(item.bytes), Str) \o item.bytes
    /\ ~item.leaf =>
         /\ Encodings(item.items) \in Seq(Seq(Nat)) /\ Joined(item.items) \in Seq(Nat)
         /\ rlp_encode[item] = rlp_length(Len(Joined(item.items)), List) \o Joined(item.items)
<1>. DEFINE parts(t, f) == [i \in DOMAIN t.items |-> f[t.items[i]]]
            leafy(t) == IF Len(t.bytes) = 1 /\ t.bytes[1] < Str THEN t.bytes
                        ELSE rlp_length(Len(t.bytes), Str) \o t.bytes
            listed(s) == rlp_length(Len(FlattenSeq(s)), List) \o FlattenSeq(s)
            body(t, f) == IF ~t.leaf THEN listed(parts(t, f)) ELSE leafy(t)
            D == [t \in Items |-> Seq(Nat)]
            H == [t \in Items |-> [f \in Assignments(Items, D) |-> body(t, f)]]
            Eq(f) == f = [t \in Items |-> body(t, f)]
<1>1. ASSUME NEW s \in Seq(Seq(Nat)) PROVE FlattenSeq(s) \in Seq(Nat) /\ listed(s) \in Seq(Nat)
  <2>1. FlattenSeq(s) \in Seq(Nat) /\ Len(FlattenSeq(s)) \in Nat
    BY Flattened, LenProperties
  <2>2. rlp_length(Len(FlattenSeq(s)), List) \in Seq(Nat)
    BY <2>1, HeaderIs
  <2>. QED
    BY <2>1, <2>2, ConcatProperties
<1>2. ASSUME NEW t \in Items, t.leaf PROVE leafy(t) \in Seq(Nat)
  <2>1. t.bytes \in Seq(Nat)
    BY <1>2, ItemParts, LeafIs, ByteIs
  <2>2. Len(t.bytes) \in Nat
    BY <2>1, LenProperties
  <2>3. rlp_length(Len(t.bytes), Str) \in Seq(Nat)
    BY <2>2, HeaderIs
  <2>. QED
    BY <2>1, <2>3, ConcatProperties
<1>3. ASSUME NEW t \in Items, ~t.leaf, NEW f, \A i \in 1..Len(t.items) : f[t.items[i]] \in Seq(Nat)
      PROVE  parts(t, f) \in Seq(Seq(Nat))
  <2>1. PICK n \in Nat : n = Len(t.items) /\ DOMAIN t.items = 1..n
    BY <1>3, ItemParts, LenProperties
  <2>2. parts(t, f) \in [1..n -> Seq(Nat)]
    BY <1>3, <2>1
  <2>. HIDE DEF parts
  <2>. QED
    BY <2>2, SeqDef
<1>4. ASSUME NEW t \in Items, ~t.leaf, NEW f, NEW g,
             \A u \in Items : Level[u] < Level[t] => f[u] = g[u]
      PROVE  parts(t, f) = parts(t, g)
  <2>1. DOMAIN t.items = 1..Len(t.items)
    BY <1>4, ItemParts, LenProperties
  <2>2. ASSUME NEW i \in 1..Len(t.items) PROVE f[t.items[i]] = g[t.items[i]]
    <3>1. t.items[i] \in Items /\ Level[t.items[i]] < Level[t]
      BY <1>4, ItemParts, ElementOfSeq
    <3>. QED
      BY <1>4, <3>1
  <2>. QED
    BY <2>1, <2>2
<1>5. ASSUME NEW t \in Items, NEW f, ~t.leaf => \A i \in 1..Len(t.items) : f[t.items[i]] \in Seq(Nat)
      PROVE  body(t, f) \in Seq(Nat)
  <2>. HIDE DEF parts, listed, leafy
  <2>. QED
    BY <1>1, <1>2, <1>3, <1>5, ItemParts
<1>6. \A t \in Items : D[t] = Seq(Nat)
  OBVIOUS
<1>7. \A t \in Items : \A f \in Assignments(Items, D) : H[t][f] = body(t, f)
  OBVIOUS
<1>8. \A f \in Assignments(Items, D) : /\ f = [t \in Items |-> f[t]]
                                   /\ \A t \in Items : f[t] \in Seq(Nat)
  BY <1>6 DEF Assignments
<1>. HIDE DEF D, H
<1>9. GoesDown(H, Items, D, Level)
  <2>1. ASSUME NEW t \in Items PROVE Level[t] \in Nat /\ D[t] # {}
    BY <1>6, LevelIs, EmptySeq
  <2>2. ASSUME NEW t \in Items, NEW f \in Assignments(Items, D) PROVE H[t][f] \in D[t]
    <3>1. ~t.leaf => \A i \in 1..Len(t.items) : f[t.items[i]] \in Seq(Nat)
      BY <1>8, ItemParts, ElementOfSeq
    <3>2. body(t, f) \in Seq(Nat)
      BY <1>5, <3>1
    <3>. QED
      BY <1>6, <1>7, <3>2
  <2>3. ASSUME NEW t \in Items, NEW f \in Assignments(Items, D), NEW g \in Assignments(Items, D),
               \A u \in Items : Level[u] < Level[t] => f[u] = g[u]
        PROVE  H[t][f] = H[t][g]
    <3>1. ~t.leaf => parts(t, f) = parts(t, g)
      BY <1>4, <2>3
    <3>2. body(t, f) = body(t, g)
      <4>. HIDE DEF parts, listed, leafy
      <4>. QED
        BY <3>1
    <3>. QED
      BY <1>7, <3>2
  <2>. QED
    BY <2>1, <2>2, <2>3 DEF GoesDown
<1>10. PICK f \in Assignments(Items, D) : Follows(f, H, Items)
  BY <1>9, RankRecursion
<1>11. Eq(f)
  <2>1. f = [t \in Items |-> f[t]]
    BY <1>8
  <2>2. \A t \in Items : f[t] = body(t, f)
    BY <1>7, <1>10 DEF Follows
  <2>. HIDE DEF body
  <2>. QED
    BY <2>1, <2>2
<1>12. Eq(rlp_encode)
  <2>1. rlp_encode = CHOOSE g : Eq(g)
    BY DEF rlp_encode
  <2>. HIDE DEF Eq
  <2>. QED
    BY <1>11, <2>1
<1>13. \A t \in Items : rlp_encode[t] = body(t, rlp_encode)
  <2>. HIDE DEF body
  <2>. QED
    BY <1>12
<1>. DEFINE T == {t \in Items : rlp_encode[t] \in Seq(Nat)}
<1>14. ASSUME NEW t \in Items, \A u \in Items : Level[u] < Level[t] => u \in T
       PROVE  t \in T
  <2>1. ~t.leaf => \A i \in 1..Len(t.items) : rlp_encode[t.items[i]] \in Seq(Nat)
    BY <1>14, ItemParts, ElementOfSeq
  <2>2. body(t, rlp_encode) \in Seq(Nat)
    BY <1>5, <2>1
  <2>. HIDE DEF body
  <2>. QED
    BY <1>13, <2>2
<1>. HIDE DEF T
<1>15. Items \subseteq T
  <2>1. \A t \in Items : Level[t] \in Nat
    BY LevelIs
  <2>. QED
    BY <1>14, <2>1, RankInduction
<1>16. \A t \in Items : rlp_encode[t] \in Seq(Nat)
  BY <1>15 DEF T
<1>17. ASSUME NEW t \in Items, ~t.leaf
       PROVE  /\ Encodings(t.items) \in Seq(Seq(Nat)) /\ Joined(t.items) \in Seq(Nat)
              /\ rlp_encode[t] = rlp_length(Len(Joined(t.items)), List) \o Joined(t.items)
  <2>1. \A i \in 1..Len(t.items) : rlp_encode[t.items[i]] \in Seq(Nat)
    BY <1>16, <1>17, ItemParts, ElementOfSeq
  <2>2. parts(t, rlp_encode) \in Seq(Seq(Nat))
    BY <1>3, <1>17, <2>1
  <2>3. parts(t, rlp_encode) = Encodings(t.items)
    BY DEF Encodings
  <2>4. rlp_encode[t] = listed(parts(t, rlp_encode))
    <3>. HIDE DEF listed, leafy, parts
    <3>. QED
      BY <1>13, <1>17
  <2>. HIDE DEF parts
  <2>5. FlattenSeq(Encodings(t.items)) \in Seq(Nat)
    BY <1>1, <2>2, <2>3
  <2>. QED
    BY <2>2, <2>3, <2>4, <2>5 DEF Joined
<1>18. ASSUME NEW t \in Items, t.leaf PROVE rlp_encode[t] = leafy(t)
  <2>. HIDE DEF listed, leafy, parts
  <2>. QED
    BY <1>13, <1>18
<1>. QED
  BY <1>16, <1>17, <1>18

\* An item that is its own encoding; and what a header counts, and from where.
IsByte(item) == item.leaf /\ Len(item.bytes) = 1 /\ item.bytes[1] < Str
Payload(item) == IF item.leaf THEN item.bytes ELSE Joined(item.items)
Offset(item) == IF item.leaf THEN Str ELSE List
Header(item) == rlp_length(Len(Payload(item)), Offset(item))

LEMMA EncodedIs ==
  ASSUME NEW item \in Items
  PROVE  /\ Payload(item) \in Seq(Nat) /\ Len(Payload(item)) \in Nat
         /\ rlp_encode[item] \in Seq(Nat) /\ Len(rlp_encode[item]) \in Nat
         /\ Header(item) \in Seq(Nat) /\ Len(Header(item)) \in Nat /\ Len(Header(item)) >= 1
         /\ IsByte(item) => rlp_encode[item] = item.bytes /\ Len(rlp_encode[item]) = 1
         /\ ~IsByte(item) => /\ rlp_encode[item] = Header(item) \o Payload(item)
                             /\ Len(rlp_encode[item]) = Len(Header(item)) + Len(Payload(item))
         /\ Len(rlp_encode[item]) >= 1 /\ Len(Payload(item)) <= Len(rlp_encode[item])
<1>1. Payload(item) \in Seq(Nat)
  BY EncodeUnfolds, ItemParts, LeafIs, ByteIs DEF Payload
<1>2. PICK n \in Nat : n = Len(Payload(item))
  BY <1>1, LenProperties
<1>3. Offset(item) \in {Str, List}
  BY DEF Offset
<1>4. Header(item) \in Seq(Nat) /\ Len(Header(item)) \in Nat /\ Len(Header(item)) >= 1
  <2>1. PICK o \in {Str, List} : o = Offset(item)
    BY <1>3
  <2>2. /\ rlp_length(n, o) \in Seq(Nat)
        /\ Len(rlp_length(n, o)) = IF n <= ShortMax THEN 1 ELSE 1 + Len(minimal_bytes(n))
    BY HeaderIs
  <2>3. Len(minimal_bytes(n)) \in Nat
    BY MinimalIs
  <2>4. Len(rlp_length(n, o)) \in Nat /\ Len(rlp_length(n, o)) >= 1
    BY <2>2, <2>3
  <2>. QED
    BY <1>2, <2>1, <2>2, <2>4 DEF Header
<1>5. rlp_encode[item] \in Seq(Nat) /\ Len(rlp_encode[item]) \in Nat
  BY EncodeUnfolds, LenProperties
<1>6. CASE IsByte(item)
  <2>1. rlp_encode[item] = item.bytes /\ Payload(item) = item.bytes /\ Len(item.bytes) = 1
    BY <1>6, EncodeUnfolds DEF IsByte, Payload
  <2>. QED
    BY <1>1, <1>2, <1>4, <1>5, <1>6, <2>1
<1>7. CASE ~IsByte(item)
  <2>1. rlp_encode[item] = Header(item) \o Payload(item)
    <3>1. CASE item.leaf
      <4>1. Header(item) = rlp_length(Len(item.bytes), Str) /\ Payload(item) = item.bytes
        BY <3>1 DEF Header, Payload, Offset
      <4>2. ~(Len(item.bytes) = 1 /\ item.bytes[1] < Str)
        BY <1>7, <3>1 DEF IsByte
      <4>. QED
        BY <3>1, <4>1, <4>2, EncodeUnfolds
    <3>2. CASE ~item.leaf
      BY <3>2, EncodeUnfolds DEF Header, Payload, Offset
    <3>. QED
      BY <3>1, <3>2
  <2>2. Len(rlp_encode[item]) = Len(Header(item)) + Len(Payload(item))
    BY <1>1, <1>4, <2>1, ConcatProperties
  <2>3. Len(rlp_encode[item]) >= 1 /\ Len(Payload(item)) <= Len(rlp_encode[item])
    BY <1>2, <1>4, <2>2
  <2>. QED
    BY <1>1, <1>2, <1>4, <1>5, <1>7, <2>1, <2>2, <2>3
<1>. QED
  BY <1>6, <1>7

LEMMA JoinedIs ==
  /\ Joined(<<>>) = <<>>
  /\ \A s \in Seq(Items) : /\ Encodings(s) \in Seq(Seq(Nat)) /\ Joined(s) \in Seq(Nat)
                           /\ Len(Joined(s)) \in Nat
  /\ \A a \in Items : \A s \in Seq(Items) :
       /\ Joined(<<a>> \o s) = rlp_encode[a] \o Joined(s)
       /\ Len(Joined(<<a>> \o s)) = Len(rlp_encode[a]) + Len(Joined(s))
<1>1. Joined(<<>>) = <<>>
  <2>1. Encodings(<<>>) = <<>>
    BY DEF Encodings
  <2>. QED
    BY <2>1 DEF Joined, FlattenSeq
<1>2. ASSUME NEW s \in Seq(Items)
      PROVE  /\ Encodings(s) \in Seq(Seq(Nat)) /\ Len(Encodings(s)) = Len(s)
             /\ \A i \in 1..Len(s) : Encodings(s)[i] = rlp_encode[s[i]]
  <2>1. PICK n \in Nat : n = Len(s) /\ DOMAIN s = 1..n
    BY LenProperties
  <2>2. \A i \in 1..n : rlp_encode[s[i]] \in Seq(Nat)
    BY <2>1, ElementOfSeq, EncodeUnfolds
  <2>3. Encodings(s) = [i \in 1..n |-> rlp_encode[s[i]]]
    BY <2>1 DEF Encodings
  <2>4. Encodings(s) \in [1..n -> Seq(Nat)]
    BY <2>2, <2>3
  <2>5. Encodings(s) \in Seq(Seq(Nat))
    BY <2>4, SeqDef
  <2>6. Len(Encodings(s)) = n
    BY <2>3, <2>5, LenProperties
  <2>. QED
    BY <2>1, <2>3, <2>5, <2>6
<1>3. ASSUME NEW s \in Seq(Items) PROVE Joined(s) \in Seq(Nat) /\ Len(Joined(s)) \in Nat
  BY <1>2, Flattened, LenProperties DEF Joined
<1>4. ASSUME NEW a \in Items, NEW s \in Seq(Items)
      PROVE  Joined(<<a>> \o s) = rlp_encode[a] \o Joined(s)
  <2>1. PICK n \in Nat : n = Len(s)
    BY LenProperties
  <2>2. <<a>> \in Seq(Items) /\ Len(<<a>>) = 1 /\ <<a>>[1] = a /\ 1 \in 1..1
    OBVIOUS
  <2>3. /\ <<a>> \o s \in Seq(Items) /\ Len(<<a>> \o s) = 1 + n
        /\ \A i \in 1..1 : (<<a>> \o s)[i] = <<a>>[i]
        /\ \A i \in 1..n : (<<a>> \o s)[1 + i] = s[i]
    BY <2>1, <2>2, Concats
  <2>4. PICK u \in Seq(Items) : u = <<a>> \o s
    BY <2>3
  <2>5. PICK x, y : x = rlp_encode[a] /\ y = Encodings(s)
    OBVIOUS
  <2>6. x \in Seq(Nat) /\ <<x>> \in Seq(Seq(Nat)) /\ Len(<<x>>) = 1 /\ <<x>>[1] = x
    BY <2>5, EncodeUnfolds
  <2>7. y \in Seq(Seq(Nat)) /\ Len(y) = n /\ \A i \in 1..n : y[i] = rlp_encode[s[i]]
    BY <1>2, <2>1, <2>5
  <2>8. /\ <<x>> \o y \in Seq(Seq(Nat)) /\ Len(<<x>> \o y) = 1 + n
        /\ \A i \in 1..1 : (<<x>> \o y)[i] = <<x>>[i]
        /\ \A i \in 1..n : (<<x>> \o y)[1 + i] = y[i]
    BY <2>6, <2>7, Concats
  <2>9. PICK v \in Seq(Seq(Nat)) : v = <<x>> \o y
    BY <2>8
  <2>10. /\ Encodings(u) \in Seq(Seq(Nat)) /\ Len(Encodings(u)) = 1 + n
         /\ \A i \in 1..(1 + n) : Encodings(u)[i] = rlp_encode[u[i]]
    BY <1>2, <2>3, <2>4
  <2>11. ASSUME NEW i \in 1..(1 + n) PROVE Encodings(u)[i] = v[i]
    <3>1. CASE i = 1
      <4>1. u[1] = a /\ v[1] = x
        BY <2>2, <2>3, <2>4, <2>6, <2>8, <2>9
      <4>. QED
        BY <2>5, <2>10, <3>1, <4>1
    <3>2. CASE i # 1
      <4>1. PICK j \in 1..n : i = 1 + j
        <5>1. i - 1 \in 1..n /\ i = 1 + (i - 1)
          BY <3>2
        <5>. QED
          BY <5>1
      <4>2. u[i] = s[j] /\ v[i] = y[j]
        BY <2>3, <2>4, <2>8, <2>9, <4>1
      <4>. QED
        BY <2>7, <2>10, <4>2
    <3>. QED
      BY <3>1, <3>2
  <2>12. Encodings(u) = v
    <3>1. Len(v) = 1 + n
      BY <2>8, <2>9
    <3>2. \A i \in 1..Len(Encodings(u)) : Encodings(u)[i] = v[i]
      BY <2>10, <2>11
    <3>. QED
      BY <2>10, <3>1, <3>2, SeqEqual
  <2>13. FlattenSeq(<<x>> \o y) = x \o FlattenSeq(y)
    BY <2>6, <2>7, FlattenFirst
  <2>. QED
    BY <2>4, <2>5, <2>9, <2>12, <2>13 DEF Joined
<1>5. ASSUME NEW a \in Items, NEW s \in Seq(Items)
      PROVE  Len(Joined(<<a>> \o s)) = Len(rlp_encode[a]) + Len(Joined(s))
  <2>1. rlp_encode[a] \in Seq(Nat) /\ Joined(s) \in Seq(Nat)
    BY <1>3, EncodeUnfolds
  <2>. QED
    BY <1>4, <2>1, ConcatProperties
<1>. QED
  BY <1>1, <1>2, <1>3, <1>4, <1>5

-----------------------------------------------------------------------------
(* What is decoded.                                                        *)

\* A header that was written is read.
LEMMA HeaderIsRead ==
  ASSUME NEW raw \in Seq(Byte), NEW pos \in Nat, NEW n \in Nat, NEW offset \in {Str, List},
         Fits(n), At(raw, pos, rlp_length(n, offset))
  PROVE  /\ pos < Len(raw) /\ raw[pos + 1] >= offset
         /\ offset = Str => raw[pos + 1] < List
         /\ payload_span(raw, pos, offset) =
              [start |-> pos + Len(rlp_length(n, offset)), end |-> pos + Len(rlp_length(n, offset)) + n]
<1>a. PICK h : h = rlp_length(n, offset)
  OBVIOUS
<1>b. At(raw, pos, h)
  BY <1>a
<1>1. PICK m : m = minimal_bytes(n)
  OBVIOUS
<1>2. PICK ll \in Nat : ll = Len(m)
  BY <1>1, MinimalIs
<1>3. /\ h \in Seq(Nat) /\ Len(h) = IF n <= ShortMax THEN 1 ELSE 1 + ll
      /\ h[1] = IF n <= ShortMax THEN offset + n ELSE offset + ShortMax + ll
      /\ n > ShortMax => \A i \in 1..ll : h[1 + i] = m[i]
  BY <1>a, <1>1, <1>2, HeaderIs
<1>4. PICK k \in Nat : k = Len(h) /\ k >= 1
  <2>1. Len(h) \in Nat /\ Len(h) >= 1
    BY <1>2, <1>3
  <2>. QED
    BY <2>1
<1>5. pos + k <= Len(raw) /\ \A i \in 1..k : raw[pos + i] = h[i]
  BY <1>b, <1>4 DEF At
<1>6. raw[pos + 1] = h[1]
  BY <1>4, <1>5
<1>7. Len(raw) \in Nat
  BY LenProperties
<1>8. pos < Len(raw)
  BY <1>4, <1>5, <1>7
<1>9. offset \in Nat /\ ShortMax \in Nat /\ 0 < ShortMax
  BY Parameters
<1>10. Str + ShortMax + ll < List /\ List + ShortMax + ll < Base
  BY <1>1, <1>2 DEF Fits
<1>. SUFFICES /\ raw[pos + 1] >= offset
              /\ offset = Str => raw[pos + 1] < List
              /\ payload_span(raw, pos, offset) = [start |-> pos + k, end |-> pos + k + n]
  BY <1>a, <1>4, <1>8
<1>11. CASE n <= ShortMax
  <2>1. k = 1 /\ raw[pos + 1] = offset + n
    BY <1>3, <1>4, <1>6, <1>11
  <2>2. raw[pos + 1] <= offset + ShortMax /\ raw[pos + 1] >= offset
    BY <1>9, <1>11, <2>1
  <2>3. offset = Str => raw[pos + 1] < List
    BY <1>9, <1>11, <2>1, Parameters
  <2>4. payload_span(raw, pos, offset) = [start |-> pos + 1, end |-> pos + 1 + (offset + n) - offset]
    BY <2>1, <2>2 DEF payload_span
  <2>5. pos + 1 + (offset + n) - offset = pos + k + n
    BY <1>9, <2>1
  <2>. QED
    BY <2>1, <2>2, <2>3, <2>4, <2>5
<1>12. CASE n > ShortMax
  <2>1. k = 1 + ll /\ raw[pos + 1] = offset + ShortMax + ll
    BY <1>3, <1>4, <1>6, <1>9, <1>12
  <2>2. ll >= 1
    BY <1>1, <1>2, <1>9, <1>12, MinimalIs
  <2>3. ~(raw[pos + 1] <= offset + ShortMax) /\ raw[pos + 1] >= offset
    BY <1>9, <2>1, <2>2
  <2>4. offset = Str => raw[pos + 1] < List
    BY <1>10, <2>1
  <2>5. At(raw, pos + 1, m)
    <3>1. ASSUME NEW i \in 1..ll PROVE raw[(pos + 1) + i] = m[i]
      <4>1. 1 + i \in 1..k /\ pos + (1 + i) = (pos + 1) + i
        BY <2>1
      <4>2. raw[pos + (1 + i)] = h[1 + i]
        BY <1>5, <4>1
      <4>3. h[1 + i] = m[i]
        BY <1>3, <1>12
      <4>. QED
        BY <4>1, <4>2, <4>3
    <3>2. (pos + 1) + ll <= Len(raw)
      BY <1>5, <1>7, <2>1
    <3>. QED
      BY <1>2, <3>1, <3>2 DEF At
  <2>6. Slice(raw, pos + 1, (pos + 1) + ll) = m
    <3>1. m \in Seq(Byte) /\ pos + 1 \in Nat
      BY <1>1, MinimalIs
    <3>. QED
      BY <1>2, <2>5, <3>1, SliceAt
  <2>7. FromBytes(m) = n
    BY <1>1, MinimalIs
  <2>8. raw[pos + 1] - (offset + ShortMax) = ll
    BY <1>9, <2>1
  <2>9. payload_span(raw, pos, offset) =
          [start |-> pos + 1 + ll, end |-> pos + 1 + ll + FromBytes(Slice(raw, pos + 1, pos + 1 + ll))]
    BY <2>3, <2>8 DEF payload_span
  <2>10. pos + 1 + ll = pos + k
    BY <2>1
  <2>. QED
    BY <2>3, <2>4, <2>6, <2>7, <2>9, <2>10
<1>. QED
  BY <1>9, <1>11, <1>12

\* An item that was written is read, if the items of a list are.
LEMMA ItemIsRead ==
  ASSUME NEW items, NEW raw \in Seq(Byte), NEW pos \in Nat, NEW item \in Items, Fits(Len(raw)),
         At(raw, pos, rlp_encode[item]),
         ~item.leaf => \A start \in Nat : At(raw, start, Joined(item.items)) =>
           items[[start |-> start, end |-> start + Len(Joined(item.items))]] = Ok(item.items)
  PROVE  decode_item(items, raw, pos) = Decoded(item, pos + Len(rlp_encode[item]))
<1>0. PICK L \in Nat : L = Len(raw)
  BY LenProperties
<1>1. Len(rlp_encode[item]) \in Nat /\ Len(rlp_encode[item]) >= 1
  BY EncodedIs
<1>2. CASE IsByte(item)
  <2>1. rlp_encode[item] = item.bytes /\ Len(rlp_encode[item]) = 1 /\ item.bytes[1] < Str
    BY <1>2, EncodedIs DEF IsByte
  <2>2. pos + 1 <= L /\ raw[pos + 1] = item.bytes[1]
    <3>1. 1 \in 1..1
      OBVIOUS
    <3>. QED
      BY <1>0, <2>1, <3>1 DEF At
  <2>3. ~(pos >= L)
    BY <1>0, <2>2
  <2>4. item.bytes = <<raw[pos + 1]>>
    <3>1. item.bytes \in Seq(Byte) /\ Len(item.bytes) = 1
      BY <1>2, <2>1, ItemParts, LeafIs DEF IsByte
    <3>. QED
      BY <2>2, <3>1
  <2>5. item = Leaf(item.bytes)
    BY <1>2, ItemParts, LeafIs DEF IsByte
  <2>6. decode_item(items, raw, pos) = Decoded(Leaf(<<raw[pos + 1]>>), pos + 1)
    BY <1>0, <2>1, <2>2, <2>3 DEF decode_item
  <2>. QED
    BY <2>1, <2>4, <2>5, <2>6
<1>3. CASE ~IsByte(item)
  <2>1. PICK h, p : h = Header(item) /\ p = Payload(item)
    OBVIOUS
  <2>2. /\ h \in Seq(Nat) /\ p \in Seq(Nat) /\ rlp_encode[item] = h \o p
        /\ Len(rlp_encode[item]) = Len(h) + Len(p)
    BY <1>3, <2>1, EncodedIs
  <2>3. PICK k \in Nat, n \in Nat : k = Len(h) /\ n = Len(p)
    BY <2>2, LenProperties
  <2>4. At(raw, pos, h) /\ At(raw, pos + k, p)
    <3>1. At(h \o p, 0, h) /\ At(h \o p, k, p)
      BY <2>2, <2>3, AtBegin
    <3>2. raw \in Seq(Nat) /\ h \o p \in Seq(Nat) /\ 0 \in Nat
      BY <2>2, ByteIs, ConcatProperties
    <3>3. At(raw, pos + 0, h) /\ At(raw, pos + k, p)
      BY <2>2, <3>1, <3>2, AtInside
    <3>. QED
      BY <3>3
  <2>5. pos + k + n <= L
    BY <1>0, <2>3, <2>4 DEF At
  <2>6. Fits(n)
    BY <1>0, <2>3, <2>5, FitsBelow
  <2>7. PICK o \in {Str, List} : o = Offset(item)
    BY DEF Offset
  <2>8. h = rlp_length(n, o)
    BY <2>1, <2>3, <2>7 DEF Header
  <2>9. /\ pos < Len(raw) /\ raw[pos + 1] >= o
        /\ o = Str => raw[pos + 1] < List
        /\ payload_span(raw, pos, o) = [start |-> pos + k, end |-> pos + k + n]
    <3>1. /\ pos < Len(raw) /\ raw[pos + 1] >= o
          /\ o = Str => raw[pos + 1] < List
          /\ payload_span(raw, pos, o) = [start |-> pos + Len(h), end |-> pos + Len(h) + n]
      <4>1. At(raw, pos, rlp_length(n, o))
        BY <2>4, <2>8
      <4>. QED
        BY <2>6, <2>8, <4>1, HeaderIsRead
    <3>. QED
      BY <2>3, <3>1
  <2>10. PICK b \in Nat : b = raw[pos + 1]
    <3>1. pos + 1 \in 1..Len(raw)
      BY <1>0, <2>9
    <3>. QED
      BY <3>1, ElementOfSeq, ByteIs
  <2>11. ~(pos >= L) /\ ~(pos + k + n > L) /\ ~(b < Str)
    BY <1>0, <2>5, <2>7, <2>9, <2>10, Parameters
  <2>12. pos + Len(rlp_encode[item]) = pos + k + n
    <3>1. Len(rlp_encode[item]) = k + n
      BY <2>2, <2>3
    <3>2. pos + (k + n) = pos + k + n
      OBVIOUS
    <3>. QED
      BY <3>1, <3>2
  <2>13. CASE item.leaf
    <3>1. o = Str /\ p = item.bytes /\ item = Leaf(p) /\ p \in Seq(Byte)
      BY <2>1, <2>7, <2>13, ItemParts, LeafIs DEF Offset, Payload
    <3>2. b < List
      BY <2>9, <2>10, <3>1
    <3>3. Slice(raw, pos + k, pos + k + n) = p
      <4>1. pos + k \in Nat
        OBVIOUS
      <4>. QED
        BY <2>3, <2>4, <3>1, <4>1, SliceAt
    <3>4. decode_item(items, raw, pos) = Decoded(Leaf(Slice(raw, pos + k, pos + k + n)), pos + k + n)
      BY <1>0, <2>9, <2>10, <2>11, <3>1, <3>2 DEF decode_item
    <3>. QED
      BY <2>12, <3>1, <3>3, <3>4
  <2>14. CASE ~item.leaf
    <3>1. o = List /\ p = Joined(item.items) /\ item = ListOf(item.items)
      BY <2>1, <2>7, <2>14, ItemParts DEF Offset, Payload
    <3>2. ~(b < List) /\ List # Str
      BY <2>9, <2>10, <3>1, Parameters
    <3>3. items[[start |-> pos + k, end |-> pos + k + n]] = Ok(item.items)
      BY <2>3, <2>4, <2>14, <3>1
    <3>4. Ok(item.items).ok = TRUE /\ Ok(item.items).value = item.items
      BY DEF Ok
    <3>5. decode_item(items, raw, pos) = Decoded(ListOf(item.items), pos + k + n)
      BY <1>0, <2>9, <2>10, <2>11, <3>1, <3>2, <3>3, <3>4 DEF decode_item
    <3>. QED
      BY <2>12, <3>1, <3>5
  <2>. QED
    BY <2>13, <2>14
<1>. QED
  BY <1>2, <1>3

LEMMA SliceShort ==
  ASSUME NEW T, NEW raw \in Seq(T), NEW from \in Nat, NEW n \in Nat
  PROVE  Len(Slice(raw, from, from + n)) \in Nat /\ Len(Slice(raw, from, from + n)) <= n
<1>1. PICK L \in Nat : L = Len(raw)
  BY LenProperties
<1>2. PICK to \in Nat : to = from + n
  OBVIOUS
<1>3. PICK e \in Nat : e = Min({to, L}) /\ e <= L /\ e <= to
  <2>1. Min({to, L}) = IF to <= L THEN to ELSE L
    BY MinTwo
  <2>. QED
    BY <2>1
<1>4. Slice(raw, from, to) = SubSeq(raw, from + 1, e)
  BY <1>1, <1>3 DEF Slice
<1>5. CASE from <= e
  <2>1. 1 <= from + 1 /\ from + 1 <= e + 1 /\ from + 1 \in Int /\ e \in Int /\ e <= Len(raw)
    BY <1>1, <1>3, <1>5
  <2>2. Len(SubSeq(raw, from + 1, e)) = e - (from + 1) + 1
    BY <2>1, PartIs
  <2>3. e - (from + 1) + 1 \in Nat /\ e - (from + 1) + 1 <= n
    BY <1>2, <1>3, <1>5
  <2>. QED
    BY <1>2, <1>4, <2>2, <2>3
<1>6. CASE from > e
  <2>1. SubSeq(raw, from + 1, e) = <<>>
    BY <1>6, SubSeqEmpty
  <2>2. Len(<<>>) = 0 /\ 0 <= n
    OBVIOUS
  <2>3. Slice(raw, from, from + n) = <<>>
    BY <1>2, <1>4, <2>1
  <2>. QED
    BY <2>2, <2>3
<1>. QED
  BY <1>5, <1>6

\* What a header may hold: a payload behind it, of a length that takes no longer header.
LEMMA SpanIs ==
  ASSUME NEW raw \in Seq(Byte), NEW pos \in Nat, NEW offset \in {Str, List},
         pos < Len(raw), raw[pos + 1] >= offset
  PROVE  \E start, n \in Nat : /\ payload_span(raw, pos, offset) = [start |-> start, end |-> start + n]
                               /\ pos + Len(rlp_length(n, offset)) <= start
<1>1. PICK b \in Nat : b = raw[pos + 1]
  <2>1. Len(raw) \in Nat
    BY LenProperties
  <2>2. pos + 1 \in 1..Len(raw)
    BY <2>1
  <2>. QED
    BY <2>2, ElementOfSeq, ByteIs
<1>2. offset \in Nat /\ ShortMax \in Nat /\ b >= offset
  BY <1>1, Parameters
<1>3. CASE b <= offset + ShortMax
  <2>1. PICK n \in Nat : n = b - offset /\ n <= ShortMax
    <3>1. b - offset \in Nat /\ b - offset <= ShortMax
      BY <1>2, <1>3
    <3>. QED
      BY <3>1
  <2>2. Len(rlp_length(n, offset)) = 1
    BY <2>1, HeaderIs
  <2>3. payload_span(raw, pos, offset) = [start |-> pos + 1, end |-> pos + 1 + b - offset]
    BY <1>1, <1>3 DEF payload_span
  <2>4. pos + 1 + b - offset = (pos + 1) + n /\ pos + 1 \in Nat
    BY <1>2, <2>1
  <2>5. PICK start \in Nat : start = pos + 1
    OBVIOUS
  <2>6. payload_span(raw, pos, offset) = [start |-> start, end |-> start + n]
    BY <2>3, <2>4, <2>5
  <2>7. pos + Len(rlp_length(n, offset)) <= start
    BY <2>2, <2>5
  <2>. QED
    BY <2>6, <2>7
<1>4. CASE ~(b <= offset + ShortMax)
  <2>1. PICK ll \in Nat : ll = b - (offset + ShortMax) /\ ll >= 1
    <3>1. b - (offset + ShortMax) \in Nat /\ b - (offset + ShortMax) >= 1
      BY <1>2, <1>4
    <3>. QED
      BY <3>1
  <2>2. PICK s : s = Slice(raw, pos + 1, (pos + 1) + ll)
    OBVIOUS
  <2>3. s \in Seq(Byte) /\ Len(s) \in Nat /\ Len(s) <= ll
    <3>1. pos + 1 \in Nat /\ (pos + 1) + ll \in Nat
      OBVIOUS
    <3>. QED
      BY <2>2, <3>1, SliceTyped, SliceShort
  <2>4. PICK n \in Nat : n = FromBytes(s)
    <3>1. s \in Seq(Nat) /\ Base \in Nat /\ 0 \in Nat
      BY <2>3, ByteIs, Parameters
    <3>2. Number(s, Base) \in Nat
      BY <3>1, NumberOf
    <3>. QED
      BY <3>2 DEF FromBytes
  <2>5. Len(minimal_bytes(n)) <= Len(s) /\ Len(minimal_bytes(n)) \in Nat
    <3>1. s \in Seq(0..(Base - 1)) /\ Base \in Nat /\ 1 < Base
      BY <2>3, Parameters DEF Byte
    <3>2. Len(Spelled(Number(s, Base), Base)) <= Len(s)
      BY <3>1, SpelledLeast
    <3>. QED
      BY <2>4, <3>2, MinimalIs DEF minimal_bytes, FromBytes
  <2>6. pos + Len(rlp_length(n, offset)) <= pos + 1 + ll
    <3>1. Len(rlp_length(n, offset)) = IF n <= ShortMax THEN 1 ELSE 1 + Len(minimal_bytes(n))
      BY HeaderIs
    <3>2. PICK k \in Nat : k = Len(minimal_bytes(n)) /\ k <= ll
      BY <2>3, <2>5
    <3>3. pos + 1 <= pos + 1 + ll /\ pos + (1 + k) <= pos + 1 + ll
      BY <3>2
    <3>. QED
      BY <3>1, <3>2, <3>3
  <2>7. payload_span(raw, pos, offset) =
          [start |-> pos + 1 + ll, end |-> pos + 1 + ll + FromBytes(Slice(raw, pos + 1, pos + 1 + ll))]
    BY <1>1, <1>4, <2>1 DEF payload_span
  <2>8. payload_span(raw, pos, offset) = [start |-> pos + 1 + ll, end |-> pos + 1 + ll + n]
    BY <2>2, <2>4, <2>7
  <2>9. pos + 1 + ll \in Nat
    OBVIOUS
  <2>. QED
    BY <2>6, <2>8, <2>9
<1>. QED
  BY <1>3, <1>4

\* What may stand at a place in the data.
ByteAt(raw, pos) == pos < Len(raw) /\ raw[pos + 1] < Str
StringAt(raw, pos) ==
  pos < Len(raw) /\ raw[pos + 1] >= Str /\ raw[pos + 1] < List /\ payload_span(raw, pos, Str).end <= Len(raw)
ListAt(raw, pos) == pos < Len(raw) /\ raw[pos + 1] >= List /\ payload_span(raw, pos, List).end <= Len(raw)

LEMMA DecodeCases ==
  ASSUME NEW f, NEW raw \in Seq(Byte), NEW pos \in Nat
  PROVE  /\ ByteAt(raw, pos) =>
              decode_item(f, raw, pos) = Decoded(Leaf(<<raw[pos + 1]>>), pos + 1)
         /\ StringAt(raw, pos) =>
              LET span == payload_span(raw, pos, Str)
              IN  decode_item(f, raw, pos) = Decoded(Leaf(Slice(raw, span.start, span.end)), span.end)
         /\ ListAt(raw, pos) =>
              LET span == payload_span(raw, pos, List)
              IN  decode_item(f, raw, pos) =
                    IF f[span].ok THEN Decoded(ListOf(f[span].value), span.end) ELSE NoItem
         /\ ByteAt(raw, pos) \/ StringAt(raw, pos) \/ ListAt(raw, pos)
              \/ decode_item(f, raw, pos) = NoItem
<1>0. PICK L \in Nat : L = Len(raw)
  BY LenProperties
<1>1. CASE pos >= L
  <2>1. ~(pos < L)
    BY <1>1
  <2>2. decode_item(f, raw, pos) = NoItem
    BY <1>0, <1>1 DEF decode_item
  <2>. QED
    BY <1>0, <2>1, <2>2 DEF ByteAt, StringAt, ListAt
<1>2. CASE ~(pos >= L)
  <2>1. pos < L
    BY <1>2
  <2>2. PICK b \in Nat : b = raw[pos + 1]
    <3>1. pos + 1 \in 1..Len(raw)
      BY <1>0, <2>1
    <3>. QED
      BY <3>1, ElementOfSeq, ByteIs
  <2>3. Str \in Nat /\ List \in Nat /\ Str < List
    BY Parameters
  <2>4. CASE b < Str
    <3>1. decode_item(f, raw, pos) = Decoded(Leaf(<<b>>), pos + 1)
      BY <1>0, <1>2, <2>2, <2>4 DEF decode_item
    <3>2. ~(b >= Str) /\ ~(b >= List)
      BY <2>3, <2>4
    <3>. QED
      BY <1>0, <2>1, <2>2, <2>4, <3>1, <3>2 DEF ByteAt, StringAt, ListAt
  <2>5. CASE b >= Str /\ b < List
    <3>1. PICK span : span = payload_span(raw, pos, Str)
      OBVIOUS
    <3>a. \E start, n \in Nat : span = [start |-> start, end |-> start + n]
      BY <1>0, <2>1, <2>2, <2>5, <3>1, SpanIs
    <3>b. PICK e \in Nat : e = span.end
      <4>1. \A i, j \in Nat : i + j \in Nat
        OBVIOUS
      <4>. QED
        BY <3>a, <4>1
    <3>2. ~(b < Str) /\ ~(b >= List) /\ (e > L <=> ~(e <= L))
      BY <2>3, <2>5
    <3>3. decode_item(f, raw, pos) =
            IF e > L THEN NoItem ELSE Decoded(Leaf(Slice(raw, span.start, e)), e)
      BY <1>0, <1>2, <2>2, <2>5, <3>1, <3>b, <3>2 DEF decode_item
    <3>. QED
      BY <1>0, <2>1, <2>2, <2>5, <3>1, <3>b, <3>2, <3>3 DEF ByteAt, StringAt, ListAt
  <2>6. CASE b >= List
    <3>1. PICK span : span = payload_span(raw, pos, List)
      OBVIOUS
    <3>a. \E start, n \in Nat : span = [start |-> start, end |-> start + n]
      BY <1>0, <2>1, <2>2, <2>6, <3>1, SpanIs
    <3>b. PICK e \in Nat : e = span.end
      <4>1. \A i, j \in Nat : i + j \in Nat
        OBVIOUS
      <4>. QED
        BY <3>a, <4>1
    <3>2. ~(b < Str) /\ ~(b < List) /\ Str # List /\ (e > L <=> ~(e <= L))
      BY <2>3, <2>6
    <3>3. decode_item(f, raw, pos) =
            IF e > L THEN NoItem
            ELSE IF f[span].ok THEN Decoded(ListOf(f[span].value), e) ELSE NoItem
      BY <1>0, <1>2, <2>2, <3>1, <3>b, <3>2 DEF decode_item
    <3>. QED
      BY <1>0, <2>1, <2>2, <2>6, <3>1, <3>b, <3>2, <3>3 DEF ByteAt, StringAt, ListAt
  <2>. QED
    BY <2>3, <2>4, <2>5, <2>6
<1>. QED
  BY <1>1, <1>2

LEMMA SpanTyped ==
  ASSUME NEW raw \in Seq(Byte), NEW pos \in Nat, NEW offset \in {Str, List},
         pos < Len(raw), raw[pos + 1] >= offset
  PROVE  LET span == payload_span(raw, pos, offset)
         IN  span \in Spans /\ span.start \in Nat /\ span.end \in Nat /\ pos < span.start /\ span.start <= span.end
<1>1. PICK start, n \in Nat : /\ payload_span(raw, pos, offset) = [start |-> start, end |-> start + n]
                              /\ pos + Len(rlp_length(n, offset)) <= start
  BY SpanIs
<1>2. Len(rlp_length(n, offset)) \in Nat /\ Len(rlp_length(n, offset)) >= 1
  <2>1. Len(minimal_bytes(n)) \in Nat
    BY MinimalIs
  <2>2. Len(rlp_length(n, offset)) = IF n <= ShortMax THEN 1 ELSE 1 + Len(minimal_bytes(n))
    BY HeaderIs
  <2>. QED
    BY <2>1, <2>2
<1>3. PICK k \in Nat : k = Len(rlp_length(n, offset)) /\ k >= 1
  BY <1>2
<1>4. pos < start /\ start <= start + n /\ start + n \in Nat
  BY <1>1, <1>3
<1>5. [start |-> start, end |-> start + n] \in Spans
  BY <1>4 DEF Spans
<1>. QED
  BY <1>1, <1>4, <1>5

\* What decoding the items of a list gives, and what one item there gives.
Results == {Raise} \cup {Ok(v) : v \in Seq(AllItems)}
Reads(f) == \A span \in Spans : f[span] \in Results
FoundItem(one, pos, limit) ==
  \E item \in AllItems, next \in Nat : one = Decoded(item, next) /\ pos < next /\ next <= limit

LEMMA ResultIs ==
  /\ Raise.ok = FALSE
  /\ \A r \in Results : r.ok \in BOOLEAN /\ (r.ok => r.value \in Seq(AllItems) /\ r = Ok(r.value))
  /\ \A r \in Results : ~r.ok => r = Raise
  /\ \A v \in Seq(AllItems) : Ok(v) \in Results
  /\ \A v : Ok(v).ok = TRUE /\ Ok(v).value = v
<1>1. Raise.ok = FALSE /\ \A v : Ok(v).ok = TRUE /\ Ok(v).value = v
  BY DEF Raise, Ok
<1>2. \A r \in Results : r = Raise \/ \E v \in Seq(AllItems) : r = Ok(v)
  BY DEF Results
<1>3. \A v \in Seq(AllItems) : Ok(v) \in Results
  BY DEF Results
<1>. QED
  BY <1>1, <1>2, <1>3

LEMMA DecodedIs ==
  /\ NoItem.ok = FALSE
  /\ \A item, next : /\ Decoded(item, next).ok = TRUE /\ Decoded(item, next).item = item
                     /\ Decoded(item, next).next = next
BY DEF NoItem, Decoded

LEMMA OneItem ==
  ASSUME NEW f, NEW raw \in Seq(Byte), NEW pos \in Nat, Reads(f)
  PROVE  decode_item(f, raw, pos) = NoItem \/ FoundItem(decode_item(f, raw, pos), pos, Len(raw))
<1>0. PICK L \in Nat : L = Len(raw)
  BY LenProperties
<1>. DEFINE one == decode_item(f, raw, pos)
<1>1. ASSUME NEW item \in AllItems, NEW next \in Nat, one = Decoded(item, next), pos < next, next <= L
      PROVE  FoundItem(one, pos, L)
  BY <1>1 DEF FoundItem
<1>. HIDE DEF one
<1>2. CASE ByteAt(raw, pos)
  <2>1. pos + 1 \in 1..Len(raw) /\ pos + 1 \in Nat /\ pos < pos + 1 /\ pos + 1 <= L
    BY <1>0, <1>2 DEF ByteAt
  <2>2. raw[pos + 1] \in Byte
    BY <2>1, ElementOfSeq
  <2>3. <<raw[pos + 1]>> \in Seq(Byte)
    BY <2>2
  <2>4. Leaf(<<raw[pos + 1]>>) \in AllItems
    BY <2>3, LeafIs, LeavesAreItems
  <2>5. one = Decoded(Leaf(<<raw[pos + 1]>>), pos + 1)
    BY <1>2, DecodeCases DEF one
  <2>. QED
    BY <1>0, <1>1, <2>1, <2>4, <2>5 DEF one
<1>3. CASE StringAt(raw, pos)
  <2>1. PICK span : span = payload_span(raw, pos, Str)
    OBVIOUS
  <2>2. span.start \in Nat /\ span.end \in Nat /\ pos < span.start /\ span.start <= span.end /\ span.end <= L
    BY <1>0, <1>3, <2>1, SpanTyped DEF StringAt
  <2>3. Slice(raw, span.start, span.end) \in Seq(Byte)
    BY <2>2, SliceTyped
  <2>4. Leaf(Slice(raw, span.start, span.end)) \in AllItems
    BY <2>3, LeafIs, LeavesAreItems
  <2>5. one = Decoded(Leaf(Slice(raw, span.start, span.end)), span.end)
    BY <1>3, <2>1, DecodeCases DEF one
  <2>6. pos < span.end
    BY <2>2
  <2>. QED
    BY <1>0, <1>1, <2>2, <2>4, <2>5, <2>6 DEF one
<1>4. CASE ListAt(raw, pos)
  <2>1. PICK span : span = payload_span(raw, pos, List)
    OBVIOUS
  <2>2. /\ span.start \in Nat /\ span.end \in Nat /\ pos < span.start /\ span.start <= span.end
        /\ span.end <= L /\ span \in Spans
    BY <1>0, <1>4, <2>1, SpanTyped DEF ListAt
  <2>3. one = IF f[span].ok THEN Decoded(ListOf(f[span].value), span.end) ELSE NoItem
    BY <1>4, <2>1, DecodeCases DEF one
  <2>4. CASE f[span].ok
    <3>1. f[span].value \in Seq(AllItems)
      BY <2>2, <2>4, ResultIs DEF Reads
    <3>2. ListOf(f[span].value) \in AllItems
      BY <3>1, ListsAreItems
    <3>3. pos < span.end
      BY <2>2
    <3>. QED
      BY <1>0, <1>1, <2>2, <2>3, <2>4, <3>2, <3>3 DEF one
  <2>5. CASE ~f[span].ok
    BY <2>3, <2>5 DEF one
  <2>. QED
    BY <2>4, <2>5
<1>5. CASE one = NoItem
  BY <1>5 DEF one
<1>. QED
  BY <1>2, <1>3, <1>4, <1>5, DecodeCases DEF one

LEMMA OneItemLocal ==
  ASSUME NEW f, NEW g, NEW raw \in Seq(Byte), NEW pos \in Nat,
         \A span \in Spans : pos < span.start => f[span] = g[span]
  PROVE  decode_item(f, raw, pos) = decode_item(g, raw, pos)
<1>1. CASE ByteAt(raw, pos)
  BY <1>1, DecodeCases
<1>2. CASE StringAt(raw, pos)
  BY <1>2, DecodeCases
<1>3. CASE ListAt(raw, pos)
  <2>1. PICK span : span = payload_span(raw, pos, List)
    OBVIOUS
  <2>2. pos < span.start /\ span \in Spans
    BY <1>3, <2>1, SpanTyped DEF ListAt
  <2>3. decode_item(f, raw, pos) = IF f[span].ok THEN Decoded(ListOf(f[span].value), span.end) ELSE NoItem
    BY <1>3, <2>1, DecodeCases
  <2>4. decode_item(g, raw, pos) = IF g[span].ok THEN Decoded(ListOf(g[span].value), span.end) ELSE NoItem
    BY <1>3, <2>1, DecodeCases
  <2>. QED
    BY <2>2, <2>3, <2>4
<1>. QED
  BY <1>1, <1>2, <1>3, DecodeCases

\* One step of decode_items: the items of a span, given those of the spans that start later.
Later(span, start) == [span EXCEPT !.start = start]
Join(one, rest) == IF one.ok /\ rest.ok THEN Ok(<<one.item>> \o rest.value) ELSE Raise
Read(raw, span, f) ==
  LET one == decode_item(f, raw, span.start)
  IN  IF span.start >= span.end THEN When(list_ends(span.start, span.end), <<>>)
      ELSE Join(one, f[Later(span, one.next)])
Left(raw) == [span \in Spans |-> IF span.start < Len(raw) THEN Len(raw) - span.start ELSE 0]

LEMMA SpanParts ==
  /\ \A span \in Spans : /\ span.start \in Nat /\ span.end \in Nat
                         /\ span = [start |-> span.start, end |-> span.end]
  /\ \A start, end \in Nat : /\ [start |-> start, end |-> end] \in Spans
                             /\ [start |-> start, end |-> end].start = start
                             /\ [start |-> start, end |-> end].end = end
  /\ \A span \in Spans : \A next \in Nat : /\ Later(span, next) \in Spans
                                           /\ Later(span, next) = [start |-> next, end |-> span.end]
BY DEF Spans, Later

LEMMA LeftIs ==
  ASSUME NEW raw \in Seq(Byte), NEW span \in Spans
  PROVE  /\ Left(raw)[span] \in Nat
         /\ \A u \in Spans : span.start < Len(raw) /\ span.start < u.start => Left(raw)[u] < Left(raw)[span]
<1>1. PICK L \in Nat : L = Len(raw)
  BY LenProperties
<1>2. \A u \in Spans : u.start \in Nat /\ Left(raw)[u] = IF u.start < L THEN L - u.start ELSE 0
  BY <1>1, SpanParts DEF Left
<1>3. \A i, j \in Nat : /\ (i < L => L - i \in Nat /\ 0 < L - i)
                        /\ (i < L /\ i < j /\ j < L => L - j < L - i)
  OBVIOUS
<1>4. 0 \in Nat
  OBVIOUS
<1>5. Left(raw)[span] \in Nat
  BY <1>2, <1>3, <1>4
<1>6. ASSUME NEW u \in Spans, span.start < L, span.start < u.start
      PROVE  Left(raw)[u] < Left(raw)[span]
  <2>1. PICK i \in Nat, j \in Nat : i = span.start /\ j = u.start
    BY <1>2
  <2>2. Left(raw)[span] = L - i /\ Left(raw)[u] = IF j < L THEN L - j ELSE 0
    BY <1>2, <1>6, <2>1
  <2>. QED
    BY <1>6, <2>1, <2>2
<1>. QED
  BY <1>1, <1>5, <1>6

LEMMA JoinTyped ==
  /\ \A item \in AllItems : \A next : \A rest \in Results :
       Join(Decoded(item, next), rest) \in Results
  /\ \A rest : Join(NoItem, rest) = Raise
<1>1. ASSUME NEW item \in AllItems, NEW next, NEW rest \in Results
      PROVE  Join(Decoded(item, next), rest) \in Results
  <2>1. Join(Decoded(item, next), rest) = IF rest.ok THEN Ok(<<item>> \o rest.value) ELSE Raise
    BY DecodedIs DEF Join
  <2>2. CASE rest.ok
    <3>1. rest.value \in Seq(AllItems)
      BY <2>2, ResultIs
    <3>2. <<item>> \o rest.value \in Seq(AllItems)
      BY <3>1
    <3>. QED
      BY <2>1, <2>2, <3>2, ResultIs
  <2>3. CASE ~rest.ok
    BY <2>1, <2>3 DEF Results
  <2>. QED
    BY <2>2, <2>3
<1>. QED
  BY <1>1, DecodedIs DEF Join

LEMMA ReadIs ==
  ASSUME NEW raw \in Seq(Byte), NEW span \in Spans, NEW f, Reads(f)
  PROVE  /\ Read(raw, span, f) \in Results
         /\ \A g : (\A u \in Spans : Left(raw)[u] < Left(raw)[span] => f[u] = g[u])
                     => Read(raw, span, f) = Read(raw, span, g)
<1>1. PICK pos \in Nat, end \in Nat, L \in Nat : pos = span.start /\ end = span.end /\ L = Len(raw)
  <2>1. span.start \in Nat /\ span.end \in Nat /\ Len(raw) \in Nat
    BY SpanParts, LenProperties
  <2>. QED
    BY <2>1
<1>2. CASE pos >= end
  <2>1. \A g : Read(raw, span, g) = When(list_ends(pos, end), <<>>)
    BY <1>1, <1>2 DEF Read
  <2>2. <<>> \in Seq(AllItems)
    BY EmptySeq
  <2>3. When(list_ends(pos, end), <<>>) \in Results
    BY <2>2, ResultIs DEF When, Results
  <2>. QED
    BY <2>1, <2>3
<1>3. CASE ~(pos >= end)
  <2>1. \A g : Read(raw, span, g) = LET one == decode_item(g, raw, pos) IN Join(one, g[Later(span, one.next)])
    BY <1>1, <1>3 DEF Read
  <2>2. PICK one : one = decode_item(f, raw, pos)
    OBVIOUS
  <2>3. one = NoItem \/ FoundItem(one, pos, L)
    BY <1>1, <2>2, OneItem
  <2>4. Read(raw, span, f) \in Results
    <3>1. CASE one = NoItem
      <4>1. Read(raw, span, f) = Raise
        BY <2>1, <2>2, <3>1, JoinTyped
      <4>. QED
        BY <4>1 DEF Results
    <3>2. CASE FoundItem(one, pos, L)
      <4>1. PICK item \in AllItems, next \in Nat : one = Decoded(item, next)
        BY <3>2 DEF FoundItem
      <4>2. one.next = next /\ Later(span, next) \in Spans
        BY <4>1, DecodedIs, SpanParts
      <4>3. f[Later(span, one.next)] \in Results
        BY <4>2 DEF Reads
      <4>. QED
        BY <2>1, <2>2, <4>1, <4>3, JoinTyped
    <3>. QED
      BY <2>3, <3>1, <3>2
  <2>5. ASSUME NEW g, \A u \in Spans : Left(raw)[u] < Left(raw)[span] => f[u] = g[u]
        PROVE  Read(raw, span, f) = Read(raw, span, g)
    <3>1. CASE pos < L
      <4>1. \A u \in Spans : pos < u.start => f[u] = g[u]
        <5>1. \A u \in Spans : pos < u.start => Left(raw)[u] < Left(raw)[span]
          BY <1>1, <3>1, LeftIs
        <5>. QED
          BY <2>5, <5>1
      <4>2. one = decode_item(g, raw, pos)
        BY <2>2, <4>1, OneItemLocal
      <4>3. CASE one = NoItem
        BY <2>1, <2>2, <4>2, <4>3, JoinTyped
      <4>4. CASE FoundItem(one, pos, L)
        <5>1. PICK item \in AllItems, next \in Nat : one = Decoded(item, next) /\ pos < next
          BY <4>4 DEF FoundItem
        <5>2. one.next = next /\ Later(span, next) \in Spans /\ Later(span, next).start = next
          BY <5>1, DecodedIs, SpanParts
        <5>3. f[Later(span, one.next)] = g[Later(span, one.next)]
          BY <4>1, <5>1, <5>2
        <5>. QED
          BY <2>1, <2>2, <4>2, <5>3
      <4>. QED
        BY <2>3, <4>3, <4>4
    <3>2. CASE ~(pos < L)
      <4>1. \A h : decode_item(h, raw, pos) = NoItem
        <5>1. ~ByteAt(raw, pos) /\ ~StringAt(raw, pos) /\ ~ListAt(raw, pos)
          BY <1>1, <3>2 DEF ByteAt, StringAt, ListAt
        <5>. QED
          BY <5>1, DecodeCases
      <4>. QED
        BY <2>1, <4>1, JoinTyped
    <3>. QED
      BY <3>1, <3>2
  <2>. QED
    BY <2>4, <2>5
<1>. QED
  BY <1>2, <1>3

LEMMA DecodeUnfolds ==
  ASSUME NEW raw \in Seq(Byte)
  PROVE  /\ Reads(decode_items(raw))
         /\ \A span \in Spans : decode_items(raw)[span] = Read(raw, span, decode_items(raw))
<1>. DEFINE D == [span \in Spans |-> Results]
            H == [span \in Spans |-> [f \in Assignments(Spans, D) |-> Read(raw, span, f)]]
            Eq(f) == f = [span \in Spans |-> Read(raw, span, f)]
<1>1. \A span \in Spans : D[span] = Results
  OBVIOUS
<1>2. \A span \in Spans : \A f \in Assignments(Spans, D) : H[span][f] = Read(raw, span, f)
  OBVIOUS
<1>3. \A f \in Assignments(Spans, D) : f = [span \in Spans |-> f[span]] /\ Reads(f)
  BY <1>1 DEF Assignments, Reads
<1>. HIDE DEF D, H
<1>4. GoesDown(H, Spans, D, Left(raw))
  <2>1. ASSUME NEW span \in Spans PROVE Left(raw)[span] \in Nat /\ D[span] # {}
    BY <1>1, LeftIs DEF Results
  <2>2. ASSUME NEW span \in Spans, NEW f \in Assignments(Spans, D) PROVE H[span][f] \in D[span]
    BY <1>1, <1>2, <1>3, ReadIs
  <2>3. ASSUME NEW span \in Spans, NEW f \in Assignments(Spans, D), NEW g \in Assignments(Spans, D),
               \A u \in Spans : Left(raw)[u] < Left(raw)[span] => f[u] = g[u]
        PROVE  H[span][f] = H[span][g]
    BY <1>2, <1>3, <2>3, ReadIs
  <2>. QED
    BY <2>1, <2>2, <2>3 DEF GoesDown
<1>5. PICK f \in Assignments(Spans, D) : Follows(f, H, Spans)
  BY <1>4, RankRecursion
<1>6. Eq(f)
  <2>1. f = [span \in Spans |-> f[span]]
    BY <1>3
  <2>2. \A span \in Spans : f[span] = Read(raw, span, f)
    BY <1>2, <1>5 DEF Follows
  <2>. QED
    BY <2>1, <2>2
<1>7. Eq(decode_items(raw))
  <2>1. decode_items(raw) = CHOOSE g : Eq(g)
    BY DEF decode_items, Read, Join, Later
  <2>. HIDE DEF Eq
  <2>. QED
    BY <1>6, <2>1
<1>8. \A span \in Spans : decode_items(raw)[span] = Read(raw, span, decode_items(raw))
  BY <1>7
<1>. DEFINE F == decode_items(raw)
            T == {span \in Spans : F[span] \in Results}
<1>9. ASSUME NEW span \in Spans, \A u \in Spans : Left(raw)[u] < Left(raw)[span] => u \in T
      PROVE  span \in T
  <2>. DEFINE g == [u \in Spans |-> IF Left(raw)[u] < Left(raw)[span] THEN F[u] ELSE Raise]
  <2>1. \A u \in Spans : g[u] = IF Left(raw)[u] < Left(raw)[span] THEN F[u] ELSE Raise
    OBVIOUS
  <2>. HIDE DEF g
  <2>2. Reads(g)
    BY <1>9, <2>1 DEF Reads, Results
  <2>3. \A u \in Spans : Left(raw)[u] < Left(raw)[span] => g[u] = F[u]
    BY <2>1
  <2>4. Read(raw, span, g) \in Results /\ Read(raw, span, g) = Read(raw, span, F)
    BY <2>2, <2>3, ReadIs
  <2>. QED
    BY <1>8, <2>4
<1>. HIDE DEF T, F, Eq, H, D
<1>10. Spans \subseteq T
  <2>1. PICK rank : rank = Left(raw)
    OBVIOUS
  <2>2. \A span \in Spans : rank[span] \in Nat
    BY <2>1, LeftIs
  <2>3. \A span \in Spans : (\A u \in Spans : rank[u] < rank[span] => u \in T) => span \in T
    BY <1>9, <2>1
  <2>. QED
    BY <2>2, <2>3, RankInduction
<1>11. Reads(F)
  BY <1>10 DEF T, Reads
<1>. QED
  BY <1>8, <1>11 DEF F

\* A sequence, its first element and the others.
Starts(s, a, t) == /\ s = <<a>> \o t /\ Len(s) = Len(t) + 1 /\ s[1] = a
                   /\ \A i \in 1..Len(t) : s[i + 1] = t[i]

LEMMA FirstSplit ==
  ASSUME NEW T, NEW s \in Seq(T), Len(s) # 0
  PROVE  \E a \in T, t \in Seq(T) : Starts(s, a, t)
<1>1. PICK n \in Nat : n = Len(s) /\ n >= 1
  <2>1. Len(s) \in Nat
    BY LenProperties
  <2>. QED
    BY <2>1
<1>2. PICK t : t = SubSeq(s, 2, n)
  OBVIOUS
<1>3. t \in Seq(T) /\ Len(t) = n - 1 /\ \A i \in 1..(n - 1) : t[i] = s[i + 1]
  <2>1. SubSeq(s, 2, n) \in Seq(T) /\ Len(SubSeq(s, 2, n)) = n - 2 + 1
        /\ \A i \in 1..(n - 2 + 1) : SubSeq(s, 2, n)[i] = s[2 + i - 1]
    BY <1>1, PartIs
  <2>2. n - 2 + 1 = n - 1 /\ \A i \in 1..(n - 1) : 2 + i - 1 = i + 1
    BY <1>1
  <2>. QED
    BY <1>2, <2>1, <2>2
<1>4. s[1] \in T
  BY <1>1, ElementOfSeq
<1>5. PICK w : w = <<s[1]>> \o t
  OBVIOUS
<1>6. w \in Seq(T) /\ Len(w) = n /\ w[1] = s[1] /\ \A i \in 1..(n - 1) : w[i + 1] = t[i]
  <2>1. <<s[1]>> \in Seq(T) /\ Len(<<s[1]>>) = 1 /\ <<s[1]>>[1] = s[1]
    BY <1>4
  <2>2. /\ w \in Seq(T) /\ Len(w) = 1 + (n - 1)
        /\ \A i \in 1..1 : w[i] = <<s[1]>>[i]
        /\ \A i \in 1..(n - 1) : w[1 + i] = t[i]
    BY <1>3, <1>5, <2>1, Concats
  <2>3. 1 + (n - 1) = n /\ 1 \in 1..1 /\ \A i \in 1..(n - 1) : 1 + i = i + 1
    BY <1>1
  <2>. QED
    BY <2>1, <2>2, <2>3
<1>7. \A i \in 1..n : w[i] = s[i]
  <2>1. ASSUME NEW i \in 1..n, i # 1 PROVE w[i] = s[i]
    <3>1. PICK j \in 1..(n - 1) : i = j + 1
      <4>1. i - 1 \in 1..(n - 1) /\ i = (i - 1) + 1
        BY <2>1
      <4>. QED
        BY <4>1
    <3>. QED
      BY <1>3, <1>6, <3>1
  <2>. QED
    BY <1>6, <2>1
<1>8. w = s
  BY <1>1, <1>6, <1>7, SeqEqual
<1>9. n = (n - 1) + 1
  BY <1>1
<1>. QED
  BY <1>1, <1>3, <1>4, <1>5, <1>8, <1>9 DEF Starts

\* Decoding what stands where an item's encoding does gives the item back.
ReadsBack(raw, item) ==
  \A pos \in Nat : At(raw, pos, rlp_encode[item]) =>
    decode_item(decode_items(raw), raw, pos) = Decoded(item, pos + Len(rlp_encode[item]))
ListReadsBack(raw, s) ==
  \A start \in Nat : At(raw, start, Joined(s)) =>
    decode_items(raw)[[start |-> start, end |-> start + Len(Joined(s))]] = Ok(s)

LEMMA ListIsRead ==
  ASSUME NEW raw \in Seq(Byte), NEW s \in Seq(Items), \A i \in 1..Len(s) : ReadsBack(raw, s[i])
  PROVE  ListReadsBack(raw, s)
<1>. DEFINE F == decode_items(raw)
            X == {n \in Nat : \A t \in Seq(Items) :
                    Len(t) = n /\ (\A i \in 1..Len(t) : ReadsBack(raw, t[i])) => ListReadsBack(raw, t)}
<1>1. raw \in Seq(Nat)
  BY ByteIs
<1>2. 0 \in X
  <2>. SUFFICES ASSUME NEW t \in Seq(Items), Len(t) = 0, NEW start \in Nat
                PROVE  F[[start |-> start, end |-> start + Len(Joined(t))]] = Ok(t)
    BY DEF ListReadsBack
  <2>1. t = <<>>
    BY EmptySeq
  <2>2. start + Len(Joined(t)) = start
    <3>1. Len(<<>>) = 0
      BY EmptySeq
    <3>. QED
      BY <2>1, <3>1, JoinedIs
  <2>3. F[[start |-> start, end |-> start]] = Read(raw, [start |-> start, end |-> start], F)
    BY DecodeUnfolds, SpanParts
  <2>4. Read(raw, [start |-> start, end |-> start], F) = Ok(<<>>)
    BY DEF Read, When, list_ends
  <2>. QED
    BY <2>1, <2>2, <2>3, <2>4
<1>3. ASSUME NEW n \in Nat, n \in X PROVE n + 1 \in X
  <2>. SUFFICES ASSUME NEW t \in Seq(Items), Len(t) = n + 1, \A i \in 1..Len(t) : ReadsBack(raw, t[i]),
                       NEW start \in Nat, At(raw, start, Joined(t))
                PROVE  F[[start |-> start, end |-> start + Len(Joined(t))]] = Ok(t)
    BY DEF ListReadsBack
  <2>0. PICK a \in Items, u \in Seq(Items) : Starts(t, a, u)
    <3>1. Len(t) # 0
      OBVIOUS
    <3>. QED
      BY <3>1, FirstSplit
  <2>1. t = <<a>> \o u /\ Len(t) = Len(u) + 1 /\ t[1] = a /\ \A i \in 1..Len(u) : t[i + 1] = u[i]
    BY <2>0 DEF Starts
  <2>2. Len(u) \in Nat
    BY LenProperties
  <2>3. Len(u) = n
    BY <2>1, <2>2
  <2>4. ReadsBack(raw, a) /\ \A i \in 1..Len(u) : ReadsBack(raw, u[i])
    <3>1. 1 \in 1..Len(t) /\ \A i \in 1..Len(u) : i + 1 \in 1..Len(t)
      BY <2>3
    <3>. QED
      BY <2>1, <3>1
  <2>5. ListReadsBack(raw, u)
    BY <1>3, <2>3, <2>4
  <2>6. PICK x, y, w : x = rlp_encode[a] /\ y = Joined(u) /\ w = Joined(t)
    OBVIOUS
  <2>7. x \in Seq(Nat) /\ y \in Seq(Nat) /\ w \in Seq(Nat) /\ w = x \o y /\ Len(w) = Len(x) + Len(y)
    BY <2>1, <2>6, JoinedIs, EncodedIs
  <2>8. PICK k \in Nat, m \in Nat : k = Len(x) /\ k >= 1 /\ m = Len(y)
    <3>1. Len(x) \in Nat /\ Len(x) >= 1 /\ Len(y) \in Nat
      BY <2>6, <2>7, EncodedIs, LenProperties
    <3>. QED
      BY <3>1
  <2>9. At(w, 0, x) /\ At(w, k, y)
    BY <2>7, <2>8, AtBegin
  <2>10. At(raw, start, x) /\ At(raw, start + k, y)
    <3>1. At(raw, start + 0, x) /\ At(raw, start + k, y)
      BY <1>1, <2>6, <2>7, <2>8, <2>9, AtInside
    <3>2. start + 0 = start
      OBVIOUS
    <3>. QED
      BY <3>1, <3>2
  <2>11. PICK next \in Nat, end \in Nat : /\ next = start + k /\ end = start + Len(w) /\ end = next + m
                                          /\ start < end
    <3>1. start + k \in Nat /\ start + (k + m) \in Nat /\ start + (k + m) = start + k + m /\ start < start + (k + m)
      BY <2>8
    <3>. QED
      BY <2>7, <2>8, <3>1
  <2>12. decode_item(F, raw, start) = Decoded(a, next)
    BY <2>4, <2>6, <2>8, <2>10, <2>11 DEF ReadsBack
  <2>13. F[[start |-> next, end |-> end]] = Ok(u)
    BY <2>5, <2>6, <2>8, <2>10, <2>11 DEF ListReadsBack
  <2>14. PICK span \in Spans : span = [start |-> start, end |-> end]
    BY SpanParts
  <2>15. span.start = start /\ span.end = end /\ Later(span, next) = [start |-> next, end |-> end]
    BY <2>14, SpanParts
  <2>16. ~(span.start >= span.end)
    BY <2>11, <2>15
  <2>17. F[span] = Read(raw, span, F)
    BY DecodeUnfolds
  <2>. HIDE DEF F
  <2>18. Read(raw, span, F) = Join(Decoded(a, next), Ok(u))
    BY <2>12, <2>13, <2>15, <2>16, DecodedIs DEF Read
  <2>19. Join(Decoded(a, next), Ok(u)) = Ok(<<a>> \o u)
    BY DecodedIs, ResultIs DEF Join
  <2>. QED
    BY <2>1, <2>6, <2>11, <2>14, <2>17, <2>18, <2>19
<1>. HIDE DEF X
<1>4. Nat \subseteq X
  BY <1>2, <1>3, StepInduction
<1>5. Len(s) \in X
  BY <1>4, LenProperties
<1>. QED
  BY <1>5 DEF X

LEMMA AllReadBack ==
  ASSUME NEW raw \in Seq(Byte), Fits(Len(raw))
  PROVE  \A item \in Items : ReadsBack(raw, item)
<1>. DEFINE T == {t \in Items : ReadsBack(raw, t)}
<1>1. ASSUME NEW t \in Items, \A u \in Items : Level[u] < Level[t] => u \in T
      PROVE  t \in T
  <2>1. ~t.leaf => ListReadsBack(raw, t.items)
    <3>. SUFFICES ASSUME ~t.leaf PROVE ListReadsBack(raw, t.items)
      OBVIOUS
    <3>1. t.items \in Seq(Items) /\ \A i \in 1..Len(t.items) : Level[t.items[i]] < Level[t]
      BY ItemParts
    <3>2. \A i \in 1..Len(t.items) : t.items[i] \in Items
      BY <3>1, ElementOfSeq
    <3>3. \A i \in 1..Len(t.items) : ReadsBack(raw, t.items[i])
      BY <1>1, <3>1, <3>2
    <3>. QED
      BY <3>1, <3>3, ListIsRead
  <2>2. ASSUME NEW pos \in Nat, At(raw, pos, rlp_encode[t])
        PROVE  decode_item(decode_items(raw), raw, pos) = Decoded(t, pos + Len(rlp_encode[t]))
    <3>1. PICK F : F = decode_items(raw)
      OBVIOUS
    <3>2. ~t.leaf => \A start \in Nat : At(raw, start, Joined(t.items)) =>
            F[[start |-> start, end |-> start + Len(Joined(t.items))]] = Ok(t.items)
      BY <2>1, <3>1 DEF ListReadsBack
    <3>3. decode_item(F, raw, pos) = Decoded(t, pos + Len(rlp_encode[t]))
      BY <2>2, <3>2, ItemIsRead
    <3>. QED
      BY <3>1, <3>3
  <2>. QED
    BY <2>2 DEF ReadsBack
<1>. HIDE DEF T
<1>2. Items \subseteq T
  <2>1. \A t \in Items : Level[t] \in Nat
    BY LevelIs
  <2>. QED
    BY <1>1, <2>1, RankInduction
<1>. QED
  BY <1>2 DEF T

\* An encoding is bytes, when the headers in it can count what they count.
LEMMA HeaderTyped ==
  ASSUME NEW n \in Nat, NEW offset \in {Str, List}, Fits(n)
  PROVE  rlp_length(n, offset) \in Seq(Byte)
<1>1. PICK k \in Nat : k = Len(minimal_bytes(n)) /\ minimal_bytes(n) \in Seq(Byte)
  BY MinimalIs
<1>2. offset \in Nat /\ ShortMax \in Nat /\ offset + ShortMax + k < Base /\ Base \in Nat
  BY <1>1, Parameters DEF Fits
<1>3. offset + ShortMax + k \in Byte /\ (n <= ShortMax => offset + n \in Byte)
  BY <1>2 DEF Byte
<1>4. CASE n <= ShortMax
  <2>1. rlp_length(n, offset) = <<offset + n>>
    BY <1>4 DEF rlp_length
  <2>. QED
    BY <1>3, <1>4, <2>1
<1>5. CASE ~(n <= ShortMax)
  <2>1. rlp_length(n, offset) = <<offset + ShortMax + k>> \o minimal_bytes(n)
    BY <1>1, <1>5 DEF rlp_length
  <2>2. <<offset + ShortMax + k>> \in Seq(Byte)
    BY <1>3
  <2>. QED
    BY <1>1, <2>1, <2>2, ConcatProperties
<1>. QED
  BY <1>4, <1>5

EncodesBytes(item) == Fits(Len(rlp_encode[item])) => rlp_encode[item] \in Seq(Byte)
JoinsBytes(s) == Fits(Len(Joined(s))) => Joined(s) \in Seq(Byte)

LEMMA JoinedTyped ==
  ASSUME NEW s \in Seq(Items), \A i \in 1..Len(s) : EncodesBytes(s[i])
  PROVE  JoinsBytes(s)
<1>. DEFINE X == {n \in Nat : \A t \in Seq(Items) :
                    Len(t) = n /\ (\A i \in 1..Len(t) : EncodesBytes(t[i])) => JoinsBytes(t)}
<1>1. 0 \in X
  <2>. SUFFICES ASSUME NEW t \in Seq(Items), Len(t) = 0 PROVE JoinsBytes(t)
    OBVIOUS
  <2>1. t = <<>> /\ Joined(t) = <<>> /\ <<>> \in Seq(Byte)
    BY EmptySeq, JoinedIs
  <2>. QED
    BY <2>1 DEF JoinsBytes
<1>2. ASSUME NEW n \in Nat, n \in X PROVE n + 1 \in X
  <2>. SUFFICES ASSUME NEW t \in Seq(Items), Len(t) = n + 1, \A i \in 1..Len(t) : EncodesBytes(t[i]),
                       Fits(Len(Joined(t)))
                PROVE  Joined(t) \in Seq(Byte)
    BY DEF JoinsBytes
  <2>0. PICK a \in Items, u \in Seq(Items) : Starts(t, a, u)
    <3>1. Len(t) # 0
      OBVIOUS
    <3>. QED
      BY <3>1, FirstSplit
  <2>1. t = <<a>> \o u /\ Len(t) = Len(u) + 1 /\ t[1] = a /\ \A i \in 1..Len(u) : t[i + 1] = u[i]
    BY <2>0 DEF Starts
  <2>2. Len(u) \in Nat
    BY LenProperties
  <2>3. Len(u) = n
    BY <2>1, <2>2
  <2>4. EncodesBytes(a) /\ JoinsBytes(u)
    <3>1. 1 \in 1..Len(t) /\ \A i \in 1..Len(u) : i + 1 \in 1..Len(t)
      BY <2>3
    <3>2. \A i \in 1..Len(u) : EncodesBytes(u[i])
      BY <2>1, <3>1
    <3>. QED
      BY <1>2, <2>1, <2>3, <3>1, <3>2
  <2>5. PICK x, y : x = rlp_encode[a] /\ y = Joined(u)
    OBVIOUS
  <2>6. Joined(t) = x \o y /\ Len(Joined(t)) = Len(x) + Len(y) /\ Len(x) \in Nat /\ Len(y) \in Nat
    BY <2>1, <2>5, JoinedIs, EncodedIs
  <2>7. PICK k \in Nat, m \in Nat : k = Len(x) /\ m = Len(y)
    BY <2>6
  <2>8. k <= k + m /\ m <= k + m /\ k + m \in Nat /\ Fits(k + m)
    BY <2>6, <2>7
  <2>9. Fits(k) /\ Fits(m)
    BY <2>8, FitsBelow
  <2>10. x \in Seq(Byte) /\ y \in Seq(Byte)
    BY <2>4, <2>5, <2>7, <2>9 DEF EncodesBytes, JoinsBytes
  <2>. QED
    BY <2>6, <2>10, ConcatProperties
<1>. HIDE DEF X
<1>3. Nat \subseteq X
  BY <1>1, <1>2, StepInduction
<1>4. Len(s) \in X
  BY <1>3, LenProperties
<1>. QED
  BY <1>4 DEF X

LEMMA EncodedTyped ==
  \A item \in Items : EncodesBytes(item)
<1>. DEFINE T == {t \in Items : EncodesBytes(t)}
<1>1. ASSUME NEW t \in Items, \A u \in Items : Level[u] < Level[t] => u \in T
      PROVE  t \in T
  <2>. SUFFICES ASSUME Fits(Len(rlp_encode[t])) PROVE rlp_encode[t] \in Seq(Byte)
    BY DEF EncodesBytes
  <2>1. PICK k \in Nat, m \in Nat : k = Len(Payload(t)) /\ m = Len(rlp_encode[t]) /\ k <= m
    BY EncodedIs
  <2>2. Fits(k)
    BY <2>1, FitsBelow
  <2>3. Payload(t) \in Seq(Byte)
    <3>1. CASE t.leaf
      BY <3>1, ItemParts, LeafIs DEF Payload
    <3>2. CASE ~t.leaf
      <4>1. t.items \in Seq(Items) /\ \A i \in 1..Len(t.items) : Level[t.items[i]] < Level[t]
        BY <3>2, ItemParts
      <4>2. \A i \in 1..Len(t.items) : t.items[i] \in Items
        BY <4>1, ElementOfSeq
      <4>3. \A i \in 1..Len(t.items) : EncodesBytes(t.items[i])
        BY <1>1, <4>1, <4>2
      <4>4. JoinsBytes(t.items)
        BY <4>1, <4>3, JoinedTyped
      <4>. QED
        BY <2>1, <2>2, <3>2, <4>4 DEF JoinsBytes, Payload
    <3>. QED
      BY <3>1, <3>2
  <2>4. CASE IsByte(t)
    <3>1. rlp_encode[t] = Payload(t)
      BY <2>4, EncodedIs DEF IsByte, Payload
    <3>. QED
      BY <2>3, <3>1
  <2>5. CASE ~IsByte(t)
    <3>1. Header(t) \in Seq(Byte)
      BY <2>1, <2>2, HeaderTyped DEF Header, Offset
    <3>2. rlp_encode[t] = Header(t) \o Payload(t)
      BY <2>5, EncodedIs
    <3>. QED
      BY <2>3, <3>1, <3>2, ConcatProperties
  <2>. QED
    BY <2>4, <2>5
<1>. HIDE DEF T
<1>2. Items \subseteq T
  <2>1. \A t \in Items : Level[t] \in Nat
    BY LevelIs
  <2>. QED
    BY <1>1, <2>1, RankInduction
<1>. QED
  BY <1>2 DEF T

LEMMA AtSelf ==
  ASSUME NEW T, NEW s \in Seq(T)
  PROVE  At(s, 0, s)
<1>1. Len(s) \in Nat
  BY LenProperties
<1>2. 0 + Len(s) <= Len(s) /\ \A i \in 1..Len(s) : 0 + i = i
  BY <1>1
<1>. QED
  BY <1>2 DEF At

(* rlp_codec, action=encode and then action=decode: what an item is encoded to decodes to  *)
(* that item, and to the end of the data, whatever the item, as long as its headers can    *)
(* count (lengths below 2^64 in the layout of the code).                                   *)
THEOREM RlpRoundTrip ==
  ASSUME NEW item \in Items, Fits(Len(rlp_encode[item]))
  PROVE  rlp_decode(rlp_encode[item]) = Decoded(item, Len(rlp_encode[item]))
<1>1. PICK raw : raw = rlp_encode[item]
  OBVIOUS
<1>2. raw \in Seq(Byte) /\ Fits(Len(raw))
  BY <1>1, EncodedTyped DEF EncodesBytes
<1>3. PICK L \in Nat : L = Len(raw)
  BY <1>2, LenProperties
<1>4. At(raw, 0, rlp_encode[item])
  BY <1>1, <1>2, AtSelf
<1>5. decode_item(decode_items(raw), raw, 0) = Decoded(item, 0 + L)
  BY <1>1, <1>2, <1>3, <1>4, AllReadBack DEF ReadsBack
<1>6. 0 + L = L
  OBVIOUS
<1>7. decode_item(decode_items(raw), raw, 0) = Decoded(item, L)
  BY <1>5, <1>6
<1>8. rlp_decode(raw) = Decoded(item, L)
  BY <1>3, <1>7, DecodedIs DEF rlp_decode
<1>. QED
  BY <1>1, <1>3, <1>8

(* Two items have one encoding only when they are the same item.                           *)
THEOREM RlpInjective ==
  ASSUME NEW item \in Items, NEW other \in Items, Fits(Len(rlp_encode[item])),
         rlp_encode[item] = rlp_encode[other]
  PROVE  item = other
<1>1. rlp_decode(rlp_encode[item]).item = item
  BY RlpRoundTrip, DecodedIs
<1>2. rlp_decode(rlp_encode[other]).item = other
  BY RlpRoundTrip, DecodedIs
<1>. QED
  BY <1>1, <1>2

-----------------------------------------------------------------------------
(* Data that is longer: what is found in its first bytes stays found.      *)

LEMMA SliceSame ==
  ASSUME NEW p \in Seq(Byte), NEW d \in Seq(Byte), At(d, 0, p),
         NEW from \in Nat, NEW to \in Nat, from <= to, to <= Len(p)
  PROVE  Slice(d, from, to) = Slice(p, from, to)
<1>1. PICK k \in Nat, m \in Nat : k = Len(p) /\ m = Len(d) /\ k <= m
  <2>1. Len(p) \in Nat /\ Len(d) \in Nat
    BY LenProperties
  <2>2. 0 + Len(p) <= Len(d)
    BY DEF At
  <2>3. \A i, j \in Nat : 0 + i <= j => i <= j
    OBVIOUS
  <2>. QED
    BY <2>1, <2>2, <2>3
<1>2. \A i \in 1..k : d[i] = p[i]
  <2>1. \A i \in 1..k : 0 + i = i
    OBVIOUS
  <2>. QED
    BY <1>1, <2>1 DEF At
<1>3. to <= k /\ to <= m
  BY <1>1
<1>4. PICK n \in Nat : n = to - from
  <2>1. to - from \in Nat
    OBVIOUS
  <2>. QED
    BY <2>1
<1>5. /\ Slice(p, from, to) \in Seq(Byte) /\ Len(Slice(p, from, to)) = n
      /\ \A i \in 1..n : Slice(p, from, to)[i] = p[from + i]
  <2>0. to <= Len(p)
    BY <1>1, <1>3
  <2>1. /\ Slice(p, from, to) \in Seq(Byte) /\ Len(Slice(p, from, to)) = to - from
        /\ \A i \in 1..(to - from) : Slice(p, from, to)[i] = p[from + i]
    BY <2>0, SliceWithin
  <2>. QED
    BY <1>4, <2>1
<1>6. /\ Slice(d, from, to) \in Seq(Byte) /\ Len(Slice(d, from, to)) = n
      /\ \A i \in 1..n : Slice(d, from, to)[i] = d[from + i]
  <2>0. to <= Len(d)
    BY <1>1, <1>3
  <2>1. /\ Slice(d, from, to) \in Seq(Byte) /\ Len(Slice(d, from, to)) = to - from
        /\ \A i \in 1..(to - from) : Slice(d, from, to)[i] = d[from + i]
    BY <2>0, SliceWithin
  <2>. QED
    BY <1>4, <2>1
<1>7. \A i \in 1..n : from + i \in 1..k
  BY <1>3, <1>4
<1>8. \A i \in 1..n : Slice(d, from, to)[i] = Slice(p, from, to)[i]
  BY <1>2, <1>5, <1>6, <1>7
<1>. QED
  BY <1>5, <1>6, <1>8, SeqEqual

LEMMA SpanSame ==
  ASSUME NEW p \in Seq(Byte), NEW d \in Seq(Byte), At(d, 0, p), NEW pos \in Nat, NEW offset \in {Str, List},
         pos < Len(p), p[pos + 1] >= offset, payload_span(p, pos, offset).end <= Len(p)
  PROVE  /\ pos < Len(d) /\ d[pos + 1] = p[pos + 1]
         /\ payload_span(d, pos, offset) = payload_span(p, pos, offset)
         /\ payload_span(p, pos, offset).end <= Len(d)
<1>1. PICK k \in Nat, m \in Nat : k = Len(p) /\ m = Len(d) /\ k <= m
  <2>1. Len(p) \in Nat /\ Len(d) \in Nat
    BY LenProperties
  <2>2. 0 + Len(p) <= Len(d)
    BY DEF At
  <2>3. \A i, j \in Nat : 0 + i <= j => i <= j
    OBVIOUS
  <2>. QED
    BY <2>1, <2>2, <2>3
<1>2. pos + 1 \in 1..k /\ 0 + (pos + 1) = pos + 1
  BY <1>1
<1>3. PICK b \in Nat : b = p[pos + 1] /\ b = d[pos + 1]
  <2>1. d[0 + (pos + 1)] = p[pos + 1]
    BY <1>1, <1>2 DEF At
  <2>2. p[pos + 1] \in Nat
    BY <1>1, <1>2, ElementOfSeq, ByteIs
  <2>. QED
    BY <1>2, <2>1, <2>2
<1>4. PICK span : span = payload_span(p, pos, offset)
  OBVIOUS
<1>5. span.start \in Nat /\ span.end \in Nat /\ span.start <= span.end /\ span.end <= k
  BY <1>1, <1>4, SpanTyped
<1>6. payload_span(d, pos, offset) = span
  <2>1. offset \in Nat /\ ShortMax \in Nat /\ offset + ShortMax \in Nat
    BY Parameters
  <2>2. CASE b <= offset + ShortMax
    BY <1>3, <1>4, <2>2 DEF payload_span
  <2>3. CASE ~(b <= offset + ShortMax)
    <3>1. PICK ll \in Nat : ll = b - (offset + ShortMax)
      <4>1. b - (offset + ShortMax) \in Nat
        BY <2>1, <2>3
      <4>. QED
        BY <4>1
    <3>2. PICK from \in Nat, to \in Nat : from = pos + 1 /\ to = pos + 1 + ll /\ from <= to
      <4>1. pos + 1 \in Nat /\ pos + 1 + ll \in Nat /\ pos + 1 <= pos + 1 + ll
        OBVIOUS
      <4>. QED
        BY <4>1
    <3>3. span = [start |-> to, end |-> to + FromBytes(Slice(p, from, to))]
      BY <1>3, <1>4, <2>3, <3>1, <3>2 DEF payload_span
    <3>4. payload_span(d, pos, offset) = [start |-> to, end |-> to + FromBytes(Slice(d, from, to))]
      BY <1>3, <2>3, <3>1, <3>2 DEF payload_span
    <3>5. to <= k
      <4>1. span.start = to
        BY <3>3
      <4>. QED
        BY <1>5, <4>1
    <3>6. Slice(d, from, to) = Slice(p, from, to)
      BY <1>1, <3>2, <3>5, SliceSame
    <3>. QED
      BY <3>3, <3>4, <3>6
  <2>. QED
    BY <2>2, <2>3
<1>7. pos < m /\ span.end <= m
  BY <1>1, <1>5
<1>. QED
  BY <1>1, <1>3, <1>4, <1>6, <1>7

LEMMA OneSame ==
  ASSUME NEW p \in Seq(Byte), NEW d \in Seq(Byte), At(d, 0, p), NEW pos \in Nat, NEW f, NEW g,
         \A span \in Spans : pos < span.start /\ f[span].ok => g[span] = f[span],
         decode_item(f, p, pos).ok
  PROVE  decode_item(g, d, pos) = decode_item(f, p, pos)
<1>1. CASE ByteAt(p, pos)
  <2>1. PICK k \in Nat, m \in Nat : k = Len(p) /\ m = Len(d) /\ k <= m
    <3>1. Len(p) \in Nat /\ Len(d) \in Nat
      BY LenProperties
    <3>2. 0 + Len(p) <= Len(d)
      BY DEF At
    <3>3. \A i, j \in Nat : 0 + i <= j => i <= j
      OBVIOUS
    <3>. QED
      BY <3>1, <3>2, <3>3
  <2>2. pos < k
    BY <1>1, <2>1 DEF ByteAt
  <2>3. pos + 1 \in 1..k /\ 0 + (pos + 1) = pos + 1 /\ pos < m
    BY <2>1, <2>2
  <2>4. d[pos + 1] = p[pos + 1]
    BY <2>1, <2>3 DEF At
  <2>5. ByteAt(d, pos)
    BY <1>1, <2>1, <2>3, <2>4 DEF ByteAt
  <2>6. decode_item(f, p, pos) = Decoded(Leaf(<<p[pos + 1]>>), pos + 1)
    BY <1>1, DecodeCases
  <2>7. decode_item(g, d, pos) = Decoded(Leaf(<<d[pos + 1]>>), pos + 1)
    BY <2>5, DecodeCases
  <2>. QED
    BY <2>4, <2>6, <2>7
<1>2. CASE StringAt(p, pos)
  <2>1. PICK span : span = payload_span(p, pos, Str)
    OBVIOUS
  <2>2. pos < Len(p) /\ p[pos + 1] >= Str /\ p[pos + 1] < List /\ span.end <= Len(p)
    BY <1>2, <2>1 DEF StringAt
  <2>3. span.start \in Nat /\ span.end \in Nat /\ span.start <= span.end
    BY <2>1, <2>2, SpanTyped
  <2>4. pos < Len(d) /\ d[pos + 1] = p[pos + 1] /\ payload_span(d, pos, Str) = span /\ span.end <= Len(d)
    BY <2>1, <2>2, SpanSame
  <2>5. StringAt(d, pos)
    BY <2>2, <2>4 DEF StringAt
  <2>6. Slice(d, span.start, span.end) = Slice(p, span.start, span.end)
    BY <2>2, <2>3, SliceSame
  <2>7. decode_item(f, p, pos) = Decoded(Leaf(Slice(p, span.start, span.end)), span.end)
    BY <1>2, <2>1, DecodeCases
  <2>8. decode_item(g, d, pos) = Decoded(Leaf(Slice(d, span.start, span.end)), span.end)
    BY <2>4, <2>5, DecodeCases
  <2>. QED
    BY <2>6, <2>7, <2>8
<1>3. CASE ListAt(p, pos)
  <2>1. PICK span : span = payload_span(p, pos, List)
    OBVIOUS
  <2>2. pos < Len(p) /\ p[pos + 1] >= List /\ span.end <= Len(p)
    BY <1>3, <2>1 DEF ListAt
  <2>3. pos < span.start /\ span \in Spans
    BY <2>1, <2>2, SpanTyped
  <2>4. pos < Len(d) /\ d[pos + 1] = p[pos + 1] /\ payload_span(d, pos, List) = span /\ span.end <= Len(d)
    BY <2>1, <2>2, SpanSame
  <2>5. ListAt(d, pos)
    BY <2>2, <2>4 DEF ListAt
  <2>6. decode_item(f, p, pos) = IF f[span].ok THEN Decoded(ListOf(f[span].value), span.end) ELSE NoItem
    BY <1>3, <2>1, DecodeCases
  <2>7. f[span].ok
    BY <2>6, DecodedIs
  <2>8. g[span] = f[span]
    BY <2>3, <2>7
  <2>9. decode_item(g, d, pos) = IF g[span].ok THEN Decoded(ListOf(g[span].value), span.end) ELSE NoItem
    BY <2>4, <2>5, DecodeCases
  <2>. QED
    BY <2>6, <2>8, <2>9
<1>4. CASE decode_item(f, p, pos) = NoItem
  BY <1>4, DecodedIs
<1>. QED
  BY <1>1, <1>2, <1>3, <1>4, DecodeCases

\* The items of a span that the shorter data decodes to are those of the longer data.
LEMMA SpansSame ==
  ASSUME NEW p \in Seq(Byte), NEW d \in Seq(Byte), At(d, 0, p)
  PROVE  \A span \in Spans : decode_items(p)[span].ok => decode_items(d)[span] = decode_items(p)[span]
<1>1. PICK F, G : F = decode_items(p) /\ G = decode_items(d)
  OBVIOUS
<1>2. Reads(F) /\ \A span \in Spans : F[span] = Read(p, span, F) /\ G[span] = Read(d, span, G)
  BY <1>1, DecodeUnfolds
<1>. DEFINE T == {span \in Spans : F[span].ok => G[span] = F[span]}
<1>3. ASSUME NEW span \in Spans, \A u \in Spans : Left(p)[u] < Left(p)[span] => u \in T
      PROVE  span \in T
  <2>. SUFFICES ASSUME F[span].ok PROVE Read(d, span, G) = Read(p, span, F)
    BY <1>2
  <2>1. PICK pos \in Nat, end \in Nat : pos = span.start /\ end = span.end
    BY SpanParts
  <2>2. CASE pos >= end
    BY <2>1, <2>2 DEF Read
  <2>3. CASE ~(pos >= end)
    <3>1. PICK one : one = decode_item(F, p, pos)
      OBVIOUS
    <3>2. F[span] = Join(one, F[Later(span, one.next)])
      BY <1>2, <2>1, <2>3, <3>1 DEF Read
    <3>3. one.ok /\ F[Later(span, one.next)].ok
      BY <3>2, ResultIs DEF Join
    <3>4. FoundItem(one, pos, Len(p))
      BY <1>2, <3>1, <3>3, OneItem, DecodedIs
    <3>5. PICK item \in AllItems, next \in Nat : one = Decoded(item, next) /\ pos < next /\ next <= Len(p)
      BY <3>4 DEF FoundItem
    <3>6. one.next = next /\ Later(span, next) \in Spans /\ Later(span, next).start = next
      BY <3>5, DecodedIs, SpanParts
    <3>7. pos < Len(p)
      <4>1. Len(p) \in Nat
        BY LenProperties
      <4>. QED
        BY <3>5, <4>1
    <3>8. \A u \in Spans : pos < u.start /\ F[u].ok => G[u] = F[u]
      <4>1. \A u \in Spans : pos < u.start => Left(p)[u] < Left(p)[span]
        BY <2>1, <3>7, LeftIs
      <4>. QED
        BY <1>3, <4>1
    <3>9. decode_item(G, d, pos) = one
      BY <3>1, <3>3, <3>8, OneSame
    <3>10. G[Later(span, one.next)] = F[Later(span, one.next)]
      BY <3>3, <3>5, <3>6, <3>8
    <3>. QED
      BY <1>2, <2>1, <2>3, <3>2, <3>9, <3>10 DEF Read
  <2>. QED
    BY <2>2, <2>3
<1>. HIDE DEF T
<1>4. Spans \subseteq T
  <2>1. PICK rank : rank = Left(p)
    OBVIOUS
  <2>2. \A span \in Spans : rank[span] \in Nat
    BY <2>1, LeftIs
  <2>3. \A span \in Spans : (\A u \in Spans : rank[u] < rank[span] => u \in T) => span \in T
    BY <1>3, <2>1
  <2>. QED
    BY <2>2, <2>3, RankInduction
<1>. QED
  BY <1>1, <1>4 DEF T

(* Data that decodes never decodes with its end cut off, wherever: no value is taken from  *)
(* a part of its bytes, and none is followed by bytes that go unnoticed.                   *)
THEOREM RlpTruncatedNeverDecodes ==
  ASSUME NEW data \in Seq(Byte), rlp_decode(data).ok, NEW n \in Nat, n < Len(data)
  PROVE  ~rlp_decode(Prefix(data, n)).ok
<1>1. PICK p : p = Prefix(data, n)
  OBVIOUS
<1>2. p \in Seq(Byte) /\ Len(p) = n /\ At(data, 0, p)
  <2>1. Len(data) \in Nat /\ 0 <= n /\ n <= Len(data) /\ n - 0 = n
    BY LenProperties
  <2>2. /\ Slice(data, 0, n) \in Seq(Byte) /\ Len(Slice(data, 0, n)) = n - 0
        /\ \A i \in 1..(n - 0) : Slice(data, 0, n)[i] = data[0 + i]
    BY <2>1, SliceWithin
  <2>3. 0 + n <= Len(data)
    BY <2>1
  <2>. QED
    BY <1>1, <2>1, <2>2, <2>3 DEF Prefix, At
<1>3. SUFFICES ASSUME rlp_decode(p).ok PROVE FALSE
  BY <1>1
<1>4. PICK one : one = decode_item(decode_items(p), p, 0)
  OBVIOUS
<1>5. one.ok /\ one.next = n
  BY <1>2, <1>3, <1>4, DecodedIs DEF rlp_decode
<1>6. \A span \in Spans : decode_items(p)[span].ok => decode_items(data)[span] = decode_items(p)[span]
  BY <1>2, SpansSame
<1>7. decode_item(decode_items(data), data, 0) = one
  <2>1. PICK F, G : F = decode_items(p) /\ G = decode_items(data)
    OBVIOUS
  <2>2. \A span \in Spans : 0 < span.start /\ F[span].ok => G[span] = F[span]
    BY <1>6, <2>1
  <2>3. decode_item(F, p, 0).ok
    BY <1>4, <1>5, <2>1
  <2>4. decode_item(G, data, 0) = decode_item(F, p, 0)
    BY <1>2, <2>2, <2>3, OneSame
  <2>. QED
    BY <1>4, <2>1, <2>4
<1>8. one.next # Len(data)
  BY <1>5, LenProperties
<1>9. rlp_decode(data) = NoItem
  BY <1>7, <1>8 DEF rlp_decode
<1>. QED
  BY <1>9, DecodedIs

-----------------------------------------------------------------------------
(* What was decoded, encoded again.                                        *)

LEMMA HeaderGrows ==
  ASSUME NEW n \in Nat, NEW m \in Nat, m <= n, NEW offset \in {Str, List}
  PROVE  /\ Len(rlp_length(m, offset)) \in Nat /\ Len(rlp_length(n, offset)) \in Nat
         /\ 1 <= Len(rlp_length(m, offset)) /\ Len(rlp_length(m, offset)) <= Len(rlp_length(n, offset))
<1>1. PICK i \in Nat, j \in Nat : i = Len(minimal_bytes(m)) /\ j = Len(minimal_bytes(n)) /\ i <= j
  BY MinimalIs
<1>2. ShortMax \in Nat
  BY Parameters
<1>3. Len(rlp_length(m, offset)) = IF m <= ShortMax THEN 1 ELSE 1 + i
  BY <1>1, HeaderIs
<1>4. Len(rlp_length(n, offset)) = IF n <= ShortMax THEN 1 ELSE 1 + j
  BY <1>1, HeaderIs
<1>. QED
  BY <1>1, <1>2, <1>3, <1>4

LEMMA StartsTyped ==
  ASSUME NEW S, NEW T, NEW a \in T, NEW r \in Seq(T), <<a>> \o r \in Seq(S)
  PROVE  a \in S /\ r \in Seq(S)
<1>1. PICK n \in Nat : n = Len(r) /\ DOMAIN r = 1..n
  BY LenProperties
<1>2. PICK w \in Seq(S) : w = <<a>> \o r
  OBVIOUS
<1>3. Len(w) = 1 + n /\ w[1] = a /\ \A i \in 1..n : w[1 + i] = r[i]
  <2>1. <<a>> \in Seq(T) /\ Len(<<a>>) = 1 /\ <<a>>[1] = a /\ 1 \in 1..1
    OBVIOUS
  <2>. QED
    BY <1>1, <1>2, <2>1, Concats
<1>4. 1 \in 1..(1 + n) /\ \A i \in 1..n : 1 + i \in 1..(1 + n)
  OBVIOUS
<1>5. a \in S /\ \A i \in 1..n : r[i] \in S
  BY <1>3, <1>4, ElementOfSeq
<1>6. r = [i \in 1..n |-> r[i]]
  <2>1. r \in [1..n -> T]
    BY <1>1
  <2>. QED
    BY <2>1
<1>7. r \in [1..n -> S]
  BY <1>5, <1>6
<1>. QED
  BY <1>5, <1>7, SeqDef

\* No more is written than was read, of one item and of the items of a span.
ItemNoLonger(one, pos) == one.ok /\ one.item \in Items => pos + Len(rlp_encode[one.item]) <= one.next
SpanNoLonger(f, span) ==
  f[span].ok /\ f[span].value \in Seq(Items) => span.start + Len(Joined(f[span].value)) <= span.end

LEMMA DecodedNoLonger ==
  ASSUME NEW item, NEW next, NEW pos, pos + Len(rlp_encode[item]) <= next
  PROVE  ItemNoLonger(Decoded(item, next), pos)
<1>1. PICK one : one = Decoded(item, next)
  OBVIOUS
<1>2. one.item = item /\ one.next = next
  BY <1>1, DecodedIs
<1>. QED
  BY <1>1, <1>2 DEF ItemNoLonger

LEMMA OneNoLonger ==
  ASSUME NEW f, NEW raw \in Seq(Byte), NEW pos \in Nat, Reads(f),
         \A span \in Spans : pos < span.start => SpanNoLonger(f, span)
  PROVE  ItemNoLonger(decode_item(f, raw, pos), pos)
<1>1. CASE ByteAt(raw, pos)
  <2>1. PICK b : b = raw[pos + 1]
    OBVIOUS
  <2>2. b \in Byte /\ b < Str
    <3>1. Len(raw) \in Nat
      BY LenProperties
    <3>2. pos + 1 \in 1..Len(raw)
      BY <1>1, <3>1 DEF ByteAt
    <3>. QED
      BY <1>1, <2>1, <3>2, ElementOfSeq DEF ByteAt
  <2>3. <<b>> \in Seq(Byte) /\ Len(<<b>>) = 1 /\ <<b>>[1] = b
    BY <2>2
  <2>4. IsByte(Leaf(<<b>>)) /\ Leaf(<<b>>) \in Items
    BY <2>2, <2>3, LeafIs, LeavesAreItems DEF IsByte
  <2>5. Len(rlp_encode[Leaf(<<b>>)]) = 1
    BY <2>4, EncodedIs
  <2>6. decode_item(f, raw, pos) = Decoded(Leaf(<<b>>), pos + 1)
    BY <1>1, <2>1, DecodeCases
  <2>7. pos + Len(rlp_encode[Leaf(<<b>>)]) <= pos + 1
    BY <2>5
  <2>. QED
    BY <2>6, <2>7, DecodedNoLonger
<1>2. CASE StringAt(raw, pos)
  <2>1. PICK start, n \in Nat : /\ payload_span(raw, pos, Str) = [start |-> start, end |-> start + n]
                                /\ pos + Len(rlp_length(n, Str)) <= start
    BY <1>2, SpanIs DEF StringAt
  <2>2. PICK end \in Nat : end = start + n /\ start <= end
    <3>1. start + n \in Nat /\ start <= start + n
      OBVIOUS
    <3>. QED
      BY <3>1
  <2>3. end <= Len(raw)
    BY <1>2, <2>1, <2>2 DEF StringAt
  <2>4. PICK s : s = Slice(raw, start, end)
    OBVIOUS
  <2>5. s \in Seq(Byte) /\ Len(s) = n
    <3>1. Slice(raw, start, end) \in Seq(Byte) /\ Len(Slice(raw, start, end)) = end - start
      BY <2>2, <2>3, SliceWithin
    <3>2. end - start = n
      BY <2>2
    <3>. QED
      BY <2>4, <3>1, <3>2
  <2>6. decode_item(f, raw, pos) = Decoded(Leaf(s), end)
    <3>1. PICK span : span = payload_span(raw, pos, Str)
      OBVIOUS
    <3>2. span.start = start /\ span.end = end
      BY <2>1, <2>2, <3>1
    <3>3. decode_item(f, raw, pos) = Decoded(Leaf(Slice(raw, span.start, span.end)), span.end)
      BY <1>2, <3>1, DecodeCases
    <3>. QED
      BY <2>4, <3>2, <3>3
  <2>7. PICK h \in Nat : h = Len(rlp_length(n, Str)) /\ 1 <= h
    <3>1. n <= n
      OBVIOUS
    <3>. QED
      BY <3>1, HeaderGrows
  <2>8. Leaf(s) \in Items /\ Payload(Leaf(s)) = s /\ Header(Leaf(s)) = rlp_length(n, Str)
    BY <2>5, LeafIs, LeavesAreItems DEF Payload, Header, Offset
  <2>9. Len(rlp_encode[Leaf(s)]) = 1 \/ Len(rlp_encode[Leaf(s)]) = h + n
    BY <2>5, <2>7, <2>8, EncodedIs
  <2>10. pos + 1 <= end /\ pos + (h + n) <= end
    BY <2>1, <2>2, <2>7
  <2>11. pos + Len(rlp_encode[Leaf(s)]) <= end
    BY <2>9, <2>10
  <2>. QED
    BY <2>6, <2>11, DecodedNoLonger
<1>3. CASE ListAt(raw, pos)
  <2>1. PICK start, n \in Nat : /\ payload_span(raw, pos, List) = [start |-> start, end |-> start + n]
                                /\ pos + Len(rlp_length(n, List)) <= start
    BY <1>3, SpanIs DEF ListAt
  <2>2. PICK end \in Nat : end = start + n
    <3>1. start + n \in Nat
      OBVIOUS
    <3>. QED
      BY <3>1
  <2>3. PICK span \in Spans : span = [start |-> start, end |-> end] /\ span.start = start /\ span.end = end
    BY <2>2, SpanParts
  <2>4. payload_span(raw, pos, List) = span /\ pos < start
    <3>1. payload_span(raw, pos, List) = span
      BY <2>1, <2>2, <2>3
    <3>. QED
      BY <1>3, <2>3, <3>1, SpanTyped DEF ListAt
  <2>5. decode_item(f, raw, pos) = IF f[span].ok THEN Decoded(ListOf(f[span].value), end) ELSE NoItem
    <3>1. decode_item(f, raw, pos) = IF f[span].ok THEN Decoded(ListOf(f[span].value), span.end) ELSE NoItem
      BY <1>3, <2>4, DecodeCases
    <3>. QED
      BY <2>3, <3>1
  <2>. SUFFICES ASSUME f[span].ok, ListOf(f[span].value) \in Items
                PROVE  pos + Len(rlp_encode[ListOf(f[span].value)]) <= end
    BY <2>5, DecodedIs DEF ItemNoLonger
  <2>6. PICK item \in Items : item = ListOf(f[span].value)
    OBVIOUS
  <2>14. PICK v : v = f[span].value /\ item = ListOf(v)
    BY <2>6
  <2>7. ~item.leaf /\ item.items = v
    BY <2>14 DEF ListOf
  <2>8. v \in Seq(Items)
    BY <2>7, ItemParts
  <2>9. PICK m \in Nat : m = Len(Joined(v)) /\ start + m <= end
    <3>1. Len(Joined(v)) \in Nat
      BY <2>8, JoinedIs
    <3>2. start + Len(Joined(v)) <= end
      BY <2>3, <2>4, <2>14, <2>8 DEF SpanNoLonger
    <3>. QED
      BY <3>1, <3>2
  <2>10. m <= n
    BY <2>2, <2>9
  <2>11. PICK h \in Nat, k \in Nat : h = Len(rlp_length(m, List)) /\ k = Len(rlp_length(n, List)) /\ h <= k
    BY <2>10, HeaderGrows
  <2>12. Len(rlp_encode[item]) = h + m
    <3>1. ~IsByte(item) /\ Payload(item) = Joined(v) /\ Header(item) = rlp_length(m, List)
      BY <2>7, <2>9 DEF IsByte, Payload, Header, Offset
    <3>. QED
      BY <2>9, <2>11, <3>1, EncodedIs
  <2>13. pos + (h + m) <= end
    BY <2>1, <2>2, <2>9, <2>11
  <2>. QED
    BY <2>6, <2>12, <2>13
<1>4. CASE decode_item(f, raw, pos) = NoItem
  BY <1>4, DecodedIs DEF ItemNoLonger
<1>. QED
  BY <1>1, <1>2, <1>3, <1>4, DecodeCases

LEMMA SpansNoLonger ==
  ASSUME NEW raw \in Seq(Byte)
  PROVE  \A span \in Spans : SpanNoLonger(decode_items(raw), span)
<1>1. PICK F : F = decode_items(raw)
  OBVIOUS
<1>2. Reads(F) /\ \A span \in Spans : F[span] = Read(raw, span, F)
  BY <1>1, DecodeUnfolds
<1>. DEFINE T == {span \in Spans : SpanNoLonger(F, span)}
<1>3. ASSUME NEW span \in Spans, \A u \in Spans : Left(raw)[u] < Left(raw)[span] => u \in T
      PROVE  span \in T
  <2>1. PICK pos \in Nat, end \in Nat : pos = span.start /\ end = span.end
    BY SpanParts
  <2>. SUFFICES ASSUME F[span].ok, F[span].value \in Seq(Items)
                PROVE  pos + Len(Joined(F[span].value)) <= end
    BY <2>1 DEF SpanNoLonger
  <2>2. CASE pos >= end
    <3>1. F[span] = When(list_ends(pos, end), <<>>)
      BY <1>2, <2>1, <2>2 DEF Read
    <3>2. pos = end /\ F[span].value = <<>>
      BY <3>1, ResultIs DEF When, list_ends
    <3>3. Len(<<>>) = 0 /\ pos + 0 = pos
      BY EmptySeq
    <3>4. Len(Joined(<<>>)) = 0
      BY <3>3, JoinedIs
    <3>5. end + 0 <= end
      OBVIOUS
    <3>. QED
      BY <3>2, <3>4, <3>5
  <2>3. CASE ~(pos >= end)
    <3>1. PICK one : one = decode_item(F, raw, pos)
      OBVIOUS
    <3>2. F[span] = Join(one, F[Later(span, one.next)])
      BY <1>2, <2>1, <2>3, <3>1 DEF Read
    <3>3. one.ok /\ F[Later(span, one.next)].ok /\ F[span] = Ok(<<one.item>> \o F[Later(span, one.next)].value)
      BY <3>2, ResultIs DEF Join
    <3>4. FoundItem(one, pos, Len(raw))
      BY <1>2, <3>1, <3>3, OneItem, DecodedIs
    <3>5. PICK a \in AllItems, next \in Nat : one = Decoded(a, next) /\ pos < next /\ next <= Len(raw)
      BY <3>4 DEF FoundItem
    <3>6. PICK u \in Spans : u = Later(span, next) /\ u.start = next /\ u.end = end
      BY <2>1, SpanParts
    <3>7. PICK r \in Seq(AllItems) : r = F[u].value
      BY <1>2, <3>3, <3>5, <3>6, DecodedIs, ResultIs DEF Reads
    <3>8. F[span].value = <<a>> \o r
      <4>1. one.item = a /\ one.next = next
        BY <3>5, DecodedIs
      <4>2. F[span] = Ok(<<a>> \o r)
        BY <3>3, <3>6, <3>7, <4>1
      <4>. QED
        BY <4>2, ResultIs
    <3>9. a \in Items /\ r \in Seq(Items)
      BY <3>8, StartsTyped
    <3>10. pos < Len(raw)
      <4>1. Len(raw) \in Nat
        BY LenProperties
      <4>. QED
        BY <3>5, <4>1
    <3>11. \A w \in Spans : pos < w.start => SpanNoLonger(F, w)
      <4>1. \A w \in Spans : pos < w.start => Left(raw)[w] < Left(raw)[span]
        BY <2>1, <3>10, LeftIs
      <4>. QED
        BY <1>3, <4>1
    <3>12. pos + Len(rlp_encode[a]) <= next
      <4>1. ItemNoLonger(one, pos)
        BY <1>2, <3>1, <3>11, OneNoLonger
      <4>. QED
        BY <3>5, <3>9, <4>1, DecodedIs DEF ItemNoLonger
    <3>13. next + Len(Joined(r)) <= end
      <4>1. SpanNoLonger(F, u) /\ F[u].ok
        BY <3>3, <3>5, <3>6, <3>11, DecodedIs
      <4>. QED
        BY <3>6, <3>7, <3>9, <4>1 DEF SpanNoLonger
    <3>14. PICK j \in Nat, k \in Nat : j = Len(rlp_encode[a]) /\ k = Len(Joined(r))
      BY <3>9, EncodedIs, JoinedIs
    <3>15. Len(Joined(F[span].value)) = j + k
      BY <3>8, <3>9, <3>14, JoinedIs
    <3>16. pos + (j + k) <= end
      BY <3>12, <3>13, <3>14
    <3>. QED
      BY <3>15, <3>16
  <2>. QED
    BY <2>2, <2>3
<1>. HIDE DEF T
<1>4. Spans \subseteq T
  <2>1. PICK rank : rank = Left(raw)
    OBVIOUS
  <2>2. \A span \in Spans : rank[span] \in Nat
    BY <2>1, LeftIs
  <2>3. \A span \in Spans : (\A u \in Spans : rank[u] < rank[span] => u \in T) => span \in T
    BY <1>3, <2>1
  <2>. QED
    BY <2>2, <2>3, RankInduction
<1>. QED
  BY <1>1, <1>4 DEF T

(* Whatever data decodes, with headers longer than they need be or not, its item is        *)
(* encoded again in no more bytes: each byte was read at most once, and no item reached    *)
(* past the list that it is in.                                                            *)
THEOREM RlpReencodeNoLonger ==
  ASSUME NEW data \in Seq(Byte), rlp_decode(data).ok, rlp_decode(data).item \in Items
  PROVE  Len(rlp_encode[rlp_decode(data).item]) <= Len(data)
<1>1. PICK F, one : F = decode_items(data) /\ one = decode_item(F, data, 0)
  OBVIOUS
<1>2. rlp_decode(data) = IF one.next = Len(data) THEN one ELSE NoItem
  BY <1>1 DEF rlp_decode
<1>3. one.next = Len(data) /\ rlp_decode(data) = one
  BY <1>2, DecodedIs
<1>4. Reads(F) /\ \A span \in Spans : SpanNoLonger(F, span)
  BY <1>1, DecodeUnfolds, SpansNoLonger
<1>5. ItemNoLonger(one, 0)
  BY <1>1, <1>4, OneNoLonger
<1>6. 0 + Len(rlp_encode[one.item]) <= Len(data)
  BY <1>3, <1>5 DEF ItemNoLonger
<1>7. Len(rlp_encode[one.item]) \in Nat /\ Len(data) \in Nat
  BY <1>3, EncodedIs, LenProperties
<1>. QED
  BY <1>3, <1>6, <1>7

(* And that encoding decodes to the same item, whatever spelling it was first read from.   *)
THEOREM RlpDecodedReencodes ==
  ASSUME NEW data \in Seq(Byte), Fits(Len(data)), rlp_decode(data).ok, rlp_decode(data).item \in Items
  PROVE  LET item == rlp_decode(data).item
         IN  rlp_decode(rlp_encode[item]) = Decoded(item, Len(rlp_encode[item]))
<1>1. PICK item \in Items : item = rlp_decode(data).item
  OBVIOUS
<1>2. Len(rlp_encode[item]) \in Nat /\ Len(data) \in Nat /\ Len(rlp_encode[item]) <= Len(data)
  BY <1>1, EncodedIs, LenProperties, RlpReencodeNoLonger
<1>3. Fits(Len(rlp_encode[item]))
  BY <1>2, FitsBelow
<1>. QED
  BY <1>1, <1>3, RlpRoundTrip

\* Powers, and the digits of a number in a width.

LEMMA PowIs ==
  ASSUME NEW base \in Nat, 0 < base
  PROVE  /\ Pow(base, 0) = 1
         /\ \A n \in Nat : Pow(base, n) \in Nat /\ 0 < Pow(base, n)
         /\ \A n \in Nat : Pow(base, n + 1) = base * Pow(base, n)
<1>. DEFINE h == [n \in Nat |-> [y \in Nat |-> base * y]]
            Eq(f) == f = [n \in Nat |-> IF n = 0 THEN 1 ELSE base * f[n - 1]]
            power == CHOOSE f : Eq(f)
<1>1. h \in [Nat -> [Nat -> Nat]] /\ \A n \in Nat : \A y \in Nat : h[n][y] = base * y
  OBVIOUS
<1>. HIDE DEF h
<1>2. PICK f \in [Nat -> Nat] : Iterates(f, 1, h)
  BY <1>1, Iteration
<1>3. f[0] = 1 /\ \A n \in Nat \ {0} : f[n] = base * f[n - 1]
  <2>1. ASSUME NEW n \in Nat \ {0} PROVE f[n - 1] \in Nat
    <3>1. n - 1 \in Nat
      OBVIOUS
    <3>. QED
      BY <3>1
  <2>. QED
    BY <1>1, <1>2, <2>1 DEF Iterates
<1>4. Eq(f)
  BY <1>3
<1>5. Eq(power)
  <2>. HIDE DEF Eq
  <2>. QED
    BY <1>4
<1>6. \A n : Pow(base, n) = power[n]
  BY DEF Pow
<1>. HIDE DEF power
<1>7. power[0] = 1 /\ \A n \in Nat : power[n] = IF n = 0 THEN 1 ELSE base * power[n - 1]
  BY <1>5
<1>8. \A n \in Nat : power[n + 1] = base * power[n]
  <2>1. \A n \in Nat : n + 1 \in Nat /\ n + 1 # 0 /\ (n + 1) - 1 = n
    OBVIOUS
  <2>. QED
    BY <1>7, <2>1
<1>. DEFINE T == {n \in Nat : power[n] \in Nat /\ 0 < power[n]}
<1>9. 0 \in T
  BY <1>7
<1>10. ASSUME NEW n \in Nat, n \in T PROVE n + 1 \in T
  <2>1. PICK p \in Nat : p = power[n] /\ 0 < p
    BY <1>10
  <2>2. power[n + 1] = base * p
    BY <1>8, <2>1
  <2>3. base * p \in Nat /\ 0 < base * p
    BY <2>1
  <2>. QED
    BY <2>2, <2>3
<1>. HIDE DEF T
<1>11. Nat \subseteq T
  BY <1>9, <1>10, StepInduction
<1>12. \A n \in Nat : power[n] \in Nat /\ 0 < power[n]
  BY <1>11 DEF T
<1>. QED
  BY <1>6, <1>7, <1>8, <1>12

\* What a number of so many digits is.
LEMMA PaddedIs ==
  ASSUME NEW base \in Nat, 1 < base, NEW n \in Nat, NEW width \in Nat
  PROVE  /\ Padded(n, base, width) \in Seq(0..(base - 1)) /\ Padded(n, base, width) \in Seq(Nat)
         /\ Len(Padded(n, base, width)) = width
         /\ \A i \in 1..width : Padded(n, base, width)[i] = (n \div Pow(base, width - i)) % base
<1>1. ASSUME NEW i \in 1..width
      PROVE  (n \div Pow(base, width - i)) % base \in 0..(base - 1)
  <2>1. width - i \in Nat
    OBVIOUS
  <2>2. PICK p \in Nat : p = Pow(base, width - i) /\ 0 < p
    BY <2>1, PowIs
  <2>3. n \div p \in Nat
    BY <2>2, Quotient
  <2>. QED
    BY <2>2, <2>3, Quotient
<1>. DEFINE d == [i \in 1..width |-> (n \div Pow(base, width - i)) % base]
<1>2. Padded(n, base, width) = d
  BY DEF Padded
<1>3. d \in [1..width -> 0..(base - 1)] /\ \A i \in 1..width : d[i] = (n \div Pow(base, width - i)) % base
  BY <1>1
<1>. HIDE DEF d
<1>4. d \in Seq(0..(base - 1)) /\ Len(d) = width
  BY <1>3
<1>5. d \in Seq(Nat)
  BY <1>4
<1>. QED
  BY <1>2, <1>3, <1>4, <1>5

\* The last digit apart.
LEMMA PaddedUnfolds ==
  ASSUME NEW base \in Nat, 1 < base, NEW n \in Nat, NEW width \in Nat
  PROVE  Padded(n, base, width + 1) = Append(Padded(n \div base, base, width), n % base)
<1>1. PICK q \in Nat, r \in 0..(base - 1) : q = n \div base /\ r = n % base
  BY Quotient
<1>2. PICK d : d = Padded(n, base, width + 1)
  OBVIOUS
<1>3. PICK e : e = Padded(q, base, width)
  OBVIOUS
<1>4. width + 1 \in Nat
  OBVIOUS
<1>5. /\ d \in Seq(Nat) /\ Len(d) = width + 1
      /\ \A i \in 1..(width + 1) : d[i] = (n \div Pow(base, (width + 1) - i)) % base
  <2>1. PICK w \in Nat : w = width + 1
    BY <1>4
  <2>2. /\ Padded(n, base, w) \in Seq(Nat) /\ Len(Padded(n, base, w)) = w
        /\ \A i \in 1..w : Padded(n, base, w)[i] = (n \div Pow(base, w - i)) % base
    BY PaddedIs
  <2>. QED
    BY <1>2, <2>1, <2>2
<1>6. /\ e \in Seq(Nat) /\ Len(e) = width
      /\ \A i \in 1..width : e[i] = (q \div Pow(base, width - i)) % base
  BY <1>3, PaddedIs
<1>7. /\ Append(e, r) \in Seq(Nat) /\ Len(Append(e, r)) = width + 1
      /\ \A i \in 1..width : Append(e, r)[i] = e[i]
      /\ Append(e, r)[width + 1] = r
  BY <1>6
<1>8. ASSUME NEW i \in 1..width PROVE d[i] = e[i]
  <2>1. i \in 1..(width + 1) /\ width - i \in Nat /\ (width + 1) - i = (width - i) + 1
    OBVIOUS
  <2>2. PICK p \in Nat : p = Pow(base, width - i) /\ 0 < p
    BY <2>1, PowIs
  <2>3. Pow(base, (width + 1) - i) = base * p
    BY <2>1, <2>2, PowIs
  <2>4. n \div (p * base) = (n \div base) \div p
    BY <2>2, QuotientTwice
  <2>5. p * base = base * p
    OBVIOUS
  <2>. QED
    BY <1>1, <1>5, <1>6, <2>1, <2>2, <2>3, <2>4, <2>5
<1>9. d[width + 1] = r
  <2>1. width + 1 \in 1..(width + 1) /\ (width + 1) - (width + 1) = 0
    OBVIOUS
  <2>2. Pow(base, 0) = 1 /\ n \div 1 = n
    BY PowIs
  <2>. QED
    BY <1>1, <1>5, <2>1, <2>2
<1>10. ASSUME NEW i \in 1..(width + 1) PROVE d[i] = Append(e, r)[i]
  <2>1. i \in 1..width \/ i = width + 1
    OBVIOUS
  <2>. QED
    BY <1>7, <1>8, <1>9, <2>1
<1>11. d = Append(e, r)
  BY <1>5, <1>7, <1>10, SeqEqual
<1>. QED
  BY <1>1, <1>2, <1>3, <1>11

\* A number that fits is that of its digits, and digits are those of their number.
LEMMA NumberPadded ==
  ASSUME NEW base \in Nat, 1 < base, NEW n \in Nat, NEW width \in Nat, n < Pow(base, width)
  PROVE  Number(Padded(n, base, width), base) = n
<1>p. \A w \in Nat : Pow(base, w) \in Nat /\ Pow(base, w + 1) = base * Pow(base, w)
  <2>1. 0 < base
    OBVIOUS
  <2>. QED
    BY <2>1, PowIs
<1>. DEFINE X == {w \in Nat : \A m \in Nat :
                     m < Pow(base, w) => Number(Padded(m, base, w), base) = m}
<1>1. 0 \in X
  <2>. SUFFICES ASSUME NEW m \in Nat, m < Pow(base, 0)
                PROVE  Number(Padded(m, base, 0), base) = m
    OBVIOUS
  <2>1. m = 0
    BY PowIs
  <2>2. Padded(m, base, 0) \in Seq(Nat) /\ Len(Padded(m, base, 0)) = 0
    BY PaddedIs
  <2>3. Padded(m, base, 0) = <<>>
    BY <2>2, EmptySeq
  <2>4. <<>> \in Seq(Nat) /\ 0 \in Nat
    OBVIOUS
  <2>. QED
    BY <2>1, <2>3, <2>4, NumberOf
<1>2. ASSUME NEW w \in Nat, w \in X PROVE w + 1 \in X
  <2>. SUFFICES ASSUME NEW m \in Nat, m < Pow(base, w + 1)
                PROVE  Number(Padded(m, base, w + 1), base) = m
    OBVIOUS
  <2>1. PICK q \in Nat, r \in 0..(base - 1) : q = m \div base /\ r = m % base /\ m = q * base + r
    BY Quotient
  <2>2. PICK p \in Nat : p = Pow(base, w) /\ Pow(base, w + 1) = base * p
    BY <1>p
  <2>3. q < p
    <3>1. q * base < base * p
      BY <2>1, <2>2
    <3>2. q >= p => q * base >= p * base
      OBVIOUS
    <3>3. p * base = base * p /\ q * base \in Nat /\ p * base \in Nat
      OBVIOUS
    <3>. QED
      BY <3>1, <3>2, <3>3
  <2>4. Number(Padded(q, base, w), base) = q
    BY <1>2, <2>2, <2>3
  <2>5. Padded(q, base, w) \in Seq(Nat) /\ r \in Nat
    BY PaddedIs
  <2>6. Number(Append(Padded(q, base, w), r), base) = q * base + r
    BY <2>4, <2>5, NumberOf
  <2>. QED
    BY <2>1, <2>6, PaddedUnfolds
<1>. HIDE DEF X
<1>3. width \in X
  BY <1>1, <1>2, StepInduction
<1>. QED
  BY <1>3 DEF X

LEMMA OneDigitMore ==
  ASSUME NEW base \in Nat, 1 < base, NEW m \in Nat, NEW x \in 0..(base - 1), NEW p \in Nat, m < p
  PROVE  /\ m * base + x \in Nat /\ m * base + x < base * p
         /\ (m * base + x) \div base = m /\ (m * base + x) % base = x
<1>1. PICK a \in Nat, b \in Nat : a = m * base /\ b = base * p
  OBVIOUS
<1>2. a + base <= b
  <2>1. (m + 1) * base <= p * base
    OBVIOUS
  <2>2. (m + 1) * base = m * base + base /\ p * base = base * p
    OBVIOUS
  <2>. QED
    BY <1>1, <2>1, <2>2
<1>3. PICK c \in Nat : c = a + x /\ c < b
  BY <1>2
<1>4. c = m * base + x
  BY <1>1, <1>3
<1>5. c \div base = m /\ c % base = x
  BY <1>4, QuotientIs
<1>. QED
  BY <1>1, <1>3, <1>4, <1>5

LEMMA PaddedNumber ==
  ASSUME NEW base \in Nat, 1 < base, NEW s \in Seq(0..(base - 1))
  PROVE  /\ Number(s, base) \in Nat /\ Number(s, base) < Pow(base, Len(s))
         /\ Padded(Number(s, base), base, Len(s)) = s
<1>p. \A w \in Nat : Pow(base, w) \in Nat /\ Pow(base, w + 1) = base * Pow(base, w)
  <2>1. 0 < base
    OBVIOUS
  <2>. QED
    BY <2>1, PowIs
<1>. DEFINE X == {w \in Nat : \A u \in Seq(0..(base - 1)) :
                     Len(u) = w => /\ Number(u, base) < Pow(base, w)
                                   /\ Padded(Number(u, base), base, w) = u}
<1>0. \A u \in Seq(0..(base - 1)) : u \in Seq(Nat)
  OBVIOUS
<1>1. 0 \in X
  <2>. SUFFICES ASSUME NEW u \in Seq(0..(base - 1)), Len(u) = 0
                PROVE  Number(u, base) < Pow(base, 0) /\ Padded(Number(u, base), base, 0) = u
    OBVIOUS
  <2>1. u = <<>>
    BY EmptySeq
  <2>2. <<>> \in Seq(Nat) /\ 0 \in Nat
    OBVIOUS
  <2>3. Number(u, base) = 0
    BY <2>1, <2>2, NumberOf
  <2>4. Pow(base, 0) = 1
    BY PowIs
  <2>5. Padded(0, base, 0) \in Seq(Nat) /\ Len(Padded(0, base, 0)) = 0
    BY PaddedIs
  <2>6. Padded(0, base, 0) = <<>>
    BY <2>5, EmptySeq
  <2>. QED
    BY <2>1, <2>3, <2>4, <2>6
<1>2. ASSUME NEW w \in Nat, w \in X PROVE w + 1 \in X
  <2>. SUFFICES ASSUME NEW u \in Seq(0..(base - 1)), Len(u) = w + 1
                PROVE  /\ Number(u, base) < Pow(base, w + 1)
                       /\ Padded(Number(u, base), base, w + 1) = u
    OBVIOUS
  <2>1. PICK t, x : t = SubSeq(u, 1, w) /\ x = u[w + 1]
    OBVIOUS
  <2>2. t \in Seq(0..(base - 1)) /\ Len(t) = w /\ x \in 0..(base - 1) /\ u = Append(t, x)
    BY <2>1, LastSplit
  <2>3. t \in Seq(Nat) /\ x \in Nat
    BY <1>0, <2>2
  <2>4. PICK m \in Nat : m = Number(t, base) /\ Number(u, base) = m * base + x
    BY <2>2, <2>3, NumberOf
  <2>5. PICK p \in Nat : p = Pow(base, w) /\ Pow(base, w + 1) = base * p
    BY <1>p
  <2>6. m < p /\ Padded(m, base, w) = t
    BY <1>2, <2>2, <2>4, <2>5
  <2>7. PICK a \in Nat : a = m * base + x /\ a < base * p /\ a \div base = m /\ a % base = x
    <3>1. x \in 0..(base - 1) /\ m < p
      BY <2>2, <2>6
    <3>2. /\ m * base + x \in Nat /\ m * base + x < base * p
          /\ (m * base + x) \div base = m /\ (m * base + x) % base = x
      BY <3>1, OneDigitMore
    <3>. QED
      BY <3>2
  <2>8. Padded(a, base, w + 1) = Append(t, x)
    <3>1. Padded(a, base, w + 1) = Append(Padded(a \div base, base, w), a % base)
      BY PaddedUnfolds
    <3>. QED
      BY <2>6, <2>7, <3>1
  <2>. QED
    BY <2>2, <2>4, <2>5, <2>7, <2>8
<1>. HIDE DEF X
<1>3. Nat \subseteq X
  BY <1>1, <1>2, StepInduction
<1>4. Len(s) \in Nat /\ s \in Seq(Nat) /\ 0 \in Nat
  BY <1>0, LenProperties
<1>5. Number(s, base) \in Nat
  BY <1>4, NumberOf
<1>. QED
  BY <1>3, <1>4, <1>5 DEF X

-----------------------------------------------------------------------------
(* Symbols and their bits.                                                 *)

\* The place in a row of groups of the place k of group j, and back.
LEMMA Places ==
  ASSUME NEW n \in Nat, NEW w \in Nat, 0 < w
  PROVE  /\ n * w \in Nat /\ (n * w) \div w = n
         /\ \A j \in 1..n : \A k \in 1..w :
              /\ (j - 1) * w + k \in 1..(n * w)
              /\ ((j - 1) * w + k - 1) \div w = j - 1 /\ ((j - 1) * w + k - 1) % w = k - 1
         /\ \A i \in 1..(n * w) : \E j \in 1..n : \E k \in 1..w : i = (j - 1) * w + k
<1>1. PICK m \in Nat : m = n * w
  OBVIOUS
<1>2. m \div w = n
  <2>1. m = n * w + 0 /\ 0 \in 0..(w - 1)
    BY <1>1
  <2>. QED
    BY <2>1, QuotientIs
<1>3. ASSUME NEW j \in 1..n, NEW k \in 1..w
      PROVE  /\ (j - 1) * w + k \in 1..m
             /\ ((j - 1) * w + k - 1) \div w = j - 1 /\ ((j - 1) * w + k - 1) % w = k - 1
  <2>1. PICK p \in Nat : p = (j - 1) * w
    <3>1. j - 1 \in Nat
      OBVIOUS
    <3>. QED
      BY <3>1
  <2>2. p + w <= m
    <3>1. j * w <= n * w
      OBVIOUS
    <3>2. (j - 1) * w + w = j * w
      OBVIOUS
    <3>. QED
      BY <1>1, <2>1, <3>1, <3>2
  <2>3. PICK a \in Nat : a = p + k - 1
    BY <2>1
  <2>4. j - 1 \in Nat /\ k - 1 \in 0..(w - 1) /\ a = (j - 1) * w + (k - 1)
    BY <2>1, <2>3
  <2>5. a \div w = j - 1 /\ a % w = k - 1
    BY <2>4, QuotientIs
  <2>6. p + k \in 1..m
    BY <2>2
  <2>. QED
    BY <2>1, <2>3, <2>5, <2>6
<1>4. ASSUME NEW i \in 1..m
      PROVE  \E j \in 1..n : \E k \in 1..w : i = (j - 1) * w + k
  <2>1. PICK a \in Nat : a = i - 1
    OBVIOUS
  <2>2. PICK q \in Nat, r \in 0..(w - 1) : q = a \div w /\ r = a % w /\ a = q * w + r
    BY Quotient
  <2>3. q < n
    <3>1. q * w <= a /\ a < n * w
      BY <1>1, <2>1, <2>2
    <3>2. q >= n => q * w >= n * w
      OBVIOUS
    <3>. QED
      BY <3>1, <3>2
  <2>4. PICK j \in 1..n, k \in 1..w : j - 1 = q /\ k = r + 1
    <3>1. q + 1 \in 1..n /\ (q + 1) - 1 = q /\ r + 1 \in 1..w
      BY <2>3
    <3>. QED
      BY <3>1
  <2>5. i = (j - 1) * w + k
    BY <2>1, <2>2, <2>4
  <2>. QED
    BY <2>5
<1>. QED
  BY <1>1, <1>2, <1>3, <1>4

\* The bits of a number.
LEMMA BinaryIs ==
  ASSUME NEW n \in Nat, NEW width \in Nat
  PROVE  /\ Padded(n, 2, width) \in Seq({0, 1}) /\ Padded(n, 2, width) \in Seq(Nat)
         /\ Len(Padded(n, 2, width)) = width /\ Pow(2, width) \in Nat /\ 0 < Pow(2, width)
         /\ \A i \in 1..width : Padded(n, 2, width)[i] = (n \div Pow(2, width - i)) % 2
<1>1. 2 \in Nat /\ 1 < 2 /\ 0 < 2 /\ 0..(2 - 1) = {0, 1}
  OBVIOUS
<1>2. Pow(2, width) \in Nat /\ 0 < Pow(2, width)
  BY <1>1, PowIs
<1>3. /\ Padded(n, 2, width) \in Seq(0..(2 - 1)) /\ Padded(n, 2, width) \in Seq(Nat)
      /\ Len(Padded(n, 2, width)) = width
      /\ \A i \in 1..width : Padded(n, 2, width)[i] = (n \div Pow(2, width - i)) % 2
  BY <1>1, PaddedIs
<1>. QED
  BY <1>1, <1>2, <1>3

LEMMA BitsIs ==
  ASSUME NEW w \in Nat, 0 < w, NEW s \in Seq(Nat)
  PROVE  /\ BitsOf(s, w) \in Seq({0, 1}) /\ Len(BitsOf(s, w)) = Len(s) * w
         /\ \A j \in 1..Len(s) : \A k \in 1..w :
              BitsOf(s, w)[(j - 1) * w + k] = Padded(s[j], 2, w)[k]
<1>1. PICK n \in Nat : n = Len(s)
  BY LenProperties
<1>2. PICK m \in Nat : m = n * w
  OBVIOUS
<1>. DEFINE at(i) == Bit(s[((i - 1) \div w) + 1], w - 1 - ((i - 1) % w))
            b == [i \in 1..m |-> at(i)]
<1>3. BitsOf(s, w) = b
  BY <1>1, <1>2 DEF BitsOf
<1>4. ASSUME NEW j \in 1..n, NEW k \in 1..w
      PROVE  at((j - 1) * w + k) = Padded(s[j], 2, w)[k] /\ at((j - 1) * w + k) \in {0, 1}
  <2>1. s[j] \in Nat
    BY <1>1, ElementOfSeq
  <2>2. PICK q, r : q = ((j - 1) * w + k - 1) \div w /\ r = ((j - 1) * w + k - 1) % w
    OBVIOUS
  <2>3. q = j - 1 /\ r = k - 1
    BY <2>2, Places
  <2>4. q + 1 = j /\ w - 1 - r = w - k /\ w - k \in Nat
    BY <2>3
  <2>5. at((j - 1) * w + k) = Bit(s[j], w - k)
    BY <2>2, <2>4
  <2>6. Padded(s[j], 2, w)[k] = (s[j] \div Pow(2, w - k)) % 2
    BY <2>1, BinaryIs
  <2>7. Padded(s[j], 2, w) \in Seq({0, 1}) /\ Len(Padded(s[j], 2, w)) = w
    BY <2>1, BinaryIs
  <2>8. Padded(s[j], 2, w)[k] \in {0, 1}
    BY <2>7, ElementOfSeq
  <2>. QED
    BY <2>5, <2>6, <2>8 DEF Bit
<1>. HIDE DEF at
<1>5. ASSUME NEW i \in 1..m PROVE b[i] \in {0, 1}
  <2>1. PICK j \in 1..n, k \in 1..w : i = (j - 1) * w + k
    <3>1. i \in 1..(n * w)
      BY <1>2
    <3>. QED
      BY <3>1, Places
  <2>. QED
    BY <1>4, <2>1
<1>6. b \in Seq({0, 1}) /\ Len(b) = m
  BY <1>5
<1>7. ASSUME NEW j \in 1..n, NEW k \in 1..w
      PROVE  b[(j - 1) * w + k] = Padded(s[j], 2, w)[k]
  <2>1. (j - 1) * w + k \in 1..m
    BY <1>2, Places
  <2>. QED
    BY <1>4, <2>1
<1>. QED
  BY <1>1, <1>2, <1>3, <1>6, <1>7

\* A group: its bits.
LEMMA GroupIs ==
  ASSUME NEW w \in Nat, 0 < w, NEW bits \in Seq({0, 1}), NEW j \in 1..(Len(bits) \div w)
  PROVE  /\ SubSeq(bits, (j - 1) * w + 1, j * w) \in Seq({0, 1})
         /\ Len(SubSeq(bits, (j - 1) * w + 1, j * w)) = w
         /\ \A k \in 1..w : SubSeq(bits, (j - 1) * w + 1, j * w)[k] = bits[(j - 1) * w + k]
<1>1. PICK L \in Nat : L = Len(bits)
  BY LenProperties
<1>2. PICK n \in Nat : n = L \div w /\ n * w <= L
  <2>1. PICK q \in Nat, r \in 0..(w - 1) : q = L \div w /\ L = q * w + r
    BY Quotient
  <2>2. q * w \in Nat
    OBVIOUS
  <2>. QED
    BY <2>1, <2>2
<1>3. PICK p \in Nat : p = (j - 1) * w
  <2>1. j - 1 \in Nat
    BY <1>1, <1>2
  <2>. QED
    BY <2>1
<1>4. j * w = p + w /\ p + w <= L
  <2>1. j \in 1..n
    BY <1>1, <1>2
  <2>2. j * w <= n * w /\ (j - 1) * w + w = j * w
    BY <2>1
  <2>. QED
    BY <1>2, <1>3, <2>2
<1>5. p + 1 \in Int /\ p + w \in Int /\ 1 <= p + 1 /\ p + 1 <= p + w + 1 /\ p + w <= Len(bits)
  BY <1>1, <1>4
<1>6. PICK part : part = SubSeq(bits, p + 1, p + w)
  OBVIOUS
<1>7. /\ part \in Seq({0, 1}) /\ Len(part) = p + w - (p + 1) + 1
      /\ \A i \in 1..(p + w - (p + 1) + 1) : part[i] = bits[p + 1 + i - 1]
  BY <1>5, <1>6, PartIs
<1>8. p + w - (p + 1) + 1 = w /\ \A i \in 1..w : p + 1 + i - 1 = p + i
  OBVIOUS
<1>9. part \in Seq({0, 1}) /\ Len(part) = w /\ \A k \in 1..w : part[k] = bits[p + k]
  BY <1>7, <1>8
<1>. QED
  BY <1>3, <1>4, <1>6, <1>9

Symbols(w) == 0..(Pow(2, w) - 1)

LEMMA GroupsIs ==
  ASSUME NEW w \in Nat, 0 < w, NEW bits \in Seq({0, 1})
  PROVE  /\ Len(bits) \div w \in Nat
         /\ Groups(bits, w) \in Seq(Symbols(w)) /\ Groups(bits, w) \in Seq(Nat)
         /\ Len(Groups(bits, w)) = Len(bits) \div w
         /\ \A j \in 1..(Len(bits) \div w) :
              /\ Groups(bits, w)[j] = Number(SubSeq(bits, (j - 1) * w + 1, j * w), 2)
              /\ Padded(Groups(bits, w)[j], 2, w) = SubSeq(bits, (j - 1) * w + 1, j * w)
<1>1. PICK n \in Nat : n = Len(bits) \div w
  BY LenProperties, Quotient
<1>. DEFINE part(j) == SubSeq(bits, (j - 1) * w + 1, j * w)
            g == [j \in 1..n |-> Number(part(j), 2)]
<1>2. Groups(bits, w) = g
  BY <1>1 DEF Groups
<1>3. ASSUME NEW j \in 1..n
      PROVE  Number(part(j), 2) \in Symbols(w) /\ Padded(Number(part(j), 2), 2, w) = part(j)
  <2>1. part(j) \in Seq({0, 1}) /\ Len(part(j)) = w
    BY <1>1, GroupIs
  <2>. HIDE DEF part
  <2>2. 0..(2 - 1) = {0, 1}
    OBVIOUS
  <2>3. part(j) \in Seq(0..(2 - 1))
    BY <2>1, <2>2
  <2>4. /\ Number(part(j), 2) \in Nat /\ Number(part(j), 2) < Pow(2, w)
        /\ Padded(Number(part(j), 2), 2, w) = part(j)
    BY <2>1, <2>3, PaddedNumber
  <2>5. Pow(2, w) \in Nat
    BY BinaryIs
  <2>. QED
    BY <2>4, <2>5 DEF Symbols
<1>. HIDE DEF part
<1>4. g \in [1..n -> Symbols(w)]
  BY <1>3
<1>5. g \in Seq(Symbols(w)) /\ Len(g) = n
  BY <1>4
<1>6. Symbols(w) \subseteq Nat
  BY DEF Symbols
<1>7. g \in Seq(Nat)
  BY <1>5, <1>6, SeqMonotonic
<1>8. \A j \in 1..n : g[j] = Number(part(j), 2) /\ Padded(g[j], 2, w) = part(j)
  BY <1>3
<1>. QED
  BY <1>1, <1>2, <1>5, <1>7, <1>8 DEF part

\* The groups of the bits of symbols, and of fewer more than another takes, are the symbols.
LEMMA GroupsOfBits ==
  ASSUME NEW w \in Nat, 0 < w, NEW s \in Seq(Symbols(w)), NEW t \in Seq({0, 1}), Len(t) < w
  PROVE  Groups(BitsOf(s, w) \o t, w) = s
<1>0. Symbols(w) \subseteq Nat /\ s \in Seq(Nat)
  <2>1. Symbols(w) \subseteq Nat
    BY DEF Symbols
  <2>. QED
    BY <2>1, SeqMonotonic
<1>1. PICK n \in Nat, r \in Nat : n = Len(s) /\ r = Len(t)
  <2>1. Len(s) \in Nat /\ Len(t) \in Nat
    BY LenProperties
  <2>. QED
    BY <2>1
<1>2. PICK b : b = BitsOf(s, w)
  OBVIOUS
<1>3. /\ b \in Seq({0, 1}) /\ Len(b) = n * w
      /\ \A j \in 1..n : \A k \in 1..w : b[(j - 1) * w + k] = Padded(s[j], 2, w)[k]
  BY <1>0, <1>1, <1>2, BitsIs
<1>4. PICK c : c = b \o t
  OBVIOUS
<1>5. c \in Seq({0, 1}) /\ Len(c) = n * w + r /\ \A i \in 1..(n * w) : c[i] = b[i]
  <2>1. c \in Seq({0, 1}) /\ Len(c) = Len(b) + Len(t) /\ \A i \in 1..Len(b) : c[i] = b[i]
    BY <1>3, <1>4, Concats
  <2>. QED
    BY <1>1, <1>3, <2>1
<1>6. Len(c) \div w = n
  <2>1. r \in 0..(w - 1) /\ n * w + r \in Nat
    <3>1. n * w \in Nat
      OBVIOUS
    <3>. QED
      BY <1>1, <3>1
  <2>. QED
    BY <1>5, <2>1, QuotientIs
<1>7. PICK g : g = Groups(c, w)
  OBVIOUS
<1>8. /\ g \in Seq(Nat) /\ Len(g) = n
      /\ \A j \in 1..n : g[j] = Number(SubSeq(c, (j - 1) * w + 1, j * w), 2)
  BY <1>5, <1>6, <1>7, GroupsIs
<1>9. ASSUME NEW j \in 1..n PROVE g[j] = s[j]
  <2>1. PICK u : u = SubSeq(c, (j - 1) * w + 1, j * w)
    OBVIOUS
  <2>2. /\ u \in Seq({0, 1}) /\ Len(u) = w /\ \A k \in 1..w : u[k] = c[(j - 1) * w + k]
    BY <1>5, <1>6, <2>1, GroupIs
  <2>3. s[j] \in Symbols(w) /\ s[j] \in Nat
    BY <1>0, <1>1, ElementOfSeq
  <2>4. PICK d : d = Padded(s[j], 2, w)
    OBVIOUS
  <2>5. d \in Seq(Nat) /\ Len(d) = w
    BY <2>3, <2>4, BinaryIs
  <2>6. ASSUME NEW k \in 1..w PROVE u[k] = d[k]
    <3>1. (j - 1) * w + k \in 1..(n * w)
      BY Places
    <3>. QED
      BY <1>3, <1>5, <2>2, <2>4, <3>1
  <2>7. u = d
    BY <2>2, <2>5, <2>6, SeqEqual
  <2>8. s[j] < Pow(2, w)
    <3>1. Pow(2, w) \in Nat
      BY BinaryIs
    <3>. QED
      BY <2>3, <3>1 DEF Symbols
  <2>9. Number(d, 2) = s[j]
    BY <2>3, <2>4, <2>8, NumberPadded
  <2>. QED
    BY <1>8, <2>1, <2>7, <2>9
<1>10. g = s
  BY <1>0, <1>1, <1>8, <1>9, SeqEqual
<1>. QED
  BY <1>2, <1>4, <1>7, <1>10

\* The bits of whole groups are the bits.
LEMMA BitsOfGroups ==
  ASSUME NEW w \in Nat, 0 < w, NEW bits \in Seq({0, 1}), NEW n \in Nat, Len(bits) = n * w
  PROVE  Groups(bits, w) \in Seq(Symbols(w)) /\ Len(Groups(bits, w)) = n /\ BitsOf(Groups(bits, w), w) = bits
<1>1. Len(bits) \div w = n /\ n * w \in Nat
  BY Places
<1>2. PICK g : g = Groups(bits, w)
  OBVIOUS
<1>3. /\ g \in Seq(Symbols(w)) /\ g \in Seq(Nat) /\ Len(g) = n
      /\ \A j \in 1..n : Padded(g[j], 2, w) = SubSeq(bits, (j - 1) * w + 1, j * w)
  BY <1>1, <1>2, GroupsIs
<1>4. PICK b : b = BitsOf(g, w)
  OBVIOUS
<1>5. /\ b \in Seq({0, 1}) /\ Len(b) = n * w
      /\ \A j \in 1..n : \A k \in 1..w : b[(j - 1) * w + k] = Padded(g[j], 2, w)[k]
  BY <1>3, <1>4, BitsIs
<1>6. ASSUME NEW i \in 1..(n * w) PROVE b[i] = bits[i]
  <2>1. PICK j \in 1..n, k \in 1..w : i = (j - 1) * w + k
    BY Places
  <2>2. SubSeq(bits, (j - 1) * w + 1, j * w)[k] = bits[(j - 1) * w + k]
    BY <1>1, GroupIs
  <2>. QED
    BY <1>3, <1>5, <2>1, <2>2
<1>7. b = bits
  BY <1>1, <1>5, <1>6, SeqEqual
<1>. QED
  BY <1>2, <1>3, <1>4, <1>7

\* The two parts of a sequence.
LEMMA PrefixWithout ==
  ASSUME NEW T, NEW s \in Seq(T), NEW m \in Nat, m <= Len(s)
  PROVE  /\ Prefix(s, m) \in Seq(T) /\ Len(Prefix(s, m)) = m
         /\ Without(s, m) \in Seq(T) /\ Len(Without(s, m)) = Len(s) - m
         /\ Prefix(s, m) \o Without(s, m) = s
<1>1. PICK n \in Nat : n = Len(s) /\ m <= n
  BY LenProperties
<1>2. 0 \in Nat /\ 0 <= m /\ m - 0 = m /\ \A i \in 1..m : 0 + i = i
  OBVIOUS
<1>3. /\ Slice(s, 0, m) \in Seq(T) /\ Len(Slice(s, 0, m)) = m - 0
      /\ \A i \in 1..(m - 0) : Slice(s, 0, m)[i] = s[0 + i]
  <2>1. m <= Len(s)
    OBVIOUS
  <2>. QED
    BY <1>2, <2>1, SliceWithin
<1>4. PICK a : a = Prefix(s, m) /\ a \in Seq(T) /\ Len(a) = m /\ \A i \in 1..m : a[i] = s[i]
  BY <1>2, <1>3 DEF Prefix
<1>5. PICK b : b = SubSeq(s, m + 1, n)
  OBVIOUS
<1>6. m + 1 \in Int /\ n \in Int /\ 1 <= m + 1 /\ m + 1 <= n + 1 /\ n <= Len(s)
  BY <1>1
<1>7. /\ b \in Seq(T) /\ Len(b) = n - (m + 1) + 1
      /\ \A i \in 1..(n - (m + 1) + 1) : b[i] = s[m + 1 + i - 1]
  BY <1>5, <1>6, PartIs
<1>8. n - (m + 1) + 1 = n - m /\ \A i \in 1..(n - m) : m + 1 + i - 1 = m + i
  OBVIOUS
<1>9. b \in Seq(T) /\ Len(b) = n - m /\ \A i \in 1..(n - m) : b[i] = s[m + i]
  BY <1>7, <1>8
<1>10. /\ a \o b \in Seq(T) /\ Len(a \o b) = m + (n - m)
       /\ \A i \in 1..m : (a \o b)[i] = a[i]
       /\ \A i \in 1..(n - m) : (a \o b)[m + i] = b[i]
  <2>1. /\ a \o b \in Seq(T) /\ Len(a \o b) = Len(a) + Len(b)
        /\ \A i \in 1..Len(a) : (a \o b)[i] = a[i]
        /\ \A i \in 1..Len(b) : (a \o b)[Len(a) + i] = b[i]
    <3>1. a \in Seq(T) /\ b \in Seq(T)
      BY <1>4, <1>9
    <3>. QED
      BY <3>1, Concats
  <2>. QED
    BY <1>4, <1>9, <2>1
<1>11. ASSUME NEW i \in 1..n PROVE (a \o b)[i] = s[i]
  <2>1. CASE i <= m
    <3>1. i \in 1..m
      BY <2>1
    <3>. QED
      BY <1>4, <1>10, <3>1
  <2>2. CASE i > m
    <3>1. PICK k \in 1..(n - m) : i = m + k
      <4>1. i - m \in 1..(n - m) /\ i = m + (i - m)
        BY <2>2
      <4>. QED
        BY <4>1
    <3>. QED
      BY <1>9, <1>10, <3>1
  <2>3. i <= m \/ i > m
    OBVIOUS
  <2>. QED
    BY <2>1, <2>2, <2>3
<1>12. Len(a \o b) = n
  BY <1>1, <1>10
<1>13. a \o b = s
  BY <1>1, <1>10, <1>11, <1>12, SeqEqual
<1>. QED
  BY <1>1, <1>4, <1>5, <1>9, <1>13 DEF Without

LEMMA PartsOfJoined ==
  ASSUME NEW T, NEW x \in Seq(T), NEW y \in Seq(T)
  PROVE  Prefix(x \o y, Len(x)) = x /\ Without(x \o y, Len(x)) = y
<1>1. PICK m \in Nat, k \in Nat : m = Len(x) /\ k = Len(y)
  <2>1. Len(x) \in Nat /\ Len(y) \in Nat
    BY LenProperties
  <2>. QED
    BY <2>1
<1>2. PICK s : s = x \o y
  OBVIOUS
<1>3. /\ s \in Seq(T) /\ Len(s) = m + k
      /\ \A i \in 1..m : s[i] = x[i]
      /\ \A i \in 1..k : s[m + i] = y[i]
  BY <1>1, <1>2, Concats
<1>4. m <= Len(s) /\ Len(s) - m = k
  BY <1>3
<1>5. PICK a, b : a = Prefix(s, m) /\ b = Without(s, m)
  OBVIOUS
<1>6. /\ a \in Seq(T) /\ Len(a) = m /\ b \in Seq(T) /\ Len(b) = k /\ a \o b = s
  BY <1>3, <1>4, <1>5, PrefixWithout
<1>7. /\ \A i \in 1..m : (a \o b)[i] = a[i]
      /\ \A i \in 1..k : (a \o b)[m + i] = b[i]
  <2>1. /\ \A i \in 1..Len(a) : (a \o b)[i] = a[i]
        /\ \A i \in 1..Len(b) : (a \o b)[Len(a) + i] = b[i]
    <3>1. a \in Seq(T) /\ b \in Seq(T)
      BY <1>6
    <3>. QED
      BY <3>1, Concats
  <2>. QED
    BY <1>6, <2>1
<1>8. \A i \in 1..m : a[i] = x[i]
  BY <1>3, <1>6, <1>7
<1>9. \A i \in 1..k : b[i] = y[i]
  BY <1>3, <1>6, <1>7
<1>10. a = x
  BY <1>1, <1>6, <1>8, SeqEqual
<1>11. b = y
  BY <1>1, <1>6, <1>9, SeqEqual
<1>. QED
  BY <1>1, <1>2, <1>5, <1>10, <1>11

LEMMA EightBits == Symbols(8) = 0..255 /\ 8 \in Nat /\ 0 < 8
<1>1. Pow(2, 0) = 1 /\ \A n \in Nat : Pow(2, n + 1) = 2 * Pow(2, n)
  <2>1. 2 \in Nat /\ 0 < 2
    OBVIOUS
  <2>. QED
    BY <2>1, PowIs
<1>2. /\ Pow(2, 0 + 1) = 2 * Pow(2, 0) /\ Pow(2, 1 + 1) = 2 * Pow(2, 1) /\ Pow(2, 2 + 1) = 2 * Pow(2, 2)
      /\ Pow(2, 3 + 1) = 2 * Pow(2, 3) /\ Pow(2, 4 + 1) = 2 * Pow(2, 4) /\ Pow(2, 5 + 1) = 2 * Pow(2, 5)
      /\ Pow(2, 6 + 1) = 2 * Pow(2, 6) /\ Pow(2, 7 + 1) = 2 * Pow(2, 7)
  BY <1>1
<1>3. /\ 0 + 1 = 1 /\ 1 + 1 = 2 /\ 2 + 1 = 3 /\ 3 + 1 = 4 /\ 4 + 1 = 5 /\ 5 + 1 = 6 /\ 6 + 1 = 7
      /\ 7 + 1 = 8
  OBVIOUS
<1>4. Pow(2, 1) = 2 /\ Pow(2, 2) = 4 /\ Pow(2, 3) = 8 /\ Pow(2, 4) = 16
  BY <1>1, <1>2, <1>3
<1>5. Pow(2, 5) = 32 /\ Pow(2, 6) = 64 /\ Pow(2, 7) = 128 /\ Pow(2, 8) = 256
  BY <1>2, <1>3, <1>4
<1>. QED
  BY <1>5 DEF Symbols

-----------------------------------------------------------------------------
(* bip39.                                                                  *)

\* How long a sentence is, and how many of its bits are the checksum.
LEMMA SentenceLength ==
  ASSUME NEW n \in Sizes
  PROVE  /\ n \in Nat /\ CheckBits(n) \in 1..8 /\ n * 8 + CheckBits(n) \in Nat
         /\ (n * 8 + CheckBits(n)) \div (CheckEvery + 1) = CheckBits(n)
         /\ \E count \in Nat : n * 8 + CheckBits(n) = count * WordBits
         /\ WordBits \in Nat /\ 0 < WordBits
<1>1. /\ n \in Nat /\ CheckBits(n) \in 1..8 /\ (n * 8 + CheckBits(n)) % WordBits = 0
      /\ WordBits \in Nat /\ 0 < WordBits /\ CheckEvery \in Nat /\ 0 < CheckEvery
  BY MnemonicAssumption
<1>2. PICK c \in 1..8 : c = CheckBits(n)
  BY <1>1
<1>3. PICK m \in Nat : m = n * 8
  BY <1>1
<1>4. PICK r \in 0..(CheckEvery - 1) : m = c * CheckEvery + r
  <2>1. m = (m \div CheckEvery) * CheckEvery + (m % CheckEvery) /\ m % CheckEvery \in 0..(CheckEvery - 1)
    BY <1>1, Quotient
  <2>2. c = m \div CheckEvery
    BY <1>2, <1>3 DEF CheckBits
  <2>. QED
    BY <2>1, <2>2
<1>5. (m + c) \div (CheckEvery + 1) = c
  <2>1. m + c = c * (CheckEvery + 1) + r
    <3>1. c * (CheckEvery + 1) = c * CheckEvery + c /\ c * CheckEvery \in Int
      BY <1>1
    <3>. QED
      BY <1>4, <3>1
  <2>2. CheckEvery + 1 \in Nat /\ 0 < CheckEvery + 1 /\ r \in 0..((CheckEvery + 1) - 1) /\ m + c \in Nat /\ c \in Nat
    BY <1>1
  <2>. QED
    BY <2>1, <2>2, QuotientIs
<1>6. \E count \in Nat : m + c = count * WordBits
  <2>1. m + c \in Nat
    OBVIOUS
  <2>2. PICK q \in Nat, s \in 0..(WordBits - 1) : s = (m + c) % WordBits /\ m + c = q * WordBits + s
    <3>1. /\ (m + c) \div WordBits \in Nat /\ (m + c) % WordBits \in 0..(WordBits - 1)
          /\ m + c = ((m + c) \div WordBits) * WordBits + ((m + c) % WordBits)
      BY <1>1, <2>1, Quotient
    <3>. QED
      BY <3>1
  <2>3. s = 0
    BY <1>1, <1>2, <1>3, <2>2
  <2>4. q * WordBits + 0 = q * WordBits
    BY <1>1
  <2>. QED
    BY <2>2, <2>3, <2>4
<1>7. m + c \in Nat
  OBVIOUS
<1>. QED
  BY <1>1, <1>2, <1>3, <1>5, <1>6, <1>7

LEMMA CheckBitsAre ==
  ASSUME NEW entropy, Len(entropy) \in Sizes, HashByte(entropy) \in 0..255
  PROVE  check_bits(entropy) \in Seq({0, 1}) /\ Len(check_bits(entropy)) = CheckBits(Len(entropy))
<1>1. PICK h \in Nat : h = HashByte(entropy)
  OBVIOUS
<1>2. PICK c \in 1..8 : c = CheckBits(Len(entropy))
  BY SentenceLength
<1>3. PICK s \in Seq(Nat) : s = <<h>> /\ Len(s) = 1
  <2>1. <<h>> \in Seq(Nat) /\ Len(<<h>>) = 1
    OBVIOUS
  <2>. QED
    BY <2>1
<1>4. BitsOf(s, 8) \in Seq({0, 1}) /\ Len(BitsOf(s, 8)) = 1 * 8
  BY <1>3, EightBits, BitsIs
<1>5. c \in Nat /\ c <= Len(BitsOf(s, 8))
  <2>1. c \in Nat /\ c <= 8 /\ 1 * 8 = 8
    OBVIOUS
  <2>2. Len(BitsOf(s, 8)) = 8
    BY <1>4, <2>1
  <2>. QED
    BY <2>1, <2>2
<1>. QED
  BY <1>1, <1>2, <1>3, <1>4, <1>5, PrefixWithout DEF check_bits

\* A sentence gives back the entropy that it was made of: the checksum is found where it was
\* put, whatever the size, and no bit is lost between bytes and words.
THEOREM Bip39RoundTrip ==
  ASSUME NEW entropy \in Seq(0..255), bip39_accepts(entropy), HashByte(entropy) \in 0..255
  PROVE  /\ bip39_encode(entropy) \in Seq(Symbols(WordBits))
         /\ bip39_to_entropy(bip39_encode(entropy)) = Ok(entropy)
<1>1. PICK n \in Sizes : n = Len(entropy)
  BY DEF bip39_accepts
<1>2. PICK c \in 1..8 : c = CheckBits(n)
  BY SentenceLength
<1>3. PICK count \in Nat : /\ n * 8 + c = count * WordBits
                           /\ n \in Nat /\ WordBits \in Nat /\ 0 < WordBits
                           /\ (n * 8 + c) \div (CheckEvery + 1) = c
  BY <1>2, SentenceLength
<1>4. PICK a, b : a = BitsOf(entropy, 8) /\ b = check_bits(entropy)
  OBVIOUS
<1>5. entropy \in Seq(Nat) /\ entropy \in Seq(Symbols(8))
  <2>1. 0..255 \subseteq Nat
    OBVIOUS
  <2>. QED
    BY <2>1, EightBits, SeqMonotonic
<1>6. a \in Seq({0, 1}) /\ Len(a) = n * 8
  BY <1>1, <1>4, <1>5, EightBits, BitsIs
<1>7. b \in Seq({0, 1}) /\ Len(b) = c
  BY <1>1, <1>2, <1>4, CheckBitsAre
<1>8. PICK bits : bits = a \o b
  OBVIOUS
<1>9. bits \in Seq({0, 1}) /\ Len(bits) = n * 8 + c
  BY <1>6, <1>7, <1>8, Concats
<1>10. PICK words : words = bip39_encode(entropy)
  OBVIOUS
<1>11. words = Groups(bits, WordBits)
  BY <1>4, <1>8, <1>10 DEF bip39_encode
<1>12. words \in Seq(Symbols(WordBits)) /\ Len(words) = count /\ BitsOf(words, WordBits) = bits
  <2>1. Len(bits) = count * WordBits
    BY <1>3, <1>9
  <2>. QED
    BY <1>3, <1>9, <1>11, <2>1, BitsOfGroups
<1>13. PICK m \in Nat : m = n * 8 /\ Len(bits) - c = m
  <2>1. n * 8 \in Nat /\ (n * 8 + c) - c = n * 8
    BY <1>3
  <2>. QED
    BY <1>9, <2>1
<1>14. Len(bits) \div (CheckEvery + 1) = c
  BY <1>3, <1>9
<1>15. Prefix(bits, m) = a /\ Without(bits, m) = b
  BY <1>6, <1>7, <1>8, <1>13, PartsOfJoined
<1>16. Groups(a, 8) = entropy
  <2>1. <<>> \in Seq({0, 1}) /\ Len(<<>>) = 0 /\ a \o <<>> = a
    BY <1>6
  <2>2. Len(<<>>) < 8
    BY <2>1
  <2>3. Groups(a \o <<>>, 8) = entropy
    BY <1>4, <1>5, <2>1, <2>2, EightBits, GroupsOfBits
  <2>. QED
    BY <2>1, <2>3
<1>17. Len(words) \in WordCounts
  <2>1. count = (n * 8 + CheckBits(n)) \div WordBits
    <3>1. (count * WordBits) \div WordBits = count
      BY <1>3, Places
    <3>. QED
      BY <1>2, <1>3, <3>1
  <2>. QED
    BY <1>12, <2>1 DEF WordCounts
<1>18. \A i \in DOMAIN words : words[i] >= 0
  <2>1. \A i \in 1..Len(words) : words[i] \in Symbols(WordBits)
    BY <1>12, ElementOfSeq
  <2>2. DOMAIN words = 1..Len(words)
    BY <1>12, LenProperties
  <2>3. \A x \in Symbols(WordBits) : x >= 0
    BY DEF Symbols
  <2>. QED
    BY <2>1, <2>2, <2>3
<1>19. bip39_to_entropy(words) = Ok(entropy)
  BY <1>4, <1>12, <1>13, <1>14, <1>15, <1>16, <1>17, <1>18 DEF bip39_to_entropy
<1>. QED
  BY <1>10, <1>12, <1>19

\* A sentence that passes the checks is the one that its entropy has: no other order, count
\* or last word is taken for it.
THEOREM Bip39OneSpelling ==
  ASSUME NEW words \in Seq(Symbols(WordBits) \cup {-1}), bip39_to_entropy(words).ok,
         HashByte(bip39_to_entropy(words).value) \in 0..255
  PROVE  LET entropy == bip39_to_entropy(words).value
         IN  entropy \in Seq(0..255) /\ bip39_accepts(entropy) /\ bip39_encode(entropy) = words
<1>1. PICK bits : bits = BitsOf(words, WordBits)
  OBVIOUS
<1>2. PICK c : c = Len(bits) \div (CheckEvery + 1)
  OBVIOUS
<1>3. PICK entropy : entropy = Groups(Prefix(bits, Len(bits) - c), 8)
  OBVIOUS
<1>4. /\ Len(words) \in WordCounts /\ \A i \in DOMAIN words : words[i] >= 0
      /\ Without(bits, Len(bits) - c) = check_bits(entropy)
      /\ bip39_to_entropy(words) = Ok(entropy)
  <2>1. Raise.ok = FALSE
    BY DEF Raise
  <2>. QED
    BY <1>1, <1>2, <1>3, <2>1 DEF bip39_to_entropy
<1>5. bip39_to_entropy(words).value = entropy
  BY <1>4 DEF Ok
<1>6. PICK n \in Sizes : Len(words) = (n * 8 + CheckBits(n)) \div WordBits
  BY <1>4 DEF WordCounts
<1>7. PICK d \in 1..8 : d = CheckBits(n)
  BY SentenceLength
<1>8. PICK count \in Nat : /\ n * 8 + d = count * WordBits
                           /\ n \in Nat /\ WordBits \in Nat /\ 0 < WordBits
                           /\ (n * 8 + d) \div (CheckEvery + 1) = d
  BY <1>7, SentenceLength
<1>9. Len(words) = count
  <2>1. (count * WordBits) \div WordBits = count
    BY <1>8, Places
  <2>. QED
    BY <1>6, <1>7, <1>8, <2>1
<1>10. words \in Seq(Symbols(WordBits)) /\ words \in Seq(Nat)
  <2>1. DOMAIN words = 1..count /\ \A i \in 1..count : words[i] \in Symbols(WordBits) \cup {-1}
    BY <1>9, LenProperties, ElementOfSeq
  <2>2. ASSUME NEW i \in 1..count PROVE words[i] \in Symbols(WordBits)
    <3>1. words[i] >= 0 /\ ~(-1 >= 0)
      BY <1>4, <2>1
    <3>. QED
      BY <2>1, <3>1
  <2>3. words = [i \in 1..count |-> words[i]]
    BY <2>1
  <2>4. words \in [1..count -> Symbols(WordBits)]
    BY <2>2, <2>3
  <2>5. words \in Seq(Symbols(WordBits))
    BY <2>4, SeqDef
  <2>6. Symbols(WordBits) \subseteq Nat
    BY DEF Symbols
  <2>. QED
    BY <2>5, <2>6, SeqMonotonic
<1>11. bits \in Seq({0, 1}) /\ Len(bits) = n * 8 + d
  BY <1>1, <1>8, <1>9, <1>10, BitsIs
<1>12. c = d
  BY <1>2, <1>8, <1>11
<1>13. PICK m \in Nat : m = n * 8 /\ Len(bits) - c = m /\ m <= Len(bits)
  <2>1. n * 8 \in Nat /\ (n * 8 + d) - d = n * 8 /\ n * 8 <= n * 8 + d
    BY <1>8
  <2>. QED
    BY <1>11, <1>12, <2>1
<1>14. PICK a, b : a = Prefix(bits, m) /\ b = Without(bits, m)
  OBVIOUS
<1>15. a \in Seq({0, 1}) /\ Len(a) = n * 8 /\ a \o b = bits
  BY <1>11, <1>13, <1>14, PrefixWithout
<1>16. entropy = Groups(a, 8)
  BY <1>3, <1>13, <1>14
<1>17. entropy \in Seq(Symbols(8)) /\ Len(entropy) = n /\ BitsOf(entropy, 8) = a
  BY <1>8, <1>15, <1>16, EightBits, BitsOfGroups
<1>18. b = check_bits(entropy)
  BY <1>4, <1>13, <1>14
<1>19. bip39_encode(entropy) = Groups(bits, WordBits)
  BY <1>15, <1>17, <1>18 DEF bip39_encode
<1>20. Groups(bits, WordBits) = words
  <2>1. <<>> \in Seq({0, 1}) /\ Len(<<>>) = 0 /\ bits \o <<>> = bits
    BY <1>11
  <2>2. Len(<<>>) < WordBits
    BY <1>8, <2>1
  <2>3. Groups(bits \o <<>>, WordBits) = words
    BY <1>1, <1>8, <1>10, <2>1, <2>2, GroupsOfBits
  <2>. QED
    BY <2>1, <2>3
<1>21. bip39_accepts(entropy) /\ entropy \in Seq(0..255)
  BY <1>17, EightBits DEF bip39_accepts
<1>. QED
  BY <1>5, <1>19, <1>20, <1>21

-----------------------------------------------------------------------------
(* What is hashed to be signed, or to have an address.                     *)

LEMMA ByteOneDigit ==
  /\ Base \in Nat /\ 1 < Base /\ Byte = 0..(Base - 1) /\ Byte \subseteq Nat
  /\ 0 < Word /\ Word \in Nat /\ AddrLen \in Nat /\ Ten \in Nat /\ 1 < Ten /\ 0..(Ten - 1) \subseteq Byte
  /\ Nineteen \in Byte /\ LetterE \in Byte /\ LetterE # 1 /\ 1 \in Byte /\ 0..5 \subseteq Byte
  /\ 5 < Nineteen /\ Nineteen < List /\ List \in Nat /\ List + ShortMax < Base - 1 /\ Base - 1 \in Byte
<1>1. /\ Base \in Nat /\ 1 < Base /\ Byte = 0..(Base - 1) /\ Byte \subseteq Nat
      /\ List \in Nat /\ Str \in Nat /\ ShortMax \in Nat /\ Str + ShortMax < List - 1 /\ List + ShortMax < Base - 1
  BY Parameters, ByteIs DEF Byte
<1>2. 0 < Word /\ Word \in Nat /\ AddrLen \in Nat
  BY WordAssumption
<1>3. Ten \in 2..Base - 1 /\ Nineteen \in 6..Str - 1 /\ LetterE \in 2..Base - 1
  BY PreimageAssumption
<1>4. Ten \in Nat /\ 1 < Ten /\ 0..(Ten - 1) \subseteq Byte
  BY <1>1, <1>3
<1>5. Nineteen \in Byte /\ 5 < Nineteen /\ Nineteen < List
  BY <1>1, <1>3
<1>6. LetterE \in Byte /\ LetterE # 1 /\ 1 \in Byte /\ 0..5 \subseteq Byte /\ Base - 1 \in Byte
  BY <1>1, <1>3
<1>. QED
  BY <1>1, <1>2, <1>4, <1>5, <1>6

LEMMA PlainIs ==
  ASSUME NEW s \in Seq(Nat)
  PROVE  /\ Plain(s) \in Seq({<<b>> : b \in Nat}) /\ Len(Plain(s)) = Len(s)
         /\ \A i \in 1..Len(s) : Plain(s)[i] = <<s[i]>>
<1>1. PICK n \in Nat : n = Len(s) /\ DOMAIN s = 1..n
  BY LenProperties
<1>2. Plain(s) = [i \in 1..n |-> <<s[i]>>]
  BY <1>1 DEF Plain
<1>3. ASSUME NEW i \in 1..n PROVE <<s[i]>> \in {<<b>> : b \in Nat}
  <2>1. s[i] \in Nat
    BY <1>1, ElementOfSeq
  <2>. QED
    BY <2>1
<1>4. PICK f : f = [i \in 1..n |-> <<s[i]>>]
  OBVIOUS
<1>5. f \in [1..n -> {<<b>> : b \in Nat}]
  BY <1>3, <1>4
<1>6. f \in Seq({<<b>> : b \in Nat}) /\ Len(f) = n
  BY <1>5
<1>7. \A i \in 1..n : f[i] = <<s[i]>>
  BY <1>4
<1>. QED
  BY <1>1, <1>2, <1>4, <1>6, <1>7

LEMMA PlainInjective ==
  ASSUME NEW s \in Seq(Nat), NEW t \in Seq(Nat), Plain(s) = Plain(t)
  PROVE  s = t
<1>1. PICK n \in Nat : n = Len(s)
  BY LenProperties
<1>2. Len(t) = n
  BY <1>1, PlainIs
<1>3. ASSUME NEW i \in 1..n PROVE s[i] = t[i]
  <2>1. Plain(s)[i] = <<s[i]>> /\ Plain(t)[i] = <<t[i]>>
    BY <1>1, <1>2, <1>3, PlainIs
  <2>2. <<s[i]>>[1] = s[i] /\ <<t[i]>>[1] = t[i]
    OBVIOUS
  <2>. QED
    BY <2>1, <2>2
<1>. QED
  BY <1>1, <1>2, <1>3, SeqEqual

\* A hash is known by what was hashed.
LEMMA HashInjective ==
  ASSUME NEW p, NEW q, keccak256(p) = keccak256(q)
  PROVE  p = q
<1>1. 1 \in 1..Word
  BY ByteOneDigit
<1>2. keccak256(p)[1] = <<1, p>> /\ keccak256(q)[1] = <<1, q>>
  BY <1>1 DEF keccak256
<1>3. <<1, p>>[2] = p /\ <<1, q>>[2] = q
  OBVIOUS
<1>. QED
  BY <1>2, <1>3

\* Sequences that start with parts of one length are the same only if both parts are.
LEMMA JoinedInjective ==
  ASSUME NEW T, NEW a \in Seq(T), NEW b \in Seq(T), NEW c \in Seq(T), NEW d \in Seq(T),
         Len(a) = Len(b), a \o c = b \o d
  PROVE  a = b /\ c = d
<1>1. Prefix(a \o c, Len(a)) = a /\ Without(a \o c, Len(a)) = c
  BY PartsOfJoined
<1>2. Prefix(b \o d, Len(b)) = b /\ Without(b \o d, Len(b)) = d
  BY PartsOfJoined
<1>. QED
  BY <1>1, <1>2

LEMMA LengthDigits ==
  ASSUME NEW n \in Nat
  PROVE  /\ length_digits(n) \in Seq(Byte) /\ Len(length_digits(n)) \in Nat
         /\ \A m \in Nat : m <= n => Len(length_digits(m)) <= Len(length_digits(n))
<1>1. Ten \in Nat /\ 1 < Ten /\ 0..(Ten - 1) \subseteq Byte /\ 0 \in Byte
  BY ByteOneDigit
<1>2. \A m \in Nat : Spelled(m, Ten) \in Seq(0..(Ten - 1))
  BY <1>1, SpelledTyped
<1>3. <<0>> \in Seq(Byte) /\ Len(<<0>>) = 1
  BY <1>1
<1>4. \A m \in Nat : length_digits(m) \in Seq(Byte)
  BY <1>1, <1>2, <1>3, SeqMonotonic DEF length_digits
<1>5. \A m \in Nat : Len(length_digits(m)) \in Nat
  BY <1>4, LenProperties
<1>6. \A m \in Nat : m # 0 => Len(Spelled(m, Ten)) >= 1
  <2>1. ASSUME NEW m \in Nat, m # 0 PROVE Len(Spelled(m, Ten)) >= 1
    <3>1. Spelled(m, Ten) = Append(Spelled(m \div Ten, Ten), m % Ten)
      BY <1>1, <2>1, SpelledUnfolds
    <3>2. m \div Ten \in Nat
      BY <1>1, <2>1, QuotientLess
    <3>3. PICK s \in Seq(0..(Ten - 1)) : s = Spelled(m \div Ten, Ten)
      BY <1>2, <3>2
    <3>4. Len(Append(s, m % Ten)) = Len(s) + 1 /\ Len(s) \in Nat
      BY LenProperties, AppendProperties
    <3>. QED
      BY <3>1, <3>3, <3>4
  <2>. QED
    BY <2>1
<1>7. ASSUME NEW m \in Nat, m <= n PROVE Len(length_digits(m)) <= Len(length_digits(n))
  <2>1. CASE m = 0 /\ n = 0
    BY <1>5, <2>1
  <2>2. CASE m = 0 /\ n # 0
    <3>1. Len(length_digits(m)) = 1 /\ length_digits(n) = Spelled(n, Ten)
      BY <1>3, <2>2 DEF length_digits
    <3>. QED
      BY <1>6, <2>2, <3>1
  <2>3. CASE m # 0
    <3>1. n # 0
      BY <1>7, <2>3
    <3>2. length_digits(m) = Spelled(m, Ten) /\ length_digits(n) = Spelled(n, Ten)
      BY <2>3, <3>1 DEF length_digits
    <3>3. Len(Spelled(m, Ten)) <= Len(Spelled(n, Ten))
      BY <1>1, <1>7, SpelledGrows
    <3>. QED
      BY <3>2, <3>3
  <2>. QED
    BY <2>1, <2>2, <2>3
<1>. QED
  BY <1>4, <1>5, <1>7

LEMMA MessageIs ==
  ASSUME NEW m \in Seq(Byte)
  PROVE  \E d \in Seq(Byte), h \in Seq(Byte) :
           /\ d = length_digits(Len(m)) /\ h = <<Nineteen, LetterE>> /\ Len(h) = 2 /\ h[1] = Nineteen /\ h[2] = LetterE
           /\ h \o d \in Seq(Byte) /\ Len(h \o d) = 2 + Len(d)
           /\ (h \o d) \o m \in Seq(Byte) /\ Len((h \o d) \o m) = 2 + Len(d) + Len(m)
           /\ ((h \o d) \o m)[1] = Nineteen /\ ((h \o d) \o m)[2] = LetterE
           /\ eip191(m) = Plain((h \o d) \o m)
<1>1. PICK n \in Nat : n = Len(m)
  BY LenProperties
<1>2. PICK d \in Seq(Byte), k \in Nat : d = length_digits(n) /\ k = Len(d)
  BY LengthDigits
<1>3. PICK h \in Seq(Byte) : h = <<Nineteen, LetterE>> /\ Len(h) = 2 /\ h[1] = Nineteen /\ h[2] = LetterE
  <2>1. /\ <<Nineteen, LetterE>> \in Seq(Byte) /\ Len(<<Nineteen, LetterE>>) = 2
        /\ <<Nineteen, LetterE>>[1] = Nineteen /\ <<Nineteen, LetterE>>[2] = LetterE
    BY ByteOneDigit
  <2>. QED
    BY <2>1
<1>4. PICK a : a = h \o d
  OBVIOUS
<1>5. a \in Seq(Byte) /\ Len(a) = 2 + k /\ \A i \in 1..2 : a[i] = h[i]
  BY <1>2, <1>3, <1>4, Concats
<1>6. PICK b : b = a \o m
  OBVIOUS
<1>7. b \in Seq(Byte) /\ Len(b) = 2 + k + n /\ \A i \in 1..(2 + k) : b[i] = a[i]
  <2>1. a \in Seq(Byte) /\ m \in Seq(Byte)
    BY <1>5
  <2>2. a \o m \in Seq(Byte) /\ Len(a \o m) = Len(a) + Len(m) /\ \A i \in 1..Len(a) : (a \o m)[i] = a[i]
    BY <2>1, Concats
  <2>3. Len(a) = 2 + k /\ Len(m) = n
    BY <1>1, <1>5
  <2>. QED
    BY <1>6, <2>2, <2>3
<1>8. 1 \in 1..(2 + k) /\ 2 \in 1..(2 + k) /\ 1 \in 1..2 /\ 2 \in 1..2
  OBVIOUS
<1>9. b[1] = Nineteen /\ b[2] = LetterE
  BY <1>3, <1>5, <1>7, <1>8
<1>10. eip191(m) = Plain(b)
  BY <1>1, <1>2, <1>3, <1>4, <1>6 DEF eip191
<1>. QED
  BY <1>1, <1>2, <1>3, <1>4, <1>5, <1>6, <1>7, <1>9, <1>10

LEMMA MessageInjective ==
  ASSUME NEW m \in Seq(Byte), NEW n \in Seq(Byte), eip191(m) = eip191(n)
  PROVE  m = n
<1>1. PICK d \in Seq(Byte), h \in Seq(Byte) :
           /\ d = length_digits(Len(m)) /\ h = <<Nineteen, LetterE>>
           /\ h \o d \in Seq(Byte) /\ Len(h \o d) = 2 + Len(d)
           /\ (h \o d) \o m \in Seq(Byte) /\ Len((h \o d) \o m) = 2 + Len(d) + Len(m)
           /\ eip191(m) = Plain((h \o d) \o m)
  BY MessageIs
<1>2. PICK e \in Seq(Byte), g \in Seq(Byte) :
           /\ e = length_digits(Len(n)) /\ g = <<Nineteen, LetterE>>
           /\ g \o e \in Seq(Byte) /\ Len(g \o e) = 2 + Len(e)
           /\ (g \o e) \o n \in Seq(Byte) /\ Len((g \o e) \o n) = 2 + Len(e) + Len(n)
           /\ eip191(n) = Plain((g \o e) \o n)
  BY MessageIs
<1>3. (h \o d) \o m = (g \o e) \o n
  <2>1. PICK x \in Seq(Byte), y \in Seq(Byte) : x = (h \o d) \o m /\ y = (g \o e) \o n
    BY <1>1, <1>2
  <2>2. x \in Seq(Nat) /\ y \in Seq(Nat) /\ Plain(x) = Plain(y)
    BY <1>1, <1>2, <2>1, ByteIs
  <2>3. x = y
    BY <2>2, PlainInjective
  <2>. QED
    BY <2>1, <2>3
<1>4. PICK a \in Nat, b \in Nat : a = Len(m) /\ b = Len(n)
  <2>1. Len(m) \in Nat /\ Len(n) \in Nat
    BY LenProperties
  <2>. QED
    BY <2>1
<1>5. PICK j \in Nat, k \in Nat : j = Len(d) /\ k = Len(e)
  <2>1. Len(d) \in Nat /\ Len(e) \in Nat
    BY LenProperties
  <2>. QED
    BY <2>1
<1>6. 2 + j + a = 2 + k + b
  BY <1>1, <1>2, <1>3, <1>4, <1>5
<1>7. (a <= b => j <= k) /\ (b <= a => k <= j)
  BY <1>1, <1>2, <1>4, <1>5, LengthDigits
<1>8. a = b /\ j = k
  BY <1>6, <1>7
<1>9. Len(h \o d) = Len(g \o e)
  BY <1>1, <1>2, <1>5, <1>8
<1>10. PICK x \in Seq(Byte), y \in Seq(Byte) : x = h \o d /\ y = g \o e
  BY <1>1, <1>2
<1>11. Len(x) = Len(y) /\ x \o m = y \o n
  BY <1>3, <1>9, <1>10
<1>12. x = y /\ m = n
  BY <1>11, JoinedInjective
<1>. QED
  BY <1>12

\* A list of leaves is an item, and its encoding starts as a list.
LEMMA ListFirst ==
  ASSUME NEW item \in Items, ~item.leaf
  PROVE  /\ rlp_encode[item] \in Seq(Nat) /\ Len(rlp_encode[item]) \in Nat /\ Len(rlp_encode[item]) >= 1
         /\ rlp_encode[item][1] \in Nat /\ rlp_encode[item][1] >= List
         /\ \E n \in Nat : /\ n <= Len(rlp_encode[item])
                           /\ rlp_encode[item][1] = IF n <= ShortMax THEN List + n
                                                    ELSE List + ShortMax + Len(minimal_bytes(n))
<1>1. PICK n \in Nat : n = Len(Payload(item)) /\ n <= Len(rlp_encode[item])
  BY EncodedIs
<1>2. Header(item) = rlp_length(n, List)
  BY <1>1 DEF Header, Offset
<1>3. PICK h \in Seq(Nat) : /\ h = Header(item) /\ Len(h) \in Nat /\ Len(h) >= 1
                            /\ rlp_encode[item] = h \o Payload(item) /\ Payload(item) \in Seq(Nat)
  <2>1. ~IsByte(item)
    BY DEF IsByte
  <2>. QED
    BY <2>1, EncodedIs
<1>4. rlp_encode[item][1] = h[1]
  <2>1. h \in Seq(Nat) /\ Payload(item) \in Seq(Nat)
    BY <1>3
  <2>2. \A i \in 1..Len(h) : (h \o Payload(item))[i] = h[i]
    BY <2>1, Concats
  <2>3. 1 \in 1..Len(h)
    BY <1>3
  <2>. QED
    BY <1>3, <2>2, <2>3
<1>5. h[1] = IF n <= ShortMax THEN List + n ELSE List + ShortMax + Len(minimal_bytes(n))
  BY <1>2, <1>3, HeaderIs
<1>6. List \in Nat /\ ShortMax \in Nat /\ Len(minimal_bytes(n)) \in Nat
  BY Parameters, MinimalIs
<1>7. h[1] \in Nat /\ h[1] >= List
  BY <1>5, <1>6
<1>8. rlp_encode[item] \in Seq(Nat) /\ Len(rlp_encode[item]) \in Nat /\ Len(rlp_encode[item]) >= 1
  BY EncodedIs
<1>. QED
  BY <1>1, <1>4, <1>5, <1>7, <1>8

LEMMA LeavesListed ==
  ASSUME NEW leaves \in Seq(Seq(Byte))
  PROVE  LET s == [i \in DOMAIN leaves |-> Leaf(leaves[i])]
         IN  /\ ListOf(s) \in Items /\ ~ListOf(s).leaf /\ ListOf(s).items = s
             /\ RlpList(leaves) = rlp_encode[ListOf(s)]
<1>1. PICK n \in Nat : n = Len(leaves) /\ DOMAIN leaves = 1..n
  BY LenProperties
<1>2. \A i \in 1..n : leaves[i] \in Seq(Byte)
  BY <1>1, ElementOfSeq
<1>3. PICK s : s = [i \in 1..n |-> Leaf(leaves[i])]
  OBVIOUS
<1>4. s \in [1..n -> Leaves]
  <2>1. \A i \in 1..n : Leaf(leaves[i]) \in Leaves
    BY <1>2, LeafIs
  <2>. QED
    BY <1>3, <2>1
<1>5. s \in Seq(Leaves)
  BY <1>4
<1>6. Nesting \in Nat /\ Nesting # 0 /\ Nesting - 1 \in Nat /\ 0 <= Nesting - 1
  BY Parameters, PreimageAssumption
<1>7. Leaves \subseteq ItemsTo[Nesting - 1]
  <2>1. PICK k \in Nat : k = Nesting - 1 /\ 0 <= k
    BY <1>6
  <2>2. ItemsTo[0] \subseteq ItemsTo[k] /\ ItemsTo[0] = Leaves
    BY <2>1, ItemsGrow, ItemsUnfold
  <2>. QED
    BY <2>1, <2>2
<1>8. ItemsTo[Nesting] = Leaves \cup ListsOf(ItemsTo[Nesting - 1])
  BY <1>6, ItemsUnfold
<1>9. s \in Seq(ItemsTo[Nesting - 1])
  BY <1>5, <1>7, SeqMonotonic
<1>10. ListOf(s) \in Items /\ ~ListOf(s).leaf /\ ListOf(s).items = s
  <2>1. ListOf(s) \in ListsOf(ItemsTo[Nesting - 1]) /\ ListOf(s).leaf = FALSE /\ ListOf(s).items = s
    BY <1>9, ListIs
  <2>. QED
    BY <1>8, <2>1 DEF Items
<1>11. s = [i \in DOMAIN leaves |-> Leaf(leaves[i])]
  BY <1>1, <1>3
<1>. QED
  BY <1>10, <1>11 DEF RlpList

LEMMA LeavesInjective ==
  ASSUME NEW leaves \in Seq(Seq(Byte)), NEW others \in Seq(Seq(Byte)), Fits(Len(RlpList(leaves))),
         RlpList(leaves) = RlpList(others)
  PROVE  leaves = others
<1>1. PICK n \in Nat : n = Len(leaves) /\ DOMAIN leaves = 1..n
  BY LenProperties
<1>2. PICK m \in Nat : m = Len(others) /\ DOMAIN others = 1..m
  BY LenProperties
<1>3. PICK s : s = [i \in 1..n |-> Leaf(leaves[i])]
  OBVIOUS
<1>4. PICK t : t = [i \in 1..m |-> Leaf(others[i])]
  OBVIOUS
<1>5. ListOf(s) \in Items /\ ListOf(s).items = s /\ RlpList(leaves) = rlp_encode[ListOf(s)]
  BY <1>1, <1>3, LeavesListed
<1>6. ListOf(t) \in Items /\ ListOf(t).items = t /\ RlpList(others) = rlp_encode[ListOf(t)]
  BY <1>2, <1>4, LeavesListed
<1>7. ListOf(s) = ListOf(t)
  BY <1>5, <1>6, RlpInjective
<1>8. s = t
  BY <1>5, <1>6, <1>7
<1>9. DOMAIN s = 1..n /\ DOMAIN t = 1..m
  BY <1>3, <1>4
<1>10. m = n
  BY <1>8, <1>9
<1>11. ASSUME NEW i \in 1..n PROVE leaves[i] = others[i]
  <2>1. s[i] = Leaf(leaves[i]) /\ t[i] = Leaf(others[i])
    BY <1>3, <1>4, <1>10
  <2>2. Leaf(leaves[i]).bytes = leaves[i] /\ Leaf(others[i]).bytes = others[i]
    BY DEF Leaf
  <2>. QED
    BY <1>8, <2>1, <2>2
<1>. QED
  BY <1>1, <1>2, <1>10, <1>11, SeqEqual

LEMMA MinimalInjective ==
  ASSUME NEW m \in Nat, NEW n \in Nat, minimal_bytes(m) = minimal_bytes(n)
  PROVE  m = n
<1>1. FromBytes(minimal_bytes(m)) = m /\ FromBytes(minimal_bytes(n)) = n
  BY MinimalIs
<1>. QED
  BY <1>1

\* The addresses there are.
Addresses == {a \in Nat : a < Pow(Base, AddrLen)}

LEMMA AddressIs ==
  ASSUME NEW a \in Addresses
  PROVE  /\ ToBytes(a, AddrLen) \in Seq(Byte) /\ Len(ToBytes(a, AddrLen)) = AddrLen
         /\ Number(ToBytes(a, AddrLen), Base) = a
<1>1. Base \in Nat /\ 1 < Base /\ Byte = 0..(Base - 1) /\ AddrLen \in Nat
  BY ByteOneDigit
<1>2. a \in Nat /\ a < Pow(Base, AddrLen)
  BY DEF Addresses
<1>3. Padded(a, Base, AddrLen) \in Seq(0..(Base - 1)) /\ Len(Padded(a, Base, AddrLen)) = AddrLen
  BY <1>1, <1>2, PaddedIs
<1>4. Number(Padded(a, Base, AddrLen), Base) = a
  BY <1>1, <1>2, NumberPadded
<1>. QED
  BY <1>1, <1>3, <1>4 DEF ToBytes

LEMMA AddressInjective ==
  ASSUME NEW a \in Addresses, NEW b \in Addresses, ToBytes(a, AddrLen) = ToBytes(b, AddrLen)
  PROVE  a = b
<1>1. Number(ToBytes(a, AddrLen), Base) = a /\ Number(ToBytes(b, AddrLen), Base) = b
  BY AddressIs
<1>. QED
  BY <1>1

\* What is signed: a message, an authorization, and a transaction of a type that is not the
\* first byte of an authorization; the last two as long as their headers can count.
AuthLeaves(auth) == <<minimal_bytes(auth.chain), ToBytes(auth.address, AddrLen), minimal_bytes(auth.nonce)>>
Authorizations == [chain : Nat, address : Addresses, nonce : Nat]
Transactions == [type : 0..4, fields : {f \in Seq(Items) : ListOf(f) \in Items}]
Signed(kind, arg) ==
  \/ kind = "eip191" /\ arg \in Seq(Byte)
  \/ kind = "eip7702" /\ arg \in Authorizations /\ Fits(Len(RlpList(AuthLeaves(arg))))
  \/ kind = "tx" /\ arg \in Transactions /\ Fits(Len(rlp_encode[ListOf(arg.fields)]))

LEMMA Prepended ==
  ASSUME NEW b \in Nat, NEW s \in Seq(Nat)
  PROVE  /\ <<b>> \in Seq(Nat) /\ Len(<<b>>) = 1
         /\ <<b>> \o s \in Seq(Nat) /\ Len(<<b>> \o s) = 1 + Len(s) /\ (<<b>> \o s)[1] = b
<1>1. <<b>> \in Seq(Nat) /\ Len(<<b>>) = 1 /\ <<b>>[1] = b
  OBVIOUS
<1>2. /\ <<b>> \o s \in Seq(Nat) /\ Len(<<b>> \o s) = Len(<<b>>) + Len(s)
      /\ \A i \in 1..Len(<<b>>) : (<<b>> \o s)[i] = <<b>>[i]
  BY <1>1, Concats
<1>. QED
  BY <1>1, <1>2

LEMMA AuthIs ==
  ASSUME NEW auth \in Authorizations
  PROVE  /\ AuthLeaves(auth) \in Seq(Seq(Byte)) /\ RlpList(AuthLeaves(auth)) \in Seq(Nat)
         /\ <<5>> \o RlpList(AuthLeaves(auth)) \in Seq(Nat)
         /\ Len(<<5>> \o RlpList(AuthLeaves(auth))) >= 1
         /\ (<<5>> \o RlpList(AuthLeaves(auth)))[1] = 5
         /\ eip7702(auth) = Plain(<<5>> \o RlpList(AuthLeaves(auth)))
<1>1. auth.chain \in Nat /\ auth.address \in Addresses /\ auth.nonce \in Nat
  BY DEF Authorizations
<1>2. PICK x \in Seq(Byte), y \in Seq(Byte), z \in Seq(Byte) :
        x = minimal_bytes(auth.chain) /\ y = ToBytes(auth.address, AddrLen) /\ z = minimal_bytes(auth.nonce)
  BY <1>1, MinimalIs, AddressIs
<1>3. <<x, y, z>> \in Seq(Seq(Byte))
  OBVIOUS
<1>4. AuthLeaves(auth) = <<x, y, z>>
  BY <1>2 DEF AuthLeaves
<1>5. PICK l \in Seq(Seq(Byte)) : l = AuthLeaves(auth)
  BY <1>3, <1>4
<1>6. RlpList(l) \in Seq(Nat)
  <2>1. PICK item \in Items : RlpList(l) = rlp_encode[item]
    BY LeavesListed
  <2>. QED
    BY <2>1, EncodedIs
<1>7. PICK s \in Seq(Nat) : s = RlpList(l)
  BY <1>6
<1>8. <<5>> \o s \in Seq(Nat) /\ Len(<<5>> \o s) = 1 + Len(s) /\ (<<5>> \o s)[1] = 5 /\ Len(s) \in Nat
  BY Prepended, LenProperties
<1>9. eip7702(auth) = Plain(<<5>> \o RlpList(AuthLeaves(auth)))
  BY DEF eip7702, AuthLeaves
<1>. QED
  BY <1>5, <1>7, <1>8, <1>9

LEMMA AuthInjective ==
  ASSUME NEW a \in Authorizations, NEW b \in Authorizations, Fits(Len(RlpList(AuthLeaves(a)))),
         eip7702(a) = eip7702(b)
  PROVE  a = b
<1>1. PICK l \in Seq(Seq(Byte)), s \in Seq(Nat) :
        l = AuthLeaves(a) /\ s = RlpList(l) /\ <<5>> \o s \in Seq(Nat) /\ eip7702(a) = Plain(<<5>> \o s)
  BY AuthIs
<1>2. PICK m \in Seq(Seq(Byte)), t \in Seq(Nat) :
        m = AuthLeaves(b) /\ t = RlpList(m) /\ <<5>> \o t \in Seq(Nat) /\ eip7702(b) = Plain(<<5>> \o t)
  BY AuthIs
<1>3. PICK x \in Seq(Nat), y \in Seq(Nat) : x = <<5>> \o s /\ y = <<5>> \o t
  BY <1>1, <1>2
<1>4. x = y
  <2>1. Plain(x) = Plain(y)
    BY <1>1, <1>2, <1>3
  <2>. QED
    BY <2>1, PlainInjective
<1>5. s = t
  <2>1. PICK f \in Seq(Nat) : f = <<5>>
    BY Prepended
  <2>2. f \o s = f \o t /\ Len(f) = Len(f)
    BY <1>3, <1>4, <2>1
  <2>. QED
    BY <2>2, JoinedInjective
<1>6. l = m
  BY <1>1, <1>2, <1>5, LeavesInjective
<1>7. /\ a.chain \in Nat /\ a.address \in Addresses /\ a.nonce \in Nat
      /\ b.chain \in Nat /\ b.address \in Addresses /\ b.nonce \in Nat
  BY DEF Authorizations
<1>8. /\ l[1] = minimal_bytes(a.chain) /\ l[2] = ToBytes(a.address, AddrLen) /\ l[3] = minimal_bytes(a.nonce)
      /\ m[1] = minimal_bytes(b.chain) /\ m[2] = ToBytes(b.address, AddrLen) /\ m[3] = minimal_bytes(b.nonce)
  BY <1>1, <1>2 DEF AuthLeaves
<1>9. a.chain = b.chain /\ a.nonce = b.nonce
  BY <1>6, <1>7, <1>8, MinimalInjective
<1>10. a.address = b.address
  BY <1>6, <1>7, <1>8, AddressInjective
<1>11. /\ a = [chain |-> a.chain, address |-> a.address, nonce |-> a.nonce]
       /\ b = [chain |-> b.chain, address |-> b.address, nonce |-> b.nonce]
  BY DEF Authorizations
<1>. QED
  BY <1>9, <1>10, <1>11

\* The bytes of a transaction, and what the first of them says.
TxBytes(tx) == (IF tx.type = 0 THEN <<>> ELSE <<tx.type>>) \o rlp_encode[ListOf(tx.fields)]

LEMMA TxIs ==
  ASSUME NEW tx \in Transactions
  PROVE  /\ TxBytes(tx) \in Seq(Nat) /\ Len(TxBytes(tx)) >= 1 /\ tx_payload(tx) = Plain(TxBytes(tx))
         /\ rlp_encode[ListOf(tx.fields)] \in Seq(Nat) /\ ListOf(tx.fields) \in Items
         /\ tx.type = 0 => TxBytes(tx) = rlp_encode[ListOf(tx.fields)] /\ TxBytes(tx)[1] >= List
         /\ tx.type # 0 => TxBytes(tx) = <<tx.type>> \o rlp_encode[ListOf(tx.fields)]
                           /\ TxBytes(tx)[1] = tx.type
         /\ TxBytes(tx)[1] \in Nat
<1>1. tx.type \in 0..4 /\ ListOf(tx.fields) \in Items /\ ~ListOf(tx.fields).leaf
  BY DEF Transactions, ListOf
<1>2. PICK s \in Seq(Nat) : /\ s = rlp_encode[ListOf(tx.fields)] /\ Len(s) \in Nat /\ Len(s) >= 1
                            /\ s[1] \in Nat /\ s[1] >= List
  BY <1>1, ListFirst
<1>3. tx_payload(tx) = Plain(TxBytes(tx))
  BY DEF tx_payload, TxBytes
<1>4. CASE tx.type = 0
  <2>1. <<>> \o s = s
    OBVIOUS
  <2>2. TxBytes(tx) = s
    BY <1>2, <1>4, <2>1 DEF TxBytes
  <2>. QED
    BY <1>1, <1>2, <1>3, <1>4, <2>2
<1>5. CASE tx.type # 0
  <2>1. PICK n \in Nat : n = tx.type
    BY <1>1
  <2>2. <<n>> \o s \in Seq(Nat) /\ Len(<<n>> \o s) = 1 + Len(s) /\ (<<n>> \o s)[1] = n
    BY Prepended
  <2>3. TxBytes(tx) = <<n>> \o s
    BY <1>2, <1>5, <2>1 DEF TxBytes
  <2>. QED
    BY <1>1, <1>2, <1>3, <1>5, <2>1, <2>2, <2>3
<1>. QED
  BY <1>4, <1>5

LEMMA TxInjective ==
  ASSUME NEW a \in Transactions, NEW b \in Transactions, Fits(Len(rlp_encode[ListOf(a.fields)])),
         tx_payload(a) = tx_payload(b)
  PROVE  a = b
<1>1. PICK x \in Seq(Nat), y \in Seq(Nat) : x = TxBytes(a) /\ y = TxBytes(b)
  BY TxIs
<1>2. x = y
  <2>1. Plain(x) = Plain(y)
    BY <1>1, TxIs
  <2>. QED
    BY <2>1, PlainInjective
<1>3. a.type \in 0..4 /\ b.type \in 0..4
  BY DEF Transactions
<1>4. List \in Nat /\ 4 < List
  BY ByteOneDigit
<1>5. a.type = b.type
  <2>1. CASE a.type = 0 /\ b.type # 0
    <3>1. x[1] >= List /\ y[1] = b.type
      BY <1>1, <2>1, TxIs
    <3>. QED
      BY <1>2, <1>3, <1>4, <3>1
  <2>2. CASE a.type # 0 /\ b.type = 0
    <3>1. x[1] = a.type /\ y[1] >= List
      BY <1>1, <2>2, TxIs
    <3>. QED
      BY <1>2, <1>3, <1>4, <3>1
  <2>3. CASE a.type # 0 /\ b.type # 0
    <3>1. x[1] = a.type /\ y[1] = b.type
      BY <1>1, <2>3, TxIs
    <3>. QED
      BY <1>2, <3>1
  <2>. QED
    BY <2>1, <2>2, <2>3
<1>6. rlp_encode[ListOf(a.fields)] = rlp_encode[ListOf(b.fields)]
  <2>1. CASE a.type = 0
    BY <1>1, <1>2, <1>5, <2>1, TxIs
  <2>2. CASE a.type # 0
    <3>1. PICK n \in Nat, s \in Seq(Nat), t \in Seq(Nat) :
            n = a.type /\ s = rlp_encode[ListOf(a.fields)] /\ t = rlp_encode[ListOf(b.fields)]
      <4>1. a.type \in Nat
        BY <1>3
      <4>2. rlp_encode[ListOf(a.fields)] \in Seq(Nat)
        BY TxIs
      <4>3. rlp_encode[ListOf(b.fields)] \in Seq(Nat)
        BY TxIs
      <4>. QED
        BY <4>1, <4>2, <4>3
    <3>2. x = <<n>> \o s /\ y = <<n>> \o t
      BY <1>1, <1>5, <2>2, <3>1, TxIs
    <3>3. PICK f \in Seq(Nat) : f = <<n>>
      BY Prepended
    <3>4. f \o s = f \o t /\ Len(f) = Len(f)
      BY <1>2, <3>2, <3>3
    <3>5. s = t
      BY <3>4, JoinedInjective
    <3>. QED
      BY <3>1, <3>5
  <2>. QED
    BY <2>1, <2>2
<1>7. ListOf(a.fields) = ListOf(b.fields)
  BY <1>6, TxIs, RlpInjective
<1>8. a.fields = b.fields
  BY <1>7 DEF ListOf
<1>. QED
  BY <1>5, <1>8 DEF Transactions

\* What the first bytes of a preimage say of its kind.
Marked(kind, arg, s) ==
  /\ s \in Seq(Nat) /\ Len(s) \in Nat /\ Len(s) >= 1 /\ s[1] \in Nat /\ preimage(kind, arg) = Plain(s)
  /\ kind = "eip191" => Len(s) >= 2 /\ s[1] = Nineteen /\ s[2] = LetterE
  /\ kind = "eip7702" => s[1] = 5
  /\ kind = "tx" => s[1] \in 1..4 \/ s[1] >= List

LEMMA SignedMarked ==
  ASSUME NEW kind, NEW arg, Signed(kind, arg)
  PROVE  \E s : Marked(kind, arg, s)
<1>1. CASE kind = "eip191" /\ arg \in Seq(Byte)
  <2>1. PICK d \in Seq(Byte), h \in Seq(Byte) :
           /\ d = length_digits(Len(arg)) /\ h = <<Nineteen, LetterE>>
           /\ (h \o d) \o arg \in Seq(Byte) /\ Len((h \o d) \o arg) = 2 + Len(d) + Len(arg)
           /\ ((h \o d) \o arg)[1] = Nineteen /\ ((h \o d) \o arg)[2] = LetterE
           /\ eip191(arg) = Plain((h \o d) \o arg)
    BY <1>1, MessageIs
  <2>2. PICK s : s = (h \o d) \o arg
    OBVIOUS
  <2>3. Len(d) \in Nat /\ Len(arg) \in Nat
    BY <1>1, LenProperties
  <2>4. s \in Seq(Nat) /\ Len(s) \in Nat /\ Len(s) >= 2
    <3>1. s \in Seq(Byte) /\ Len(s) = 2 + Len(d) + Len(arg)
      BY <2>1, <2>2
    <3>. QED
      BY <2>3, <3>1, ByteIs
  <2>5. s[1] = Nineteen /\ s[2] = LetterE /\ s[1] \in Nat
    BY <2>1, <2>2, ByteOneDigit
  <2>6. preimage(kind, arg) = Plain(s)
    BY <1>1, <2>1, <2>2 DEF preimage
  <2>7. Marked(kind, arg, s)
    BY <1>1, <2>4, <2>5, <2>6 DEF Marked
  <2>. QED
    BY <2>7
<1>2. CASE kind = "eip7702" /\ arg \in Authorizations
  <2>1. PICK s : s = <<5>> \o RlpList(AuthLeaves(arg))
    OBVIOUS
  <2>2. s \in Seq(Nat) /\ Len(s) >= 1 /\ s[1] = 5 /\ eip7702(arg) = Plain(s)
    BY <1>2, <2>1, AuthIs
  <2>3. Len(s) \in Nat
    BY <2>2, LenProperties
  <2>4. preimage(kind, arg) = Plain(s)
    BY <1>2, <2>2 DEF preimage
  <2>5. Marked(kind, arg, s)
    BY <1>2, <2>2, <2>3, <2>4 DEF Marked
  <2>. QED
    BY <2>5
<1>3. CASE kind = "tx" /\ arg \in Transactions
  <2>1. PICK s : s = TxBytes(arg)
    OBVIOUS
  <2>2. /\ s \in Seq(Nat) /\ Len(s) >= 1 /\ s[1] \in Nat /\ tx_payload(arg) = Plain(s)
        /\ (arg.type = 0 => s[1] >= List) /\ (arg.type # 0 => s[1] = arg.type)
    BY <1>3, <2>1, TxIs
  <2>3. arg.type \in 0..4
    BY <1>3 DEF Transactions
  <2>4. s[1] \in 1..4 \/ s[1] >= List
    BY <2>2, <2>3
  <2>5. Len(s) \in Nat
    BY <2>2, LenProperties
  <2>6. preimage(kind, arg) = Plain(s)
    BY <1>3, <2>2 DEF preimage
  <2>7. Marked(kind, arg, s)
    BY <1>3, <2>2, <2>4, <2>5, <2>6 DEF Marked
  <2>. QED
    BY <2>7
<1>. QED
  BY <1>1, <1>2, <1>3 DEF Signed

(* eth_hash and eth_tx_codec: two things that are signed under one hash are one thing. A   *)
(* message, an authorization and a transaction are never taken for one another, whatever   *)
(* they hold, and neither is another of its kind: not a message for a longer or shorter    *)
(* one, an authorization for another chain, delegate or nonce, a transaction for one of    *)
(* another type or with other fields.                                                      *)
THEOREM SignedMeansOne ==
  ASSUME NEW kind, NEW arg, NEW other, NEW meant, Signed(kind, arg), Signed(other, meant),
         keccak256(preimage(kind, arg)) = keccak256(preimage(other, meant))
  PROVE  kind = other /\ arg = meant
<1>1. preimage(kind, arg) = preimage(other, meant)
  BY HashInjective
<1>2. PICK s : Marked(kind, arg, s)
  BY SignedMarked
<1>3. PICK t : Marked(other, meant, t)
  BY SignedMarked
<1>4. s = t
  <2>1. s \in Seq(Nat) /\ t \in Seq(Nat) /\ Plain(s) = Plain(t)
    BY <1>1, <1>2, <1>3 DEF Marked
  <2>. QED
    BY <2>1, PlainInjective
<1>5. kind \in {"eip191", "eip7702", "tx"} /\ other \in {"eip191", "eip7702", "tx"}
  BY DEF Signed
<1>6. Nineteen \in Nat /\ 5 < Nineteen /\ Nineteen < List /\ List \in Nat
  BY ByteOneDigit
<1>7. PICK first \in Nat : first = s[1]
  BY <1>2 DEF Marked
<1>8. /\ kind = "eip191" => first = Nineteen
      /\ kind = "eip7702" => first = 5
      /\ kind = "tx" => first \in 1..4 \/ first >= List
  BY <1>2, <1>7 DEF Marked
<1>9. /\ other = "eip191" => first = Nineteen
      /\ other = "eip7702" => first = 5
      /\ other = "tx" => first \in 1..4 \/ first >= List
  BY <1>3, <1>4, <1>7 DEF Marked
<1>10. kind = other
  BY <1>5, <1>6, <1>8, <1>9
<1>11. CASE kind = "eip191"
  <2>1. arg \in Seq(Byte) /\ meant \in Seq(Byte)
    BY <1>10, <1>11 DEF Signed
  <2>2. eip191(arg) = eip191(meant)
    BY <1>1, <1>10, <1>11 DEF preimage
  <2>. QED
    BY <1>10, <2>1, <2>2, MessageInjective
<1>12. CASE kind = "eip7702"
  <2>1. arg \in Authorizations /\ meant \in Authorizations /\ Fits(Len(RlpList(AuthLeaves(arg))))
    BY <1>10, <1>12 DEF Signed
  <2>2. eip7702(arg) = eip7702(meant)
    BY <1>1, <1>10, <1>12 DEF preimage
  <2>. QED
    BY <1>10, <2>1, <2>2, AuthInjective
<1>13. CASE kind = "tx"
  <2>1. arg \in Transactions /\ meant \in Transactions /\ Fits(Len(rlp_encode[ListOf(arg.fields)]))
    BY <1>10, <1>13 DEF Signed
  <2>2. tx_payload(arg) = tx_payload(meant)
    BY <1>1, <1>10, <1>13 DEF preimage
  <2>. QED
    BY <1>10, <2>1, <2>2, TxInjective
<1>. QED
  BY <1>5, <1>11, <1>12, <1>13

LEMMA HashIs ==
  ASSUME NEW p, NEW T, \A i \in 1..Word : <<i, p>> \in T
  PROVE  /\ keccak256(p) \in Seq(T) /\ Len(keccak256(p)) = Word
         /\ \A i \in 1..Word : keccak256(p)[i] = <<i, p>>
<1>1. PICK n \in Nat : n = Word
  BY ByteOneDigit
<1>2. PICK f : f = [i \in 1..n |-> <<i, p>>]
  OBVIOUS
<1>3. f \in [1..n -> T]
  BY <1>1, <1>2
<1>4. f \in Seq(T) /\ Len(f) = n
  BY <1>3
<1>5. keccak256(p) = f
  BY <1>1, <1>2 DEF keccak256
<1>. QED
  BY <1>1, <1>2, <1>4, <1>5

\* What typed data is signed as: two bytes, and the hashes of its domain and of its struct.
Mark == Plain(<<Nineteen, 1>>)

LEMMA MarkIs ==
  ASSUME NEW T, \A b \in Nat : <<b>> \in T
  PROVE  /\ Mark \in Seq(T) /\ Len(Mark) = 2 /\ Mark[1] = <<Nineteen>> /\ Mark[2] = <<1>>
<1>1. Nineteen \in Nat
  BY ByteOneDigit
<1>2. <<Nineteen, 1>> \in Seq(Nat) /\ Len(<<Nineteen, 1>>) = 2 /\ <<Nineteen, 1>>[1] = Nineteen /\ <<Nineteen, 1>>[2] = 1
  BY <1>1
<1>3. PICK s \in Seq(Nat) : s = <<Nineteen, 1>> /\ Len(s) = 2 /\ s[1] = Nineteen /\ s[2] = 1
  BY <1>2
<1>4. Plain(s) \in Seq({<<b>> : b \in Nat}) /\ Len(Plain(s)) = 2 /\ \A i \in 1..2 : Plain(s)[i] = <<s[i]>>
  BY <1>3, PlainIs
<1>5. {<<b>> : b \in Nat} \subseteq T
  OBVIOUS
<1>6. Plain(s) \in Seq(T)
  BY <1>4, <1>5, SeqMonotonic
<1>7. Plain(s)[1] = <<s[1]>> /\ Plain(s)[2] = <<s[2]>>
  BY <1>4
<1>8. Mark = Plain(s)
  BY <1>3 DEF Mark
<1>. QED
  BY <1>3, <1>4, <1>6, <1>7, <1>8

SignableAs(x, y, T, m, d, s) ==
  /\ m = Mark /\ d = keccak256(x) /\ s = keccak256(y) /\ Len(m) = 2 /\ Len(d) = Word
  /\ m \o d \in Seq(T) /\ Len(m \o d) = 2 + Word
  /\ ((m \o d) \o s)[1] = <<Nineteen>> /\ ((m \o d) \o s)[2] = <<1>>
  /\ signable(keccak256(x), keccak256(y)) = (m \o d) \o s

LEMMA SignableIs ==
  ASSUME NEW x, NEW y, NEW T, \A b \in Nat : <<b>> \in T,
         \A i \in 1..Word : <<i, x>> \in T, \A i \in 1..Word : <<i, y>> \in T
  PROVE  \E m \in Seq(T), d \in Seq(T), s \in Seq(T) : SignableAs(x, y, T, m, d, s)
<1>1. PICK m \in Seq(T) : m = Mark /\ Len(m) = 2 /\ m[1] = <<Nineteen>> /\ m[2] = <<1>>
  BY MarkIs
<1>2. PICK d \in Seq(T) : d = keccak256(x) /\ Len(d) = Word
  BY HashIs
<1>3. PICK s \in Seq(T) : s = keccak256(y) /\ Len(s) = Word
  BY HashIs
<1>4. PICK w \in Nat : w = Word
  BY ByteOneDigit
<1>5. /\ m \o d \in Seq(T) /\ Len(m \o d) = Len(m) + Len(d)
      /\ \A i \in 1..Len(m) : (m \o d)[i] = m[i]
  BY Concats
<1>6. PICK a \in Seq(T) : a = m \o d /\ Len(a) = 2 + w /\ a[1] = <<Nineteen>> /\ a[2] = <<1>>
  <2>1. Len(m \o d) = 2 + w
    BY <1>1, <1>2, <1>4, <1>5
  <2>2. 1 \in 1..Len(m) /\ 2 \in 1..Len(m)
    BY <1>1
  <2>3. (m \o d)[1] = <<Nineteen>> /\ (m \o d)[2] = <<1>>
    BY <1>1, <1>5, <2>2
  <2>. QED
    BY <1>5, <2>1, <2>3
<1>7. \A i \in 1..Len(a) : (a \o s)[i] = a[i]
  BY Concats
<1>8. 1 \in 1..Len(a) /\ 2 \in 1..Len(a)
  BY <1>6
<1>9. (a \o s)[1] = <<Nineteen>> /\ (a \o s)[2] = <<1>>
  BY <1>6, <1>7, <1>8
<1>10. signable(keccak256(x), keccak256(y)) = a \o s
  BY <1>1, <1>2, <1>3, <1>6 DEF signable, Mark
<1>11. SignableAs(x, y, T, m, d, s)
  BY <1>1, <1>2, <1>3, <1>4, <1>6, <1>9, <1>10 DEF SignableAs
<1>. QED
  BY <1>11

(* eth_hash kind=eip712: typed data is signed under the hash of one domain and one struct  *)
(* only, and nobody who signs a message, an authorization or a transaction signs typed     *)
(* data by it.                                                                             *)
THEOREM TypedDataMeansOne ==
  ASSUME NEW domain, NEW struct, NEW another, NEW second,
         keccak256(signable(keccak256(domain), keccak256(struct)))
           = keccak256(signable(keccak256(another), keccak256(second)))
  PROVE  domain = another /\ struct = second
<1>. DEFINE T == {<<b>> : b \in Nat} \cup ((1..Word) \X {domain, struct, another, second})
<1>1. \A b \in Nat : <<b>> \in T
  OBVIOUS
<1>2. /\ \A i \in 1..Word : <<i, domain>> \in T
      /\ \A i \in 1..Word : <<i, struct>> \in T
      /\ \A i \in 1..Word : <<i, another>> \in T
      /\ \A i \in 1..Word : <<i, second>> \in T
  OBVIOUS
<1>. HIDE DEF T
<1>3. PICK m \in Seq(T), d \in Seq(T), s \in Seq(T) : SignableAs(domain, struct, T, m, d, s)
  BY <1>1, <1>2, SignableIs
<1>4. PICK n \in Seq(T), e \in Seq(T), t \in Seq(T) : SignableAs(another, second, T, n, e, t)
  BY <1>1, <1>2, SignableIs
<1>5. (m \o d) \o s = (n \o e) \o t
  BY <1>3, <1>4, HashInjective DEF SignableAs
<1>6. PICK a \in Seq(T), b \in Seq(T) : a = m \o d /\ b = n \o e
  BY <1>3, <1>4 DEF SignableAs
<1>7. a \o s = b \o t /\ Len(a) = Len(b)
  BY <1>3, <1>4, <1>5, <1>6 DEF SignableAs
<1>8. a = b /\ s = t
  BY <1>7, JoinedInjective
<1>9. m \o d = n \o e /\ Len(m) = Len(n)
  BY <1>3, <1>4, <1>6, <1>8 DEF SignableAs
<1>10. d = e
  BY <1>9, JoinedInjective
<1>11. keccak256(domain) = keccak256(another) /\ keccak256(struct) = keccak256(second)
  BY <1>3, <1>4, <1>8, <1>10 DEF SignableAs
<1>. QED
  BY <1>11, HashInjective

(* A signature of a message, of an authorization or of a transaction is never one of typed *)
(* data.                                                                                   *)
THEOREM TypedDataApart ==
  ASSUME NEW kind, NEW arg, Signed(kind, arg), NEW domain, NEW struct
  PROVE  keccak256(preimage(kind, arg)) # keccak256(signable(keccak256(domain), keccak256(struct)))
<1>. SUFFICES ASSUME keccak256(preimage(kind, arg)) = keccak256(signable(keccak256(domain), keccak256(struct)))
              PROVE  FALSE
  OBVIOUS
<1>. DEFINE T == {<<b>> : b \in Nat} \cup ((1..Word) \X {domain, struct})
<1>1. \A b \in Nat : <<b>> \in T
  OBVIOUS
<1>2. /\ \A i \in 1..Word : <<i, domain>> \in T
      /\ \A i \in 1..Word : <<i, struct>> \in T
  OBVIOUS
<1>. HIDE DEF T
<1>3. PICK p : p = preimage(kind, arg)
  OBVIOUS
<1>4. p[1] = <<Nineteen>> /\ p[2] = <<1>>
  <2>1. p = signable(keccak256(domain), keccak256(struct))
    BY <1>3, HashInjective
  <2>2. PICK m \in Seq(T), d \in Seq(T), s \in Seq(T) : SignableAs(domain, struct, T, m, d, s)
    BY <1>1, <1>2, SignableIs
  <2>. QED
    BY <2>1, <2>2 DEF SignableAs
<1>5. PICK s : Marked(kind, arg, s)
  BY SignedMarked
<1>6. s \in Seq(Nat) /\ Len(s) \in Nat /\ Len(s) >= 1 /\ p = Plain(s)
  BY <1>3, <1>5 DEF Marked
<1>7. p[1] = <<s[1]>>
  <2>1. 1 \in 1..Len(s)
    BY <1>6
  <2>. QED
    BY <1>6, <2>1, PlainIs
<1>8. s[1] = Nineteen
  BY <1>4, <1>7
<1>9. kind = "eip191"
  <2>1. Nineteen \in Nat /\ 5 < Nineteen /\ Nineteen < List /\ List \in Nat
    BY ByteOneDigit
  <2>2. kind \in {"eip191", "eip7702", "tx"}
    BY DEF Signed
  <2>3. kind # "eip7702"
    BY <1>5, <1>8, <2>1 DEF Marked
  <2>4. ~(s[1] \in 1..4) /\ ~(s[1] >= List)
    BY <1>8, <2>1
  <2>5. kind # "tx"
    BY <1>5, <2>4 DEF Marked
  <2>. QED
    BY <2>2, <2>3, <2>5
<1>10. Len(s) >= 2 /\ s[2] = LetterE
  BY <1>5, <1>9 DEF Marked
<1>11. p[2] = <<s[2]>>
  <2>1. 2 \in 1..Len(s)
    BY <1>6, <1>10
  <2>. QED
    BY <1>6, <2>1, PlainIs
<1>12. LetterE = 1
  BY <1>4, <1>10, <1>11
<1>. QED
  BY <1>12, ByteOneDigit

\* What is deployed: by an account at a nonce, or by a contract with a salt and a code.
\* Counts: no list is so long that its first byte is the one that CREATE2 starts with.
Counts(n) == Fits(n) /\ List + ShortMax + Len(minimal_bytes(n)) < Base - 1
NewLeaves(new) == <<ToBytes(new.deployer, AddrLen), minimal_bytes(new.nonce)>>
Creations == [deployer : Addresses, nonce : Nat]
Salted(T) == [deployer : Addresses, salt : {s \in Seq(T) : Len(s) = Word}, code : Seq(Byte)]
Deploys(kind, arg, T) ==
  \/ kind = "create" /\ arg \in Creations /\ Counts(Len(RlpList(NewLeaves(arg))))
  \/ kind = "create2" /\ arg \in Salted(T)

LEMMA CreateIs ==
  ASSUME NEW new \in Creations
  PROVE  /\ NewLeaves(new) \in Seq(Seq(Byte)) /\ create(new) = Plain(RlpList(NewLeaves(new)))
         /\ NewLeaves(new)[1] = ToBytes(new.deployer, AddrLen) /\ NewLeaves(new)[2] = minimal_bytes(new.nonce)
         /\ RlpList(NewLeaves(new)) \in Seq(Nat)
<1>1. new.deployer \in Addresses /\ new.nonce \in Nat
  BY DEF Creations
<1>2. PICK x \in Seq(Byte), y \in Seq(Byte) :
        x = ToBytes(new.deployer, AddrLen) /\ y = minimal_bytes(new.nonce)
  BY <1>1, MinimalIs, AddressIs
<1>3. <<x, y>> \in Seq(Seq(Byte)) /\ <<x, y>>[1] = x /\ <<x, y>>[2] = y
  OBVIOUS
<1>4. NewLeaves(new) = <<x, y>>
  BY <1>2 DEF NewLeaves
<1>5. PICK l \in Seq(Seq(Byte)) : l = NewLeaves(new)
  BY <1>3, <1>4
<1>6. RlpList(l) \in Seq(Nat)
  <2>1. PICK item \in Items : RlpList(l) = rlp_encode[item]
    BY LeavesListed
  <2>. QED
    BY <2>1, EncodedIs
<1>7. create(new) = Plain(RlpList(NewLeaves(new)))
  BY DEF create, NewLeaves
<1>. QED
  BY <1>2, <1>3, <1>4, <1>5, <1>6, <1>7

LEMMA CreateInjective ==
  ASSUME NEW a \in Creations, NEW b \in Creations, Fits(Len(RlpList(NewLeaves(a)))), create(a) = create(b)
  PROVE  a = b
<1>1. PICK l \in Seq(Seq(Byte)), m \in Seq(Seq(Byte)) : l = NewLeaves(a) /\ m = NewLeaves(b)
  BY CreateIs
<1>2. RlpList(l) = RlpList(m)
  <2>1. PICK x \in Seq(Nat), y \in Seq(Nat) : x = RlpList(l) /\ y = RlpList(m)
    BY <1>1, CreateIs
  <2>2. Plain(x) = Plain(y)
    BY <1>1, <2>1, CreateIs
  <2>. QED
    BY <2>1, <2>2, PlainInjective
<1>3. l = m
  BY <1>1, <1>2, LeavesInjective
<1>4. a.deployer \in Addresses /\ a.nonce \in Nat /\ b.deployer \in Addresses /\ b.nonce \in Nat
  BY DEF Creations
<1>5. /\ ToBytes(a.deployer, AddrLen) = ToBytes(b.deployer, AddrLen)
      /\ minimal_bytes(a.nonce) = minimal_bytes(b.nonce)
  BY <1>1, <1>3, CreateIs
<1>6. a.deployer = b.deployer /\ a.nonce = b.nonce
  BY <1>4, <1>5, MinimalInjective, AddressInjective
<1>7. a = [deployer |-> a.deployer, nonce |-> a.nonce] /\ b = [deployer |-> b.deployer, nonce |-> b.nonce]
  BY DEF Creations
<1>. QED
  BY <1>6, <1>7

LEMMA CreateFirst ==
  ASSUME NEW new \in Creations, Counts(Len(RlpList(NewLeaves(new))))
  PROVE  create(new)[1] # <<Base - 1>>
<1>1. PICK l \in Seq(Seq(Byte)) : l = NewLeaves(new) /\ create(new) = Plain(RlpList(l))
  BY CreateIs
<1>2. PICK item \in Items : ~item.leaf /\ RlpList(l) = rlp_encode[item]
  BY LeavesListed
<1>3. PICK s \in Seq(Nat), n \in Nat :
        /\ s = rlp_encode[item] /\ Len(s) \in Nat /\ Len(s) >= 1 /\ n <= Len(s)
        /\ s[1] = IF n <= ShortMax THEN List + n ELSE List + ShortMax + Len(minimal_bytes(n))
  BY <1>2, ListFirst
<1>4. PICK j \in Nat, k \in Nat : j = Len(minimal_bytes(n)) /\ k = Len(minimal_bytes(Len(s))) /\ j <= k
  BY <1>3, MinimalIs
<1>5. List \in Nat /\ ShortMax \in Nat /\ Base \in Nat
  BY Parameters
<1>6. List + ShortMax + k < Base - 1
  BY <1>1, <1>2, <1>3, <1>4 DEF Counts
<1>7. s[1] # Base - 1
  BY <1>3, <1>4, <1>5, <1>6
<1>8. Plain(s)[1] = <<s[1]>>
  <2>1. 1 \in 1..Len(s)
    BY <1>3
  <2>. QED
    BY <2>1, PlainIs
<1>9. <<s[1]>> # <<Base - 1>>
  BY <1>7
<1>. QED
  BY <1>1, <1>2, <1>3, <1>8, <1>9

\* What CREATE2 hashes, in three parts.
Factory(new) == <<Base - 1>> \o ToBytes(new.deployer, AddrLen)
Create2As(new, U, f, s, h) ==
  /\ f = Plain(Factory(new)) /\ s = new.salt /\ h = keccak256(Plain(new.code))
  /\ Len(f) = 1 + AddrLen /\ Len(s) = Word /\ f \o s \in Seq(U) /\ Len(f \o s) = 1 + AddrLen + Word
  /\ create2(new) = (f \o s) \o h /\ create2(new)[1] = <<Base - 1>>

LEMMA FactoryIs ==
  ASSUME NEW new, new.deployer \in Addresses
  PROVE  /\ Factory(new) \in Seq(Nat) /\ Len(Factory(new)) = 1 + AddrLen /\ Factory(new)[1] = Base - 1
         /\ ToBytes(new.deployer, AddrLen) \in Seq(Nat) /\ <<Base - 1>> \in Seq(Nat)
<1>1. PICK d \in Seq(Nat) : d = ToBytes(new.deployer, AddrLen) /\ Len(d) = AddrLen
  BY AddressIs, ByteIs
<1>2. PICK b \in Nat : b = Base - 1
  BY ByteOneDigit
<1>3. <<b>> \o d \in Seq(Nat) /\ Len(<<b>> \o d) = 1 + Len(d) /\ (<<b>> \o d)[1] = b /\ <<b>> \in Seq(Nat)
  BY Prepended
<1>. QED
  BY <1>1, <1>2, <1>3 DEF Factory

LEMMA Create2Is ==
  ASSUME NEW T, NEW new \in Salted(T), NEW U, T \subseteq U, \A b \in Nat : <<b>> \in U,
         \A i \in 1..Word : <<i, Plain(new.code)>> \in U
  PROVE  \E f \in Seq(U), s \in Seq(U), h \in Seq(U) : Create2As(new, U, f, s, h)
<1>1. new.deployer \in Addresses /\ new.salt \in Seq(T) /\ Len(new.salt) = Word /\ new.code \in Seq(Byte)
  BY DEF Salted
<1>2. PICK g \in Seq(Nat) : g = Factory(new) /\ Len(g) = 1 + AddrLen /\ g[1] = Base - 1
  BY <1>1, FactoryIs
<1>3. PICK w \in Nat, a \in Nat : w = Word /\ a = AddrLen
  <2>1. Word \in Nat /\ AddrLen \in Nat
    BY ByteOneDigit
  <2>. QED
    BY <2>1
<1>4. PICK f \in Seq(U) : f = Plain(g) /\ Len(f) = 1 + a /\ f[1] = <<Base - 1>>
  <2>1. Plain(g) \in Seq({<<b>> : b \in Nat}) /\ Len(Plain(g)) = Len(g) /\ \A i \in 1..Len(g) : Plain(g)[i] = <<g[i]>>
    BY PlainIs
  <2>2. {<<b>> : b \in Nat} \subseteq U
    OBVIOUS
  <2>3. Plain(g) \in Seq(U)
    BY <2>1, <2>2, SeqMonotonic
  <2>4. 1 \in 1..Len(g)
    BY <1>2, <1>3
  <2>. QED
    BY <1>2, <1>3, <2>1, <2>3, <2>4
<1>5. PICK s \in Seq(U) : s = new.salt /\ Len(s) = w
  BY <1>1, <1>3, SeqMonotonic
<1>6. PICK h \in Seq(U) : h = keccak256(Plain(new.code))
  BY HashIs
<1>7. /\ f \o s \in Seq(U) /\ Len(f \o s) = Len(f) + Len(s)
      /\ \A i \in 1..Len(f) : (f \o s)[i] = f[i]
  BY Concats
<1>8. PICK x \in Seq(U) : x = f \o s /\ Len(x) = 1 + a + w /\ x[1] = <<Base - 1>>
  <2>1. 1 \in 1..Len(f)
    BY <1>4
  <2>2. Len(f \o s) = 1 + a + w
    BY <1>4, <1>5, <1>7
  <2>. QED
    BY <1>4, <1>7, <2>1, <2>2
<1>9. \A i \in 1..Len(x) : (x \o h)[i] = x[i]
  BY Concats
<1>10. 1 \in 1..Len(x)
  BY <1>8
<1>11. create2(new) = x \o h
  BY <1>2, <1>4, <1>5, <1>6, <1>8 DEF create2, Factory
<1>12. Create2As(new, U, f, s, h)
  BY <1>2, <1>3, <1>4, <1>5, <1>6, <1>8, <1>9, <1>10, <1>11 DEF Create2As
<1>. QED
  BY <1>12

LEMMA Create2Injective ==
  ASSUME NEW T, NEW a \in Salted(T), NEW b \in Salted(T), create2(a) = create2(b)
  PROVE  a = b
<1>. DEFINE U == T \cup {<<n>> : n \in Nat} \cup ((1..Word) \X {Plain(a.code), Plain(b.code)})
<1>1. T \subseteq U /\ \A n \in Nat : <<n>> \in U
  OBVIOUS
<1>2. \A i \in 1..Word : <<i, Plain(a.code)>> \in U
  OBVIOUS
<1>3. \A i \in 1..Word : <<i, Plain(b.code)>> \in U
  OBVIOUS
<1>. HIDE DEF U
<1>4. PICK f \in Seq(U), s \in Seq(U), h \in Seq(U) : Create2As(a, U, f, s, h)
  BY <1>1, <1>2, Create2Is
<1>5. PICK g \in Seq(U), t \in Seq(U), k \in Seq(U) : Create2As(b, U, g, t, k)
  BY <1>1, <1>3, Create2Is
<1>6. PICK x \in Seq(U), y \in Seq(U) : x = f \o s /\ y = g \o t
  BY <1>4, <1>5 DEF Create2As
<1>7. x \o h = y \o k /\ Len(x) = Len(y)
  BY <1>4, <1>5, <1>6 DEF Create2As
<1>8. x = y /\ h = k
  BY <1>7, JoinedInjective
<1>9. f \o s = g \o t /\ Len(f) = Len(g)
  BY <1>4, <1>5, <1>6, <1>8 DEF Create2As
<1>10. f = g /\ s = t
  BY <1>9, JoinedInjective
<1>11. /\ a.deployer \in Addresses /\ a.code \in Seq(Byte) /\ b.deployer \in Addresses /\ b.code \in Seq(Byte)
       /\ a = [deployer |-> a.deployer, salt |-> a.salt, code |-> a.code]
       /\ b = [deployer |-> b.deployer, salt |-> b.salt, code |-> b.code]
  BY DEF Salted
<1>12. a.salt = b.salt
  BY <1>4, <1>5, <1>10 DEF Create2As
<1>13. a.code = b.code
  <2>1. keccak256(Plain(a.code)) = keccak256(Plain(b.code))
    BY <1>4, <1>5, <1>8 DEF Create2As
  <2>2. Plain(a.code) = Plain(b.code)
    BY <2>1, HashInjective
  <2>3. a.code \in Seq(Nat) /\ b.code \in Seq(Nat)
    BY <1>11, ByteIs
  <2>. QED
    BY <2>2, <2>3, PlainInjective
<1>14. a.deployer = b.deployer
  <2>1. PICK p \in Seq(Nat), q \in Seq(Nat) : p = Factory(a) /\ q = Factory(b)
    BY <1>11, FactoryIs
  <2>2. Plain(p) = Plain(q)
    BY <1>4, <1>5, <1>10, <2>1 DEF Create2As
  <2>3. p = q
    BY <2>2, PlainInjective
  <2>4. PICK c \in Seq(Nat), d \in Seq(Nat), e \in Seq(Nat) :
          c = <<Base - 1>> /\ d = ToBytes(a.deployer, AddrLen) /\ e = ToBytes(b.deployer, AddrLen)
    BY <1>11, FactoryIs
  <2>5. c \o d = c \o e /\ Len(c) = Len(c)
    BY <2>1, <2>3, <2>4 DEF Factory
  <2>6. d = e
    BY <2>5, JoinedInjective
  <2>. QED
    BY <1>11, <2>4, <2>6, AddressInjective
<1>. QED
  BY <1>11, <1>12, <1>13, <1>14

(* eth_contract_address: one address is of one deployment. What an account deploys at a    *)
(* nonce is never where a contract deploys with a salt, and neither is where another       *)
(* account, nonce, salt or code leads to. A salt is any bytes of one word.                 *)
THEOREM AddressMeansOne ==
  ASSUME NEW T, NEW kind, NEW arg, NEW other, NEW meant, Deploys(kind, arg, T), Deploys(other, meant, T),
         keccak256(preimage(kind, arg)) = keccak256(preimage(other, meant))
  PROVE  kind = other /\ arg = meant
<1>1. preimage(kind, arg) = preimage(other, meant)
  BY HashInjective
<1>2. \A new \in Salted(T) : create2(new)[1] = <<Base - 1>>
  <2>1. ASSUME NEW new \in Salted(T) PROVE create2(new)[1] = <<Base - 1>>
    <3>. DEFINE U == T \cup {<<n>> : n \in Nat} \cup ((1..Word) \X {Plain(new.code)})
    <3>1. T \subseteq U /\ \A n \in Nat : <<n>> \in U
      OBVIOUS
    <3>2. \A i \in 1..Word : <<i, Plain(new.code)>> \in U
      OBVIOUS
    <3>. HIDE DEF U
    <3>3. PICK f \in Seq(U), s \in Seq(U), h \in Seq(U) : Create2As(new, U, f, s, h)
      BY <3>1, <3>2, Create2Is
    <3>. QED
      BY <3>3 DEF Create2As
  <2>. QED
    BY <2>1
<1>3. \A new \in Creations : Counts(Len(RlpList(NewLeaves(new)))) => create(new)[1] # <<Base - 1>>
  BY CreateFirst
<1>4. \/ kind = "create" /\ arg \in Creations /\ Counts(Len(RlpList(NewLeaves(arg))))
      \/ kind = "create2" /\ arg \in Salted(T)
  BY DEF Deploys
<1>5. \/ other = "create" /\ meant \in Creations /\ Counts(Len(RlpList(NewLeaves(meant))))
      \/ other = "create2" /\ meant \in Salted(T)
  BY DEF Deploys
<1>6. CASE kind = "create" /\ other = "create"
  <2>1. create(arg) = create(meant) /\ arg \in Creations /\ meant \in Creations
    BY <1>1, <1>4, <1>5, <1>6 DEF preimage
  <2>2. Fits(Len(RlpList(NewLeaves(arg))))
    BY <1>4, <1>6 DEF Counts
  <2>. QED
    BY <1>6, <2>1, <2>2, CreateInjective
<1>7. CASE kind = "create2" /\ other = "create2"
  <2>1. create2(arg) = create2(meant) /\ arg \in Salted(T) /\ meant \in Salted(T)
    BY <1>1, <1>4, <1>5, <1>7 DEF preimage
  <2>. QED
    BY <1>7, <2>1, Create2Injective
<1>8. CASE kind = "create" /\ other = "create2"
  <2>1. create(arg) = create2(meant)
    BY <1>1, <1>8 DEF preimage
  <2>. QED
    BY <1>2, <1>3, <1>4, <1>5, <1>8, <2>1
<1>9. CASE kind = "create2" /\ other = "create"
  <2>1. create2(arg) = create(meant)
    BY <1>1, <1>9 DEF preimage
  <2>. QED
    BY <1>2, <1>3, <1>4, <1>5, <1>9, <2>1
<1>. QED
  BY <1>4, <1>5, <1>6, <1>7, <1>8, <1>9

-----------------------------------------------------------------------------
(* Symbols of five bits, added without carry.                              *)

Symbol == 0..31

\* A symbol is the number of its five bits.
LEMMA FiveBits ==
  ASSUME NEW a \in Symbol
  PROVE  /\ a \in Nat /\ Padded(a, 2, 5) \in Seq({0, 1}) /\ Len(Padded(a, 2, 5)) = 5
         /\ Number(Padded(a, 2, 5), 2) = a /\ Pow(2, 5) = 32
         /\ \A i \in 1..5 : Padded(a, 2, 5)[i] = Bit(a, 5 - i) /\ Bit(a, 5 - i) \in {0, 1}
<1>1. a \in Nat /\ a < 32 /\ 5 \in Nat
  BY DEF Symbol
<1>2. Pow(2, 5) = 32
  <2>1. Pow(2, 0) = 1 /\ \A n \in Nat : Pow(2, n + 1) = 2 * Pow(2, n)
    <3>1. 2 \in Nat /\ 0 < 2
      OBVIOUS
    <3>. QED
      BY <3>1, PowIs
  <2>2. /\ Pow(2, 0 + 1) = 2 * Pow(2, 0) /\ Pow(2, 1 + 1) = 2 * Pow(2, 1) /\ Pow(2, 2 + 1) = 2 * Pow(2, 2)
        /\ Pow(2, 3 + 1) = 2 * Pow(2, 3) /\ Pow(2, 4 + 1) = 2 * Pow(2, 4)
    BY <2>1
  <2>3. 0 + 1 = 1 /\ 1 + 1 = 2 /\ 2 + 1 = 3 /\ 3 + 1 = 4 /\ 4 + 1 = 5
    OBVIOUS
  <2>. QED
    BY <2>1, <2>2, <2>3
<1>3. /\ Padded(a, 2, 5) \in Seq({0, 1}) /\ Len(Padded(a, 2, 5)) = 5
      /\ \A i \in 1..5 : Padded(a, 2, 5)[i] = (a \div Pow(2, 5 - i)) % 2
  BY <1>1, BinaryIs
<1>4. Number(Padded(a, 2, 5), 2) = a
  <2>1. 2 \in Nat /\ 1 < 2 /\ a < Pow(2, 5)
    BY <1>1, <1>2
  <2>. QED
    BY <1>1, <2>1, NumberPadded
<1>5. \A i \in 1..5 : Padded(a, 2, 5)[i] = Bit(a, 5 - i)
  BY <1>3 DEF Bit
<1>6. \A i \in 1..5 : Padded(a, 2, 5)[i] \in {0, 1}
  BY <1>3, ElementOfSeq
<1>. QED
  BY <1>1, <1>2, <1>3, <1>4, <1>5, <1>6

\* A symbol is its bits.
LEMMA SameBits ==
  ASSUME NEW a \in Symbol, NEW b \in Symbol, \A i \in 1..5 : Bit(a, 5 - i) = Bit(b, 5 - i)
  PROVE  a = b
<1>1. PICK s \in Seq({0, 1}) : s = Padded(a, 2, 5) /\ Len(s) = 5 /\ Number(s, 2) = a
                               /\ \A i \in 1..5 : s[i] = Bit(a, 5 - i)
  BY FiveBits
<1>2. PICK t \in Seq({0, 1}) : t = Padded(b, 2, 5) /\ Len(t) = 5 /\ Number(t, 2) = b
                               /\ \A i \in 1..5 : t[i] = Bit(b, 5 - i)
  BY FiveBits
<1>3. \A i \in 1..5 : s[i] = t[i]
  BY <1>1, <1>2
<1>4. s = t
  BY <1>1, <1>2, <1>3, SeqEqual
<1>. QED
  BY <1>1, <1>2, <1>4

\* The sum of two symbols is the symbol of the sums of their bits.
LEMMA XorIs ==
  ASSUME NEW a \in Symbol, NEW b \in Symbol
  PROVE  /\ Xor[a][b] \in Symbol
         /\ \A i \in 1..5 : Bit(Xor[a][b], 5 - i) = (Bit(a, 5 - i) + Bit(b, 5 - i)) % 2
<1>1. \A i \in 1..5 : Bit(a, 5 - i) \in {0, 1} /\ Bit(b, 5 - i) \in {0, 1}
  BY FiveBits
<1>. DEFINE s == [i \in 1..5 |-> (Bit(a, 5 - i) + Bit(b, 5 - i)) % 2]
<1>2. s \in [1..5 -> {0, 1}] /\ \A i \in 1..5 : s[i] = (Bit(a, 5 - i) + Bit(b, 5 - i)) % 2
  <2>1. \A x \in {0, 1}, y \in {0, 1} : (x + y) % 2 \in {0, 1}
    OBVIOUS
  <2>2. \A i \in 1..5 : (Bit(a, 5 - i) + Bit(b, 5 - i)) % 2 \in {0, 1}
    BY <1>1, <2>1
  <2>. QED
    BY <2>2
<1>3. Xor[a][b] = Number(s, 2)
  BY DEF Xor, Symbol
<1>. HIDE DEF s
<1>4. s \in Seq({0, 1}) /\ Len(s) = 5
  <2>1. PICK n \in Nat : n = 5
    OBVIOUS
  <2>2. s \in [1..n -> {0, 1}]
    BY <1>2, <2>1
  <2>3. s \in Seq({0, 1}) /\ Len(s) = n
    BY <2>2
  <2>. QED
    BY <2>1, <2>3
<1>5. PICK n \in Nat : n = Number(s, 2) /\ n < 32 /\ Padded(n, 2, 5) = s
  <2>1. 2 \in Nat /\ 1 < 2 /\ 5 \in Nat /\ s \in Seq(0..(2 - 1))
    <3>1. 0..(2 - 1) = {0, 1}
      OBVIOUS
    <3>. QED
      BY <1>4, <3>1
  <2>2. Number(s, 2) \in Nat /\ Number(s, 2) < Pow(2, 5) /\ Padded(Number(s, 2), 2, 5) = s
    BY <1>4, <2>1, PaddedNumber
  <2>3. Pow(2, 5) = 32
    BY FiveBits
  <2>. QED
    BY <2>2, <2>3
<1>6. n \in Symbol
  BY <1>5 DEF Symbol
<1>7. \A i \in 1..5 : s[i] = Bit(n, 5 - i)
  BY <1>5, <1>6, FiveBits
<1>. QED
  BY <1>2, <1>3, <1>5, <1>6, <1>7

\* Sums of symbols commute and associate, zero changes nothing, and a symbol undoes itself.
LEMMA XorLaws ==
  /\ \A a \in Symbol : Xor[a][0] = a /\ Xor[0][a] = a /\ Xor[a][a] = 0
  /\ \A a \in Symbol, b \in Symbol : Xor[a][b] = Xor[b][a]
  /\ \A a \in Symbol, b \in Symbol, c \in Symbol : Xor[Xor[a][b]][c] = Xor[a][Xor[b][c]]
<1>0. 0 \in Symbol
  BY DEF Symbol
<1>1. \A a \in Symbol : \A i \in 1..5 : Bit(a, 5 - i) \in {0, 1}
  BY FiveBits
<1>2. \A i \in 1..5 : Bit(0, 5 - i) = 0
  <2>1. ASSUME NEW i \in 1..5 PROVE Bit(0, 5 - i) = 0
    <3>1. 5 - i \in Nat
      OBVIOUS
    <3>2. PICK p \in Nat : p = Pow(2, 5 - i) /\ 0 < p
      BY <3>1, BinaryIs
    <3>3. 0 \div p = 0
      <4>1. 0 = 0 * p + 0 /\ 0 \in 0..(p - 1)
        BY <3>2
      <4>. QED
        BY <3>2, <4>1, QuotientIs
    <3>. QED
      BY <3>2, <3>3 DEF Bit
  <2>. QED
    BY <2>1
<1>3. \A x \in {0, 1}, y \in {0, 1} : (x + y) % 2 \in {0, 1} /\ (x + 0) % 2 = x /\ (0 + x) % 2 = x /\ (x + x) % 2 = 0
                                     /\ (x + y) % 2 = (y + x) % 2
  OBVIOUS
<1>4. \A x \in {0, 1}, y \in {0, 1}, z \in {0, 1} : (((x + y) % 2) + z) % 2 = (x + ((y + z) % 2)) % 2
  OBVIOUS
<1>5. ASSUME NEW a \in Symbol PROVE Xor[a][0] = a /\ Xor[0][a] = a /\ Xor[a][a] = 0
  <2>1. Xor[a][0] \in Symbol /\ Xor[0][a] \in Symbol /\ Xor[a][a] \in Symbol
    BY <1>0, XorIs
  <2>2. \A i \in 1..5 : /\ Bit(Xor[a][0], 5 - i) = (Bit(a, 5 - i) + Bit(0, 5 - i)) % 2
                        /\ Bit(Xor[0][a], 5 - i) = (Bit(0, 5 - i) + Bit(a, 5 - i)) % 2
                        /\ Bit(Xor[a][a], 5 - i) = (Bit(a, 5 - i) + Bit(a, 5 - i)) % 2
    BY <1>0, XorIs
  <2>3. \A i \in 1..5 : /\ Bit(Xor[a][0], 5 - i) = Bit(a, 5 - i)
                        /\ Bit(Xor[0][a], 5 - i) = Bit(a, 5 - i)
                        /\ Bit(Xor[a][a], 5 - i) = Bit(0, 5 - i)
    BY <1>1, <1>2, <1>3, <2>2
  <2>. QED
    BY <1>0, <2>1, <2>3, SameBits
<1>6. ASSUME NEW a \in Symbol, NEW b \in Symbol PROVE Xor[a][b] = Xor[b][a]
  <2>1. Xor[a][b] \in Symbol /\ Xor[b][a] \in Symbol
    BY XorIs
  <2>2. \A i \in 1..5 : /\ Bit(Xor[a][b], 5 - i) = (Bit(a, 5 - i) + Bit(b, 5 - i)) % 2
                        /\ Bit(Xor[b][a], 5 - i) = (Bit(b, 5 - i) + Bit(a, 5 - i)) % 2
    BY XorIs
  <2>3. \A i \in 1..5 : Bit(Xor[a][b], 5 - i) = Bit(Xor[b][a], 5 - i)
    BY <1>1, <1>3, <2>2
  <2>. QED
    BY <2>1, <2>3, SameBits
<1>7. ASSUME NEW a \in Symbol, NEW b \in Symbol, NEW c \in Symbol
      PROVE  Xor[Xor[a][b]][c] = Xor[a][Xor[b][c]]
  <2>1. PICK d \in Symbol, e \in Symbol : d = Xor[a][b] /\ e = Xor[b][c]
    BY XorIs
  <2>2. Xor[d][c] \in Symbol /\ Xor[a][e] \in Symbol
    BY XorIs
  <2>3. \A i \in 1..5 : /\ Bit(d, 5 - i) = (Bit(a, 5 - i) + Bit(b, 5 - i)) % 2
                        /\ Bit(e, 5 - i) = (Bit(b, 5 - i) + Bit(c, 5 - i)) % 2
    BY <2>1, XorIs
  <2>4. \A i \in 1..5 : /\ Bit(Xor[d][c], 5 - i) = (Bit(d, 5 - i) + Bit(c, 5 - i)) % 2
                        /\ Bit(Xor[a][e], 5 - i) = (Bit(a, 5 - i) + Bit(e, 5 - i)) % 2
    BY XorIs
  <2>5. \A i \in 1..5 : Bit(Xor[d][c], 5 - i) = Bit(Xor[a][e], 5 - i)
    BY <1>1, <1>4, <2>3, <2>4
  <2>6. Xor[d][c] = Xor[a][e]
    BY <2>2, <2>5, SameBits
  <2>. QED
    BY <2>1, <2>6
<1>. QED
  BY <1>5, <1>6, <1>7

-----------------------------------------------------------------------------
(* Checksums of six symbols.                                               *)

Vectors == {s \in Seq(Symbol) : Len(s) = 6}
Zeros == Repeat(0, 6)

\* Six symbols are a checksum.
LEMMA VectorIs ==
  ASSUME NEW f, f = [i \in 1..6 |-> f[i]], \A i \in 1..6 : f[i] \in Symbol
  PROVE  f \in Vectors
<1>1. PICK n \in Nat : n = 6
  OBVIOUS
<1>2. f \in [1..n -> Symbol]
  BY <1>1
<1>3. f \in Seq(Symbol) /\ Len(f) = n
  BY <1>2
<1>. QED
  BY <1>1, <1>3 DEF Vectors

\* A checksum is six symbols.
LEMMA VectorParts ==
  ASSUME NEW a \in Vectors
  PROVE  a \in Seq(Symbol) /\ Len(a) = 6 /\ DOMAIN a = 1..6 /\ \A i \in 1..6 : a[i] \in Symbol
<1>1. a \in Seq(Symbol) /\ Len(a) = 6
  BY DEF Vectors
<1>2. \A i \in 1..6 : a[i] \in Symbol
  BY <1>1, ElementOfSeq
<1>3. DOMAIN a = 1..6
  BY <1>1, LenProperties
<1>. QED
  BY <1>1, <1>2, <1>3

\* Checksums with the same symbols are one.
LEMMA SameVector ==
  ASSUME NEW a \in Vectors, NEW b \in Vectors, \A i \in 1..6 : a[i] = b[i]
  PROVE  a = b
<1>1. a \in Seq(Symbol) /\ b \in Seq(Symbol) /\ Len(a) = 6 /\ Len(b) = 6
  BY VectorParts
<1>. QED
  BY <1>1, SeqEqual

\* The checksum of zeros.
LEMMA ZerosIs ==
  /\ Zeros \in Vectors /\ \A i \in 1..6 : Zeros[i] = 0
<1>1. 0 \in Symbol
  BY DEF Symbol
<1>2. Zeros = [i \in 1..6 |-> 0]
  BY DEF Zeros, Repeat
<1>3. Zeros = [i \in 1..6 |-> Zeros[i]] /\ \A i \in 1..6 : Zeros[i] = 0
  BY <1>2
<1>. QED
  BY <1>1, <1>3, VectorIs

\* Checksums are added symbol by symbol.
LEMMA XorAllIs ==
  ASSUME NEW a \in Vectors, NEW b \in Vectors
  PROVE  XorAll(a, b) \in Vectors /\ \A i \in 1..6 : XorAll(a, b)[i] = Xor[a[i]][b[i]]
<1>1. PICK c : c = XorAll(a, b)
  OBVIOUS
<1>2. DOMAIN a = 1..6 /\ \A i \in 1..6 : a[i] \in Symbol /\ b[i] \in Symbol
  BY VectorParts
<1>3. c = [i \in 1..6 |-> Xor[a[i]][b[i]]]
  BY <1>1, <1>2 DEF XorAll
<1>4. \A i \in 1..6 : Xor[a[i]][b[i]] \in Symbol
  BY <1>2, XorIs
<1>5. c = [i \in 1..6 |-> c[i]] /\ \A i \in 1..6 : c[i] = Xor[a[i]][b[i]]
  BY <1>3
<1>6. \A i \in 1..6 : c[i] \in Symbol
  BY <1>4, <1>5
<1>7. c \in Vectors
  BY <1>5, <1>6, VectorIs
<1>. QED
  BY <1>1, <1>5, <1>7

\* To add one twice, or nothing, changes nothing.
LEMMA VectorLaws ==
  ASSUME NEW a \in Vectors, NEW b \in Vectors
  PROVE  /\ XorAll(a, Zeros) = a /\ XorAll(Zeros, a) = a /\ XorAll(a, XorAll(a, b)) = b
         /\ XorAll(XorAll(a, b), a) = b
<1>0. Zeros \in Vectors /\ \A i \in 1..6 : Zeros[i] = 0
  BY ZerosIs
<1>1. \A i \in 1..6 : a[i] \in Symbol /\ b[i] \in Symbol
  BY VectorParts
<1>2. PICK c \in Vectors : c = XorAll(a, b) /\ \A i \in 1..6 : c[i] = Xor[a[i]][b[i]]
  BY XorAllIs
<1>3. XorAll(a, Zeros) = a
  <2>1. XorAll(a, Zeros) \in Vectors /\ \A i \in 1..6 : XorAll(a, Zeros)[i] = Xor[a[i]][Zeros[i]]
    BY <1>0, XorAllIs
  <2>2. \A x \in Symbol : Xor[x][0] = x
    BY XorLaws
  <2>3. \A i \in 1..6 : XorAll(a, Zeros)[i] = Xor[a[i]][0]
    BY <1>0, <2>1
  <2>4. \A i \in 1..6 : XorAll(a, Zeros)[i] = a[i]
    BY <1>1, <2>2, <2>3
  <2>. QED
    BY <2>1, <2>4, SameVector
<1>4. XorAll(Zeros, a) = a
  <2>1. XorAll(Zeros, a) \in Vectors /\ \A i \in 1..6 : XorAll(Zeros, a)[i] = Xor[Zeros[i]][a[i]]
    BY <1>0, XorAllIs
  <2>2. \A x \in Symbol : Xor[0][x] = x
    BY XorLaws
  <2>3. \A i \in 1..6 : XorAll(Zeros, a)[i] = Xor[0][a[i]]
    BY <1>0, <2>1
  <2>4. \A i \in 1..6 : XorAll(Zeros, a)[i] = a[i]
    BY <1>1, <2>2, <2>3
  <2>. QED
    BY <2>1, <2>4, SameVector
<1>5. \A x \in Symbol, y \in Symbol : Xor[x][Xor[x][y]] = y /\ Xor[Xor[x][y]][x] = y
  <2>. SUFFICES ASSUME NEW x \in Symbol, NEW y \in Symbol
                PROVE  Xor[x][Xor[x][y]] = y /\ Xor[Xor[x][y]][x] = y
    OBVIOUS
  <2>1. Xor[Xor[x][x]][y] = Xor[x][Xor[x][y]] /\ Xor[x][x] = 0 /\ Xor[0][y] = y
    BY XorLaws
  <2>2. Xor[x][y] \in Symbol
    BY XorIs
  <2>3. Xor[Xor[x][y]][x] = Xor[x][Xor[x][y]]
    BY <2>2, XorLaws
  <2>. QED
    BY <2>1, <2>3
<1>6. XorAll(a, c) = b
  <2>1. XorAll(a, c) \in Vectors /\ \A i \in 1..6 : XorAll(a, c)[i] = Xor[a[i]][c[i]]
    BY <1>2, XorAllIs
  <2>2. \A i \in 1..6 : XorAll(a, c)[i] = b[i]
    BY <1>1, <1>2, <1>5, <2>1
  <2>. QED
    BY <2>1, <2>2, SameVector
<1>7. XorAll(c, a) = b
  <2>1. XorAll(c, a) \in Vectors /\ \A i \in 1..6 : XorAll(c, a)[i] = Xor[c[i]][a[i]]
    BY <1>2, XorAllIs
  <2>2. \A i \in 1..6 : XorAll(c, a)[i] = b[i]
    BY <1>1, <1>2, <1>5, <2>1
  <2>. QED
    BY <2>1, <2>2, SameVector
<1>. QED
  BY <1>2, <1>3, <1>4, <1>6, <1>7

-----------------------------------------------------------------------------
(* Folds of the checksum.                                                  *)

\* So many steps of h, from x on.
Steps(r, S, x, n, h) == r \in [0..n -> S] /\ r[0] = x /\ \A i \in 1..n : r[i] = h[i][r[i - 1]]

\* A number of steps made one after another.
LEMMA Iterated ==
  ASSUME NEW S, NEW x \in S, NEW n \in Nat, NEW h \in [Nat -> [S -> S]]
  PROVE  \E r : Steps(r, S, x, n, h)
<1>1. PICK f \in [Nat -> S] : Iterates(f, x, h)
  BY Iteration
<1>. DEFINE r == [i \in 0..n |-> f[i]]
<1>2. r \in [0..n -> S] /\ \A i \in 0..n : r[i] = f[i]
  <2>1. \A i \in 0..n : i \in Nat
    OBVIOUS
  <2>. QED
    BY <1>1, <2>1
<1>. HIDE DEF r
<1>3. r[0] = x
  <2>1. 0 \in 0..n
    OBVIOUS
  <2>. QED
    BY <1>1, <1>2, <2>1 DEF Iterates
<1>4. ASSUME NEW i \in 1..n PROVE r[i] = h[i][r[i - 1]]
  <2>1. i \in Nat \ {0} /\ i \in 0..n /\ i - 1 \in 0..n
    OBVIOUS
  <2>2. f[i] = h[i][f[i - 1]]
    BY <1>1, <2>1 DEF Iterates
  <2>. QED
    BY <1>2, <2>1, <2>2
<1>. QED
  BY <1>2, <1>3, <1>4 DEF Steps

\* The generators are checksums.
LEMMA GenIs ==
  /\ \A i \in 1..5 : Gen[i] \in Vectors
  /\ Gen[1][6] = 18 /\ Gen[2][6] = 13 /\ Gen[3][6] = 26 /\ Gen[4][6] = 29 /\ Gen[5][6] = 19
<1>1. ASSUME NEW a \in 0..31, NEW b \in 0..31, NEW c \in 0..31, NEW d \in 0..31, NEW e \in 0..31, NEW f \in 0..31
      PROVE  <<a, b, c, d, e, f>> \in Vectors
  BY DEF Vectors, Symbol
<1>2. /\ Gen[1] = <<29, 22, 20, 21, 29, 18>> /\ Gen[2] = <<19, 5, 1, 3, 19, 13>>
      /\ Gen[3] = <<15, 10, 2, 6, 15, 26>> /\ Gen[4] = <<30, 20, 4, 12, 30, 29>>
      /\ Gen[5] = <<21, 1, 8, 24, 21, 19>>
  BY DEF Gen
<1>4. Gen[1] \in Vectors /\ Gen[2] \in Vectors /\ Gen[3] \in Vectors /\ Gen[4] \in Vectors /\ Gen[5] \in Vectors
  <2>1. <<29, 22, 20, 21, 29, 18>> \in Vectors
    <3>1. 29 \in 0..31 /\ 22 \in 0..31 /\ 20 \in 0..31 /\ 21 \in 0..31 /\ 29 \in 0..31 /\ 18 \in 0..31
      OBVIOUS
    <3>. QED
      BY <3>1, <1>1
  <2>2. <<19, 5, 1, 3, 19, 13>> \in Vectors
    <3>1. 19 \in 0..31 /\ 5 \in 0..31 /\ 1 \in 0..31 /\ 3 \in 0..31 /\ 19 \in 0..31 /\ 13 \in 0..31
      OBVIOUS
    <3>. QED
      BY <3>1, <1>1
  <2>3. <<15, 10, 2, 6, 15, 26>> \in Vectors
    <3>1. 15 \in 0..31 /\ 10 \in 0..31 /\ 2 \in 0..31 /\ 6 \in 0..31 /\ 15 \in 0..31 /\ 26 \in 0..31
      OBVIOUS
    <3>. QED
      BY <3>1, <1>1
  <2>4. <<30, 20, 4, 12, 30, 29>> \in Vectors
    <3>1. 30 \in 0..31 /\ 20 \in 0..31 /\ 4 \in 0..31 /\ 12 \in 0..31 /\ 30 \in 0..31 /\ 29 \in 0..31
      OBVIOUS
    <3>. QED
      BY <3>1, <1>1
  <2>5. <<21, 1, 8, 24, 21, 19>> \in Vectors
    <3>1. 21 \in 0..31 /\ 1 \in 0..31 /\ 8 \in 0..31 /\ 24 \in 0..31 /\ 21 \in 0..31 /\ 19 \in 0..31
      OBVIOUS
    <3>. QED
      BY <3>1, <1>1
  <2>. QED
    BY <1>2, <2>1, <2>2, <2>3, <2>4, <2>5
<1>5. \A i \in 1..5 : i = 1 \/ i = 2 \/ i = 3 \/ i = 4 \/ i = 5
  OBVIOUS
<1>6. \A i \in 1..5 : Gen[i] \in Vectors
  BY <1>4, <1>5
<1>. QED
  BY <1>2, <1>6

\* What is folded back in is made generator by generator, for each bit that is set.
LEMMA FoldedIs ==
  ASSUME NEW top \in Symbol
  PROVE  \E f \in [0..5 -> Vectors] :
           /\ f[0] = Zeros /\ Folded[top] = f[5]
           /\ \A i \in 1..5 : f[i] = IF Bit(top, i - 1) = 1 THEN XorAll(f[i - 1], Gen[i]) ELSE f[i - 1]
<1>. DEFINE step(i, x) == IF Bit(top, i - 1) = 1 THEN XorAll(x, Gen[i]) ELSE x
            h == [i \in Nat |-> [x \in Vectors |-> IF i \in 1..5 THEN step(i, x) ELSE x]]
            five == <<1, 2, 3, 4, 5>>
            Eq(g) == g = [i \in 0..Len(five) |-> IF i = 0 THEN Repeat(0, 6) ELSE step(five[i], g[i - 1])]
            g == CHOOSE g : Eq(g)
<1>1. ASSUME NEW i \in 1..5, NEW x \in Vectors PROVE step(i, x) \in Vectors
  <2>1. Gen[i] \in Vectors
    BY GenIs
  <2>2. XorAll(x, Gen[i]) \in Vectors
    BY <2>1, XorAllIs
  <2>. QED
    BY <2>2
<1>2. /\ h \in [Nat -> [Vectors -> Vectors]]
      /\ \A i \in 1..5 : \A x \in Vectors : h[i][x] = step(i, x)
  <2>. HIDE DEF step
  <2>1. \A i \in 1..5 : i \in Nat
    OBVIOUS
  <2>. QED
    BY <1>1, <2>1
<1>3. Len(five) = 5 /\ \A i \in 1..5 : five[i] = i
  <2>1. Len(five) = 5 /\ five[1] = 1 /\ five[2] = 2 /\ five[3] = 3 /\ five[4] = 4 /\ five[5] = 5
    OBVIOUS
  <2>2. \A i \in 1..5 : i = 1 \/ i = 2 \/ i = 3 \/ i = 4 \/ i = 5
    OBVIOUS
  <2>. QED
    BY <2>1, <2>2
<1>4. Folded[top] = g[5]
  <2>1. Folded[top] = g[Len(five)]
    BY DEF Folded, Fold, Symbol
  <2>. QED
    BY <1>3, <2>1
<1>. HIDE DEF h, five, step
<1>5. PICK f \in [0..5 -> Vectors] : f[0] = Zeros /\ \A i \in 1..5 : f[i] = h[i][f[i - 1]]
  <2>. HIDE DEF Eq, g
  <2>1. PICK n \in Nat : n = 5
    OBVIOUS
  <2>2. Zeros \in Vectors /\ h \in [Nat -> [Vectors -> Vectors]]
    BY <1>2, ZerosIs
  <2>3. \E f : Steps(f, Vectors, Zeros, n, h)
    BY <2>2, Iterated
  <2>. QED
    BY <2>1, <2>3 DEF Steps
<1>6. \A i \in 1..5 : f[i] = step(i, f[i - 1])
  <2>1. \A i \in 1..5 : i - 1 \in 0..5
    OBVIOUS
  <2>. QED
    BY <1>2, <1>5, <2>1
<1>7. Eq(f)
  <2>1. \A i \in 0..5 : i # 0 => i \in 1..5
    OBVIOUS
  <2>2. \A i \in 0..5 : f[i] = IF i = 0 THEN Zeros ELSE step(five[i], f[i - 1])
    BY <1>3, <1>5, <1>6, <2>1
  <2>3. f = [i \in 0..5 |-> f[i]]
    BY <1>5
  <2>4. Zeros = Repeat(0, 6)
    BY DEF Zeros
  <2>. QED
    BY <1>3, <2>2, <2>3, <2>4
<1>8. Eq(g)
  <2>. HIDE DEF Eq
  <2>. QED
    BY <1>7
<1>9. \A i \in 0..5 : g[i] = IF i = 0 THEN Zeros ELSE step(five[i], g[i - 1])
  <2>. HIDE DEF g
  <2>. QED
    BY <1>3, <1>8 DEF Zeros
<1>. HIDE DEF g, Eq
<1>10. g[5] = f[5]
  <2>1. ASSUME NEW i \in 1..5, g[i - 1] = f[i - 1] PROVE g[i] = f[i]
    <3>1. i \in 0..5 /\ i # 0
      OBVIOUS
    <3>. QED
      BY <1>3, <1>6, <1>9, <2>1, <3>1
  <2>2. g[0] = f[0]
    <3>1. 0 \in 0..5
      OBVIOUS
    <3>. QED
      BY <1>5, <1>9, <3>1
  <2>3. 5 \in Nat
    OBVIOUS
  <2>. QED
    BY <2>1, <2>2, <2>3, Agree
<1>. QED
  BY <1>4, <1>5, <1>6, <1>10 DEF step

\* Small powers of two.
LEMMA PowersOfTwo == Pow(2, 0) = 1 /\ Pow(2, 1) = 2 /\ Pow(2, 2) = 4 /\ Pow(2, 3) = 8 /\ Pow(2, 4) = 16
<1>1. 2 \in Nat /\ 0 < 2
  OBVIOUS
<1>2. Pow(2, 0) = 1 /\ \A n \in Nat : Pow(2, n + 1) = 2 * Pow(2, n)
  BY <1>1, PowIs
<1>3. /\ Pow(2, 0 + 1) = 2 * Pow(2, 0) /\ Pow(2, 1 + 1) = 2 * Pow(2, 1)
      /\ Pow(2, 2 + 1) = 2 * Pow(2, 2) /\ Pow(2, 3 + 1) = 2 * Pow(2, 3)
  BY <1>2
<1>4. 0 + 1 = 1 /\ 1 + 1 = 2 /\ 2 + 1 = 3 /\ 3 + 1 = 4
  OBVIOUS
<1>. QED
  BY <1>2, <1>3, <1>4

\* A symbol added, or not, bit by bit.
LEMMA OneFold ==
  ASSUME NEW x \in Symbol, NEW g \in Symbol, NEW c \in {0, 1}, NEW y, y = IF c = 1 THEN Xor[x][g] ELSE x
  PROVE  \A i \in 1..5 : Bit(y, 5 - i) = (Bit(x, 5 - i) + c * Bit(g, 5 - i)) % 2
<1>1. \A i \in 1..5 : Bit(x, 5 - i) \in {0, 1} /\ Bit(g, 5 - i) \in {0, 1}
  BY FiveBits
<1>2. CASE c = 1
  <2>1. \A i \in 1..5 : Bit(y, 5 - i) = (Bit(x, 5 - i) + Bit(g, 5 - i)) % 2
    BY <1>2, XorIs
  <2>2. \A b \in {0, 1} : c * b = b
    BY <1>2
  <2>. QED
    BY <1>1, <2>1, <2>2
<1>3. CASE c = 0
  <2>1. \A a \in {0, 1}, b \in {0, 1} : (a + c * b) % 2 = a
    BY <1>3
  <2>. QED
    BY <1>1, <1>3, <2>1
<1>. QED
  BY <1>2, <1>3

\* The last symbol that is folded in: its bits.
LEMMA TopBits ==
  ASSUME NEW top \in Symbol
  PROVE  /\ Folded[top] \in Vectors /\ \A i \in 0..4 : Bit(top, i) \in {0, 1}
         /\ Bit(Folded[top][6], 4) = (Bit(top, 0) + Bit(top, 2) + Bit(top, 3) + Bit(top, 4)) % 2
         /\ Bit(Folded[top][6], 3) = (Bit(top, 1) + Bit(top, 2) + Bit(top, 3)) % 2
         /\ Bit(Folded[top][6], 2) = (Bit(top, 1) + Bit(top, 3)) % 2
         /\ Bit(Folded[top][6], 1) = (Bit(top, 0) + Bit(top, 2) + Bit(top, 4)) % 2
         /\ Bit(Folded[top][6], 0) = (Bit(top, 1) + Bit(top, 3) + Bit(top, 4)) % 2
<1>1. PICK f \in [0..5 -> Vectors] :
           /\ f[0] = Zeros /\ Folded[top] = f[5]
           /\ \A i \in 1..5 : f[i] = IF Bit(top, i - 1) = 1 THEN XorAll(f[i - 1], Gen[i]) ELSE f[i - 1]
  BY FoldedIs
<1>2. \A i \in 0..4 : Bit(top, i) \in {0, 1}
  <2>1. ASSUME NEW i \in 0..4 PROVE Bit(top, i) \in {0, 1}
    <3>1. 5 - i \in 1..5 /\ 5 - (5 - i) = i
      OBVIOUS
    <3>. QED
      BY <3>1, FiveBits
  <2>. QED
    BY <2>1
<1>3. \A i \in 0..5 : f[i] \in Vectors /\ f[i][6] \in Symbol
  BY <1>1, VectorParts
<1>4. ASSUME NEW i \in 1..5
      PROVE  /\ Gen[i][6] \in Symbol
             /\ \A k \in 1..5 : Bit(f[i][6], 5 - k) = (Bit(f[i - 1][6], 5 - k) + Bit(top, i - 1) * Bit(Gen[i][6], 5 - k)) % 2
  <2>1. i - 1 \in 0..5 /\ i - 1 \in 0..4 /\ i \in 0..5
    OBVIOUS
  <2>2. PICK c \in {0, 1} : c = Bit(top, i - 1)
    BY <1>2, <2>1
  <2>3. Gen[i] \in Vectors /\ Gen[i][6] \in Symbol
    BY GenIs, VectorParts
  <2>4. XorAll(f[i - 1], Gen[i])[6] = Xor[f[i - 1][6]][Gen[i][6]]
    BY <1>3, <2>1, <2>3, XorAllIs
  <2>5. f[i][6] = IF c = 1 THEN Xor[f[i - 1][6]][Gen[i][6]] ELSE f[i - 1][6]
    BY <1>1, <2>2, <2>4
  <2>6. f[i - 1][6] \in Symbol
    BY <1>3, <2>1
  <2>7. \A k \in 1..5 : Bit(f[i][6], 5 - k) = (Bit(f[i - 1][6], 5 - k) + c * Bit(Gen[i][6], 5 - k)) % 2
    BY <2>3, <2>5, <2>6, OneFold
  <2>. QED
    BY <2>2, <2>3, <2>7
<1>5. ASSUME NEW k \in 1..5, NEW g1 \in {0, 1}, NEW g2 \in {0, 1}, NEW g3 \in {0, 1}, NEW g4 \in {0, 1}, NEW g5 \in {0, 1},
             Bit(18, 5 - k) = g1, Bit(13, 5 - k) = g2, Bit(26, 5 - k) = g3, Bit(29, 5 - k) = g4, Bit(19, 5 - k) = g5
      PROVE  Bit(Folded[top][6], 5 - k)
               = (g1 * Bit(top, 0) + g2 * Bit(top, 1) + g3 * Bit(top, 2) + g4 * Bit(top, 3) + g5 * Bit(top, 4)) % 2
  <2>1. PICK c1 \in {0, 1}, c2 \in {0, 1}, c3 \in {0, 1}, c4 \in {0, 1}, c5 \in {0, 1} :
           c1 = Bit(top, 0) /\ c2 = Bit(top, 1) /\ c3 = Bit(top, 2) /\ c4 = Bit(top, 3) /\ c5 = Bit(top, 4)
    BY <1>2
  <2>. DEFINE e(i) == Bit(f[i][6], 5 - k)
  <2>2. e(0) = 0
    <3>1. f[0][6] = 0 /\ 5 - k \in Nat
      BY <1>1, ZerosIs
    <3>2. PICK p \in Nat : p = Pow(2, 5 - k) /\ 0 < p
      BY <3>1, BinaryIs
    <3>3. 0 = 0 * p + 0 /\ 0 \in 0..(p - 1)
      BY <3>2
    <3>4. 0 \div p = 0
      BY <3>2, <3>3, QuotientIs
    <3>. QED
      BY <3>1, <3>2, <3>4 DEF Bit
  <2>3. \A i \in 1..5 : e(i) = (e(i - 1) + Bit(top, i - 1) * Bit(Gen[i][6], 5 - k)) % 2
    BY <1>4
  <2>. HIDE DEF e
  <2>4. /\ e(1) = (e(1 - 1) + Bit(top, 1 - 1) * Bit(Gen[1][6], 5 - k)) % 2
        /\ e(2) = (e(2 - 1) + Bit(top, 2 - 1) * Bit(Gen[2][6], 5 - k)) % 2
        /\ e(3) = (e(3 - 1) + Bit(top, 3 - 1) * Bit(Gen[3][6], 5 - k)) % 2
        /\ e(4) = (e(4 - 1) + Bit(top, 4 - 1) * Bit(Gen[4][6], 5 - k)) % 2
        /\ e(5) = (e(5 - 1) + Bit(top, 5 - 1) * Bit(Gen[5][6], 5 - k)) % 2
    BY <2>3
  <2>5. 1 - 1 = 0 /\ 2 - 1 = 1 /\ 3 - 1 = 2 /\ 4 - 1 = 3 /\ 5 - 1 = 4
    OBVIOUS
  <2>6. /\ e(1) = (0 + c1 * g1) % 2 /\ e(2) = (e(1) + c2 * g2) % 2 /\ e(3) = (e(2) + c3 * g3) % 2
        /\ e(4) = (e(3) + c4 * g4) % 2 /\ e(5) = (e(4) + c5 * g5) % 2
    BY <1>5, <2>1, <2>2, <2>4, <2>5, GenIs
  <2>7. \A b \in {0, 1}, g \in {0, 1} : b * g \in {0, 1} /\ b * g = g * b
    OBVIOUS
  <2>8. \A x, y, z, u, v \in {0, 1} :
          (((((((((0 + x) % 2) + y) % 2) + z) % 2) + u) % 2) + v) % 2 = (x + y + z + u + v) % 2
    OBVIOUS
  <2>9. e(5) = (g1 * c1 + g2 * c2 + g3 * c3 + g4 * c4 + g5 * c5) % 2
    BY <2>6, <2>7, <2>8
  <2>. QED
    BY <1>1, <2>1, <2>9 DEF e
<1>. DEFINE c1 == Bit(top, 0)
            c2 == Bit(top, 1)
            c3 == Bit(top, 2)
            c4 == Bit(top, 3)
            c5 == Bit(top, 4)
<1>6. c1 \in {0, 1} /\ c2 \in {0, 1} /\ c3 \in {0, 1} /\ c4 \in {0, 1} /\ c5 \in {0, 1}
  BY <1>2
<1>. HIDE DEF c1, c2, c3, c4, c5
<1>7. Bit(Folded[top][6], 4) = (c1 + c3 + c4 + c5) % 2
  <2>1. 1 \in 1..5 /\ 5 - 1 = 4 /\ 0 \in {0, 1} /\ 1 \in {0, 1}
    OBVIOUS
  <2>2. Bit(18, 4) = 1 /\ Bit(13, 4) = 0 /\ Bit(26, 4) = 1 /\ Bit(29, 4) = 1 /\ Bit(19, 4) = 1
    BY PowersOfTwo DEF Bit
  <2>3. Bit(Folded[top][6], 4) = (1 * c1 + 0 * c2 + 1 * c3 + 1 * c4 + 1 * c5) % 2
    BY <1>5, <2>1, <2>2 DEF c1, c2, c3, c4, c5
  <2>. QED
    BY <1>6, <2>3
<1>8. Bit(Folded[top][6], 3) = (c2 + c3 + c4) % 2
  <2>1. 2 \in 1..5 /\ 5 - 2 = 3 /\ 0 \in {0, 1} /\ 1 \in {0, 1}
    OBVIOUS
  <2>2. Bit(18, 3) = 0 /\ Bit(13, 3) = 1 /\ Bit(26, 3) = 1 /\ Bit(29, 3) = 1 /\ Bit(19, 3) = 0
    BY PowersOfTwo DEF Bit
  <2>3. Bit(Folded[top][6], 3) = (0 * c1 + 1 * c2 + 1 * c3 + 1 * c4 + 0 * c5) % 2
    BY <1>5, <2>1, <2>2 DEF c1, c2, c3, c4, c5
  <2>. QED
    BY <1>6, <2>3
<1>9. Bit(Folded[top][6], 2) = (c2 + c4) % 2
  <2>1. 3 \in 1..5 /\ 5 - 3 = 2 /\ 0 \in {0, 1} /\ 1 \in {0, 1}
    OBVIOUS
  <2>2. Bit(18, 2) = 0 /\ Bit(13, 2) = 1 /\ Bit(26, 2) = 0 /\ Bit(29, 2) = 1 /\ Bit(19, 2) = 0
    BY PowersOfTwo DEF Bit
  <2>3. Bit(Folded[top][6], 2) = (0 * c1 + 1 * c2 + 0 * c3 + 1 * c4 + 0 * c5) % 2
    BY <1>5, <2>1, <2>2 DEF c1, c2, c3, c4, c5
  <2>. QED
    BY <1>6, <2>3
<1>10. Bit(Folded[top][6], 1) = (c1 + c3 + c5) % 2
  <2>1. 4 \in 1..5 /\ 5 - 4 = 1 /\ 0 \in {0, 1} /\ 1 \in {0, 1}
    OBVIOUS
  <2>2. Bit(18, 1) = 1 /\ Bit(13, 1) = 0 /\ Bit(26, 1) = 1 /\ Bit(29, 1) = 0 /\ Bit(19, 1) = 1
    BY PowersOfTwo DEF Bit
  <2>3. Bit(Folded[top][6], 1) = (1 * c1 + 0 * c2 + 1 * c3 + 0 * c4 + 1 * c5) % 2
    BY <1>5, <2>1, <2>2 DEF c1, c2, c3, c4, c5
  <2>. QED
    BY <1>6, <2>3
<1>11. Bit(Folded[top][6], 0) = (c2 + c4 + c5) % 2
  <2>1. 5 \in 1..5 /\ 5 - 5 = 0 /\ 0 \in {0, 1} /\ 1 \in {0, 1}
    OBVIOUS
  <2>2. Bit(18, 0) = 0 /\ Bit(13, 0) = 1 /\ Bit(26, 0) = 0 /\ Bit(29, 0) = 1 /\ Bit(19, 0) = 1
    BY PowersOfTwo DEF Bit
  <2>3. Bit(Folded[top][6], 0) = (0 * c1 + 1 * c2 + 0 * c3 + 1 * c4 + 1 * c5) % 2
    BY <1>5, <2>1, <2>2 DEF c1, c2, c3, c4, c5
  <2>. QED
    BY <1>6, <2>3
<1>. QED
  BY <1>1, <1>2, <1>3, <1>7, <1>8, <1>9, <1>10, <1>11 DEF c1, c2, c3, c4, c5

\* One symbol of the checksum is enough to tell what was folded into it.
LEMMA FoldedIn ==
  ASSUME NEW a \in Symbol, NEW b \in Symbol, Folded[a][6] = Folded[b][6]
  PROVE  a = b
<1>1. PICK c1 \in {0, 1}, c2 \in {0, 1}, c3 \in {0, 1}, c4 \in {0, 1}, c5 \in {0, 1} :
        c1 = Bit(a, 0) /\ c2 = Bit(a, 1) /\ c3 = Bit(a, 2) /\ c4 = Bit(a, 3) /\ c5 = Bit(a, 4)
  <2>1. 0 \in 0..4 /\ 1 \in 0..4 /\ 2 \in 0..4 /\ 3 \in 0..4 /\ 4 \in 0..4
    OBVIOUS
  <2>. QED
    BY <2>1, TopBits
<1>2. PICK d1 \in {0, 1}, d2 \in {0, 1}, d3 \in {0, 1}, d4 \in {0, 1}, d5 \in {0, 1} :
        d1 = Bit(b, 0) /\ d2 = Bit(b, 1) /\ d3 = Bit(b, 2) /\ d4 = Bit(b, 3) /\ d5 = Bit(b, 4)
  <2>1. 0 \in 0..4 /\ 1 \in 0..4 /\ 2 \in 0..4 /\ 3 \in 0..4 /\ 4 \in 0..4
    OBVIOUS
  <2>. QED
    BY <2>1, TopBits
<1>3. /\ (c1 + c3 + c4 + c5) % 2 = (d1 + d3 + d4 + d5) % 2
      /\ (c2 + c3 + c4) % 2 = (d2 + d3 + d4) % 2 /\ (c2 + c4) % 2 = (d2 + d4) % 2
      /\ (c1 + c3 + c5) % 2 = (d1 + d3 + d5) % 2 /\ (c2 + c4 + c5) % 2 = (d2 + d4 + d5) % 2
  BY <1>1, <1>2, TopBits
<1>4. c4 = d4
  BY <1>3
<1>5. c2 = d2
  BY <1>3, <1>4
<1>6. c3 = d3 /\ c5 = d5
  BY <1>3, <1>4, <1>5
<1>7. c1 = d1
  BY <1>3, <1>6
<1>8. ASSUME NEW i \in 1..5 PROVE Bit(a, 5 - i) = Bit(b, 5 - i)
  <2>1. 5 - i = 0 \/ 5 - i = 1 \/ 5 - i = 2 \/ 5 - i = 3 \/ 5 - i = 4
    OBVIOUS
  <2>. QED
    BY <1>1, <1>2, <1>4, <1>5, <1>6, <1>7, <2>1
<1>. QED
  BY <1>8, SameBits

-----------------------------------------------------------------------------
(* The checksum, symbol by symbol.                                         *)

Folds(chk, v) == XorAll(Append(Tail(chk), v), Folded[Head(chk)])
Unit == <<0, 0, 0, 0, 0, 1>>

\* The checksum that the check starts from.
LEMMA UnitIs == Unit \in Vectors
<1>1. 0 \in Symbol /\ 1 \in Symbol
  BY DEF Symbol
<1>. QED
  BY <1>1 DEF Unit, Vectors

\* A checksum that takes a symbol in.
LEMMA Shifted ==
  ASSUME NEW z \in Vectors, NEW w \in Symbol
  PROVE  /\ Append(Tail(z), w) \in Vectors /\ Head(z) = z[1]
         /\ Append(Tail(z), w)[6] = w /\ \A i \in 1..5 : Append(Tail(z), w)[i] = z[i + 1]
<1>1. z \in Seq(Symbol) /\ Len(z) = 6
  BY VectorParts
<1>2. PICK t : t = Tail(z) /\ t \in Seq(Symbol) /\ Len(t) = 5 /\ \A i \in 1..5 : t[i] = z[i + 1]
  <2>1. z # <<>>
    BY <1>1
  <2>2. Tail(z) \in Seq(Symbol) /\ Len(Tail(z)) = Len(z) - 1 /\ \A i \in 1..Len(Tail(z)) : Tail(z)[i] = z[i + 1]
    BY <1>1, <2>1, HeadTailProperties
  <2>3. Len(Tail(z)) = 5
    BY <1>1, <2>2
  <2>. QED
    BY <2>2, <2>3
<1>3. PICK n \in Nat : n = 5 /\ n + 1 = 6
  OBVIOUS
<1>4. /\ Append(t, w) \in Seq(Symbol) /\ Len(Append(t, w)) = n + 1 /\ Append(t, w)[n + 1] = w
      /\ \A i \in 1..n : Append(t, w)[i] = t[i]
  <2>1. Len(t) = n /\ t \in Seq(Symbol)
    BY <1>2, <1>3
  <2>2. /\ Append(t, w) \in Seq(Symbol) /\ Append(t, w) # <<>> /\ Len(Append(t, w)) = Len(t) + 1
        /\ \A i \in 1..Len(t) : Append(t, w)[i] = t[i]
        /\ Append(t, w)[Len(t) + 1] = w
    BY <2>1, AppendProperties
  <2>. QED
    BY <2>1, <2>2
<1>5. Append(t, w) \in Vectors
  BY <1>3, <1>4 DEF Vectors
<1>6. Head(z) = z[1]
  BY <1>1
<1>7. Append(t, w)[6] = w /\ \A i \in 1..5 : Append(t, w)[i] = z[i + 1]
  BY <1>2, <1>3, <1>4
<1>. QED
  BY <1>2, <1>5, <1>6, <1>7

\* A step of the check, symbol by symbol.
LEMMA FoldsIs ==
  ASSUME NEW z \in Vectors, NEW w \in Symbol
  PROVE  /\ Folds(z, w) \in Vectors /\ z[1] \in Symbol /\ Folded[z[1]] \in Vectors
         /\ Folds(z, w)[6] = Xor[w][Folded[z[1]][6]]
         /\ \A i \in 1..5 : Folds(z, w)[i] = Xor[z[i + 1]][Folded[z[1]][i]]
<1>1. PICK s \in Vectors : s = Append(Tail(z), w) /\ Head(z) = z[1] /\ s[6] = w /\ \A i \in 1..5 : s[i] = z[i + 1]
  BY Shifted
<1>2. z[1] \in Symbol
  BY VectorParts
<1>3. PICK g \in Vectors : g = Folded[z[1]]
  BY <1>2, TopBits
<1>4. XorAll(s, g) \in Vectors /\ \A i \in 1..6 : XorAll(s, g)[i] = Xor[s[i]][g[i]]
  BY XorAllIs
<1>5. Folds(z, w) = XorAll(s, g)
  BY <1>1, <1>3 DEF Folds
<1>6. 6 \in 1..6 /\ \A i \in 1..5 : i \in 1..6
  OBVIOUS
<1>7. XorAll(s, g)[6] = Xor[w][g[6]] /\ \A i \in 1..5 : XorAll(s, g)[i] = Xor[z[i + 1]][g[i]]
  BY <1>1, <1>4, <1>6
<1>. QED
  BY <1>2, <1>3, <1>4, <1>5, <1>7

\* Sums with one symbol are the same only of one symbol.
LEMMA XorCancels ==
  ASSUME NEW a \in Symbol, NEW b \in Symbol, NEW c \in Symbol
  PROVE  (Xor[a][c] = Xor[b][c] => a = b) /\ (Xor[c][a] = Xor[c][b] => a = b)
<1>1. /\ \A x \in Symbol : Xor[x][0] = x /\ Xor[0][x] = x /\ Xor[x][x] = 0
      /\ \A x \in Symbol, y \in Symbol, z \in Symbol : Xor[Xor[x][y]][z] = Xor[x][Xor[y][z]]
  BY XorLaws
<1>2. Xor[Xor[a][c]][c] = a /\ Xor[Xor[b][c]][c] = b
  BY <1>1
<1>3. Xor[c][Xor[c][a]] = a /\ Xor[c][Xor[c][b]] = b
  <2>1. Xor[Xor[c][c]][a] = Xor[c][Xor[c][a]] /\ Xor[Xor[c][c]][b] = Xor[c][Xor[c][b]]
    BY <1>1
  <2>. QED
    BY <1>1, <2>1
<1>. QED
  BY <1>2, <1>3

\* A difference stays: no symbol makes two checksums one, and no two symbols do the same.
LEMMA FoldsApart ==
  ASSUME NEW z \in Vectors, NEW y \in Vectors, NEW v \in Symbol, NEW w \in Symbol, Folds(z, v) = Folds(y, w),
         z = y \/ v = w
  PROVE  z = y /\ v = w
<1>1. PICK g \in Vectors, h \in Vectors : g = Folded[z[1]] /\ h = Folded[y[1]]
  BY FoldsIs
<1>2. Xor[v][g[6]] = Xor[w][h[6]] /\ \A i \in 1..5 : Xor[z[i + 1]][g[i]] = Xor[y[i + 1]][h[i]]
  BY <1>1, FoldsIs
<1>3. \A i \in 1..6 : z[i] \in Symbol /\ y[i] \in Symbol /\ g[i] \in Symbol /\ h[i] \in Symbol
  BY VectorParts
<1>4. CASE z = y
  <2>1. g = h /\ g[6] \in Symbol
    BY <1>1, <1>3, <1>4
  <2>. QED
    BY <1>2, <1>4, <2>1, XorCancels
<1>5. CASE v = w
  <2>1. g[6] = h[6]
    <3>1. g[6] \in Symbol /\ h[6] \in Symbol
      BY <1>3
    <3>. QED
      BY <1>2, <1>5, <3>1, XorCancels
  <2>2. z[1] = y[1]
    BY <1>1, <1>3, <2>1, FoldedIn
  <2>3. g = h
    BY <1>1, <2>2
  <2>4. \A i \in 1..5 : z[i + 1] = y[i + 1]
    <3>1. ASSUME NEW i \in 1..5 PROVE z[i + 1] = y[i + 1]
      <4>1. i \in 1..6 /\ i + 1 \in 1..6
        OBVIOUS
      <4>2. PICK a \in Symbol, b \in Symbol, c \in Symbol : a = z[i + 1] /\ b = y[i + 1] /\ c = g[i]
        BY <1>3, <4>1
      <4>3. Xor[a][c] = Xor[b][c]
        BY <1>2, <2>3, <4>2
      <4>4. a = b
        BY <4>3, XorCancels
      <4>. QED
        BY <4>2, <4>4
    <3>. QED
      BY <3>1
  <2>5. \A i \in 1..6 : z[i] = y[i]
    <3>1. ASSUME NEW i \in 1..6, i # 1 PROVE z[i] = y[i]
      <4>1. i - 1 \in 1..5 /\ (i - 1) + 1 = i
        BY <3>1
      <4>. QED
        BY <2>4, <4>1
    <3>. QED
      BY <2>2, <3>1
  <2>. QED
    BY <1>5, <2>5, SameVector
<1>. QED
  BY <1>4, <1>5

\* The checksums up to each place.
Checks(f, z, values) ==
  /\ f \in [0..Len(values) -> Vectors] /\ f[0] = z
  /\ \A i \in 1..Len(values) : f[i] = Folds(f[i - 1], values[i])

\* The check of some symbols runs through one checksum for each.
LEMMA ChecksExist ==
  ASSUME NEW z \in Vectors, NEW values \in Seq(Symbol)
  PROVE  \E f : Checks(f, z, values)
<1>1. PICK n \in Nat : n = Len(values)
  BY LenProperties
<1>. DEFINE h == [i \in Nat |-> [x \in Vectors |-> IF i \in 1..n THEN Folds(x, values[i]) ELSE x]]
<1>2. ASSUME NEW i \in 1..n, NEW x \in Vectors PROVE Folds(x, values[i]) \in Vectors
  <2>1. values[i] \in Symbol
    BY <1>1, ElementOfSeq
  <2>. QED
    BY <2>1, FoldsIs
<1>3. /\ h \in [Nat -> [Vectors -> Vectors]]
      /\ \A i \in 1..n : \A x \in Vectors : h[i][x] = Folds(x, values[i])
  <2>1. \A i \in 1..n : i \in Nat
    OBVIOUS
  <2>. QED
    BY <1>2, <2>1
<1>. HIDE DEF h
<1>4. \E f : Steps(f, Vectors, z, n, h)
  BY <1>3, Iterated
<1>5. PICK f : f \in [0..n -> Vectors] /\ f[0] = z /\ \A i \in 1..n : f[i] = h[i][f[i - 1]]
  BY <1>4 DEF Steps
<1>6. \A i \in 1..n : f[i] = Folds(f[i - 1], values[i])
  <2>1. \A i \in 1..n : i - 1 \in 0..n
    OBVIOUS
  <2>. QED
    BY <1>3, <1>5, <2>1
<1>7. Checks(f, z, values)
  BY <1>1, <1>5, <1>6 DEF Checks
<1>. QED
  BY <1>7

\* The check ends where its run does.
LEMMA PolymodIs ==
  ASSUME NEW values \in Seq(Symbol), NEW f, Checks(f, Unit, values)
  PROVE  bech32_polymod(values) = f[Len(values)]
<1>1. PICK n \in Nat : n = Len(values)
  BY LenProperties
<1>. DEFINE Eq(g) == g = [i \in 0..n |-> IF i = 0 THEN Unit ELSE Folds(g[i - 1], values[i])]
            g == CHOOSE g : Eq(g)
<1>2. bech32_polymod(values) = g[n]
  BY <1>1 DEF bech32_polymod, Fold, Folds, Unit
<1>3. f \in [0..n -> Vectors] /\ f[0] = Unit /\ \A i \in 1..n : f[i] = Folds(f[i - 1], values[i])
  BY <1>1 DEF Checks
<1>4. Eq(f)
  <2>1. \A i \in 0..n : i # 0 => i \in 1..n
    BY <1>1
  <2>2. \A i \in 0..n : f[i] = IF i = 0 THEN Unit ELSE Folds(f[i - 1], values[i])
    BY <1>3, <2>1
  <2>3. f = [i \in 0..n |-> f[i]]
    BY <1>3
  <2>. QED
    BY <2>2, <2>3
<1>5. Eq(g)
  <2>. HIDE DEF Eq
  <2>. QED
    BY <1>4
<1>6. \A i \in 0..n : g[i] = IF i = 0 THEN Unit ELSE Folds(g[i - 1], values[i])
  <2>. HIDE DEF g
  <2>. QED
    BY <1>5
<1>. HIDE DEF g, Eq
<1>7. g[n] = f[n]
  <2>1. ASSUME NEW i \in 1..n, g[i - 1] = f[i - 1] PROVE g[i] = f[i]
    <3>1. i \in 0..n /\ i # 0
      OBVIOUS
    <3>. QED
      BY <1>3, <1>6, <2>1, <3>1
  <2>2. g[0] = f[0]
    <3>1. 0 \in 0..n
      OBVIOUS
    <3>. QED
      BY <1>3, <1>6, <3>1
  <2>. QED
    BY <2>1, <2>2, Agree
<1>. QED
  BY <1>1, <1>2, <1>7

\* What comes first is summed first.
Continues(h, z, s, end) == Checks(h, z, s) /\ h[Len(s)] = end

\* A run over some symbols goes on over the ones after them.
LEMMA ChecksJoin ==
  ASSUME NEW z \in Vectors, NEW a \in Seq(Symbol), NEW b \in Seq(Symbol), NEW f, Checks(f, z, a),
         NEW g, Checks(g, f[Len(a)], b)
  PROVE  \E h : Continues(h, z, a \o b, g[Len(b)])
<1>1. PICK m \in Nat, n \in Nat : m = Len(a) /\ n = Len(b)
  <2>1. Len(a) \in Nat /\ Len(b) \in Nat
    BY LenProperties
  <2>. QED
    BY <2>1
<1>2. PICK c : c = a \o b
  OBVIOUS
<1>3. /\ c \in Seq(Symbol) /\ Len(c) = m + n
      /\ (\A i \in 1..m : c[i] = a[i]) /\ \A i \in 1..n : c[m + i] = b[i]
  BY <1>1, <1>2, Concats
<1>4. f \in [0..m -> Vectors] /\ f[0] = z /\ \A i \in 1..m : f[i] = Folds(f[i - 1], a[i])
  BY <1>1 DEF Checks
<1>5. g \in [0..n -> Vectors] /\ g[0] = f[m] /\ \A i \in 1..n : g[i] = Folds(g[i - 1], b[i])
  BY <1>1 DEF Checks
<1>. DEFINE h == [i \in 0..(m + n) |-> IF i <= m THEN f[i] ELSE g[i - m]]
<1>6. ASSUME NEW i \in 0..(m + n) PROVE h[i] \in Vectors
  <2>1. i <= m => i \in 0..m
    OBVIOUS
  <2>2. ~(i <= m) => i - m \in 0..n
    OBVIOUS
  <2>. QED
    BY <1>4, <1>5, <2>1, <2>2
<1>7. h \in [0..(m + n) -> Vectors]
  BY <1>6
<1>8. \A i \in 0..m : h[i] = f[i]
  <2>1. \A i \in 0..m : i \in 0..(m + n) /\ i <= m
    OBVIOUS
  <2>. QED
    BY <2>1
<1>9. \A i \in 0..n : h[m + i] = g[i]
  <2>1. ASSUME NEW i \in 0..n PROVE h[m + i] = g[i]
    <3>1. m + i \in 0..(m + n) /\ (m + i) - m = i
      OBVIOUS
    <3>2. CASE i = 0
      <4>1. m \in 0..m /\ m + i = m
        BY <3>2
      <4>. QED
        BY <1>5, <1>8, <3>2, <4>1
    <3>3. CASE i # 0
      <4>1. ~(m + i <= m)
        BY <3>3
      <4>. QED
        BY <3>1, <4>1
    <3>. QED
      BY <3>2, <3>3
  <2>. QED
    BY <2>1
<1>. HIDE DEF h
<1>10. ASSUME NEW i \in 1..(m + n) PROVE h[i] = Folds(h[i - 1], c[i])
  <2>1. CASE i <= m
    <3>1. i \in 1..m /\ i \in 0..m /\ i - 1 \in 0..m
      BY <2>1
    <3>. QED
      BY <1>3, <1>4, <1>8, <3>1
  <2>2. CASE i > m
    <3>1. PICK k \in 1..n : i = m + k
      <4>1. i - m \in 1..n /\ i = m + (i - m)
        BY <2>2
      <4>. QED
        BY <4>1
    <3>2. k \in 0..n /\ k - 1 \in 0..n /\ i - 1 = m + (k - 1)
      BY <3>1
    <3>3. h[i] = g[k] /\ h[i - 1] = g[k - 1] /\ c[i] = b[k]
      BY <1>3, <1>9, <3>1, <3>2
    <3>. QED
      BY <1>5, <3>3
  <2>. QED
    BY <2>1, <2>2
<1>11. h[0] = z
  <2>1. 0 \in 0..m
    OBVIOUS
  <2>. QED
    BY <1>4, <1>8, <2>1
<1>12. h[m + n] = g[n]
  <2>1. n \in 0..n
    OBVIOUS
  <2>. QED
    BY <1>9, <2>1
<1>13. Checks(h, z, c)
  BY <1>3, <1>7, <1>10, <1>11 DEF Checks
<1>. QED
  BY <1>1, <1>2, <1>3, <1>12, <1>13 DEF Continues

\* As long as nothing but zeros came to the top, what was given is added to what zeros give.
LEMMA FoldsAdd ==
  ASSUME NEW z \in Vectors, NEW d \in Vectors, d[1] = 0, NEW w \in Symbol
  PROVE  Append(Tail(d), w) \in Vectors /\ Folds(XorAll(z, d), w) = XorAll(Folds(z, 0), Append(Tail(d), w))
<1>1. PICK e \in Vectors : e = Append(Tail(d), w) /\ e[6] = w /\ \A i \in 1..5 : e[i] = d[i + 1]
  BY Shifted
<1>2. PICK y \in Vectors : y = XorAll(z, d) /\ \A i \in 1..6 : y[i] = Xor[z[i]][d[i]]
  BY XorAllIs
<1>3. \A i \in 1..6 : z[i] \in Symbol /\ d[i] \in Symbol /\ e[i] \in Symbol
  BY VectorParts
<1>4. 0 \in Symbol
  BY DEF Symbol
<1>5. y[1] = z[1]
  <2>1. 1 \in 1..6
    OBVIOUS
  <2>2. PICK a \in Symbol : a = z[1]
    BY <1>3, <2>1
  <2>3. Xor[a][0] = a
    BY XorLaws
  <2>. QED
    BY <1>2, <2>1, <2>2, <2>3
<1>6. PICK g \in Vectors : g = Folded[z[1]] /\ \A i \in 1..6 : g[i] \in Symbol
  BY FoldsIs, VectorParts
<1>7. /\ Folds(y, w) \in Vectors /\ Folds(y, w)[6] = Xor[w][g[6]]
      /\ \A i \in 1..5 : Folds(y, w)[i] = Xor[y[i + 1]][g[i]]
  BY <1>5, <1>6, FoldsIs
<1>8. PICK x \in Vectors : /\ x = Folds(z, 0) /\ x[6] = Xor[0][g[6]] /\ \A i \in 1..5 : x[i] = Xor[z[i + 1]][g[i]]
  BY <1>4, <1>6, FoldsIs
<1>9. XorAll(x, e) \in Vectors /\ \A i \in 1..6 : XorAll(x, e)[i] = Xor[x[i]][e[i]]
  BY XorAllIs
<1>10. \A a, b, c \in Symbol : Xor[Xor[a][b]][c] = Xor[Xor[a][c]][b]
  <2>. SUFFICES ASSUME NEW a \in Symbol, NEW b \in Symbol, NEW c \in Symbol
                PROVE  Xor[Xor[a][b]][c] = Xor[Xor[a][c]][b]
    OBVIOUS
  <2>1. Xor[Xor[a][b]][c] = Xor[a][Xor[b][c]] /\ Xor[Xor[a][c]][b] = Xor[a][Xor[c][b]] /\ Xor[b][c] = Xor[c][b]
    BY XorLaws
  <2>. QED
    BY <2>1
<1>11. ASSUME NEW i \in 1..5 PROVE Folds(y, w)[i] = XorAll(x, e)[i]
  <2>1. i \in 1..6 /\ i + 1 \in 1..6
    OBVIOUS
  <2>2. PICK a \in Symbol, b \in Symbol, c \in Symbol : a = z[i + 1] /\ b = d[i + 1] /\ c = g[i]
    BY <1>3, <1>6, <2>1
  <2>3. Folds(y, w)[i] = Xor[Xor[a][b]][c]
    BY <1>2, <1>7, <2>1, <2>2
  <2>4. XorAll(x, e)[i] = Xor[Xor[a][c]][b]
    BY <1>1, <1>8, <1>9, <2>1, <2>2
  <2>. QED
    BY <1>10, <2>3, <2>4
<1>12. Folds(y, w)[6] = XorAll(x, e)[6]
  <2>1. 6 \in 1..6
    OBVIOUS
  <2>2. PICK c \in Symbol : c = g[6]
    BY <1>6, <2>1
  <2>3. x[6] = c
    BY <1>8, <2>2, XorLaws
  <2>4. Xor[w][c] = Xor[c][w]
    BY XorLaws
  <2>. QED
    BY <1>1, <1>7, <1>9, <2>1, <2>2, <2>3, <2>4
<1>13. \A i \in 1..6 : Folds(y, w)[i] = XorAll(x, e)[i]
  <2>1. \A i \in 1..6 : i \in 1..5 \/ i = 6
    OBVIOUS
  <2>. QED
    BY <1>11, <1>12, <2>1
<1>14. Folds(y, w) = XorAll(x, e)
  BY <1>7, <1>9, <1>13, SameVector
<1>. QED
  BY <1>1, <1>2, <1>8, <1>14

\* After six symbols a run is off the one over zeros by those symbols.
LEMMA SixMore ==
  ASSUME NEW z \in Vectors, NEW d \in Vectors, NEW f, NEW g, Checks(f, z, d), Checks(g, z, Zeros)
  PROVE  f[6] = XorAll(g[6], d) /\ f[6] \in Vectors /\ g[6] \in Vectors
<1>. DEFINE e(k) == [i \in 1..6 |-> IF i <= 6 - k THEN 0 ELSE d[i + k - 6]]
<1>0. \A i \in 1..6 : d[i] \in Symbol /\ Zeros[i] = 0
  BY VectorParts, ZerosIs
<1>1. /\ f \in [0..6 -> Vectors] /\ f[0] = z /\ \A i \in 1..6 : f[i] = Folds(f[i - 1], d[i])
      /\ g \in [0..6 -> Vectors] /\ g[0] = z /\ \A i \in 1..6 : g[i] = Folds(g[i - 1], 0)
  <2>1. Len(d) = 6 /\ Len(Zeros) = 6
    BY VectorParts, ZerosIs
  <2>. QED
    BY <1>0, <2>1 DEF Checks
<1>2. ASSUME NEW k \in 0..6
      PROVE  e(k) \in Vectors /\ \A i \in 1..6 : e(k)[i] = IF i <= 6 - k THEN 0 ELSE d[i + k - 6]
  <2>1. 0 \in Symbol
    BY DEF Symbol
  <2>2. \A i \in 1..6 : ~(i <= 6 - k) => i + k - 6 \in 1..6
    OBVIOUS
  <2>3. PICK v : v = e(k)
    OBVIOUS
  <2>4. v = [i \in 1..6 |-> v[i]] /\ \A i \in 1..6 : v[i] = IF i <= 6 - k THEN 0 ELSE d[i + k - 6]
    BY <2>3
  <2>5. \A i \in 1..6 : v[i] \in Symbol
    BY <1>0, <2>1, <2>2, <2>4
  <2>6. v \in Vectors
    BY <2>4, <2>5, VectorIs
  <2>. QED
    BY <2>3, <2>4, <2>6
<1>. HIDE DEF e
<1>. DEFINE X == {k \in Nat : k <= 6 => f[k] = XorAll(g[k], e(k))}
<1>3. 0 \in X
  <2>1. 0 \in 0..6 /\ \A i \in 1..6 : i <= 6 - 0
    OBVIOUS
  <2>2. e(0) \in Vectors /\ \A i \in 1..6 : e(0)[i] = Zeros[i]
    BY <1>0, <1>2, <2>1
  <2>3. e(0) = Zeros
    BY <2>2, ZerosIs, SameVector
  <2>4. XorAll(z, Zeros) = z
    BY VectorLaws
  <2>. QED
    BY <1>1, <2>3, <2>4
<1>4. ASSUME NEW k \in Nat, k \in X PROVE k + 1 \in X
  <2>. SUFFICES ASSUME k + 1 <= 6 PROVE f[k + 1] = XorAll(g[k + 1], e(k + 1))
    OBVIOUS
  <2>1. k \in 0..6 /\ k + 1 \in 0..6 /\ k + 1 \in 1..6 /\ (k + 1) - 1 = k
    OBVIOUS
  <2>2. PICK v \in Vectors : v = e(k) /\ \A i \in 1..6 : v[i] = IF i <= 6 - k THEN 0 ELSE d[i + k - 6]
    BY <1>2, <2>1
  <2>3. PICK u \in Vectors : u = e(k + 1) /\ \A i \in 1..6 : u[i] = IF i <= 6 - (k + 1) THEN 0 ELSE d[i + (k + 1) - 6]
    BY <1>2, <2>1
  <2>4. PICK w \in Symbol : w = d[k + 1]
    BY <1>0, <2>1
  <2>5. PICK y \in Vectors : y = g[k] /\ f[k] = XorAll(y, v)
    BY <1>1, <1>4, <2>1, <2>2
  <2>6. v[1] = 0
    <3>1. 1 \in 1..6 /\ 1 <= 6 - k
      OBVIOUS
    <3>. QED
      BY <2>2, <3>1
  <2>7. Append(Tail(v), w) \in Vectors /\ Folds(XorAll(y, v), w) = XorAll(Folds(y, 0), Append(Tail(v), w))
    BY <2>6, FoldsAdd
  <2>8. PICK s \in Vectors : s = Append(Tail(v), w) /\ s[6] = w /\ \A i \in 1..5 : s[i] = v[i + 1]
    BY Shifted
  <2>9. ASSUME NEW i \in 1..6 PROVE s[i] = u[i]
    <3>1. CASE i = 6
      <4>1. ~(6 <= 6 - (k + 1)) /\ 6 + (k + 1) - 6 = k + 1 /\ 6 \in 1..6
        OBVIOUS
      <4>. QED
        BY <2>3, <2>4, <2>8, <3>1, <4>1
    <3>2. CASE i # 6
      <4>1. i \in 1..5 /\ i + 1 \in 1..6 /\ (i + 1 <= 6 - k <=> i <= 6 - (k + 1)) /\ (i + 1) + k - 6 = i + (k + 1) - 6
        BY <3>2
      <4>2. s[i] = v[i + 1]
        BY <2>8, <4>1
      <4>3. v[i + 1] = IF i + 1 <= 6 - k THEN 0 ELSE d[(i + 1) + k - 6]
        BY <2>2, <4>1
      <4>. QED
        BY <2>3, <4>1, <4>2, <4>3
    <3>. QED
      BY <3>1, <3>2
  <2>10. s = u
    BY <2>9, SameVector
  <2>11. f[k + 1] = Folds(f[k], w) /\ g[k + 1] = Folds(g[k], 0)
    BY <1>1, <2>1, <2>4
  <2>. QED
    BY <2>3, <2>5, <2>7, <2>8, <2>10, <2>11
<1>. HIDE DEF X
<1>5. Nat \subseteq X
  BY <1>3, <1>4, StepInduction
<1>6. f[6] = XorAll(g[6], e(6))
  <2>1. 6 \in Nat /\ 6 <= 6
    OBVIOUS
  <2>. QED
    BY <1>5, <2>1 DEF X
<1>7. e(6) = d
  <2>1. 6 \in 0..6 /\ \A i \in 1..6 : ~(i <= 6 - 6) /\ i + 6 - 6 = i
    OBVIOUS
  <2>2. e(6) \in Vectors /\ \A i \in 1..6 : e(6)[i] = d[i]
    BY <1>2, <2>1
  <2>. QED
    BY <2>2, SameVector
<1>8. 6 \in 0..6
  OBVIOUS
<1>. QED
  BY <1>1, <1>6, <1>7, <1>8

\* What six more symbols leave: their sum with what is left by six zeros.
LEMMA ChecksumAdds ==
  ASSUME NEW a \in Seq(Symbol), NEW c \in Vectors
  PROVE  /\ bech32_polymod(a \o Zeros) \in Vectors /\ bech32_polymod(a \o c) \in Vectors
         /\ bech32_polymod(a \o c) = XorAll(bech32_polymod(a \o Zeros), c)
<1>1. PICK f : Checks(f, Unit, a)
  BY UnitIs, ChecksExist
<1>2. PICK z \in Vectors : z = f[Len(a)]
  <2>1. Len(a) \in 0..Len(a)
    BY LenProperties
  <2>. QED
    BY <1>1, <2>1 DEF Checks
<1>3. Zeros \in Vectors /\ Zeros \in Seq(Symbol) /\ Len(Zeros) = 6 /\ c \in Seq(Symbol) /\ Len(c) = 6
  BY ZerosIs, VectorParts
<1>4. PICK g : Checks(g, z, c)
  BY <1>3, ChecksExist
<1>5. PICK h : Checks(h, z, Zeros)
  BY <1>3, ChecksExist
<1>6. bech32_polymod(a \o c) = g[6]
  <2>0. Checks(g, f[Len(a)], c)
    BY <1>2, <1>4
  <2>1. PICK k : Continues(k, Unit, a \o c, g[Len(c)])
    BY <1>1, <1>3, <2>0, UnitIs, ChecksJoin
  <2>2. a \o c \in Seq(Symbol)
    BY <1>3, Concats
  <2>. QED
    BY <1>3, <2>1, <2>2, PolymodIs DEF Continues
<1>7. bech32_polymod(a \o Zeros) = h[6]
  <2>0. Checks(h, f[Len(a)], Zeros)
    BY <1>2, <1>5
  <2>1. PICK k : Continues(k, Unit, a \o Zeros, h[Len(Zeros)])
    BY <1>1, <1>3, <2>0, UnitIs, ChecksJoin
  <2>2. a \o Zeros \in Seq(Symbol)
    BY <1>3, Concats
  <2>. QED
    BY <1>3, <2>1, <2>2, PolymodIs DEF Continues
<1>8. g[6] = XorAll(h[6], c) /\ g[6] \in Vectors /\ h[6] \in Vectors
  BY <1>4, <1>5, SixMore
<1>. QED
  BY <1>6, <1>7, <1>8

\* The one checksum that makes the constant.
LEMMA ChecksumFits ==
  ASSUME NEW a \in Seq(Symbol), NEW c \in Vectors, NEW k \in Vectors
  PROVE  /\ XorAll(bech32_polymod(a \o Zeros), k) \in Vectors
         /\ bech32_polymod(a \o c) = k <=> c = XorAll(bech32_polymod(a \o Zeros), k)
<1>1. PICK p \in Vectors : p = bech32_polymod(a \o Zeros)
  BY ChecksumAdds
<1>2. bech32_polymod(a \o c) = XorAll(p, c)
  BY <1>1, ChecksumAdds
<1>3. XorAll(p, XorAll(p, c)) = c /\ XorAll(p, XorAll(p, k)) = k
  BY VectorLaws
<1>4. XorAll(p, k) \in Vectors
  BY XorAllIs
<1>5. XorAll(p, c) = k <=> c = XorAll(p, k)
  BY <1>3
<1>. QED
  BY <1>1, <1>2, <1>4, <1>5

\* One symbol that is wrong is never made good by those after it.
LEMMA SymbolWrong ==
  ASSUME NEW s \in Seq(Symbol), NEW t \in Seq(Symbol), Len(s) = Len(t), NEW p \in 1..Len(s), s[p] # t[p],
         \A i \in 1..Len(s) : i # p => s[i] = t[i]
  PROVE  bech32_polymod(s) # bech32_polymod(t)
<1>1. PICK n \in Nat : n = Len(s) /\ n = Len(t)
  BY LenProperties
<1>2. PICK f : Checks(f, Unit, s)
  BY UnitIs, ChecksExist
<1>3. PICK g : Checks(g, Unit, t)
  BY UnitIs, ChecksExist
<1>4. /\ f \in [0..n -> Vectors] /\ f[0] = Unit /\ \A i \in 1..n : f[i] = Folds(f[i - 1], s[i])
      /\ g \in [0..n -> Vectors] /\ g[0] = Unit /\ \A i \in 1..n : g[i] = Folds(g[i - 1], t[i])
  BY <1>1, <1>2, <1>3 DEF Checks
<1>5. \A i \in 1..n : s[i] \in Symbol /\ t[i] \in Symbol
  BY <1>1, ElementOfSeq
<1>6. \A i \in 1..n : f[i - 1] \in Vectors /\ g[i - 1] \in Vectors
  <2>1. \A i \in 1..n : i - 1 \in 0..n
    OBVIOUS
  <2>. QED
    BY <1>4, <2>1
<1>. DEFINE X == {i \in Nat : i <= n => (f[i] = g[i] <=> i < p)}
<1>7. p \in 1..n
  BY <1>1
<1>8. 0 \in X
  BY <1>4, <1>7
<1>9. ASSUME NEW i \in Nat, i \in X PROVE i + 1 \in X
  <2>. SUFFICES ASSUME i + 1 <= n PROVE f[i + 1] = g[i + 1] <=> i + 1 < p
    OBVIOUS
  <2>1. i <= n /\ i + 1 \in 1..n /\ (i + 1) - 1 = i
    OBVIOUS
  <2>2. PICK x \in Vectors, y \in Vectors : x = f[i] /\ y = g[i]
    BY <1>6, <2>1
  <2>3. PICK v \in Symbol, w \in Symbol : v = s[i + 1] /\ w = t[i + 1]
    BY <1>5, <2>1
  <2>4. f[i + 1] = Folds(x, v) /\ g[i + 1] = Folds(y, w)
    BY <1>4, <2>1, <2>2, <2>3
  <2>5. CASE i + 1 < p
    <3>1. x = y /\ v = w
      <4>1. i < p /\ i + 1 # p
        BY <1>7, <2>5
      <4>. QED
        BY <1>1, <1>9, <2>1, <2>2, <2>3, <4>1
    <3>. QED
      BY <2>4, <2>5, <3>1
  <2>6. CASE i + 1 = p
    <3>1. x = y /\ v # w
      <4>1. i < p
        BY <1>7, <2>6
      <4>. QED
        BY <1>1, <1>9, <2>1, <2>2, <2>3, <2>6, <4>1
    <3>2. Folds(x, v) # Folds(y, w)
      BY <3>1, FoldsApart
    <3>3. ~(i + 1 < p)
      BY <1>7, <2>6
    <3>. QED
      BY <2>4, <3>2, <3>3
  <2>7. CASE i + 1 > p
    <3>1. x # y /\ v = w
      <4>1. ~(i < p) /\ i + 1 # p
        BY <1>7, <2>7
      <4>. QED
        BY <1>1, <1>9, <2>1, <2>2, <2>3, <4>1
    <3>2. Folds(x, v) # Folds(y, w)
      BY <3>1, FoldsApart
    <3>3. ~(i + 1 < p)
      BY <1>7, <2>7
    <3>. QED
      BY <2>4, <3>2, <3>3
  <2>8. i + 1 < p \/ i + 1 = p \/ i + 1 > p
    BY <1>7
  <2>. QED
    BY <2>5, <2>6, <2>7, <2>8
<1>. HIDE DEF X
<1>10. n \in X
  BY <1>8, <1>9, StepInduction
<1>11. f[n] # g[n]
  <2>1. ~(n < p) /\ n <= n
    BY <1>7
  <2>. QED
    BY <1>10, <2>1 DEF X
<1>12. bech32_polymod(s) = f[n] /\ bech32_polymod(t) = g[n]
  <2>1. bech32_polymod(s) = f[Len(s)]
    BY <1>2, PolymodIs
  <2>2. bech32_polymod(t) = g[Len(t)]
    BY <1>3, PolymodIs
  <2>. QED
    BY <1>1, <2>1, <2>2
<1>. QED
  BY <1>11, <1>12

-----------------------------------------------------------------------------
(* Bytes in symbols of a few bits, and back.                               *)

\* A symbol repeated.
LEMMA RepeatIs ==
  ASSUME NEW n \in Nat
  PROVE  /\ Repeat(0, n) \in Seq({0, 1}) /\ Len(Repeat(0, n)) = n
         /\ \A i \in 1..n : Repeat(0, n)[i] = 0
<1>. DEFINE z == [i \in 1..n |-> 0]
<1>1. z \in [1..n -> {0, 1}] /\ \A i \in 1..n : z[i] = 0
  OBVIOUS
<1>2. Repeat(0, n) = z
  BY DEF Repeat
<1>. HIDE DEF z
<1>3. z \in Seq({0, 1}) /\ Len(z) = n
  BY <1>1
<1>. QED
  BY <1>1, <1>2, <1>3

\* Bits filled up to a multiple of a width, with fewer zeros than it.
LEMMA FilledIs ==
  ASSUME NEW w \in Nat, 0 < w, NEW bits \in Seq({0, 1})
  PROVE  \E k \in 0..(w - 1), m \in Nat :
           /\ Filled(bits, w) = bits \o Repeat(0, k) /\ Filled(bits, w) \in Seq({0, 1})
           /\ Len(Filled(bits, w)) = m * w /\ Len(bits) + k = m * w
<1>1. PICK n \in Nat : n = Len(bits)
  BY LenProperties
<1>2. PICK q \in Nat, r \in 0..(w - 1) : q = n \div w /\ r = n % w /\ n = q * w + r
  BY <1>1, Quotient
<1>3. PICK k \in 0..(w - 1), m \in Nat : k = (w - r) % w /\ n + k = m * w
  <2>1. CASE r = 0
    <3>1. w = 1 * w + 0 /\ 0 \in 0..(w - 1) /\ 1 \in Nat
      OBVIOUS
    <3>2. w % w = 0
      BY <3>1, QuotientIs
    <3>3. w - r = w /\ n + 0 = q * w
      BY <1>2, <2>1
    <3>. QED
      BY <3>1, <3>2, <3>3
  <2>2. CASE r # 0
    <3>1. w - r \in Nat /\ w - r = 0 * w + (w - r) /\ w - r \in 0..(w - 1) /\ 0 \in Nat
      BY <2>2
    <3>2. (w - r) % w = w - r
      BY <3>1, QuotientIs
    <3>3. q * w + w = (q + 1) * w /\ q + 1 \in Nat
      OBVIOUS
    <3>4. n + (w - r) = (q + 1) * w
      <4>1. PICK qw \in Nat : qw = q * w
        OBVIOUS
      <4>. QED
        BY <1>2, <3>3, <4>1
    <3>. QED
      BY <3>1, <3>2, <3>3, <3>4
  <2>. QED
    BY <2>1, <2>2
<1>4. PICK z \in Seq({0, 1}) : z = Repeat(0, k) /\ Len(z) = k
  <2>1. k \in Nat
    OBVIOUS
  <2>. QED
    BY <2>1, RepeatIs
<1>5. bits \o z \in Seq({0, 1}) /\ Len(bits \o z) = Len(bits) + Len(z)
  BY Concats
<1>6. Filled(bits, w) = bits \o z
  BY <1>1, <1>2, <1>3, <1>4 DEF Filled
<1>. QED
  BY <1>1, <1>3, <1>4, <1>5, <1>6

\* No bit of bytes is lost in symbols.
LEMMA RegroupedThere ==
  ASSUME NEW w \in 1..8, NEW raw \in Seq(0..255)
  PROVE  LET symbols == Groups(Filled(BitsOf(raw, 8), w), w)
         IN  /\ symbols \in Seq(Symbols(w))
             /\ \E k \in 0..(w - 1) : BitsOf(symbols, w) = BitsOf(raw, 8) \o Repeat(0, k)
             /\ \E k \in 0..(w - 1) : Len(symbols) * w = Len(raw) * 8 + k
             /\ Groups(BitsOf(symbols, w), 8) = raw
<1>1. PICK n \in Nat : n = Len(raw)
  BY LenProperties
<1>2. w \in Nat /\ 0 < w /\ w <= 8
  OBVIOUS
<1>3. raw \in Seq(Symbols(8)) /\ raw \in Seq(Nat)
  <2>1. 0..255 \subseteq Nat
    OBVIOUS
  <2>. QED
    BY <2>1, EightBits, SeqMonotonic
<1>4. PICK bits \in Seq({0, 1}) : bits = BitsOf(raw, 8) /\ Len(bits) = n * 8
  BY <1>1, <1>3, EightBits, BitsIs
<1>5. PICK k \in 0..(w - 1), m \in Nat :
           /\ Filled(bits, w) = bits \o Repeat(0, k) /\ Filled(bits, w) \in Seq({0, 1})
           /\ Len(Filled(bits, w)) = m * w /\ Len(bits) + k = m * w
  BY <1>2, FilledIs
<1>6. PICK s : s = Groups(Filled(bits, w), w)
  OBVIOUS
<1>7. s \in Seq(Symbols(w)) /\ Len(s) = m /\ BitsOf(s, w) = Filled(bits, w)
  BY <1>2, <1>5, <1>6, BitsOfGroups
<1>8. PICK z \in Seq({0, 1}) : z = Repeat(0, k) /\ Len(z) = k
  <2>1. k \in Nat
    OBVIOUS
  <2>. QED
    BY <2>1, RepeatIs
<1>9. Groups(BitsOf(raw, 8) \o z, 8) = raw
  <2>1. Len(z) < 8
    BY <1>2, <1>8
  <2>. QED
    BY <1>3, <2>1, EightBits, GroupsOfBits
<1>10. Len(s) * w = Len(raw) * 8 + k
  BY <1>1, <1>4, <1>5, <1>7
<1>. QED
  BY <1>4, <1>5, <1>6, <1>7, <1>8, <1>9, <1>10

\* Symbols whose last bits are too few for one, and zero, are those of the bytes they make.
LEMMA RegroupedBack ==
  ASSUME NEW w \in 1..8, NEW s \in Seq(Symbols(w)),
         NEW rest, rest = Without(BitsOf(s, w), Len(BitsOf(s, w)) - (Len(BitsOf(s, w)) % 8)),
         Len(rest) < w, \A i \in DOMAIN rest : rest[i] = 0
  PROVE  LET raw == Groups(BitsOf(s, w), 8)
         IN  raw \in Seq(0..255) /\ Groups(Filled(BitsOf(raw, 8), w), w) = s
<1>1. PICK m \in Nat : m = Len(s)
  BY LenProperties
<1>2. w \in Nat /\ 0 < w /\ w <= 8
  OBVIOUS
<1>3. s \in Seq(Nat)
  <2>1. Symbols(w) \subseteq Nat
    BY DEF Symbols
  <2>. QED
    BY <2>1, SeqMonotonic
<1>4. PICK bits \in Seq({0, 1}) : bits = BitsOf(s, w) /\ Len(bits) = m * w
  BY <1>1, <1>2, <1>3, BitsIs
<1>5. PICK n \in Nat : n = Len(bits) /\ n = m * w
  BY <1>4, LenProperties
<1>6. PICK q \in Nat, k \in 0..7 : k = n % 8 /\ n = q * 8 + k
  <2>1. 8 \in Nat /\ 0 < 8 /\ 8 - 1 = 7
    OBVIOUS
  <2>2. n \div 8 \in Nat /\ n % 8 \in 0..(8 - 1) /\ n = (n \div 8) * 8 + (n % 8)
    BY <2>1, Quotient
  <2>. QED
    BY <2>1, <2>2
<1>7. PICK p \in Nat : p = q * 8 /\ n - k = p /\ p <= n
  BY <1>6
<1>8. rest = Without(bits, p)
  BY <1>4, <1>5, <1>6, <1>7
<1>9. PICK a : a = Prefix(bits, p)
  OBVIOUS
<1>10. /\ a \in Seq({0, 1}) /\ Len(a) = p /\ rest \in Seq({0, 1}) /\ Len(rest) = n - p /\ a \o rest = bits
  <2>1. p <= Len(bits)
    BY <1>5, <1>7
  <2>2. /\ Prefix(bits, p) \in Seq({0, 1}) /\ Len(Prefix(bits, p)) = p
        /\ Without(bits, p) \in Seq({0, 1}) /\ Len(Without(bits, p)) = Len(bits) - p
        /\ Prefix(bits, p) \o Without(bits, p) = bits
    BY <2>1, PrefixWithout
  <2>. QED
    BY <1>5, <1>8, <1>9, <2>2
<1>11. Len(rest) = k /\ k < w
  BY <1>6, <1>7, <1>10
<1>12. PICK g : g = Groups(a, 8)
  OBVIOUS
<1>13. g \in Seq(Symbols(8)) /\ BitsOf(g, 8) = a
  BY <1>7, <1>10, <1>12, EightBits, BitsOfGroups
<1>14. Groups(bits, 8) = g
  <2>1. Len(rest) < 8
    BY <1>2, <1>11
  <2>2. Groups(BitsOf(g, 8) \o rest, 8) = g
    BY <1>10, <1>13, <2>1, EightBits, GroupsOfBits
  <2>. QED
    BY <1>10, <1>13, <2>2
<1>15. PICK j \in 0..(w - 1), l \in Nat :
           /\ Filled(a, w) = a \o Repeat(0, j) /\ Filled(a, w) \in Seq({0, 1})
           /\ Len(Filled(a, w)) = l * w /\ Len(a) + j = l * w
  BY <1>2, <1>10, FilledIs
<1>16. j = k
  <2>1. p + j = l * w /\ p + k = m * w
    BY <1>5, <1>7, <1>10, <1>15
  <2>2. j - k = (l - m) * w
    <3>1. l * w - m * w = (l - m) * w
      OBVIOUS
    <3>2. PICK x \in Nat, y \in Nat : x = l * w /\ y = m * w
      OBVIOUS
    <3>3. j - k = x - y
      BY <2>1, <3>2
    <3>. QED
      BY <3>1, <3>2, <3>3
  <2>3. -w < j - k /\ j - k < w
    BY <1>11
  <2>4. l - m = 0
    <3>1. CASE l - m >= 1
      <4>1. (l - m) * w >= 1 * w
        BY <3>1
      <4>. QED
        BY <2>2, <2>3, <4>1
    <3>2. CASE l - m <= -1
      <4>1. (m - l) * w >= 1 * w
        BY <3>2
      <4>2. (l - m) * w = -((m - l) * w)
        OBVIOUS
      <4>3. PICK x \in Int : x = (m - l) * w
        OBVIOUS
      <4>. QED
        BY <2>2, <2>3, <4>1, <4>2, <4>3
    <3>. QED
      BY <3>1, <3>2
  <2>5. (l - m) * w = 0
    BY <2>4
  <2>. QED
    BY <2>2, <2>5
<1>17. rest = Repeat(0, k)
  <2>1. k \in Nat
    OBVIOUS
  <2>2. PICK z \in Seq({0, 1}) : z = Repeat(0, k) /\ Len(z) = k /\ \A i \in 1..k : z[i] = 0
    BY <2>1, RepeatIs
  <2>3. DOMAIN rest = 1..k
    BY <1>10, <1>11, LenProperties
  <2>4. rest = z
    BY <1>10, <1>11, <2>2, <2>3, SeqEqual
  <2>. QED
    BY <2>2, <2>4
<1>18. Filled(a, w) = bits
  BY <1>10, <1>15, <1>16, <1>17
<1>19. Groups(bits, w) = s
  <2>1. <<>> \in Seq({0, 1}) /\ Len(<<>>) = 0 /\ bits \o <<>> = bits
    OBVIOUS
  <2>2. Len(<<>>) < w
    BY <1>2, <2>1
  <2>3. Groups(BitsOf(s, w) \o <<>>, w) = s
    BY <1>2, <2>1, <2>2, GroupsOfBits
  <2>. QED
    BY <1>4, <2>1, <2>3
<1>. QED
  BY <1>4, <1>13, <1>14, <1>18, <1>19, EightBits

-----------------------------------------------------------------------------
(* Bech32 and bech32m.                                                     *)

\* Symbols of five bits are the symbols of bech32.
LEMMA FiveBitSymbols == Symbols(5) = Symbol /\ 5 \in 1..8 /\ Symbol \subseteq Nat
<1>1. 0 \in Symbol
  BY DEF Symbol
<1>2. Pow(2, 5) = 32
  BY <1>1, FiveBits
<1>. QED
  BY <1>2 DEF Symbols, Symbol

\* Bytes regrouped into symbols come back, with no bit left over that counts.
LEMMA Converted ==
  ASSUME NEW raw \in Seq(0..255)
  PROVE  \E data \in Seq(Symbol) :
           convertbits(raw, 8, 5, TRUE).value = data /\ convertbits(data, 5, 8, FALSE) = Ok(raw)
<1>1. PICK bits : bits = BitsOf(raw, 8)
  OBVIOUS
<1>2. PICK data : data = Groups(Filled(bits, 5), 5)
  OBVIOUS
<1>3. convertbits(raw, 8, 5, TRUE).value = data
  BY <1>1, <1>2 DEF convertbits, Ok
<1>4. /\ data \in Seq(Symbols(5)) /\ \E k \in 0..(5 - 1) : BitsOf(data, 5) = bits \o Repeat(0, k)
      /\ Groups(BitsOf(data, 5), 8) = raw
  BY <1>1, <1>2, FiveBitSymbols, RegroupedThere
<1>5. PICK k \in 0..4 : BitsOf(data, 5) = bits \o Repeat(0, k)
  <2>1. 0..(5 - 1) = 0..4
    OBVIOUS
  <2>. QED
    BY <1>4, <2>1
<1>6. PICK n \in Nat : n = Len(raw)
  BY LenProperties
<1>7. bits \in Seq({0, 1}) /\ Len(bits) = n * 8
  <2>1. 0..255 \subseteq Nat
    OBVIOUS
  <2>2. raw \in Seq(Nat)
    BY <2>1, SeqMonotonic
  <2>. QED
    BY <1>1, <1>6, <2>2, EightBits, BitsIs
<1>8. PICK z \in Seq({0, 1}) : z = Repeat(0, k) /\ Len(z) = k /\ \A i \in 1..k : z[i] = 0
  <2>1. k \in Nat
    OBVIOUS
  <2>. QED
    BY <2>1, RepeatIs
<1>9. PICK c \in Seq({0, 1}) : c = BitsOf(data, 5) /\ c = bits \o z /\ Len(c) = n * 8 + k
  <2>1. bits \o z \in Seq({0, 1}) /\ Len(bits \o z) = Len(bits) + Len(z)
    BY <1>7, Concats
  <2>. QED
    BY <1>5, <1>7, <1>8, <2>1
<1>10. Len(c) % 8 = k /\ Len(c) - k = Len(bits)
  <2>1. PICK p \in Nat : p = n * 8
    OBVIOUS
  <2>2. p + k = n * 8 + k /\ k \in 0..(8 - 1) /\ p + k \in Nat /\ 8 \in Nat /\ 0 < 8
    BY <2>1
  <2>3. (p + k) % 8 = k
    BY <2>2, QuotientIs
  <2>4. (p + k) - k = p
    BY <2>1
  <2>. QED
    BY <1>7, <1>9, <2>1, <2>3, <2>4
<1>11. Without(c, Len(c) - (Len(c) % 8)) = z
  <2>1. Without(bits \o z, Len(bits)) = z
    BY <1>7, PartsOfJoined
  <2>. QED
    BY <1>9, <1>10, <2>1
<1>12. Len(z) < 5 /\ \A i \in DOMAIN z : z[i] = 0
  <2>1. DOMAIN z = 1..k
    BY <1>8, LenProperties
  <2>. QED
    BY <1>8, <2>1
<1>13. convertbits(data, 5, 8, FALSE) = Ok(raw)
  BY <1>4, <1>9, <1>11, <1>12 DEF convertbits, When
<1>14. data \in Seq(Symbol)
  BY <1>4, FiveBitSymbols
<1>. QED
  BY <1>3, <1>13, <1>14

\* Symbols that regroup into bytes are the ones those bytes make.
LEMMA ConvertedBack ==
  ASSUME NEW data \in Seq(Symbol), convertbits(data, 5, 8, FALSE).ok
  PROVE  \E raw \in Seq(0..255) :
           convertbits(data, 5, 8, FALSE) = Ok(raw) /\ convertbits(raw, 8, 5, TRUE).value = data
<1>1. PICK c : c = BitsOf(data, 5)
  OBVIOUS
<1>2. PICK rest : rest = Without(c, Len(c) - (Len(c) % 8))
  OBVIOUS
<1>3. PICK raw : raw = Groups(c, 8)
  OBVIOUS
<1>4. Len(rest) < 5 /\ (\A i \in DOMAIN rest : rest[i] = 0) /\ convertbits(data, 5, 8, FALSE) = Ok(raw)
  <2>1. Raise.ok = FALSE
    BY DEF Raise
  <2>. QED
    BY <1>1, <1>2, <1>3, <2>1 DEF convertbits, When
<1>5. raw \in Seq(0..255) /\ Groups(Filled(BitsOf(raw, 8), 5), 5) = data
  <2>1. 5 \in 1..8 /\ data \in Seq(Symbols(5))
    BY FiveBitSymbols
  <2>2. rest = Without(BitsOf(data, 5), Len(BitsOf(data, 5)) - (Len(BitsOf(data, 5)) % 8))
    BY <1>1, <1>2
  <2>3. LET r == Groups(BitsOf(data, 5), 8)
        IN  r \in Seq(0..255) /\ Groups(Filled(BitsOf(r, 8), 5), 5) = data
    BY <1>4, <2>1, <2>2, RegroupedBack
  <2>. QED
    BY <1>1, <1>3, <2>3
<1>6. convertbits(raw, 8, 5, TRUE).value = data
  BY <1>5 DEF convertbits, Ok
<1>. QED
  BY <1>4, <1>5, <1>6

\* The least and the greatest of one number.
LEMMA OnlyOne ==
  ASSUME NEW k \in Int
  PROVE  Min({k}) = k /\ Max({k}) = k
BY DEF Min, Max

\* The letters of the symbols are 32, none of them a separator or a capital.
LEMMA CharsetIs ==
  /\ Len(Charset) = 32 /\ Charset \in Seq(Nat)
  /\ \A i \in 1..32 : Charset[i] \in 48..122 /\ Charset[i] # Separator /\ Charset[i] \notin 65..90
  /\ \A i, j \in 1..32 : Charset[i] = Charset[j] => i = j
<1>1. Len(Charset) = 32
  BY DEF Charset
<1>2. \A i \in 1..32 : Charset[i] \in 48..122 /\ Charset[i] # Separator /\ Charset[i] \notin 65..90
  BY DEF Charset, Separator
<1>3. Charset \in Seq(Nat)
  BY DEF Charset
<1>4. \A i, j \in 1..32 : Charset[i] = Charset[j] => i = j
  BY DEF Charset
<1>. QED
  BY <1>1, <1>2, <1>3, <1>4

Octet == 0..255

\* The last of some places there is.
LEMMA LastOne ==
  ASSUME NEW n \in Nat, NEW S, S \subseteq 1..n, S # {}
  PROVE  Max(S) \in S /\ \A y \in S : Max(S) >= y
<1>. DEFINE T == {n - i : i \in S}
<1>1. T \subseteq Nat /\ T # {}
  <2>1. \A i \in 1..n : n - i \in Nat
    OBVIOUS
  <2>2. \A i \in S : n - i \in Nat
    BY <2>1
  <2>. QED
    BY <2>2
<1>2. PICK t \in T : \A u \in T : t <= u
  BY <1>1, LeastNatural
<1>3. PICK x \in S : t = n - x
  BY <1>2
<1>4. \A y \in S : x >= y
  <2>1. ASSUME NEW y \in S PROVE x >= y
    <3>1. n - x <= n - y
      BY <1>2, <1>3
    <3>2. x \in Int /\ y \in Int
      OBVIOUS
    <3>. QED
      BY <3>1, <3>2
  <2>. QED
    BY <2>1
<1>. QED
  BY <1>4 DEF Max

\* The place of a letter is its symbol, and a letter that has a place is the one there.
LEMMA CharsetIndex ==
  /\ \A x \in Symbol : IndexOf(Charset, Charset[x + 1]) = x
  /\ \A c : IndexOf(Charset, c) >= 0 =>
       IndexOf(Charset, c) \in Symbol /\ Charset[IndexOf(Charset, c) + 1] = c
<1>. DEFINE I(c) == {i \in 1..32 : Charset[i] = c}
<1>1. \A c : IndexOf(Charset, c) = (IF I(c) # {} THEN Min(I(c)) ELSE 0) - 1
  BY CharsetIs DEF IndexOf, SelectInSeq
<1>2. ASSUME NEW k \in 1..32 PROVE I(Charset[k]) = {k}
  <2>1. ASSUME NEW i \in 1..32 PROVE Charset[i] = Charset[k] <=> i = k
    <3>1. \A x, y \in 1..32 : Charset[x] = Charset[y] => x = y
      BY CharsetIs
    <3>. QED
      BY <3>1
  <2>2. I(Charset[k]) = {i \in 1..32 : i = k}
    BY <2>1
  <2>. QED
    BY <2>2
<1>3. ASSUME NEW x \in Symbol PROVE IndexOf(Charset, Charset[x + 1]) = x
  <2>1. x + 1 \in 1..32 /\ x + 1 \in Int /\ (x + 1) - 1 = x
    BY DEF Symbol
  <2>2. I(Charset[x + 1]) = {x + 1}
    BY <1>2, <2>1
  <2>3. Min({x + 1}) = x + 1
    BY <2>1, OnlyOne
  <2>. HIDE DEF I
  <2>. QED
    BY <1>1, <2>1, <2>2, <2>3
<1>4. ASSUME NEW c, IndexOf(Charset, c) >= 0
      PROVE  IndexOf(Charset, c) \in Symbol /\ Charset[IndexOf(Charset, c) + 1] = c
  <2>1. I(c) # {}
    <3>. HIDE DEF I
    <3>1. ~(0 - 1 >= 0)
      OBVIOUS
    <3>. QED
      BY <1>1, <1>4, <3>1
  <2>2. PICK k \in 1..32 : Charset[k] = c
    BY <2>1
  <2>3. k - 1 \in Symbol /\ (k - 1) + 1 = k
    BY DEF Symbol
  <2>4. IndexOf(Charset, c) = k - 1
    BY <1>3, <2>2, <2>3
  <2>. QED
    BY <2>2, <2>3, <2>4
<1>. QED
  BY <1>3, <1>4

\* The letters of symbols.
Letters(s) == [i \in DOMAIN s |-> Charset[s[i] + 1]]

\* Letters have the symbols they were made of, and none is a separator or a capital.
LEMMA LettersAre ==
  ASSUME NEW s \in Seq(Symbol)
  PROVE  /\ Letters(s) \in Seq(Octet) /\ Len(Letters(s)) = Len(s)
         /\ Indices(Charset, Letters(s)) = s /\ AllIn(Letters(s), Charset)
         /\ \A i \in 1..Len(s) : Letters(s)[i] # Separator /\ Letters(s)[i] \notin 65..90
<1>1. PICK n \in Nat : n = Len(s) /\ DOMAIN s = 1..n
  BY LenProperties
<1>2. \A i \in 1..n : s[i] \in Symbol
  BY <1>1, ElementOfSeq
<1>3. PICK t : t = Letters(s)
  OBVIOUS
<1>4. t = [i \in 1..n |-> Charset[s[i] + 1]]
  BY <1>1, <1>3 DEF Letters
<1>5. \A x \in Symbol : x + 1 \in 1..32
  BY DEF Symbol
<1>6. \A i \in 1..n : t[i] = Charset[s[i] + 1] /\ t[i] \in Octet /\ t[i] # Separator /\ t[i] \notin 65..90
  <2>1. \A x \in 48..122 : x \in Octet
    BY DEF Octet
  <2>2. ASSUME NEW k \in 1..32
        PROVE  Charset[k] \in Octet /\ Charset[k] # Separator /\ Charset[k] \notin 65..90
    <3>1. Charset[k] \in 48..122 /\ Charset[k] # Separator /\ Charset[k] \notin 65..90
      BY CharsetIs
    <3>. QED
      BY <2>1, <3>1
  <2>3. ASSUME NEW i \in 1..n
        PROVE  t[i] = Charset[s[i] + 1] /\ t[i] \in Octet /\ t[i] # Separator /\ t[i] \notin 65..90
    <3>1. PICK k \in 1..32 : k = s[i] + 1
      BY <1>2, <1>5
    <3>2. t[i] = Charset[k]
      BY <1>4, <3>1
    <3>. QED
      BY <2>2, <3>1, <3>2
  <2>. QED
    BY <2>3
<1>7. t \in Seq(Octet) /\ Len(t) = n /\ DOMAIN t = 1..n
  <2>1. t \in [1..n -> Octet]
    BY <1>4, <1>6
  <2>. QED
    BY <2>1
<1>8. \A i \in 1..n : IndexOf(Charset, t[i]) = s[i]
  <2>1. ASSUME NEW i \in 1..n PROVE IndexOf(Charset, t[i]) = s[i]
    <3>1. PICK x \in Symbol : x = s[i]
      BY <1>2
    <3>2. IndexOf(Charset, Charset[x + 1]) = x
      BY CharsetIndex
    <3>. QED
      BY <1>6, <3>1, <3>2
  <2>. QED
    BY <2>1
<1>9. Indices(Charset, t) = s
  <2>1. Indices(Charset, t) = [i \in 1..n |-> s[i]]
    BY <1>7, <1>8 DEF Indices
  <2>2. s = [i \in 1..n |-> s[i]]
    BY <1>1
  <2>. QED
    BY <2>1, <2>2
<1>10. AllIn(t, Charset)
  <2>1. \A x \in Symbol : x >= 0
    BY DEF Symbol
  <2>. QED
    BY <1>2, <1>7, <1>8, <2>1 DEF AllIn
<1>. QED
  BY <1>1, <1>3, <1>6, <1>7, <1>9, <1>10

\* Letters that all have symbols are the letters of those.
LEMMA IndicesAre ==
  ASSUME NEW t \in Seq(Octet), AllIn(t, Charset)
  PROVE  /\ Indices(Charset, t) \in Seq(Symbol) /\ Len(Indices(Charset, t)) = Len(t)
         /\ Letters(Indices(Charset, t)) = t
<1>1. PICK n \in Nat : n = Len(t) /\ DOMAIN t = 1..n
  BY LenProperties
<1>2. PICK s : s = Indices(Charset, t)
  OBVIOUS
<1>3. s = [i \in 1..n |-> IndexOf(Charset, t[i])]
  BY <1>1, <1>2 DEF Indices
<1>4. \A i \in 1..n : s[i] \in Symbol /\ Charset[s[i] + 1] = t[i]
  <2>1. \A i \in 1..n : IndexOf(Charset, t[i]) >= 0
    BY <1>1 DEF AllIn
  <2>2. ASSUME NEW i \in 1..n PROVE s[i] \in Symbol /\ Charset[s[i] + 1] = t[i]
    <3>1. PICK c : c = t[i]
      OBVIOUS
    <3>2. IndexOf(Charset, c) \in Symbol /\ Charset[IndexOf(Charset, c) + 1] = c
      BY <2>1, <3>1, CharsetIndex
    <3>. QED
      BY <1>3, <3>1, <3>2
  <2>. QED
    BY <2>2
<1>5. s \in Seq(Symbol) /\ Len(s) = n /\ DOMAIN s = 1..n
  <2>1. s \in [1..n -> Symbol]
    BY <1>3, <1>4
  <2>. QED
    BY <2>1
<1>6. Letters(s) = t
  <2>1. Letters(s) = [i \in 1..n |-> t[i]]
    BY <1>4, <1>5 DEF Letters
  <2>2. t = [i \in 1..n |-> t[i]]
    BY <1>1
  <2>. QED
    BY <2>1, <2>2
<1>. QED
  BY <1>1, <1>2, <1>5, <1>6

\* A text in lower case, which is itself when it has no capitals.
LEMMA LowerIs ==
  ASSUME NEW t \in Seq(Octet)
  PROVE  /\ Lower(t) \in Seq(Octet) /\ Len(Lower(t)) = Len(t)
         /\ \A i \in 1..Len(t) : Lower(t)[i] = IF t[i] \in 65..90 THEN t[i] + 32 ELSE t[i]
         /\ (\A i \in 1..Len(t) : t[i] \notin 65..90) <=> Lower(t) = t
<1>1. PICK n \in Nat : n = Len(t) /\ DOMAIN t = 1..n
  BY LenProperties
<1>2. \A i \in 1..n : t[i] \in Octet
  BY <1>1, ElementOfSeq
<1>3. PICK l : l = Lower(t)
  OBVIOUS
<1>4. l = [i \in 1..n |-> IF t[i] \in 65..90 THEN t[i] + 32 ELSE t[i]]
  BY <1>1, <1>3 DEF Lower
<1>5. \A i \in 1..n : l[i] = (IF t[i] \in 65..90 THEN t[i] + 32 ELSE t[i]) /\ l[i] \in Octet
  <2>1. \A x \in Octet : (IF x \in 65..90 THEN x + 32 ELSE x) \in Octet
    BY DEF Octet
  <2>2. ASSUME NEW i \in 1..n
        PROVE  l[i] = (IF t[i] \in 65..90 THEN t[i] + 32 ELSE t[i]) /\ l[i] \in Octet
    <3>1. PICK x \in Octet : x = t[i]
      BY <1>2
    <3>2. l[i] = IF x \in 65..90 THEN x + 32 ELSE x
      BY <1>4, <3>1
    <3>. QED
      BY <2>1, <3>1, <3>2
  <2>. QED
    BY <2>2
<1>6. l \in Seq(Octet) /\ Len(l) = n
  <2>1. l \in [1..n -> Octet]
    BY <1>4, <1>5
  <2>. QED
    BY <2>1
<1>7. ASSUME \A i \in 1..n : t[i] \notin 65..90 PROVE l = t
  <2>1. Len(l) = Len(t) /\ \A i \in 1..Len(l) : l[i] = t[i]
    BY <1>1, <1>5, <1>6, <1>7
  <2>. QED
    BY <1>6, <2>1, SeqEqual
<1>8. ASSUME l = t PROVE \A i \in 1..n : t[i] \notin 65..90
  <2>1. ASSUME NEW i \in 1..n, t[i] \in 65..90 PROVE FALSE
    <3>1. PICK x \in 65..90 : x = t[i]
      BY <2>1
    <3>2. l[i] = x + 32 /\ l[i] = x
      BY <1>5, <1>8, <2>1, <3>1
    <3>. QED
      BY <3>2
  <2>. QED
    BY <2>1
<1>. QED
  BY <1>1, <1>3, <1>5, <1>6, <1>7, <1>8

SeparatorAt(t) == SelectLastInSeq(t, LAMBDA c : c = Separator)
Spliced(h, b) == (h \o <<Separator>>) \o b

\* The parts of a text are found in it where they were put.
LEMMA SplicedIs ==
  ASSUME NEW h \in Seq(Octet), NEW b \in Seq(Octet)
  PROVE  /\ Spliced(h, b) \in Seq(Octet) /\ Len(Spliced(h, b)) = Len(h) + 1 + Len(b)
         /\ \A i \in 1..Len(h) : Spliced(h, b)[i] = h[i]
         /\ Spliced(h, b)[Len(h) + 1] = Separator
         /\ \A i \in 1..Len(b) : Spliced(h, b)[Len(h) + 1 + i] = b[i]
         /\ Prefix(Spliced(h, b), Len(h)) = h /\ Without(Spliced(h, b), Len(h) + 1) = b
<1>1. PICK m \in Nat, k \in Nat : m = Len(h) /\ k = Len(b)
  <2>1. Len(h) \in Nat /\ Len(b) \in Nat
    BY LenProperties
  <2>. QED
    BY <2>1
<1>2. PICK e \in Seq(Octet) : e = <<Separator>> /\ Len(e) = 1 /\ e[1] = Separator
  <2>1. Separator \in Octet
    BY DEF Separator, Octet
  <2>2. PICK x \in Octet : x = Separator
    BY <2>1
  <2>3. <<x>> \in Seq(Octet) /\ Len(<<x>>) = 1 /\ <<x>>[1] = x
    OBVIOUS
  <2>. QED
    BY <2>2, <2>3
<1>3. PICK a : a = h \o e
  OBVIOUS
<1>4. /\ a \in Seq(Octet) /\ Len(a) = m + 1 /\ (\A i \in 1..m : a[i] = h[i]) /\ a[m + 1] = Separator
  <2>1. /\ h \o e \in Seq(Octet) /\ Len(h \o e) = Len(h) + Len(e)
        /\ (\A i \in 1..Len(h) : (h \o e)[i] = h[i]) /\ \A i \in 1..Len(e) : (h \o e)[Len(h) + i] = e[i]
    BY Concats
  <2>2. 1 \in 1..Len(e)
    BY <1>2
  <2>. QED
    BY <1>1, <1>2, <1>3, <2>1, <2>2
<1>5. PICK c : c = a \o b
  OBVIOUS
<1>6. /\ c \in Seq(Octet) /\ Len(c) = m + 1 + k
      /\ (\A i \in 1..(m + 1) : c[i] = a[i]) /\ \A i \in 1..k : c[m + 1 + i] = b[i]
  <2>1. /\ a \o b \in Seq(Octet) /\ Len(a \o b) = Len(a) + Len(b)
        /\ (\A i \in 1..Len(a) : (a \o b)[i] = a[i]) /\ \A i \in 1..Len(b) : (a \o b)[Len(a) + i] = b[i]
    <3>1. a \in Seq(Octet)
      BY <1>4
    <3>. QED
      BY <3>1, Concats
  <2>. QED
    BY <1>1, <1>4, <1>5, <2>1
<1>7. Without(c, m + 1) = b
  <2>1. Without(a \o b, Len(a)) = b
    BY <1>4, PartsOfJoined
  <2>. QED
    BY <1>4, <1>5, <2>1
<1>8. Prefix(c, m) = h
  <2>1. /\ Prefix(c, m) \in Seq(Octet) /\ Len(Prefix(c, m)) = m /\ Prefix(c, m) \o Without(c, m) = c
        /\ Without(c, m) \in Seq(Octet)
    <3>1. m <= Len(c)
      BY <1>6
    <3>. QED
      BY <1>6, <3>1, PrefixWithout
  <2>2. PICK p \in Seq(Octet), w \in Seq(Octet) : p = Prefix(c, m) /\ w = Without(c, m) /\ Len(p) = m /\ p \o w = c
    BY <2>1
  <2>3. \A i \in 1..m : (p \o w)[i] = p[i]
    <3>1. \A i \in 1..Len(p) : (p \o w)[i] = p[i]
      BY Concats
    <3>. QED
      BY <2>2, <3>1
  <2>4. \A i \in 1..m : p[i] = h[i]
    <3>1. \A i \in 1..m : i \in 1..(m + 1)
      OBVIOUS
    <3>. QED
      BY <1>4, <1>6, <2>2, <2>3, <3>1
  <2>5. p = h
    BY <1>1, <2>2, <2>4, SeqEqual
  <2>. QED
    BY <2>2, <2>5
<1>9. c = Spliced(h, b)
  BY <1>2, <1>3, <1>5 DEF Spliced
<1>10. (\A i \in 1..m : c[i] = h[i]) /\ c[m + 1] = Separator
  <2>1. m + 1 \in 1..(m + 1) /\ \A i \in 1..m : i \in 1..(m + 1)
    OBVIOUS
  <2>. QED
    BY <1>4, <1>6, <2>1
<1>. QED
  BY <1>1, <1>6, <1>7, <1>8, <1>9, <1>10

\* The last separator of a text is the one before its letters.
LEMMA LastSeparator ==
  ASSUME NEW h \in Seq(Octet), NEW b \in Seq(Octet), \A i \in 1..Len(b) : b[i] # Separator
  PROVE  SeparatorAt(Spliced(h, b)) = Len(h) + 1
<1>1. PICK m \in Nat, k \in Nat : m = Len(h) /\ k = Len(b)
  <2>1. Len(h) \in Nat /\ Len(b) \in Nat
    BY LenProperties
  <2>. QED
    BY <2>1
<1>2. PICK c \in Seq(Octet) : c = Spliced(h, b) /\ Len(c) = m + 1 + k /\ c[m + 1] = Separator
                               /\ \A i \in 1..k : c[m + 1 + i] = b[i]
  <2>1. /\ Spliced(h, b) \in Seq(Octet) /\ Len(Spliced(h, b)) = Len(h) + 1 + Len(b)
        /\ Spliced(h, b)[Len(h) + 1] = Separator
        /\ \A i \in 1..Len(b) : Spliced(h, b)[Len(h) + 1 + i] = b[i]
    BY SplicedIs
  <2>. QED
    BY <1>1, <2>1
<1>. DEFINE I == {i \in 1..(m + 1 + k) : c[i] = Separator}
<1>3. SeparatorAt(c) = IF I # {} THEN Max(I) ELSE 0
  BY <1>2 DEF SeparatorAt, SelectLastInSeq
<1>4. m + 1 \in I
  BY <1>2
<1>5. \A y \in I : y <= m + 1
  <2>1. ASSUME NEW y \in I, y > m + 1 PROVE FALSE
    <3>1. y - (m + 1) \in 1..k /\ m + 1 + (y - (m + 1)) = y
      BY <2>1
    <3>2. c[y] = b[y - (m + 1)]
      BY <1>2, <3>1
    <3>. QED
      BY <1>1, <2>1, <3>1, <3>2
  <2>. QED
    BY <2>1
<1>6. Max(I) \in I /\ Max(I) >= m + 1
  <2>1. I \subseteq 1..(m + 1 + k) /\ I # {} /\ m + 1 + k \in Nat
    BY <1>4
  <2>. HIDE DEF I
  <2>. QED
    BY <1>4, <2>1, LastOne
<1>7. Max(I) = m + 1
  <2>1. Max(I) <= m + 1 /\ Max(I) \in Int
    BY <1>5, <1>6
  <2>. QED
    BY <1>6, <2>1
<1>. QED
  BY <1>1, <1>2, <1>3, <1>4, <1>7

\* A text is what comes before its last separator, the separator, and what comes after it.
LEMMA SeparatorSplits ==
  ASSUME NEW t \in Seq(Octet), NEW p \in Nat, p = SeparatorAt(t) - 1, p + 1 <= Len(t)
  PROVE  /\ Prefix(t, p) \in Seq(Octet) /\ Without(t, p + 1) \in Seq(Octet)
         /\ Len(Prefix(t, p)) = p /\ Len(Without(t, p + 1)) = Len(t) - (p + 1)
         /\ t = Spliced(Prefix(t, p), Without(t, p + 1))
<1>1. PICK n \in Nat : n = Len(t)
  BY LenProperties
<1>. DEFINE I == {i \in 1..n : t[i] = Separator}
<1>2. SeparatorAt(t) = IF I # {} THEN Max(I) ELSE 0
  BY <1>1 DEF SeparatorAt, SelectLastInSeq
<1>3. I # {}
  <2>. HIDE DEF I
  <2>1. p # 0 - 1
    OBVIOUS
  <2>. QED
    BY <1>2, <2>1
<1>4. Max(I) \in I
  <2>1. I \subseteq 1..n
    OBVIOUS
  <2>. HIDE DEF I
  <2>. QED
    BY <1>3, <2>1, LastOne
<1>5. t[p + 1] = Separator /\ p + 1 \in 1..n
  <2>1. Max(I) = p + 1
    BY <1>2, <1>3, <1>4
  <2>. QED
    BY <1>4, <2>1
<1>6. /\ Prefix(t, p) \in Seq(Octet) /\ Len(Prefix(t, p)) = p
      /\ Without(t, p) \in Seq(Octet) /\ Len(Without(t, p)) = Len(t) - p
      /\ Prefix(t, p) \o Without(t, p) = t
  <2>1. p <= Len(t)
    BY <1>1, <1>5
  <2>. QED
    BY <2>1, PrefixWithout
<1>7. PICK q \in Nat : q = p + 1
  OBVIOUS
<1>8. /\ Prefix(t, q) \in Seq(Octet) /\ Len(Prefix(t, q)) = q
      /\ Without(t, q) \in Seq(Octet) /\ Len(Without(t, q)) = Len(t) - q
      /\ Prefix(t, q) \o Without(t, q) = t
  <2>1. q <= Len(t)
    BY <1>1, <1>5, <1>7
  <2>. QED
    BY <2>1, PrefixWithout
<1>9. PICK h \in Seq(Octet), b \in Seq(Octet), x \in Seq(Octet), y \in Seq(Octet) :
        /\ h = Prefix(t, p) /\ b = Without(t, q) /\ x = Prefix(t, q) /\ y = Without(t, p)
        /\ Len(h) = p /\ Len(b) = n - q /\ Len(x) = q /\ h \o y = t /\ x \o b = t
  BY <1>1, <1>6, <1>8
<1>10. \A i \in 1..p : t[i] = h[i]
  <2>1. \A i \in 1..Len(h) : (h \o y)[i] = h[i]
    BY Concats
  <2>. QED
    BY <1>9, <2>1
<1>11. \A i \in 1..(n - q) : t[q + i] = b[i]
  <2>1. \A i \in 1..Len(b) : (x \o b)[Len(x) + i] = b[i]
    BY Concats
  <2>. QED
    BY <1>9, <2>1
<1>12. PICK c \in Seq(Octet) : /\ c = Spliced(h, b) /\ Len(c) = n
                                /\ (\A i \in 1..p : c[i] = h[i]) /\ c[q] = Separator
                                /\ \A i \in 1..(n - q) : c[q + i] = b[i]
  <2>1. /\ Spliced(h, b) \in Seq(Octet) /\ Len(Spliced(h, b)) = Len(h) + 1 + Len(b)
        /\ \A i \in 1..Len(h) : Spliced(h, b)[i] = h[i]
        /\ Spliced(h, b)[Len(h) + 1] = Separator
        /\ \A i \in 1..Len(b) : Spliced(h, b)[Len(h) + 1 + i] = b[i]
    BY SplicedIs
  <2>2. Len(h) + 1 = q /\ Len(h) + 1 + Len(b) = n
    BY <1>1, <1>5, <1>7, <1>9
  <2>3. PICK c \in Seq(Octet) : c = Spliced(h, b)
    BY <2>1
  <2>4. PICK x1, x2 : x1 = Len(h) /\ x2 = Len(b)
    OBVIOUS
  <2>5. /\ Len(c) = x1 + 1 + x2 /\ (\A i \in 1..x1 : c[i] = h[i]) /\ c[x1 + 1] = Separator
        /\ \A i \in 1..x2 : c[x1 + 1 + i] = b[i]
    BY <2>1, <2>3, <2>4
  <2>6. x1 = p /\ x2 = n - q /\ x1 + 1 = q /\ x1 + 1 + x2 = n
    BY <1>9, <2>2, <2>4
  <2>7. Len(c) = n /\ c[q] = Separator
    BY <2>5, <2>6
  <2>8. \A i \in 1..p : c[i] = h[i]
    BY <2>5, <2>6
  <2>9. ASSUME NEW i \in 1..(n - q) PROVE c[q + i] = b[i]
    <3>1. i \in 1..x2
      BY <2>6
    <3>2. c[x1 + 1 + i] = b[i]
      BY <2>5, <3>1
    <3>. QED
      BY <2>6, <3>2
  <2>. QED
    BY <2>3, <2>7, <2>8, <2>9
<1>13. ASSUME NEW i \in 1..n PROVE c[i] = t[i]
  <2>1. CASE i <= p
    <3>1. i \in 1..p
      BY <2>1
    <3>. QED
      BY <1>10, <1>12, <3>1
  <2>2. CASE i = q
    BY <1>5, <1>7, <1>12, <2>2
  <2>3. CASE i > q
    <3>1. i - q \in 1..(n - q) /\ q + (i - q) = i
      BY <2>3
    <3>. QED
      BY <1>11, <1>12, <3>1
  <2>4. i <= p \/ i = q \/ i > q
    BY <1>7
  <2>. QED
    BY <2>1, <2>2, <2>3, <2>4
<1>14. c = t
  BY <1>1, <1>12, <1>13, SeqEqual
<1>. QED
  BY <1>6, <1>7, <1>8, <1>9, <1>12, <1>14

\* The constant of either specification is a checksum.
LEMMA ConstIs == \A spec : ChecksumConst(spec) \in Vectors
<1>1. /\ 0 \in Symbol /\ 1 \in Symbol /\ 3 \in Symbol /\ 5 \in Symbol /\ 12 \in Symbol
      /\ 16 \in Symbol /\ 21 \in Symbol /\ 28 \in Symbol
  BY DEF Symbol
<1>2. <<0, 0, 0, 0, 0, 1>> \in Vectors
  BY <1>1 DEF Vectors
<1>3. <<21, 28, 16, 12, 5, 3>> \in Vectors
  BY <1>1 DEF Vectors
<1>. QED
  BY <1>2, <1>3 DEF ChecksumConst

\* The upper and the lower bits of the human-readable part.
Tops(h) == [i \in DOMAIN h |-> h[i] \div 32]
Lows(h) == [i \in DOMAIN h |-> h[i] % 32]

\* The human-readable part expanded: its upper bits, a zero and its lower bits, all symbols.
LEMMA ExpandIs ==
  ASSUME NEW h \in Seq(Octet)
  PROVE  /\ Tops(h) \in Seq(Symbol) /\ Lows(h) \in Seq(Symbol) /\ Len(Tops(h)) = Len(h) /\ Len(Lows(h)) = Len(h)
         /\ Tops(h) \o <<0>> \in Seq(Symbol) /\ Len(Tops(h) \o <<0>>) = Len(h) + 1
         /\ hrp_expand(h) = (Tops(h) \o <<0>>) \o Lows(h) /\ hrp_expand(h) \in Seq(Symbol)
         /\ \A i \in 1..Len(h) : Tops(h)[i] = h[i] \div 32 /\ Lows(h)[i] = h[i] % 32
<1>1. PICK n \in Nat : n = Len(h) /\ DOMAIN h = 1..n
  BY LenProperties
<1>2. \A i \in 1..n : h[i] \in Octet
  BY <1>1, ElementOfSeq
<1>3. ASSUME NEW x \in Octet PROVE x \div 32 \in Symbol /\ x % 32 \in Symbol
  <2>1. PICK q \in Nat, r \in 0..31 : q = x \div 32 /\ r = x % 32 /\ x = q * 32 + r
    <3>1. x \in Nat /\ 32 \in Nat /\ 0 < 32 /\ 0..(32 - 1) = 0..31
      BY DEF Octet
    <3>. QED
      BY <3>1, Quotient
  <2>2. q <= 31 /\ x <= 255
    <3>1. x <= 255
      BY DEF Octet
    <3>. QED
      BY <2>1, <3>1
  <2>. QED
    BY <2>1, <2>2 DEF Symbol
<1>4. PICK t, l : t = Tops(h) /\ l = Lows(h)
  OBVIOUS
<1>5. t \in Seq(Symbol) /\ Len(t) = n /\ \A i \in 1..n : t[i] = h[i] \div 32
  <2>1. t = [i \in 1..n |-> h[i] \div 32]
    BY <1>1, <1>4 DEF Tops
  <2>2. \A i \in 1..n : h[i] \div 32 \in Symbol
    BY <1>2, <1>3
  <2>3. t \in [1..n -> Symbol]
    BY <2>1, <2>2
  <2>. QED
    BY <2>1, <2>3
<1>6. l \in Seq(Symbol) /\ Len(l) = n /\ \A i \in 1..n : l[i] = h[i] % 32
  <2>1. l = [i \in 1..n |-> h[i] % 32]
    BY <1>1, <1>4 DEF Lows
  <2>2. \A i \in 1..n : h[i] % 32 \in Symbol
    BY <1>2, <1>3
  <2>3. l \in [1..n -> Symbol]
    BY <2>1, <2>2
  <2>. QED
    BY <2>1, <2>3
<1>7. PICK z \in Seq(Symbol) : z = <<0>> /\ Len(z) = 1
  <2>1. 0 \in Symbol
    BY DEF Symbol
  <2>2. PICK x \in Symbol : x = 0
    BY <2>1
  <2>3. <<x>> \in Seq(Symbol) /\ Len(<<x>>) = 1
    OBVIOUS
  <2>. QED
    BY <2>2, <2>3
<1>8. t \o z \in Seq(Symbol) /\ Len(t \o z) = Len(t) + Len(z)
  BY <1>5, Concats
<1>9. (t \o z) \o l \in Seq(Symbol)
  BY <1>6, <1>8, Concats
<1>10. hrp_expand(h) = (t \o <<0>>) \o l
  BY <1>4 DEF hrp_expand, Tops, Lows
<1>. QED
  BY <1>1, <1>4, <1>5, <1>6, <1>7, <1>8, <1>9, <1>10

\* The parts that a text is cut into, and what makes it accepted.
Cut(text, low, pos, h, data, raw) ==
  /\ low = Lower(text) /\ pos = SeparatorAt(low) - 1 /\ h = Prefix(low, pos)
  /\ data = Indices(Charset, Without(low, pos + 1))
  /\ raw = convertbits(Prefix(data, Len(data) - 6), 5, 8, FALSE)
Taken(text, spec, low, pos, h, data, raw) ==
  /\ text \in {low, Upper(text)} /\ pos >= 1 /\ pos + 7 <= Len(text)
  /\ AllIn(Without(low, pos + 1), Charset)
  /\ bech32_polymod(hrp_expand(h) \o data) = ChecksumConst(spec) /\ raw.ok

\* Decoding, by the parts of the text.
LEMMA DecodeIs ==
  ASSUME NEW text, NEW spec, NEW low, NEW pos, NEW h, NEW data, NEW raw, Cut(text, low, pos, h, data, raw)
  PROVE  bech32_decode(text, spec) =
           IF Taken(text, spec, low, pos, h, data, raw) THEN Ok([hrp |-> h, raw |-> raw.value]) ELSE Raise
BY DEF Cut, Taken, bech32_decode, SeparatorAt

\* What a text that decodes is made of.
Made(text, spec, h, d, c, raw) ==
  /\ Lower(text) = Spliced(h, Letters(d \o c)) /\ SeparatorAt(Lower(text)) = Len(h) + 1
  /\ bech32_polymod((hrp_expand(h) \o d) \o c) = ChecksumConst(spec)
  /\ convertbits(d, 5, 8, FALSE) = Ok(raw)
  /\ bech32_decode(text, spec) = Ok([hrp |-> h, raw |-> raw])

\* A text that decodes is made of symbols whose checksum fits and whose bytes it gives.
LEMMA DecodedIsMade ==
  ASSUME NEW text \in Seq(Octet), NEW spec, bech32_decode(text, spec).ok
  PROVE  \E h \in Seq(Octet), d \in Seq(Symbol), c \in Vectors, raw \in Seq(Octet) :
           Made(text, spec, h, d, c, raw)
<1>1. PICK low, pos, h, data, raw : Cut(text, low, pos, h, data, raw)
  BY DEF Cut
<1>2. Taken(text, spec, low, pos, h, data, raw) /\ bech32_decode(text, spec) = Ok([hrp |-> h, raw |-> raw.value])
  <2>1. Raise.ok = FALSE
    BY DEF Raise
  <2>. QED
    BY <1>1, <2>1, DecodeIs
<1>3. low \in Seq(Octet) /\ Len(low) = Len(text) /\ Len(low) \in Nat
  <2>1. Lower(text) \in Seq(Octet) /\ Len(Lower(text)) = Len(text)
    BY LowerIs
  <2>. QED
    BY <1>1, <2>1, LenProperties DEF Cut
<1>4. SeparatorAt(low) \in Int
  <2>1. PICK n \in Nat : n = Len(low)
    BY <1>3
  <2>. DEFINE I == {i \in 1..n : low[i] = Separator}
  <2>2. SeparatorAt(low) = IF I # {} THEN Max(I) ELSE 0
    BY <2>1 DEF SeparatorAt, SelectLastInSeq
  <2>3. I \subseteq 1..n
    OBVIOUS
  <2>4. I # {} => Max(I) \in I
    <3>. HIDE DEF I
    <3>. QED
      BY <2>3, LastOne
  <2>5. I # {} => Max(I) \in 1..n
    BY <2>3, <2>4
  <2>. HIDE DEF I
  <2>. QED
    BY <2>2, <2>5
<1>5. pos \in Nat /\ pos = SeparatorAt(low) - 1 /\ pos + 1 <= Len(low) /\ pos + 7 <= Len(low) /\ pos >= 1
  <2>1. pos = SeparatorAt(low) - 1 /\ pos >= 1 /\ pos + 7 <= Len(low)
    BY <1>1, <1>2, <1>3 DEF Cut, Taken
  <2>. QED
    BY <1>3, <1>4, <2>1
<1>6. PICK b : b = Without(low, pos + 1)
  OBVIOUS
<1>7. /\ h \in Seq(Octet) /\ b \in Seq(Octet) /\ Len(h) = pos /\ Len(b) = Len(low) - (pos + 1) /\ low = Spliced(h, b)
  <2>1. h = Prefix(low, pos)
    BY <1>1 DEF Cut
  <2>2. /\ Prefix(low, pos) \in Seq(Octet) /\ Without(low, pos + 1) \in Seq(Octet)
        /\ Len(Prefix(low, pos)) = pos /\ Len(Without(low, pos + 1)) = Len(low) - (pos + 1)
        /\ low = Spliced(Prefix(low, pos), Without(low, pos + 1))
    BY <1>3, <1>5, SeparatorSplits
  <2>. QED
    BY <1>6, <2>1, <2>2
<1>8. data \in Seq(Symbol) /\ Len(data) = Len(b) /\ Letters(data) = b
  <2>1. AllIn(b, Charset) /\ data = Indices(Charset, b)
    BY <1>1, <1>2, <1>6 DEF Cut, Taken
  <2>. QED
    BY <1>7, <2>1, IndicesAre
<1>9. PICK m \in Nat : m = Len(data) - 6 /\ m <= Len(data) /\ Len(data) - m = 6
  <2>1. PICK k \in Nat : k = Len(low)
    BY <1>3
  <2>2. Len(data) = k - (pos + 1) /\ pos + 7 <= k
    BY <1>5, <1>7, <1>8, <2>1
  <2>3. k - (pos + 1) - 6 \in Nat
    BY <1>5, <2>2
  <2>4. PICK m \in Nat : m = k - (pos + 1) - 6
    BY <2>3
  <2>5. m = Len(data) - 6 /\ m <= Len(data) /\ Len(data) - m = 6
    BY <1>5, <2>2, <2>4
  <2>. QED
    BY <2>5
<1>10. PICK d \in Seq(Symbol), c \in Seq(Symbol) : d = Prefix(data, m) /\ c = Without(data, m) /\ d \o c = data /\ Len(c) = 6
  <2>1. /\ Prefix(data, m) \in Seq(Symbol) /\ Len(Prefix(data, m)) = m
        /\ Without(data, m) \in Seq(Symbol) /\ Len(Without(data, m)) = Len(data) - m
        /\ Prefix(data, m) \o Without(data, m) = data
    BY <1>8, <1>9, PrefixWithout
  <2>. QED
    BY <1>9, <2>1
<1>11. c \in Vectors
  BY <1>10 DEF Vectors
<1>12. raw = convertbits(d, 5, 8, FALSE) /\ raw.ok
  BY <1>1, <1>2, <1>9, <1>10 DEF Cut, Taken
<1>13. PICK r \in Seq(Octet) : raw = Ok(r)
  <2>1. convertbits(d, 5, 8, FALSE).ok
    BY <1>12
  <2>2. \E r \in Seq(0..255) :
           convertbits(d, 5, 8, FALSE) = Ok(r) /\ convertbits(r, 8, 5, TRUE).value = d
    BY <2>1, ConvertedBack
  <2>. QED
    BY <1>12, <2>2 DEF Octet
<1>14. raw.value = r
  BY <1>13 DEF Ok
<1>15. (hrp_expand(h) \o d) \o c = hrp_expand(h) \o data
  <2>1. hrp_expand(h) \in Seq(Symbol)
    BY <1>7, ExpandIs
  <2>2. PICK e \in Seq(Symbol) : e = hrp_expand(h)
    BY <2>1
  <2>3. (e \o d) \o c = e \o (d \o c)
    BY ConcatAssociative
  <2>. QED
    BY <1>10, <2>2, <2>3
<1>16. Made(text, spec, h, d, c, r)
  <2>1. Lower(text) = low
    BY <1>1 DEF Cut
  <2>2. bech32_polymod(hrp_expand(h) \o data) = ChecksumConst(spec)
    BY <1>2 DEF Taken
  <2>3. SeparatorAt(low) = Len(h) + 1
    BY <1>4, <1>5, <1>7
  <2>. QED
    BY <1>2, <1>7, <1>8, <1>10, <1>12, <1>13, <1>14, <1>15, <2>1, <2>2, <2>3 DEF Made
<1>. QED
  BY <1>7, <1>11, <1>16

\* Joining three lists of symbols, in either order.
LEMMA ThreeJoined ==
  ASSUME NEW u \in Seq(Symbol), NEW v \in Seq(Symbol), NEW w \in Seq(Symbol)
  PROVE  (u \o v) \o w = u \o (v \o w)
BY ConcatAssociative

\* Whatever is encoded in lower case comes back, with the checksum of the same specification.
THEOREM Bech32RoundTrip ==
  ASSUME NEW hrp \in Seq(Octet), bech32_accepts(hrp), NEW raw \in Seq(Octet), NEW spec
  PROVE  bech32_decode(bech32_encode(hrp, raw, spec), spec) = Ok([hrp |-> hrp, raw |-> raw])
<1>1. PICK d \in Seq(Symbol) : convertbits(raw, 8, 5, TRUE).value = d /\ convertbits(d, 5, 8, FALSE) = Ok(raw)
  <2>1. raw \in Seq(0..255)
    BY DEF Octet
  <2>. QED
    BY <2>1, Converted
<1>2. PICK e \in Seq(Symbol) : e = hrp_expand(hrp)
  BY ExpandIs
<1>3. PICK k \in Vectors : k = ChecksumConst(spec)
  BY ConstIs
<1>4. PICK a \in Seq(Symbol) : a = e \o d
  <2>1. e \o d \in Seq(Symbol)
    BY Concats
  <2>. QED
    BY <2>1
<1>5. PICK c \in Vectors : c = XorAll(bech32_polymod(a \o Zeros), k)
  <2>1. XorAll(bech32_polymod(a \o Zeros), k) \in Vectors
    BY UnitIs, ChecksumFits
  <2>. QED
    BY <2>1
<1>6. bech32_polymod(a \o c) = k
  BY <1>5, ChecksumFits
<1>7. c \in Seq(Symbol) /\ Len(c) = 6
  BY VectorParts
<1>8. PICK data \in Seq(Symbol) : data = d \o c /\ Len(data) = Len(d) + 6
  <2>1. d \o c \in Seq(Symbol) /\ Len(d \o c) = Len(d) + Len(c)
    BY <1>7, Concats
  <2>. QED
    BY <1>7, <2>1
<1>9. PICK b \in Seq(Octet) :
        /\ b = Letters(data) /\ Len(b) = Len(data) /\ Indices(Charset, b) = data /\ AllIn(b, Charset)
        /\ \A i \in 1..Len(b) : b[i] # Separator /\ b[i] \notin 65..90
  <2>1. /\ Letters(data) \in Seq(Octet) /\ Len(Letters(data)) = Len(data)
        /\ Indices(Charset, Letters(data)) = data /\ AllIn(Letters(data), Charset)
        /\ \A i \in 1..Len(data) : Letters(data)[i] # Separator /\ Letters(data)[i] \notin 65..90
    BY LettersAre
  <2>. QED
    BY <2>1
<1>10. PICK m \in Nat, n \in Nat : m = Len(hrp) /\ n = Len(d)
  <2>1. Len(hrp) \in Nat /\ Len(d) \in Nat
    BY LenProperties
  <2>. QED
    BY <2>1
<1>11. PICK text \in Seq(Octet) :
         /\ text = Spliced(hrp, b) /\ Len(text) = m + 1 + (n + 6)
         /\ (\A i \in 1..m : text[i] = hrp[i]) /\ text[m + 1] = Separator
         /\ (\A i \in 1..(n + 6) : text[m + 1 + i] = b[i])
         /\ Prefix(text, m) = hrp /\ Without(text, m + 1) = b
  <2>1. /\ Spliced(hrp, b) \in Seq(Octet) /\ Len(Spliced(hrp, b)) = Len(hrp) + 1 + Len(b)
        /\ \A i \in 1..Len(hrp) : Spliced(hrp, b)[i] = hrp[i]
        /\ Spliced(hrp, b)[Len(hrp) + 1] = Separator
        /\ \A i \in 1..Len(b) : Spliced(hrp, b)[Len(hrp) + 1 + i] = b[i]
        /\ Prefix(Spliced(hrp, b), Len(hrp)) = hrp /\ Without(Spliced(hrp, b), Len(hrp) + 1) = b
    BY SplicedIs
  <2>2. Len(b) = n + 6
    BY <1>8, <1>9, <1>10
  <2>. QED
    BY <1>10, <2>1, <2>2
<1>12. bech32_encode(hrp, raw, spec) = text
  <2>1. XorAll(bech32_polymod(hrp_expand(hrp) \o d \o Repeat(0, 6)), ChecksumConst(spec)) = c
    BY <1>2, <1>3, <1>4, <1>5 DEF Zeros
  <2>2. bech32_encode(hrp, raw, spec) = hrp \o <<Separator>> \o Letters(d \o c)
    BY <1>1, <2>1 DEF bech32_encode, Letters
  <2>. QED
    BY <1>8, <1>9, <1>11, <2>2 DEF Spliced
<1>13. Lower(text) = text
  <2>1. \A i \in 1..m : hrp[i] \notin 65..90
    <3>1. Lower(hrp) = hrp
      BY DEF bech32_accepts
    <3>2. (\A i \in 1..Len(hrp) : hrp[i] \notin 65..90) <=> Lower(hrp) = hrp
      BY LowerIs
    <3>. QED
      BY <1>10, <3>1, <3>2
  <2>2. ASSUME NEW i \in 1..Len(text) PROVE text[i] \notin 65..90
    <3>1. CASE i <= m
      <4>1. i \in 1..m
        BY <3>1
      <4>. QED
        BY <1>11, <2>1, <4>1
    <3>2. CASE i = m + 1
      <4>1. Separator \notin 65..90
        BY DEF Separator
      <4>. QED
        BY <1>11, <3>2, <4>1
    <3>3. CASE i > m + 1
      <4>1. i - (m + 1) \in 1..(n + 6) /\ m + 1 + (i - (m + 1)) = i
        BY <1>11, <3>3
      <4>2. text[i] = b[i - (m + 1)]
        BY <1>11, <4>1
      <4>3. Len(b) = n + 6
        BY <1>8, <1>9, <1>10
      <4>. QED
        BY <1>9, <4>1, <4>2, <4>3
    <3>4. i <= m \/ i = m + 1 \/ i > m + 1
      OBVIOUS
    <3>. QED
      BY <3>1, <3>2, <3>3, <3>4
  <2>3. (\A i \in 1..Len(text) : text[i] \notin 65..90) <=> Lower(text) = text
    BY LowerIs
  <2>. QED
    BY <2>2, <2>3
<1>14. SeparatorAt(text) = m + 1
  <2>1. \A i \in 1..Len(b) : b[i] # Separator
    BY <1>9
  <2>2. SeparatorAt(Spliced(hrp, b)) = Len(hrp) + 1
    BY <2>1, LastSeparator
  <2>. QED
    BY <1>10, <1>11, <2>2
<1>15. m >= 1 /\ m + 7 <= Len(text) /\ (m + 1) - 1 = m
  <2>1. m # 0
    <3>1. hrp # <<>>
      BY DEF bech32_accepts
    <3>. QED
      BY <1>10, <3>1, EmptySeq
  <2>. QED
    BY <1>11, <2>1
<1>16. Prefix(data, Len(data) - 6) = d
  <2>1. Prefix(d \o c, Len(d)) = d
    BY <1>7, PartsOfJoined
  <2>2. Len(data) - 6 = n
    BY <1>8, <1>10
  <2>. QED
    BY <1>8, <1>10, <2>1, <2>2
<1>17. PICK r : r = Ok(raw)
  OBVIOUS
<1>18. Cut(text, text, m, hrp, data, r)
  BY <1>1, <1>9, <1>11, <1>13, <1>14, <1>15, <1>16, <1>17 DEF Cut
<1>19. Taken(text, spec, text, m, hrp, data, r)
  <2>1. bech32_polymod(e \o data) = k
    <3>1. PICK y \in Seq(Symbol) : y = c
      BY <1>7
    <3>2. (e \o d) \o y = e \o (d \o y)
      BY ThreeJoined
    <3>. QED
      BY <1>4, <1>6, <1>8, <3>1, <3>2
  <2>2. r.ok /\ AllIn(Without(text, m + 1), Charset)
    BY <1>9, <1>11, <1>17 DEF Ok
  <2>. QED
    BY <1>2, <1>3, <1>15, <2>1, <2>2 DEF Taken
<1>20. r.value = raw
  BY <1>17 DEF Ok
<1>. QED
  BY <1>12, <1>18, <1>19, <1>20, DecodeIs

\* A text that decodes is the one its parts have, but for its case: no other spelling of a
\* symbol, no bits left over and no other checksum is taken for it.
THEOREM Bech32OneSpelling ==
  ASSUME NEW text \in Seq(Octet), NEW spec, bech32_decode(text, spec).ok
  PROVE  LET out == bech32_decode(text, spec).value
         IN  bech32_encode(out.hrp, out.raw, spec) = Lower(text)
<1>1. PICK h \in Seq(Octet), d \in Seq(Symbol), c \in Vectors, raw \in Seq(Octet) : Made(text, spec, h, d, c, raw)
  BY DecodedIsMade
<1>2. /\ Lower(text) = Spliced(h, Letters(d \o c))
      /\ bech32_polymod((hrp_expand(h) \o d) \o c) = ChecksumConst(spec)
      /\ convertbits(d, 5, 8, FALSE) = Ok(raw)
      /\ bech32_decode(text, spec) = Ok([hrp |-> h, raw |-> raw])
  BY <1>1 DEF Made
<1>3. bech32_decode(text, spec).value.hrp = h /\ bech32_decode(text, spec).value.raw = raw
  BY <1>2 DEF Ok
<1>4. convertbits(raw, 8, 5, TRUE).value = d
  <2>0. Ok(raw).ok /\ Ok(raw).value = raw
    BY DEF Ok
  <2>1. convertbits(d, 5, 8, FALSE).ok
    BY <1>2, <2>0
  <2>2. PICK r \in Seq(0..255) : convertbits(d, 5, 8, FALSE) = Ok(r) /\ convertbits(r, 8, 5, TRUE).value = d
    BY <2>1, ConvertedBack
  <2>3. r = raw
    <3>1. Ok(r).value = r
      BY DEF Ok
    <3>2. Ok(r) = Ok(raw)
      BY <1>2, <2>2
    <3>. QED
      BY <2>0, <3>1, <3>2
  <2>. QED
    BY <2>2, <2>3
<1>5. PICK k \in Vectors : k = ChecksumConst(spec)
  BY ConstIs
<1>6. PICK a \in Seq(Symbol) : a = hrp_expand(h) \o d
  <2>1. hrp_expand(h) \in Seq(Symbol)
    BY ExpandIs
  <2>2. hrp_expand(h) \o d \in Seq(Symbol)
    BY <2>1, Concats
  <2>. QED
    BY <2>2
<1>7. c = XorAll(bech32_polymod(a \o Zeros), k)
  <2>1. bech32_polymod(a \o c) = k <=> c = XorAll(bech32_polymod(a \o Zeros), k)
    BY ChecksumFits
  <2>2. bech32_polymod(a \o c) = k
    BY <1>2, <1>5, <1>6
  <2>. QED
    BY <2>1, <2>2
<1>8. bech32_encode(h, raw, spec) = Spliced(h, Letters(d \o c))
  <2>1. XorAll(bech32_polymod(hrp_expand(h) \o d \o Repeat(0, 6)), ChecksumConst(spec)) = c
    BY <1>5, <1>6, <1>7 DEF Zeros
  <2>. QED
    BY <1>4, <2>1 DEF bech32_encode, Letters, Spliced
<1>. QED
  BY <1>2, <1>3, <1>8

\* The same but at one place.
OneOff(s, t, p) ==
  /\ Len(s) = Len(t) /\ p \in 1..Len(s) /\ s[p] # t[p]
  /\ \A i \in 1..Len(s) : i # p => s[i] = t[i]

JoinedAs(u, s, t, m, n) ==
  /\ Len(u) = m + n /\ (\A i \in 1..m : u[i] = s[i]) /\ \A i \in 1..n : u[m + i] = t[i]

\* The parts of a joined list, by their lengths.
LEMMA JoinedParts ==
  ASSUME NEW T, NEW s \in Seq(T), NEW t \in Seq(T), NEW m \in Nat, NEW n \in Nat, Len(s) = m, Len(t) = n
  PROVE  s \o t \in Seq(T) /\ JoinedAs(s \o t, s, t, m, n)
<1>1. /\ s \o t \in Seq(T) /\ Len(s \o t) = Len(s) + Len(t) /\ (\A i \in 1..Len(s) : (s \o t)[i] = s[i])
      /\ \A i \in 1..Len(t) : (s \o t)[Len(s) + i] = t[i]
  BY Concats
<1>. QED
  BY <1>1 DEF JoinedAs

\* Lists that differ at one place do so with the same before them or after them.
LEMMA OneOffJoined ==
  ASSUME NEW T, NEW a \in Seq(T), NEW s \in Seq(T), NEW t \in Seq(T), NEW p, OneOff(s, t, p)
  PROVE  OneOff(a \o s, a \o t, Len(a) + p) /\ OneOff(s \o a, t \o a, p)
<1>1. PICK m \in Nat, n \in Nat : m = Len(a) /\ n = Len(s) /\ n = Len(t)
  <2>1. Len(a) \in Nat /\ Len(s) \in Nat /\ Len(s) = Len(t)
    BY LenProperties DEF OneOff
  <2>. QED
    BY <2>1
<1>2. p \in 1..n /\ s[p] # t[p] /\ \A i \in 1..n : i # p => s[i] = t[i]
  BY <1>1 DEF OneOff
<1>3. PICK u \in Seq(T), v \in Seq(T) :
        /\ u = a \o s /\ v = a \o t /\ Len(u) = m + n /\ Len(v) = m + n
        /\ (\A i \in 1..m : u[i] = a[i] /\ v[i] = a[i]) /\ \A i \in 1..n : u[m + i] = s[i] /\ v[m + i] = t[i]
  <2>0. Len(a) = m /\ Len(s) = n /\ Len(t) = n
    BY <1>1
  <2>1. PICK u \in Seq(T) : u = a \o s /\ JoinedAs(u, a, s, m, n)
    BY <2>0, JoinedParts
  <2>2. PICK v \in Seq(T) : v = a \o t /\ JoinedAs(v, a, t, m, n)
    BY <2>0, JoinedParts
  <2>. QED
    BY <2>1, <2>2 DEF JoinedAs
<1>4. PICK x \in Seq(T), y \in Seq(T) :
        /\ x = s \o a /\ y = t \o a /\ Len(x) = n + m /\ Len(y) = n + m
        /\ (\A i \in 1..n : x[i] = s[i] /\ y[i] = t[i]) /\ \A i \in 1..m : x[n + i] = a[i] /\ y[n + i] = a[i]
  <2>0. Len(a) = m /\ Len(s) = n /\ Len(t) = n
    BY <1>1
  <2>1. PICK x \in Seq(T) : x = s \o a /\ JoinedAs(x, s, a, n, m)
    BY <2>0, JoinedParts
  <2>2. PICK y \in Seq(T) : y = t \o a /\ JoinedAs(y, t, a, n, m)
    BY <2>0, JoinedParts
  <2>. QED
    BY <2>1, <2>2 DEF JoinedAs
<1>5. OneOff(u, v, m + p)
  <2>1. m + p \in 1..(m + n) /\ u[m + p] # v[m + p]
    BY <1>2, <1>3
  <2>2. ASSUME NEW i \in 1..(m + n), i # m + p PROVE u[i] = v[i]
    <3>1. CASE i <= m
      <4>1. i \in 1..m
        BY <3>1
      <4>. QED
        BY <1>3, <4>1
    <3>2. CASE i > m
      <4>1. i - m \in 1..n /\ m + (i - m) = i /\ i - m # p
        BY <1>2, <2>2, <3>2
      <4>2. u[m + (i - m)] = s[i - m] /\ v[m + (i - m)] = t[i - m]
        BY <1>3, <4>1
      <4>. QED
        BY <1>2, <4>1, <4>2
    <3>. QED
      BY <3>1, <3>2
  <2>. QED
    BY <1>3, <2>1, <2>2 DEF OneOff
<1>6. OneOff(x, y, p)
  <2>1. p \in 1..(n + m) /\ x[p] # y[p]
    BY <1>2, <1>4
  <2>2. ASSUME NEW i \in 1..(n + m), i # p PROVE x[i] = y[i]
    <3>1. CASE i <= n
      <4>1. i \in 1..n
        BY <3>1
      <4>. QED
        BY <1>2, <1>4, <2>2, <4>1
    <3>2. CASE i > n
      <4>1. i - n \in 1..m /\ n + (i - n) = i
        BY <3>2
      <4>2. x[n + (i - n)] = a[i - n] /\ y[n + (i - n)] = a[i - n]
        BY <1>4, <4>1
      <4>. QED
        BY <4>1, <4>2
    <3>. QED
      BY <3>1, <3>2
  <2>. QED
    BY <1>4, <2>1, <2>2 DEF OneOff
<1>. QED
  BY <1>1, <1>3, <1>4, <1>5, <1>6

\* Letters are the same where their symbols are.
LEMMA LettersApart ==
  ASSUME NEW s \in Seq(Symbol), NEW t \in Seq(Symbol), Len(s) = Len(t), NEW i \in 1..Len(s)
  PROVE  Letters(s)[i] = Letters(t)[i] <=> s[i] = t[i]
<1>1. PICK n \in Nat : n = Len(s) /\ DOMAIN s = 1..n /\ DOMAIN t = 1..n
  BY LenProperties
<1>2. PICK x \in Symbol, y \in Symbol : x = s[i] /\ y = t[i]
  BY <1>1, ElementOfSeq
<1>3. Letters(s)[i] = Charset[x + 1] /\ Letters(t)[i] = Charset[y + 1]
  BY <1>1, <1>2 DEF Letters
<1>4. PICK j \in 1..32, k \in 1..32 : j = x + 1 /\ k = y + 1
  BY DEF Symbol
<1>5. Charset[j] = Charset[k] => j = k
  <2>1. \A v, w \in 1..32 : Charset[v] = Charset[w] => v = w
    BY CharsetIs
  <2>. QED
    BY <2>1
<1>6. j = k <=> x = y
  BY <1>4 DEF Symbol
<1>. QED
  BY <1>2, <1>3, <1>4, <1>5, <1>6

\* Two human-readable parts that differ at one place, in the lower bits of it alone.
LEMMA ExpandedOff ==
  ASSUME NEW h \in Seq(Octet), NEW g \in Seq(Octet), NEW p, OneOff(h, g, p), h[p] \div 32 = g[p] \div 32
  PROVE  OneOff(hrp_expand(h), hrp_expand(g), (Len(h) + 1) + p)
<1>1. PICK n \in Nat : n = Len(h) /\ n = Len(g)
  <2>1. Len(h) \in Nat /\ Len(h) = Len(g)
    BY LenProperties DEF OneOff
  <2>. QED
    BY <2>1
<1>2. p \in 1..n /\ h[p] # g[p] /\ \A i \in 1..n : i # p => h[i] = g[i]
  BY <1>1 DEF OneOff
<1>3. PICK t \in Seq(Symbol), l \in Seq(Symbol), z \in Seq(Symbol) :
        /\ t = Tops(h) /\ l = Lows(h) /\ z = t \o <<0>> /\ Len(t) = n /\ Len(l) = n /\ Len(z) = n + 1
        /\ hrp_expand(h) = z \o l /\ \A i \in 1..n : t[i] = h[i] \div 32 /\ l[i] = h[i] % 32
  <2>1. /\ Tops(h) \in Seq(Symbol) /\ Lows(h) \in Seq(Symbol) /\ Len(Tops(h)) = Len(h) /\ Len(Lows(h)) = Len(h)
        /\ Tops(h) \o <<0>> \in Seq(Symbol) /\ Len(Tops(h) \o <<0>>) = Len(h) + 1
        /\ hrp_expand(h) = (Tops(h) \o <<0>>) \o Lows(h)
        /\ \A i \in 1..Len(h) : Tops(h)[i] = h[i] \div 32 /\ Lows(h)[i] = h[i] % 32
    BY ExpandIs
  <2>2. PICK t, l, z : t = Tops(h) /\ l = Lows(h) /\ z = Tops(h) \o <<0>>
    OBVIOUS
  <2>3. /\ t \in Seq(Symbol) /\ l \in Seq(Symbol) /\ z \in Seq(Symbol)
        /\ Len(t) = n /\ Len(l) = n /\ Len(z) = n + 1 /\ z = t \o <<0>> /\ hrp_expand(h) = z \o l
    BY <1>1, <2>1, <2>2
  <2>4. \A i \in 1..n : t[i] = h[i] \div 32 /\ l[i] = h[i] % 32
    BY <1>1, <2>1, <2>2
  <2>. QED
    BY <2>2, <2>3, <2>4
<1>4. PICK u \in Seq(Symbol), m \in Seq(Symbol) :
        /\ u = Tops(g) /\ m = Lows(g) /\ Len(u) = n /\ Len(m) = n
        /\ hrp_expand(g) = (u \o <<0>>) \o m /\ \A i \in 1..n : u[i] = g[i] \div 32 /\ m[i] = g[i] % 32
  <2>1. /\ Tops(g) \in Seq(Symbol) /\ Lows(g) \in Seq(Symbol) /\ Len(Tops(g)) = Len(g) /\ Len(Lows(g)) = Len(g)
        /\ hrp_expand(g) = (Tops(g) \o <<0>>) \o Lows(g)
        /\ \A i \in 1..Len(g) : Tops(g)[i] = g[i] \div 32 /\ Lows(g)[i] = g[i] % 32
    BY ExpandIs
  <2>2. PICK u, m : u = Tops(g) /\ m = Lows(g)
    OBVIOUS
  <2>3. /\ u \in Seq(Symbol) /\ m \in Seq(Symbol) /\ Len(u) = n /\ Len(m) = n
        /\ hrp_expand(g) = (u \o <<0>>) \o m
    BY <1>1, <2>1, <2>2
  <2>4. \A i \in 1..n : u[i] = g[i] \div 32 /\ m[i] = g[i] % 32
    BY <1>1, <2>1, <2>2
  <2>. QED
    BY <2>2, <2>3, <2>4
<1>5. t = u
  <2>1. \A i \in 1..n : t[i] = u[i]
    <3>1. \A i \in 1..n : h[i] \div 32 = g[i] \div 32
      BY <1>2
    <3>. QED
      BY <1>3, <1>4, <3>1
  <2>2. Len(t) = Len(u) /\ \A i \in 1..Len(t) : t[i] = u[i]
    BY <1>3, <1>4, <2>1
  <2>. QED
    BY <2>2, SeqEqual
<1>6. OneOff(l, m, p)
  <2>1. h[p] % 32 # g[p] % 32
    <3>1. PICK x \in Nat, y \in Nat : x = h[p] /\ y = g[p]
      <4>1. h[p] \in Octet /\ g[p] \in Octet
        BY <1>1, <1>2, ElementOfSeq
      <4>2. Octet \subseteq Nat
        BY DEF Octet
      <4>. QED
        BY <4>1, <4>2
    <3>2. x = (x \div 32) * 32 + (x % 32) /\ y = (y \div 32) * 32 + (y % 32)
      <4>1. 32 \in Nat /\ 0 < 32
        OBVIOUS
      <4>. QED
        BY <4>1, Quotient
    <3>3. x # y /\ x \div 32 = y \div 32
      BY <1>2, <3>1
    <3>. QED
      BY <3>1, <3>2, <3>3
  <2>2. l[p] # m[p]
    BY <1>2, <1>3, <1>4, <2>1
  <2>3. \A i \in 1..n : i # p => l[i] = m[i]
    <3>1. \A i \in 1..n : i # p => h[i] % 32 = g[i] % 32
      BY <1>2
    <3>. QED
      BY <1>3, <1>4, <3>1
  <2>. QED
    BY <1>2, <1>3, <1>4, <2>2, <2>3 DEF OneOff
<1>7. OneOff(z \o l, z \o m, Len(z) + p)
  BY <1>6, OneOffJoined
<1>. QED
  BY <1>1, <1>3, <1>4, <1>5, <1>7

\* Two texts cut at the same place that differ at one other: what is checked does too.
LEMMA CheckedOff ==
  ASSUME NEW h \in Seq(Octet), NEW g \in Seq(Octet), Len(h) = Len(g),
         NEW d \in Seq(Symbol), NEW e \in Seq(Symbol), NEW p,
         OneOff(Spliced(h, Letters(d)), Spliced(g, Letters(e)), p),
         p <= Len(h) => h[p] \div 32 = g[p] \div 32
  PROVE  \E q : OneOff(hrp_expand(h) \o d, hrp_expand(g) \o e, q)
<1>1. PICK a \in Seq(Octet), b \in Seq(Octet) :
        a = Letters(d) /\ b = Letters(e) /\ Len(a) = Len(d) /\ Len(b) = Len(e)
  <2>1. Letters(d) \in Seq(Octet) /\ Len(Letters(d)) = Len(d)
    BY LettersAre
  <2>2. Letters(e) \in Seq(Octet) /\ Len(Letters(e)) = Len(e)
    BY LettersAre
  <2>. QED
    BY <2>1, <2>2
<1>2. PICK m \in Nat, n \in Nat, k \in Nat : m = Len(h) /\ m = Len(g) /\ n = Len(d) /\ k = Len(e)
  <2>1. Len(h) \in Nat /\ Len(d) \in Nat /\ Len(e) \in Nat
    BY LenProperties
  <2>. QED
    BY <2>1
<1>3. PICK s \in Seq(Octet) : /\ s = Spliced(h, a) /\ Len(s) = m + 1 + n
                              /\ (\A i \in 1..m : s[i] = h[i]) /\ s[m + 1] = Separator
                              /\ \A i \in 1..n : s[m + 1 + i] = a[i]
  <2>1. /\ Spliced(h, a) \in Seq(Octet) /\ Len(Spliced(h, a)) = Len(h) + 1 + Len(a)
        /\ \A i \in 1..Len(h) : Spliced(h, a)[i] = h[i]
        /\ Spliced(h, a)[Len(h) + 1] = Separator
        /\ \A i \in 1..Len(a) : Spliced(h, a)[Len(h) + 1 + i] = a[i]
    BY SplicedIs
  <2>. QED
    BY <1>1, <1>2, <2>1
<1>4. PICK t \in Seq(Octet) : /\ t = Spliced(g, b) /\ Len(t) = m + 1 + k
                              /\ (\A i \in 1..m : t[i] = g[i]) /\ t[m + 1] = Separator
                              /\ \A i \in 1..k : t[m + 1 + i] = b[i]
  <2>1. /\ Spliced(g, b) \in Seq(Octet) /\ Len(Spliced(g, b)) = Len(g) + 1 + Len(b)
        /\ \A i \in 1..Len(g) : Spliced(g, b)[i] = g[i]
        /\ Spliced(g, b)[Len(g) + 1] = Separator
        /\ \A i \in 1..Len(b) : Spliced(g, b)[Len(g) + 1 + i] = b[i]
    BY SplicedIs
  <2>. QED
    BY <1>1, <1>2, <2>1
<1>5. /\ Len(s) = Len(t) /\ p \in 1..(m + 1 + n) /\ s[p] # t[p]
      /\ \A i \in 1..(m + 1 + n) : i # p => s[i] = t[i]
  <2>1. OneOff(s, t, p)
    BY <1>1, <1>3, <1>4
  <2>. QED
    BY <1>3, <2>1 DEF OneOff
<1>6. n = k
  BY <1>3, <1>4, <1>5
<1>7. ASSUME NEW i \in 1..n PROVE (s[m + 1 + i] = t[m + 1 + i] <=> d[i] = e[i]) /\ m + 1 + i \in 1..(m + 1 + n)
  <2>1. s[m + 1 + i] = a[i] /\ t[m + 1 + i] = b[i]
    BY <1>3, <1>4, <1>6
  <2>2. Letters(d)[i] = Letters(e)[i] <=> d[i] = e[i]
    BY <1>2, <1>6, LettersApart
  <2>. QED
    BY <1>1, <2>1, <2>2
<1>8. PICK u \in Seq(Symbol), v \in Seq(Symbol) : u = hrp_expand(h) /\ v = hrp_expand(g)
  BY ExpandIs
<1>9. CASE p <= m
  <2>1. p \in 1..m
    BY <1>5, <1>9
  <2>2. OneOff(h, g, p)
    <3>1. h[p] # g[p]
      BY <1>3, <1>4, <1>5, <2>1
    <3>2. \A i \in 1..m : i # p => h[i] = g[i]
      BY <1>3, <1>4, <1>5
    <3>. QED
      BY <1>2, <2>1, <3>1, <3>2 DEF OneOff
  <2>3. OneOff(u, v, (Len(h) + 1) + p)
    <3>1. h[p] \div 32 = g[p] \div 32
      BY <1>2, <1>9
    <3>2. OneOff(hrp_expand(h), hrp_expand(g), (Len(h) + 1) + p)
      BY <2>2, <3>1, ExpandedOff
    <3>. QED
      BY <1>8, <3>2
  <2>4. d = e
    <3>1. \A i \in 1..n : d[i] = e[i]
      <4>1. \A i \in 1..n : m + 1 + i # p
        BY <1>9
      <4>. QED
        BY <1>5, <1>7, <4>1
    <3>2. Len(d) = Len(e) /\ \A i \in 1..Len(d) : d[i] = e[i]
      BY <1>2, <1>6, <3>1
    <3>. QED
      BY <3>2, SeqEqual
  <2>5. OneOff(u \o d, v \o d, (Len(h) + 1) + p)
    BY <2>3, OneOffJoined
  <2>. QED
    BY <1>8, <2>4, <2>5
<1>10. CASE p = m + 1
  BY <1>3, <1>4, <1>5, <1>10
<1>11. CASE p > m + 1
  <2>1. PICK q \in 1..n : m + 1 + q = p
    <3>1. p - (m + 1) \in 1..n /\ m + 1 + (p - (m + 1)) = p
      BY <1>5, <1>11
    <3>. QED
      BY <3>1
  <2>2. h = g
    <3>1. \A i \in 1..m : i # p /\ i \in 1..(m + 1 + n)
      BY <1>11
    <3>2. \A i \in 1..m : h[i] = g[i]
      BY <1>3, <1>4, <1>5, <3>1
    <3>3. Len(h) = Len(g) /\ \A i \in 1..Len(h) : h[i] = g[i]
      BY <1>2, <3>2
    <3>. QED
      BY <3>3, SeqEqual
  <2>3. OneOff(d, e, q)
    <3>1. d[q] # e[q]
      BY <1>5, <1>7, <2>1
    <3>2. ASSUME NEW i \in 1..n, i # q PROVE d[i] = e[i]
      <4>1. m + 1 + i # p
        BY <2>1, <3>2
      <4>. QED
        BY <1>5, <1>7, <4>1
    <3>. QED
      BY <1>2, <1>6, <3>1, <3>2 DEF OneOff
  <2>4. OneOff(u \o d, u \o e, Len(u) + q)
    BY <2>3, OneOffJoined
  <2>. QED
    BY <1>8, <2>2, <2>4
<1>12. p <= m \/ p = m + 1 \/ p > m + 1
  BY <1>5
<1>. QED
  BY <1>9, <1>10, <1>11, <1>12

\* What is checked is symbols, the checksum after the rest.
LEMMA CheckedParts ==
  ASSUME NEW h \in Seq(Octet), NEW d \in Seq(Symbol), NEW c \in Vectors
  PROVE  /\ hrp_expand(h) \o (d \o c) \in Seq(Symbol)
         /\ hrp_expand(h) \o (d \o c) = (hrp_expand(h) \o d) \o c
<1>1. PICK u \in Seq(Symbol) : u = hrp_expand(h)
  BY ExpandIs
<1>2. PICK w \in Seq(Symbol) : w = c
  BY VectorParts
<1>3. (u \o d) \o w = u \o (d \o w)
  BY ThreeJoined
<1>4. d \o w \in Seq(Symbol)
  BY Concats
<1>5. u \o (d \o w) \in Seq(Symbol)
  BY <1>4, Concats
<1>. QED
  BY <1>1, <1>2, <1>3, <1>5

\* A text that decodes never does with one symbol wrong, wherever it is, be it a letter of
\* the human-readable part for another, and never as one of the other specification.
THEOREM Bech32TypoCaught ==
  ASSUME NEW text \in Seq(Octet), NEW spec, bech32_decode(text, spec).ok
  PROVE  /\ \A typo \in Seq(Octet) : \A p :
              /\ OneOff(Lower(text), Lower(typo), p)
              /\ SeparatorAt(Lower(text)) = SeparatorAt(Lower(typo))
              /\ p < SeparatorAt(Lower(text)) => Lower(text)[p] \div 32 = Lower(typo)[p] \div 32
              => ~bech32_decode(typo, spec).ok
         /\ \A other : ChecksumConst(other) # ChecksumConst(spec) => ~bech32_decode(text, other).ok
<1>1. ASSUME NEW typo \in Seq(Octet), NEW p, OneOff(Lower(text), Lower(typo), p),
             SeparatorAt(Lower(text)) = SeparatorAt(Lower(typo)),
             p < SeparatorAt(Lower(text)) => Lower(text)[p] \div 32 = Lower(typo)[p] \div 32,
             bech32_decode(typo, spec).ok
      PROVE  FALSE
  <2>1. PICK h \in Seq(Octet), d \in Seq(Symbol), c \in Vectors, raw \in Seq(Octet) : Made(text, spec, h, d, c, raw)
    BY DecodedIsMade
  <2>2. PICK g \in Seq(Octet), e \in Seq(Symbol), f \in Vectors, row \in Seq(Octet) : Made(typo, spec, g, e, f, row)
    BY <1>1, DecodedIsMade
  <2>3. PICK x \in Seq(Symbol), y \in Seq(Symbol) : x = d \o c /\ y = e \o f
    <3>1. c \in Seq(Symbol) /\ f \in Seq(Symbol)
      BY VectorParts
    <3>. QED
      BY <3>1, Concats
  <2>4. /\ Lower(text) = Spliced(h, Letters(x)) /\ Lower(typo) = Spliced(g, Letters(y))
        /\ SeparatorAt(Lower(text)) = Len(h) + 1 /\ SeparatorAt(Lower(typo)) = Len(g) + 1
    BY <2>1, <2>2, <2>3 DEF Made
  <2>5. PICK m \in Nat : m = Len(h) /\ m = Len(g)
    <3>1. Len(h) \in Nat /\ Len(g) \in Nat
      BY LenProperties
    <3>. QED
      BY <1>1, <2>4, <3>1
  <2>6. OneOff(Spliced(h, Letters(x)), Spliced(g, Letters(y)), p)
    BY <1>1, <2>4
  <2>7. p <= Len(h) => h[p] \div 32 = g[p] \div 32
    <3>. SUFFICES ASSUME p <= m PROVE h[p] \div 32 = g[p] \div 32
      BY <2>5
    <3>1. p \in 1..Len(Lower(text))
      BY <1>1 DEF OneOff
    <3>2. Lower(text) \in Seq(Octet)
      BY LowerIs
    <3>3. p \in 1..m /\ p < m + 1
      <4>1. PICK k \in Nat : k = Len(Lower(text))
        BY <3>2, LenProperties
      <4>. QED
        BY <3>1, <4>1
    <3>4. Lower(text)[p] \div 32 = Lower(typo)[p] \div 32
      BY <1>1, <2>4, <2>5, <3>3
    <3>5. PICK a \in Seq(Octet), b \in Seq(Octet) : a = Letters(x) /\ b = Letters(y)
      BY LettersAre
    <3>6. Spliced(h, a)[p] = h[p]
      <4>1. \A i \in 1..Len(h) : Spliced(h, a)[i] = h[i]
        BY SplicedIs
      <4>. QED
        BY <2>5, <3>3, <4>1
    <3>7. Spliced(g, b)[p] = g[p]
      <4>1. \A i \in 1..Len(g) : Spliced(g, b)[i] = g[i]
        BY SplicedIs
      <4>. QED
        BY <2>5, <3>3, <4>1
    <3>. QED
      BY <2>4, <3>4, <3>5, <3>6, <3>7
  <2>8. PICK q : OneOff(hrp_expand(h) \o x, hrp_expand(g) \o y, q)
    BY <2>5, <2>6, <2>7, CheckedOff
  <2>9. PICK s \in Seq(Symbol), t \in Seq(Symbol) :
          /\ s = hrp_expand(h) \o x /\ t = hrp_expand(g) \o y
          /\ bech32_polymod(s) = ChecksumConst(spec) /\ bech32_polymod(t) = ChecksumConst(spec)
    <3>1. hrp_expand(h) \o x \in Seq(Symbol) /\ hrp_expand(h) \o x = (hrp_expand(h) \o d) \o c
      BY <2>3, CheckedParts
    <3>2. hrp_expand(g) \o y \in Seq(Symbol) /\ hrp_expand(g) \o y = (hrp_expand(g) \o e) \o f
      BY <2>3, CheckedParts
    <3>3. /\ bech32_polymod((hrp_expand(h) \o d) \o c) = ChecksumConst(spec)
          /\ bech32_polymod((hrp_expand(g) \o e) \o f) = ChecksumConst(spec)
      BY <2>1, <2>2 DEF Made
    <3>. QED
      BY <3>1, <3>2, <3>3
  <2>10. bech32_polymod(s) # bech32_polymod(t)
    <3>1. /\ Len(s) = Len(t) /\ q \in 1..Len(s) /\ s[q] # t[q]
          /\ \A i \in 1..Len(s) : i # q => s[i] = t[i]
      BY <2>8, <2>9 DEF OneOff
    <3>. QED
      BY <3>1, SymbolWrong
  <2>. QED
    BY <2>9, <2>10
<1>2. ASSUME NEW other, ChecksumConst(other) # ChecksumConst(spec), bech32_decode(text, other).ok PROVE FALSE
  <2>1. PICK low, pos, h, data, raw : Cut(text, low, pos, h, data, raw)
    BY DEF Cut
  <2>2. Raise.ok = FALSE
    BY DEF Raise
  <2>3. Taken(text, spec, low, pos, h, data, raw)
    BY <2>1, <2>2, DecodeIs
  <2>4. Taken(text, other, low, pos, h, data, raw)
    BY <1>2, <2>1, <2>2, DecodeIs
  <2>. QED
    BY <1>2, <2>3, <2>4 DEF Taken
<1>. QED
  BY <1>1, <1>2

-----------------------------------------------------------------------------
(* Numbers in a base, with the zeros before them.                          *)

\* The digits of a base.
Below(base) == 0..(base - 1)

\* A list with one more at its end.
LEMMA AppendedIs ==
  ASSUME NEW T, NEW s \in Seq(T), NEW x \in T, NEW k \in Nat, Len(s) = k
  PROVE  /\ Append(s, x) \in Seq(T) /\ Len(Append(s, x)) = k + 1 /\ Append(s, x)[k + 1] = x
         /\ \A i \in 1..k : Append(s, x)[i] = s[i]
         /\ \A z \in Seq(T) : z \o Append(s, x) = Append(z \o s, x)
<1>1. /\ Append(s, x) \in Seq(T) /\ Len(Append(s, x)) = Len(s) + 1 /\ Append(s, x)[Len(s) + 1] = x
      /\ \A i \in 1..Len(s) : Append(s, x)[i] = s[i]
  BY AppendProperties
<1>2. ASSUME NEW z \in Seq(T) PROVE z \o Append(s, x) = Append(z \o s, x)
  OBVIOUS
<1>. QED
  BY <1>1, <1>2

\* The digits of a number that is not zero begin with one that is not.
LEMMA SpelledFirst ==
  ASSUME NEW base \in Nat, 1 < base, NEW n \in Nat
  PROVE  /\ n = 0 => Spelled(n, base) = <<>>
         /\ n # 0 => Spelled(n, base) # <<>> /\ Spelled(n, base)[1] # 0
<1>. DEFINE X == {m \in Nat : m # 0 => Spelled(m, base) # <<>> /\ Spelled(m, base)[1] # 0}
<1>1. ASSUME NEW m \in Nat, \A k \in Nat : k < m => k \in X
      PROVE  m \in X
  <2>. SUFFICES ASSUME m # 0 PROVE Spelled(m, base) # <<>> /\ Spelled(m, base)[1] # 0
    OBVIOUS
  <2>1. PICK q \in Nat, r \in Nat : q = m \div base /\ r = m % base /\ m = q * base + r /\ r < base
    <3>1. 0 < base
      OBVIOUS
    <3>. QED
      BY <3>1, Quotient
  <2>2. PICK d \in Seq(Nat) : d = Spelled(q, base)
    BY SpelledTyped
  <2>3. Spelled(m, base) = Append(d, r)
    BY <2>1, <2>2, SpelledUnfolds
  <2>4. PICK k \in Nat : k = Len(d)
    BY LenProperties
  <2>5. PICK e \in Seq(Nat) : e = Append(d, r) /\ Len(e) = k + 1 /\ e[k + 1] = r /\ \A i \in 1..k : e[i] = d[i]
    <3>1. /\ Append(d, r) \in Seq(Nat) /\ Len(Append(d, r)) = k + 1 /\ Append(d, r)[k + 1] = r
          /\ \A i \in 1..k : Append(d, r)[i] = d[i]
      BY <2>4, AppendedIs
    <3>2. PICK e \in Seq(Nat) : e = Append(d, r)
      BY <3>1
    <3>. QED
      BY <3>1, <3>2
  <2>6. e # <<>>
    BY <2>5, EmptySeq
  <2>7. CASE q = 0
    <3>1. d = <<>>
      BY <2>2, <2>7, SpelledUnfolds
    <3>2. k = 0
      BY <2>4, <3>1
    <3>3. r # 0
      BY <2>1, <2>7
    <3>. QED
      BY <2>3, <2>5, <2>6, <3>2, <3>3
  <2>8. CASE q # 0
    <3>1. q < m
      BY <2>1, <2>8, QuotientLess
    <3>2. d # <<>> /\ d[1] # 0
      BY <1>1, <2>2, <2>8, <3>1
    <3>3. 1 \in 1..k
      BY <2>4, <3>2, EmptySeq
    <3>. QED
      BY <2>3, <2>5, <2>6, <3>2, <3>3
  <2>. QED
    BY <2>7, <2>8
<1>. HIDE DEF X
<1>2. Nat \subseteq X
  BY <1>1, Induction
<1>3. n # 0 => Spelled(n, base) # <<>> /\ Spelled(n, base)[1] # 0
  BY <1>2 DEF X
<1>4. n = 0 => Spelled(n, base) = <<>>
  BY SpelledUnfolds
<1>. QED
  BY <1>3, <1>4

\* Zeros are digits.
LEMMA ZerosBelow ==
  ASSUME NEW base \in Nat, 1 < base, NEW l \in Nat
  PROVE  /\ Repeat(0, l) \in Seq(Below(base)) /\ Repeat(0, l) \in Seq(Nat) /\ Len(Repeat(0, l)) = l
         /\ \A i \in 1..l : Repeat(0, l)[i] = 0
         /\ Repeat(0, l + 1) = Append(Repeat(0, l), 0)
<1>1. PICK z : z = Repeat(0, l)
  OBVIOUS
<1>2. z = [i \in 1..l |-> 0]
  BY <1>1 DEF Repeat
<1>3. 0 \in Below(base)
  BY DEF Below
<1>4. z \in [1..l -> Below(base)] /\ z \in [1..l -> Nat]
  BY <1>2, <1>3
<1>5. z \in Seq(Below(base)) /\ z \in Seq(Nat) /\ Len(z) = l
  BY <1>4
<1>6. PICK y \in Seq(Nat) : y = Append(z, 0) /\ Len(y) = l + 1 /\ y[l + 1] = 0 /\ \A i \in 1..l : y[i] = z[i]
  <2>1. /\ Append(z, 0) \in Seq(Nat) /\ Len(Append(z, 0)) = l + 1 /\ Append(z, 0)[l + 1] = 0
        /\ \A i \in 1..l : Append(z, 0)[i] = z[i]
    BY <1>5, AppendedIs
  <2>2. PICK y \in Seq(Nat) : y = Append(z, 0)
    BY <2>1
  <2>. QED
    BY <2>1, <2>2
<1>7. y = [i \in 1..(l + 1) |-> 0]
  <2>1. y = [i \in 1..(l + 1) |-> y[i]]
    <3>1. y = [i \in 1..Len(y) |-> y[i]]
      OBVIOUS
    <3>. QED
      BY <1>6, <3>1
  <2>2. ASSUME NEW i \in 1..(l + 1) PROVE y[i] = 0
    <3>1. CASE i = l + 1
      BY <1>6, <3>1
    <3>2. CASE i # l + 1
      <4>1. i \in 1..l
        BY <3>2
      <4>. QED
        BY <1>2, <1>6, <4>1
    <3>. QED
      BY <3>1, <3>2
  <2>. QED
    BY <2>1, <2>2
<1>8. Repeat(0, l + 1) = y
  BY <1>7 DEF Repeat
<1>. QED
  BY <1>1, <1>2, <1>5, <1>6, <1>8

\* Zeros before digits do not change the number.
LEMMA NumberLed ==
  ASSUME NEW base \in Nat, 1 < base, NEW l \in Nat, NEW d \in Seq(Below(base))
  PROVE  Number(Repeat(0, l) \o d, base) = Number(d, base)
<1>0. Below(base) \subseteq Nat /\ \A u \in Seq(Below(base)) : u \in Seq(Nat)
  <2>1. Below(base) \subseteq Nat
    BY DEF Below
  <2>. QED
    BY <2>1, SeqMonotonic
<1>1. PICK z \in Seq(Below(base)) : z = Repeat(0, l) /\ z \in Seq(Nat)
  BY ZerosBelow
<1>2. Number(z, base) = 0
  <2>. DEFINE Y == {k \in Nat : Number(Repeat(0, k), base) = 0}
  <2>1. 0 \in Y
    <3>1. Repeat(0, 0) = <<>>
      <4>1. Repeat(0, 0) \in Seq(Nat) /\ Len(Repeat(0, 0)) = 0
        BY ZerosBelow
      <4>. QED
        BY <4>1, EmptySeq
    <3>2. Number(<<>>, base) = 0
      BY <1>1, NumberOf
    <3>. QED
      BY <3>1, <3>2
  <2>2. ASSUME NEW k \in Nat, k \in Y PROVE k + 1 \in Y
    <3>1. PICK y \in Seq(Nat) : y = Repeat(0, k) /\ Repeat(0, k + 1) = Append(y, 0)
      BY ZerosBelow
    <3>2. Number(Append(y, 0), base) = Number(y, base) * base + 0
      <4>1. 0 \in Nat
        OBVIOUS
      <4>. QED
        BY <4>1, NumberOf
    <3>3. Number(y, base) = 0
      BY <2>2, <3>1
    <3>4. 0 * base + 0 = 0 /\ k + 1 \in Nat
      OBVIOUS
    <3>. QED
      BY <3>1, <3>2, <3>3, <3>4
  <2>. HIDE DEF Y
  <2>3. Nat \subseteq Y
    BY <2>1, <2>2, StepInduction
  <2>. QED
    BY <1>1, <2>3 DEF Y
<1>. DEFINE X == {n \in Nat : \A u \in Seq(Below(base)) : Len(u) = n => Number(z \o u, base) = Number(u, base)}
<1>3. 0 \in X
  <2>. SUFFICES ASSUME NEW u \in Seq(Below(base)), Len(u) = 0 PROVE Number(z \o u, base) = Number(u, base)
    OBVIOUS
  <2>1. u = <<>>
    BY EmptySeq
  <2>2. z \o <<>> = z
    BY <1>1
  <2>3. Number(<<>>, base) = 0
    BY <1>1, NumberOf
  <2>. QED
    BY <1>2, <2>1, <2>2, <2>3
<1>4. ASSUME NEW n \in Nat, n \in X PROVE n + 1 \in X
  <2>. SUFFICES ASSUME NEW u \in Seq(Below(base)), Len(u) = n + 1 PROVE Number(z \o u, base) = Number(u, base)
    OBVIOUS
  <2>1. PICK p \in Seq(Below(base)), x \in Below(base) : u = Append(p, x) /\ Len(p) = n
    <3>1. u # <<>>
      OBVIOUS
    <3>2. SubSeq(u, 1, n) \in Seq(Below(base)) /\ Len(SubSeq(u, 1, n)) = n
          /\ u = Append(SubSeq(u, 1, n), u[n + 1]) /\ u[n + 1] \in Below(base)
      BY <3>1, LastSplit
    <3>. QED
      BY <3>2
  <2>2. p \in Seq(Nat) /\ x \in Nat
    BY <1>0
  <2>3. PICK y \in Seq(Nat) : y = z \o p
    <3>1. z \o p \in Seq(Nat)
      BY <1>1, <2>2, Concats
    <3>. QED
      BY <3>1
  <2>4. z \o u = Append(y, x)
    <3>1. z \o Append(p, x) = Append(z \o p, x)
      BY <2>1, AppendedIs
    <3>. QED
      BY <2>1, <2>3, <3>1
  <2>5. Number(Append(y, x), base) = Number(y, base) * base + x
    BY <2>2, NumberOf
  <2>6. Number(Append(p, x), base) = Number(p, base) * base + x
    BY <2>2, NumberOf
  <2>7. Number(y, base) = Number(p, base)
    BY <1>4, <2>1, <2>3
  <2>. QED
    BY <2>1, <2>4, <2>5, <2>6, <2>7
<1>. HIDE DEF X
<1>5. Nat \subseteq X
  BY <1>3, <1>4, StepInduction
<1>6. Len(d) \in Nat
  BY LenProperties
<1>7. Number(z \o d, base) = Number(d, base)
  BY <1>5, <1>6 DEF X
<1>. QED
  BY <1>1, <1>7


\* The place from which on no element passes for a zero.
LEMMA LeadIs ==
  ASSUME NEW s \in Seq(Nat), NEW l \in Nat, l <= Len(s), \A i \in 1..l : s[i] = 0,
         l < Len(s) => s[l + 1] # 0
  PROVE  LeadLen(s, IsZero) = l
<1>1. PICK n \in Nat : n = Len(s) /\ DOMAIN s = 1..n
  BY LenProperties
<1>. DEFINE T == {i \in 1..n : s[i] # 0}
<1>2. LeadLen(s, IsZero) = IF T = {} THEN n ELSE Min(T) - 1
  BY <1>1 DEF LeadLen, IsZero
<1>3. CASE l = n
  <2>1. T = {}
    BY <1>3
  <2>. HIDE DEF T
  <2>. QED
    BY <1>2, <1>3, <2>1
<1>4. CASE l < n
  <2>1. l + 1 \in T
    BY <1>1, <1>4
  <2>2. \A i \in T : l + 1 <= i
    <3>1. ASSUME NEW i \in T, ~(l + 1 <= i) PROVE FALSE
      <4>1. i \in 1..l
        BY <3>1
      <4>. QED
        BY <3>1, <4>1
    <3>. QED
      BY <3>1
  <2>3. T \subseteq Nat /\ T # {}
    BY <2>1
  <2>. HIDE DEF T
  <2>4. Min(T) = l + 1
    <3>1. \A x, y \in T : (\A z \in T : x <= z) /\ (\A z \in T : y <= z) => x = y
      BY <2>3
    <3>. QED
      BY <2>1, <2>2, <3>1 DEF Min
  <2>5. (l + 1) - 1 = l
    OBVIOUS
  <2>. QED
    BY <1>2, <2>3, <2>4, <2>5
<1>. QED
  BY <1>1, <1>3, <1>4

\* Zeros and the digits of a number.
Led(l, n, base) == Repeat(0, l) \o Spelled(n, base)

\* They are read back as they are.
LEMMA LedIs ==
  ASSUME NEW base \in Nat, 1 < base, NEW l \in Nat, NEW n \in Nat
  PROVE  /\ Led(l, n, base) \in Seq(Below(base)) /\ Led(l, n, base) \in Seq(Nat)
         /\ LeadLen(Led(l, n, base), IsZero) = l /\ Number(Led(l, n, base), base) = n
<1>0. Below(base) \subseteq Nat
  BY DEF Below
<1>1. PICK z \in Seq(Below(base)) : z = Repeat(0, l) /\ Len(z) = l /\ \A i \in 1..l : z[i] = 0
  BY ZerosBelow
<1>2. PICK d \in Seq(Below(base)) : d = Spelled(n, base)
  BY SpelledTyped DEF Below
<1>3. PICK k \in Nat : k = Len(d)
  BY LenProperties
<1>4. /\ z \o d \in Seq(Below(base)) /\ Len(z \o d) = l + k
      /\ (\A i \in 1..l : (z \o d)[i] = 0) /\ \A i \in 1..k : (z \o d)[l + i] = d[i]
  <2>1. /\ z \o d \in Seq(Below(base)) /\ Len(z \o d) = Len(z) + Len(d)
        /\ (\A i \in 1..Len(z) : (z \o d)[i] = z[i]) /\ \A i \in 1..Len(d) : (z \o d)[Len(z) + i] = d[i]
    BY Concats
  <2>. QED
    BY <1>1, <1>3, <2>1
<1>5. PICK s \in Seq(Below(base)) : s = z \o d
  BY <1>4
<1>6. s \in Seq(Nat)
  BY <1>0, SeqMonotonic
<1>7. LeadLen(s, IsZero) = l
  <2>1. l <= Len(s) /\ \A i \in 1..l : s[i] = 0
    BY <1>4, <1>5
  <2>2. l < Len(s) => s[l + 1] # 0
    <3>. SUFFICES ASSUME l < Len(s) PROVE s[l + 1] # 0
      OBVIOUS
    <3>1. 1 \in 1..k
      BY <1>3, <1>4, <1>5
    <3>2. d # <<>>
      BY <1>3, <3>1, EmptySeq
    <3>3. d[1] # 0
      BY <1>2, <3>2, SpelledFirst
    <3>. QED
      BY <1>4, <1>5, <3>1, <3>3
  <2>. QED
    BY <1>6, <2>1, <2>2, LeadIs
<1>8. Number(s, base) = n
  <2>1. Number(Repeat(0, l) \o d, base) = Number(d, base)
    BY NumberLed
  <2>2. Number(Spelled(n, base), base) = n
    BY NumberSpelled
  <2>. QED
    BY <1>1, <1>2, <1>5, <2>1, <2>2
<1>. QED
  BY <1>1, <1>2, <1>5, <1>6, <1>7, <1>8 DEF Led

\* Any digits are zeros and the digits of their number.
LEMMA AllLed ==
  ASSUME NEW base \in Nat, 1 < base, NEW s \in Seq(Below(base))
  PROVE  /\ Number(s, base) \in Nat /\ LeadLen(s, IsZero) \in Nat
         /\ s = Led(LeadLen(s, IsZero), Number(s, base), base)
<1>0. Below(base) \subseteq Nat /\ \A u \in Seq(Below(base)) : u \in Seq(Nat)
  <2>1. Below(base) \subseteq Nat
    BY DEF Below
  <2>. QED
    BY <2>1, SeqMonotonic
<1>. DEFINE X == {n \in Nat : \A u \in Seq(Below(base)) :
                    Len(u) = n => \E l \in Nat : u = Led(l, Number(u, base), base)}
<1>1. 0 \in X
  <2>. SUFFICES ASSUME NEW u \in Seq(Below(base)), Len(u) = 0
                PROVE  u = Led(0, Number(u, base), base)
    OBVIOUS
  <2>1. u = <<>>
    BY EmptySeq
  <2>2. Number(<<>>, base) = 0
    BY <1>0, NumberOf
  <2>3. Spelled(0, base) = <<>>
    BY SpelledFirst
  <2>4. Repeat(0, 0) = <<>>
    <3>1. Repeat(0, 0) \in Seq(Nat) /\ Len(Repeat(0, 0)) = 0
      BY ZerosBelow
    <3>. QED
      BY <3>1, EmptySeq
  <2>5. <<>> \o <<>> = <<>>
    OBVIOUS
  <2>. QED
    BY <2>1, <2>2, <2>3, <2>4, <2>5 DEF Led
<1>2. ASSUME NEW n \in Nat, n \in X PROVE n + 1 \in X
  <2>. SUFFICES ASSUME NEW u \in Seq(Below(base)), Len(u) = n + 1
                PROVE  \E l \in Nat : u = Led(l, Number(u, base), base)
    OBVIOUS
  <2>1. PICK p \in Seq(Below(base)), x \in Below(base) : u = Append(p, x) /\ Len(p) = n
    <3>1. SubSeq(u, 1, n) \in Seq(Below(base)) /\ Len(SubSeq(u, 1, n)) = n
          /\ u = Append(SubSeq(u, 1, n), u[n + 1]) /\ u[n + 1] \in Below(base)
      BY LastSplit
    <3>. QED
      BY <3>1
  <2>2. p \in Seq(Nat) /\ x \in Nat /\ x < base
    <3>1. x < base
      BY DEF Below
    <3>. QED
      BY <1>0, <3>1
  <2>3. PICK v \in Nat : v = Number(p, base) /\ Number(u, base) = v * base + x
    BY <2>1, <2>2, NumberOf
  <2>4. PICK l \in Nat : p = Led(l, v, base)
    BY <1>2, <2>1, <2>3
  <2>5. PICK w \in Nat : w = v * base + x
    <3>1. \A a, b, c \in Nat : a * b + c \in Nat
      OBVIOUS
    <3>. QED
      BY <2>2, <3>1
  <2>6. w \div base = v /\ w % base = x
    <3>1. 0 < base /\ x \in 0..(base - 1)
      BY DEF Below
    <3>. QED
      BY <2>5, <3>1, QuotientIs
  <2>7. PICK z \in Seq(Nat) : z = Repeat(0, l) /\ Repeat(0, l + 1) = Append(z, 0)
    BY ZerosBelow
  <2>8. PICK d \in Seq(Nat) : d = Spelled(v, base)
    BY SpelledTyped
  <2>9. CASE w = 0
    <3>1. v = 0 /\ x = 0
      <4>1. 0 \div base = 0 /\ 0 % base = 0
        <5>1. 0 < base /\ 0 = 0 * base + 0 /\ 0 \in 0..(base - 1)
          OBVIOUS
        <5>. QED
          BY <5>1, QuotientIs
      <4>. QED
        BY <2>6, <2>9, <4>1
    <3>2. p = z
      <4>1. Spelled(0, base) = <<>>
        BY SpelledFirst
      <4>2. z \o <<>> = z
        OBVIOUS
      <4>. QED
        BY <2>4, <2>7, <3>1, <4>1, <4>2 DEF Led
    <3>3. u = Led(l + 1, 0, base)
      <4>1. Spelled(0, base) = <<>>
        BY SpelledFirst
      <4>2. Append(z, 0) \o <<>> = Append(z, 0)
        OBVIOUS
      <4>. QED
        BY <2>1, <2>7, <3>1, <3>2, <4>1, <4>2 DEF Led
    <3>. QED
      BY <2>3, <2>5, <2>9, <3>3
  <2>10. CASE w # 0
    <3>1. Spelled(w, base) = Append(d, x)
      BY <2>6, <2>8, <2>10, SpelledUnfolds
    <3>2. z \o Append(d, x) = Append(z \o d, x)
      <4>1. PICK k \in Nat : Len(d) = k
        BY LenProperties
      <4>2. PICK c \in Nat : c = x
        BY <2>2
      <4>3. \A y \in Seq(Nat) : y \o Append(d, c) = Append(y \o d, c)
        BY <4>1, AppendedIs
      <4>. QED
        BY <4>2, <4>3
    <3>3. u = Led(l, w, base)
      BY <2>1, <2>4, <2>7, <2>8, <3>1, <3>2 DEF Led
    <3>. QED
      BY <2>3, <2>5, <3>3
  <2>. QED
    BY <2>9, <2>10
<1>. HIDE DEF X
<1>3. Nat \subseteq X
  BY <1>1, <1>2, StepInduction
<1>4. Len(s) \in Nat
  BY LenProperties
<1>5. PICK l \in Nat : s = Led(l, Number(s, base), base)
  BY <1>3, <1>4 DEF X
<1>6. Number(s, base) \in Nat
  <2>1. 0 \in Nat
    OBVIOUS
  <2>. QED
    BY <1>0, <2>1, NumberOf
<1>7. LeadLen(s, IsZero) = l
  BY <1>5, <1>6, LedIs
<1>. QED
  BY <1>5, <1>6, <1>7

-----------------------------------------------------------------------------
(* base62, and any base, by an alphabet.                                   *)

Distinct(alphabet) == \A i, j \in 1..Len(alphabet) : alphabet[i] = alphabet[j] => i = j
\* The digits by their characters, and the characters by their places.
Written(digits, alphabet) == [i \in DOMAIN digits |-> alphabet[digits[i] + 1]]
PlaceOf(alphabet, c) == SelectLastInSeq(alphabet, LAMBDA a : a = c) - 1
SymbolsOf(text, alphabet) == [i \in DOMAIN text |-> PlaceOf(alphabet, text[i])]

\* How many of the first character come first.
FirstLen(text, alphabet) == LeadLen(text, LAMBDA c : c = alphabet[1])

\* In an alphabet without repetitions a character has one place.
LEMMA AlphabetIs ==
  ASSUME NEW S, NEW alphabet \in Seq(S), Distinct(alphabet)
  PROVE  /\ \A k \in 1..Len(alphabet) : /\ PlaceOf(alphabet, alphabet[k]) = k - 1
                                        /\ IndexOf(alphabet, alphabet[k]) >= 0
         /\ \A c : IndexOf(alphabet, c) >= 0 => \E k \in 1..Len(alphabet) : alphabet[k] = c
<1>1. PICK n \in Nat : n = Len(alphabet)
  BY LenProperties
<1>. DEFINE I(c) == {i \in 1..n : alphabet[i] = c}
<1>2. \A c : IndexOf(alphabet, c) = (IF I(c) # {} THEN Min(I(c)) ELSE 0) - 1
  BY <1>1 DEF IndexOf, SelectInSeq
<1>3. \A c : PlaceOf(alphabet, c) = (IF I(c) # {} THEN Max(I(c)) ELSE 0) - 1
  BY <1>1 DEF PlaceOf, SelectLastInSeq
<1>4. ASSUME NEW k \in 1..n
      PROVE  PlaceOf(alphabet, alphabet[k]) = k - 1 /\ IndexOf(alphabet, alphabet[k]) >= 0
  <2>1. ASSUME NEW i \in 1..n PROVE alphabet[i] = alphabet[k] <=> i = k
    BY <1>1 DEF Distinct
  <2>2. I(alphabet[k]) = {i \in 1..n : i = k}
    BY <2>1
  <2>3. I(alphabet[k]) = {k}
    BY <2>2
  <2>4. Min({k}) = k /\ Max({k}) = k
    <3>1. k \in Int
      OBVIOUS
    <3>. QED
      BY <3>1, OnlyOne
  <2>5. k - 1 >= 0
    OBVIOUS
  <2>. HIDE DEF I
  <2>. QED
    BY <1>2, <1>3, <2>3, <2>4, <2>5
<1>5. ASSUME NEW c, IndexOf(alphabet, c) >= 0 PROVE \E k \in 1..n : alphabet[k] = c
  <2>1. I(c) # {}
    <3>. HIDE DEF I
    <3>1. ~(0 - 1 >= 0)
      OBVIOUS
    <3>. QED
      BY <1>2, <1>5, <3>1
  <2>. QED
    BY <2>1
<1>. QED
  BY <1>1, <1>4, <1>5

\* Digits written in an alphabet have the places that they are, and as many zeros first.
LEMMA WrittenIs ==
  ASSUME NEW S, NEW alphabet \in Seq(S), Distinct(alphabet), 1 < Len(alphabet),
         NEW d \in Seq(Below(Len(alphabet)))
  PROVE  /\ Written(d, alphabet) \in Seq(S) /\ Len(Written(d, alphabet)) = Len(d)
         /\ SymbolsOf(Written(d, alphabet), alphabet) = d /\ AllIn(Written(d, alphabet), alphabet)
         /\ FirstLen(Written(d, alphabet), alphabet) = LeadLen(d, IsZero)
<1>1. PICK b \in Nat : b = Len(alphabet)
  BY LenProperties
<1>2. PICK n \in Nat : n = Len(d) /\ DOMAIN d = 1..n
  BY LenProperties
<1>3. PICK t : t = Written(d, alphabet)
  OBVIOUS
<1>4. t = [i \in 1..n |-> alphabet[d[i] + 1]]
  BY <1>2, <1>3 DEF Written
<1>5. ASSUME NEW i \in 1..n
      PROVE  /\ t[i] \in S /\ PlaceOf(alphabet, t[i]) = d[i] /\ IndexOf(alphabet, t[i]) >= 0
             /\ t[i] = alphabet[1] <=> d[i] = 0
  <2>1. PICK x \in 0..(b - 1) : x = d[i]
    <3>1. d[i] \in Below(Len(alphabet))
      BY <1>2, ElementOfSeq
    <3>. QED
      BY <1>1, <3>1 DEF Below
  <2>2. PICK k \in 1..b : k = x + 1 /\ k - 1 = x
    <3>1. x + 1 \in 1..b /\ (x + 1) - 1 = x
      OBVIOUS
    <3>. QED
      BY <3>1
  <2>3. t[i] = alphabet[k]
    BY <1>4, <2>1, <2>2
  <2>4. alphabet[k] \in S
    BY <1>1, ElementOfSeq
  <2>5. PlaceOf(alphabet, alphabet[k]) = k - 1 /\ IndexOf(alphabet, alphabet[k]) >= 0
    BY <1>1, AlphabetIs
  <2>6. alphabet[k] = alphabet[1] <=> k = 1
    <3>1. 1 \in 1..b
      BY <1>1
    <3>. QED
      BY <1>1, <3>1 DEF Distinct
  <2>7. k = 1 <=> x = 0
    BY <2>2
  <2>. QED
    BY <2>1, <2>2, <2>3, <2>4, <2>5, <2>6, <2>7
<1>6. t \in Seq(S) /\ Len(t) = n /\ DOMAIN t = 1..n
  <2>1. t \in [1..n -> S]
    BY <1>4, <1>5
  <2>. QED
    BY <2>1
<1>7. SymbolsOf(t, alphabet) = d
  <2>1. SymbolsOf(t, alphabet) = [i \in 1..n |-> d[i]]
    BY <1>5, <1>6 DEF SymbolsOf
  <2>2. d = [i \in 1..n |-> d[i]]
    BY <1>2
  <2>. QED
    BY <2>1, <2>2
<1>8. AllIn(t, alphabet)
  BY <1>5, <1>6 DEF AllIn
<1>9. FirstLen(t, alphabet) = LeadLen(d, IsZero)
  <2>1. {i \in DOMAIN t : ~(t[i] = alphabet[1])} = {i \in DOMAIN d : ~(d[i] = 0)}
    BY <1>2, <1>5, <1>6
  <2>2. Len(t) = Len(d)
    BY <1>2, <1>6
  <2>. QED
    BY <2>1, <2>2 DEF FirstLen, LeadLen, IsZero
<1>. QED
  BY <1>2, <1>3, <1>6, <1>7, <1>8, <1>9


\* Characters that are all in an alphabet are the ones of their places.
LEMMA PlacesAre ==
  ASSUME NEW S, NEW alphabet \in Seq(S), Distinct(alphabet), 1 < Len(alphabet),
         NEW text \in Seq(S), AllIn(text, alphabet)
  PROVE  /\ SymbolsOf(text, alphabet) \in Seq(Below(Len(alphabet)))
         /\ Written(SymbolsOf(text, alphabet), alphabet) = text
<1>1. PICK b \in Nat : b = Len(alphabet)
  BY LenProperties
<1>2. PICK n \in Nat : n = Len(text) /\ DOMAIN text = 1..n
  BY LenProperties
<1>3. PICK d : d = SymbolsOf(text, alphabet)
  OBVIOUS
<1>4. d = [i \in 1..n |-> PlaceOf(alphabet, text[i])]
  BY <1>2, <1>3 DEF SymbolsOf
<1>5. ASSUME NEW i \in 1..n PROVE d[i] \in Below(b) /\ alphabet[d[i] + 1] = text[i]
  <2>1. IndexOf(alphabet, text[i]) >= 0
    BY <1>2 DEF AllIn
  <2>2. PICK c : c = text[i]
    OBVIOUS
  <2>3. \E k \in 1..Len(alphabet) : alphabet[k] = c
    BY <2>1, <2>2, AlphabetIs
  <2>4. PICK k \in 1..b : alphabet[k] = c
    BY <1>1, <2>3
  <2>5. PlaceOf(alphabet, alphabet[k]) = k - 1
    BY <1>1, AlphabetIs
  <2>6. k - 1 \in Below(b) /\ (k - 1) + 1 = k
    BY DEF Below
  <2>. QED
    BY <1>4, <2>2, <2>4, <2>5, <2>6
<1>6. d \in Seq(Below(b)) /\ Len(d) = n /\ DOMAIN d = 1..n
  <2>1. d \in [1..n -> Below(b)]
    BY <1>4, <1>5
  <2>. QED
    BY <2>1
<1>7. Written(d, alphabet) = text
  <2>1. Written(d, alphabet) = [i \in 1..n |-> text[i]]
    BY <1>5, <1>6 DEF Written
  <2>2. text = [i \in 1..n |-> text[i]]
    BY <1>2
  <2>. QED
    BY <2>1, <2>2
<1>. QED
  BY <1>1, <1>3, <1>6, <1>7

\* Zeros are written as the first character.
LEMMA LedWritten ==
  ASSUME NEW S, NEW alphabet \in Seq(S), Distinct(alphabet), 1 < Len(alphabet), NEW l \in Nat, NEW m \in Nat
  PROVE  Written(Led(l, m, Len(alphabet)), alphabet)
           = Repeat(alphabet[1], l) \o Written(Spelled(m, Len(alphabet)), alphabet)
<1>1. PICK b \in Nat : b = Len(alphabet) /\ 1 < b
  BY LenProperties
<1>2. PICK z \in Seq(Below(b)) : z = Repeat(0, l) /\ Len(z) = l /\ \A i \in 1..l : z[i] = 0
  BY <1>1, ZerosBelow
<1>3. PICK d \in Seq(Below(b)) : d = Spelled(m, b)
  BY <1>1, SpelledTyped DEF Below
<1>4. PICK k \in Nat : k = Len(d) /\ DOMAIN d = 1..k
  BY LenProperties
<1>5. PICK s \in Seq(Below(b)) : /\ s = z \o d /\ Len(s) = l + k
                                 /\ (\A i \in 1..l : s[i] = 0) /\ \A i \in 1..k : s[l + i] = d[i]
  <2>1. z \o d \in Seq(Below(b)) /\ JoinedAs(z \o d, z, d, l, k)
    BY <1>2, <1>4, JoinedParts
  <2>2. PICK s \in Seq(Below(b)) : s = z \o d /\ JoinedAs(s, z, d, l, k)
    BY <2>1
  <2>. QED
    BY <1>2, <2>2 DEF JoinedAs
<1>6. PICK a \in S : a = alphabet[1]
  <2>1. 1 \in 1..Len(alphabet)
    BY <1>1
  <2>. QED
    BY <2>1, ElementOfSeq
<1>7. PICK y \in Seq(S) : y = Repeat(a, l) /\ Len(y) = l /\ \A i \in 1..l : y[i] = a
  <2>1. PICK y : y = Repeat(a, l)
    OBVIOUS
  <2>2. y = [i \in 1..l |-> a]
    BY <2>1 DEF Repeat
  <2>3. y \in [1..l -> S]
    BY <2>2
  <2>4. y \in Seq(S) /\ Len(y) = l
    BY <2>3
  <2>. QED
    BY <2>1, <2>2, <2>4
<1>8. PICK w \in Seq(S) : w = Written(d, alphabet) /\ Len(w) = k /\ \A i \in 1..k : w[i] = alphabet[d[i] + 1]
  <2>1. Written(d, alphabet) \in Seq(S) /\ Len(Written(d, alphabet)) = Len(d)
    BY <1>1, WrittenIs
  <2>2. \A i \in 1..k : Written(d, alphabet)[i] = alphabet[d[i] + 1]
    BY <1>4 DEF Written
  <2>. QED
    BY <1>4, <2>1, <2>2
<1>9. PICK v \in Seq(S) : /\ v = Written(s, alphabet) /\ Len(v) = l + k
                          /\ \A i \in 1..(l + k) : v[i] = alphabet[s[i] + 1]
  <2>1. Written(s, alphabet) \in Seq(S) /\ Len(Written(s, alphabet)) = Len(s)
    BY <1>1, WrittenIs
  <2>2. DOMAIN s = 1..(l + k)
    BY <1>5, LenProperties
  <2>3. \A i \in 1..(l + k) : Written(s, alphabet)[i] = alphabet[s[i] + 1]
    BY <2>2 DEF Written
  <2>. QED
    BY <1>5, <2>1, <2>3
<1>10. PICK u \in Seq(S) : /\ u = y \o w /\ Len(u) = l + k
                           /\ (\A i \in 1..l : u[i] = y[i]) /\ \A i \in 1..k : u[l + i] = w[i]
  <2>1. y \o w \in Seq(S) /\ JoinedAs(y \o w, y, w, l, k)
    BY <1>7, <1>8, JoinedParts
  <2>2. PICK u \in Seq(S) : u = y \o w /\ JoinedAs(u, y, w, l, k)
    BY <2>1
  <2>. QED
    BY <2>2 DEF JoinedAs
<1>11. ASSUME NEW i \in 1..(l + k) PROVE v[i] = u[i]
  <2>1. CASE i <= l
    <3>1. i \in 1..l
      BY <2>1
    <3>2. s[i] = 0 /\ u[i] = a
      BY <1>5, <1>7, <1>10, <3>1
    <3>3. v[i] = alphabet[0 + 1] /\ 0 + 1 = 1
      BY <1>9, <3>2
    <3>. QED
      BY <1>6, <3>2, <3>3
  <2>2. CASE i > l
    <3>1. PICK j \in 1..k : i = l + j
      <4>1. i - l \in 1..k /\ i = l + (i - l)
        BY <2>2
      <4>. QED
        BY <4>1
    <3>2. s[i] = d[j] /\ u[i] = w[j]
      BY <1>5, <1>10, <3>1
    <3>. QED
      BY <1>8, <1>9, <3>2
  <2>. QED
    BY <2>1, <2>2
<1>12. v = u
  <2>1. Len(v) = Len(u) /\ \A i \in 1..Len(v) : v[i] = u[i]
    BY <1>9, <1>10, <1>11
  <2>. QED
    BY <2>1, SeqEqual
<1>. QED
  BY <1>1, <1>2, <1>3, <1>5, <1>6, <1>7, <1>8, <1>9, <1>10, <1>12 DEF Led

\* A byte is a digit of base 256.
LEMMA OctetIs == Octet = Below(256) /\ 256 \in Nat /\ 1 < 256
BY DEF Octet, Below

\* Of as many characters as the guard counts, none is there twice.
LEMMA AcceptedDistinct ==
  ASSUME NEW S, NEW alphabet \in Seq(S), base_n_accepts(alphabet), Len(alphabet) = 62
  PROVE  Distinct(alphabet) /\ 1 < Len(alphabet)
<1>1. PICK n \in Nat : n = 62
  OBVIOUS
<1>2. DOMAIN alphabet = 1..n /\ alphabet = [i \in 1..n |-> alphabet[i]]
  BY <1>1, LenProperties
<1>3. PICK T : T = ToSet(alphabet)
  OBVIOUS
<1>4. T = {alphabet[i] : i \in 1..n} /\ Cardinality(T) = n
  BY <1>1, <1>2, <1>3 DEF ToSet, base_n_accepts
<1>5. alphabet \in Surjection(1..n, T)
  <2>1. alphabet \in [1..n -> T]
    BY <1>2, <1>4
  <2>2. \A t \in T : \E s \in 1..n : alphabet[s] = t
    BY <1>4
  <2>. QED
    BY <2>1, <2>2 DEF Surjection
<1>6. IsFiniteSet(1..n) /\ Cardinality(1..n) = n
  <2>1. 1 \in Int /\ n \in Int /\ ~(1 > n) /\ n - 1 + 1 = n
    BY <1>1
  <2>. QED
    BY <2>1, FS_Interval
<1>7. alphabet \in Injection(1..n, T)
  <2>1. Cardinality(1..n) = Cardinality(T)
    BY <1>4, <1>6
  <2>. QED
    BY <1>5, <1>6, <2>1, FS_SurjSameCardinalityImpliesInj
<1>8. \A i, j \in 1..n : alphabet[i] = alphabet[j] => i = j
  BY <1>7 DEF Injection, IsInjective
<1>9. n = Len(alphabet) /\ 1 < n
  BY <1>1
<1>. QED
  BY <1>8, <1>9 DEF Distinct

\* Bytes come back from their text in any base, with the zero bytes that they begin with, as
\* long as the alphabet has no character twice.
THEOREM BaseRoundTrip ==
  ASSUME NEW S, NEW alphabet \in Seq(S), Distinct(alphabet), 1 < Len(alphabet), NEW raw \in Seq(Octet)
  PROVE  /\ base_n_encode(raw, alphabet) \in Seq(S)
         /\ base_n_decode(base_n_encode(raw, alphabet), alphabet) = Ok(raw)
<1>1. PICK b \in Nat : b = Len(alphabet) /\ 1 < b
  BY LenProperties
<1>2. PICK l \in Nat, n \in Nat : l = LeadLen(raw, IsZero) /\ n = Number(raw, 256) /\ raw = Led(l, n, 256)
  <2>1. raw \in Seq(Below(256))
    BY OctetIs
  <2>2. /\ Number(raw, 256) \in Nat /\ LeadLen(raw, IsZero) \in Nat
        /\ raw = Led(LeadLen(raw, IsZero), Number(raw, 256), 256)
    BY <2>1, OctetIs, AllLed
  <2>. QED
    BY <2>2
<1>3. PICK d \in Seq(Below(b)) : d = Led(l, n, b) /\ LeadLen(d, IsZero) = l /\ Number(d, b) = n
  BY <1>1, LedIs
<1>4. PICK t \in Seq(S) : /\ t = Written(d, alphabet) /\ SymbolsOf(t, alphabet) = d /\ AllIn(t, alphabet)
                          /\ FirstLen(t, alphabet) = l
  <2>1. /\ Written(d, alphabet) \in Seq(S) /\ SymbolsOf(Written(d, alphabet), alphabet) = d
        /\ AllIn(Written(d, alphabet), alphabet)
        /\ FirstLen(Written(d, alphabet), alphabet) = LeadLen(d, IsZero)
    BY <1>1, WrittenIs
  <2>. QED
    BY <1>3, <2>1
<1>5. base_n_encode(raw, alphabet) = t
  <2>1. base_n_encode(raw, alphabet) = Repeat(alphabet[1], l) \o Written(Spelled(n, b), alphabet)
    BY <1>1, <1>2 DEF base_n_encode, Written
  <2>2. Written(Led(l, n, b), alphabet) = Repeat(alphabet[1], l) \o Written(Spelled(n, b), alphabet)
    BY <1>1, LedWritten
  <2>. QED
    BY <1>3, <1>4, <2>1, <2>2
<1>6. base_n_decode(t, alphabet) = Ok(raw)
  <2>1. base_n_decode(t, alphabet) = When(AllIn(t, alphabet), Repeat(0, l) \o Spelled(Number(SymbolsOf(t, alphabet), b), 256))
    BY <1>1, <1>4 DEF base_n_decode, SymbolsOf, PlaceOf, FirstLen
  <2>2. Number(SymbolsOf(t, alphabet), b) = n
    BY <1>3, <1>4
  <2>3. Repeat(0, l) \o Spelled(n, 256) = raw
    BY <1>2 DEF Led
  <2>. QED
    BY <1>4, <2>1, <2>2, <2>3 DEF When
<1>. QED
  BY <1>4, <1>5, <1>6

\* A text that decodes is the one that its bytes have.
THEOREM BaseOneSpelling ==
  ASSUME NEW S, NEW alphabet \in Seq(S), Distinct(alphabet), 1 < Len(alphabet),
         NEW text \in Seq(S), base_n_decode(text, alphabet).ok
  PROVE  LET raw == base_n_decode(text, alphabet).value
         IN  raw \in Seq(Octet) /\ base_n_encode(raw, alphabet) = text
<1>1. PICK b \in Nat : b = Len(alphabet) /\ 1 < b
  BY LenProperties
<1>2. PICK d : d = SymbolsOf(text, alphabet)
  OBVIOUS
<1>3. PICK l : l = FirstLen(text, alphabet)
  OBVIOUS
<1>4. PICK n : n = Number(d, b)
  OBVIOUS
<1>5. base_n_decode(text, alphabet) = When(AllIn(text, alphabet), Led(l, n, 256))
  BY <1>1, <1>2, <1>3, <1>4 DEF base_n_decode, SymbolsOf, PlaceOf, FirstLen, Led
<1>6. AllIn(text, alphabet) /\ base_n_decode(text, alphabet).value = Led(l, n, 256)
  <2>1. Raise.ok = FALSE
    BY DEF Raise
  <2>2. AllIn(text, alphabet)
    BY <1>5, <2>1 DEF When
  <2>. QED
    BY <1>5, <2>2 DEF When, Ok
<1>7. d \in Seq(Below(b)) /\ Written(d, alphabet) = text
  BY <1>1, <1>2, <1>6, PlacesAre
<1>8. l = LeadLen(d, IsZero)
  <2>1. FirstLen(Written(d, alphabet), alphabet) = LeadLen(d, IsZero)
    BY <1>1, <1>7, WrittenIs
  <2>. QED
    BY <1>3, <1>7, <2>1
<1>9. n \in Nat /\ l \in Nat /\ d = Led(l, n, b)
  <2>1. /\ Number(d, b) \in Nat /\ LeadLen(d, IsZero) \in Nat
        /\ d = Led(LeadLen(d, IsZero), Number(d, b), b)
    BY <1>1, <1>7, AllLed
  <2>. QED
    BY <1>4, <1>8, <2>1
<1>10. PICK raw \in Seq(Octet) : raw = Led(l, n, 256) /\ LeadLen(raw, IsZero) = l /\ Number(raw, 256) = n
  <2>1. /\ Led(l, n, 256) \in Seq(Below(256))
        /\ LeadLen(Led(l, n, 256), IsZero) = l /\ Number(Led(l, n, 256), 256) = n
    BY <1>9, OctetIs, LedIs
  <2>. QED
    BY <2>1, OctetIs
<1>11. base_n_encode(raw, alphabet) = text
  <2>1. base_n_encode(raw, alphabet) = Repeat(alphabet[1], l) \o Written(Spelled(n, b), alphabet)
    BY <1>1, <1>10 DEF base_n_encode, Written
  <2>2. Written(Led(l, n, b), alphabet) = Repeat(alphabet[1], l) \o Written(Spelled(n, b), alphabet)
    BY <1>1, <1>9, LedWritten
  <2>. QED
    BY <1>7, <1>9, <2>1, <2>2
<1>. QED
  BY <1>6, <1>10, <1>11
=============================================================================
