-------------------------- MODULE EthAbiToolsProof --------------------------
(***************************************************************************)
(* Proofs about AbiCodec and EthAbiTools, for every set of declarations,   *)
(* every nesting of types and every value, word and base: what the         *)
(* head/tail encoder writes, the decoder reads back, wherever it stands in *)
(* the data; and what a tool decodes is what was sent, however the data    *)
(* was cut or padded, up to what the code lets through.                    *)
(***************************************************************************)
EXTENDS EthAbiTools, CommonLemmas, FiniteSetTheorems

-----------------------------------------------------------------------------
(* Numbers in words.                                                       *)

LEMMA ByteIs == Byte \subseteq Nat /\ 0 \in Byte
BY WordAssumption DEF Byte

LEMMA PowerUnfolds ==
  /\ Power \in [Nat -> Nat]
  /\ Power[0] = 1
  /\ \A n \in Nat : Power[n + 1] = Base * Power[n]
<1>0. Base \in Nat
  BY WordAssumption
<1>. DEFINE h == [n \in Nat |-> [y \in Nat |-> Base * y]]
            Eq(f) == f = [n \in Nat |-> IF n = 0 THEN 1 ELSE Base * f[n - 1]]
<1>1. h \in [Nat -> [Nat -> Nat]]
  BY <1>0
<1>2. \A n \in Nat : \A y \in Nat : h[n][y] = Base * y
  OBVIOUS
<1>. HIDE DEF h
<1>3. PICK f \in [Nat -> Nat] : Iterates(f, 1, h)
  BY <1>1, Iteration
<1>4. f[0] = 1 /\ \A n \in Nat \ {0} : f[n] = Base * f[n - 1]
  <2>1. ASSUME NEW n \in Nat \ {0} PROVE f[n - 1] \in Nat
    <3>1. n - 1 \in Nat
      OBVIOUS
    <3>. QED
      BY <3>1
  <2>. QED
    BY <1>2, <1>3, <2>1 DEF Iterates
<1>5. Eq(f)
  BY <1>4
<1>6. Eq(Power)
  <2>1. Power = CHOOSE g : Eq(g)
    BY DEF Power
  <2>. HIDE DEF Eq
  <2>. QED
    BY <1>5, <2>1
<1>7. /\ DOMAIN Power = Nat /\ Power[0] = 1
      /\ \A n \in Nat : Power[n] = IF n = 0 THEN 1 ELSE Base * Power[n - 1]
  BY <1>6
<1>8. \A n \in Nat : Power[n + 1] = Base * Power[n]
  BY <1>7
<1>. DEFINE T == {n \in Nat : Power[n] \in Nat}
<1>9. \A n \in Nat : n \in T => n + 1 \in T
  BY <1>0, <1>8
<1>10. 0 \in T
  BY <1>7
<1>11. Nat \subseteq T
  <2>. HIDE DEF T
  <2>. QED
    BY <1>9, <1>10, StepInduction
<1>12. Power \in [Nat -> Nat]
  BY <1>6, <1>11
<1>. QED
  BY <1>7, <1>8, <1>12

LEMMA PowerPositive == \A n \in Nat : Power[n] \in Nat /\ 0 < Power[n] /\ n < Power[n]
<1>. DEFINE T == {n \in Nat : Power[n] \in Nat /\ 0 < Power[n] /\ n < Power[n]}
<1>1. 0 \in T
  BY PowerUnfolds
<1>2. ASSUME NEW n \in T PROVE n + 1 \in T
  <2>1. Power[n + 1] = Base * Power[n] /\ Power[n + 1] \in Nat
    BY PowerUnfolds
  <2>2. PICK p \in Nat : p = Power[n] /\ n < p
    OBVIOUS
  <2>3. Base * p >= 2 * p
    BY WordAssumption
  <2>. QED
    BY <2>1, <2>2, <2>3
<1>3. Nat \subseteq T
  <2>. HIDE DEF T
  <2>1. \A n \in Nat : n \in T => n + 1 \in T
    BY <1>2
  <2>. QED
    BY <1>1, <2>1, StepInduction
<1>. QED
  BY <1>3

LEMMA WordRangeIs == WordRange \in Nat /\ 1 < WordRange /\ Word \in Nat /\ 0 < Word
<1>1. Word \in Nat /\ Word # 0
  BY WordAssumption
<1>2. PICK w \in Nat : Word = w /\ w >= 1
  BY <1>1
<1>. QED
  BY <1>2, PowerPositive DEF WordRange

-----------------------------------------------------------------------------
(* Sums.                                                                   *)

\* What SumTo(s, _) is.
Sums(s) ==
  /\ SumTo(s, 0) = 0
  /\ \A n \in 0..Len(s) : SumTo(s, n) \in Nat
  /\ \A i \in 1..Len(s) : SumTo(s, i) = SumTo(s, i - 1) + s[i]

LEMMA SumSteps == ASSUME NEW s \in Seq(Nat) PROVE Sums(s)
<1>. DEFINE h == [i \in Nat |-> [y \in Nat |-> IF i \in 1..Len(s) THEN y + s[i] ELSE y]]
<1>0. Len(s) \in Nat /\ \A i \in 1..Len(s) : s[i] \in Nat
  OBVIOUS
<1>1. h \in [Nat -> [Nat -> Nat]]
  BY <1>0
<1>2. \A i \in 1..Len(s) : \A y \in Nat : h[i][y] = y + s[i]
  OBVIOUS
<1>. HIDE DEF h
<1>3. PICK f \in [Nat -> Nat] : Iterates(f, 0, h)
  BY <1>1, Iteration
<1>4. f[0] = 0 /\ \A i \in 1..Len(s) : f[i] = f[i - 1] + s[i]
  <2>1. ASSUME NEW i \in 1..Len(s) PROVE f[i - 1] \in Nat /\ i \in Nat \ {0}
    <3>1. i - 1 \in Nat /\ i \in Nat /\ i # 0
      BY <1>0
    <3>. QED
      BY <3>1
  <2>. QED
    BY <1>2, <1>3, <2>1 DEF Iterates
<1>5. ASSUME NEW n \in 0..Len(s) PROVE SumTo(s, n) = f[n]
  <2>. DEFINE Eq(g) == g = [i \in 0..n |-> IF i = 0 THEN 0 ELSE g[i - 1] + s[i]]
              g == CHOOSE g : Eq(g)
              e == [i \in 0..n |-> f[i]]
  <2>1. ASSUME NEW i \in 0..n PROVE e[i] = IF i = 0 THEN 0 ELSE e[i - 1] + s[i]
    <3>1. CASE i # 0
      <4>1. i \in 1..Len(s) /\ i - 1 \in 0..n
        BY <3>1
      <4>. QED
        BY <1>4, <3>1, <4>1
    <3>. QED
      BY <1>4, <3>1
  <2>2. Eq(e)
    <3>1. e = [i \in 0..n |-> e[i]]
      OBVIOUS
    <3>. HIDE DEF e
    <3>. QED
      BY <2>1, <3>1
  <2>3. Eq(g)
    <3>. HIDE DEF Eq, e
    <3>. QED
      BY <2>2
  <2>4. \A i \in 0..n : g[i] = IF i = 0 THEN 0 ELSE g[i - 1] + s[i]
    <3>. HIDE DEF g
    <3>. QED
      BY <2>3
  <2>. HIDE DEF g
  <2>. DEFINE T == {i \in Nat : i <= n => g[i] = f[i]}
  <2>5. 0 \in T
    <3>1. g[0] = 0
      BY <2>4
    <3>. QED
      BY <1>4, <3>1
  <2>6. ASSUME NEW i \in Nat, i \in T PROVE i + 1 \in T
    <3>. SUFFICES ASSUME i + 1 <= n PROVE g[i + 1] = f[i + 1]
      OBVIOUS
    <3>1. i + 1 \in 0..n /\ i + 1 # 0 /\ (i + 1) - 1 = i /\ i + 1 \in 1..Len(s) /\ i <= n
      OBVIOUS
    <3>2. g[i + 1] = g[i] + s[i + 1]
      BY <2>4, <3>1
    <3>3. f[i + 1] = f[i] + s[i + 1]
      BY <1>4, <3>1
    <3>. QED
      BY <2>6, <3>1, <3>2, <3>3
  <2>7. Nat \subseteq T
    <3>. HIDE DEF T
    <3>. QED
      BY <2>5, <2>6, StepInduction
  <2>8. g[n] = f[n]
    BY <2>7
  <2>9. SumTo(s, n) = g[n]
    BY DEF SumTo, g
  <2>. QED
    BY <2>8, <2>9
<1>6. \A n \in 0..Len(s) : SumTo(s, n) \in Nat
  BY <1>5
<1>7. ASSUME NEW i \in 1..Len(s) PROVE SumTo(s, i) = SumTo(s, i - 1) + s[i]
  <2>1. i \in 0..Len(s) /\ i - 1 \in 0..Len(s)
    OBVIOUS
  <2>. QED
    BY <1>4, <1>5, <2>1
<1>8. SumTo(s, 0) = 0
  <2>1. 0 \in 0..Len(s)
    BY <1>0
  <2>. QED
    BY <1>4, <1>5, <2>1
<1>. QED
  BY <1>6, <1>7, <1>8 DEF Sums

LEMMA SumMonotone ==
  ASSUME NEW s \in Seq(Nat), NEW m \in 0..Len(s), NEW n \in 0..m
  PROVE  SumTo(s, n) <= SumTo(s, m) /\ SumTo(s, n) \in Nat /\ SumTo(s, m) \in Nat
<1>. DEFINE T == {k \in Nat : k <= Len(s) => \A j \in 0..k : SumTo(s, j) <= SumTo(s, k)}
<1>0. Sums(s) /\ Len(s) \in Nat
  BY SumSteps
<1>1. 0 \in T
  <2>1. \A j \in 0..0 : j = 0
    OBVIOUS
  <2>2. SumTo(s, 0) = 0
    BY <1>0 DEF Sums
  <2>. QED
    BY <2>1, <2>2
<1>2. ASSUME NEW k \in Nat, k \in T PROVE k + 1 \in T
  <2>. SUFFICES ASSUME k + 1 <= Len(s), NEW j \in 0..(k + 1)
                PROVE  SumTo(s, j) <= SumTo(s, k + 1)
    OBVIOUS
  <2>1. k \in 0..Len(s) /\ k + 1 \in 1..Len(s) /\ k + 1 \in 0..Len(s) /\ (k + 1) - 1 = k
        /\ j \in 0..Len(s) /\ k <= Len(s)
    BY <1>0
  <2>2. SumTo(s, k + 1) = SumTo(s, k) + s[k + 1] /\ s[k + 1] \in Nat
    BY <1>0, <2>1 DEF Sums
  <2>3. SumTo(s, k) \in Nat /\ SumTo(s, k + 1) \in Nat /\ SumTo(s, j) \in Nat
    BY <1>0, <2>1 DEF Sums
  <2>4. CASE j = k + 1
    BY <2>3, <2>4
  <2>5. CASE j # k + 1
    <3>1. j \in 0..k
      BY <2>5
    <3>2. SumTo(s, j) <= SumTo(s, k)
      BY <1>2, <2>1, <3>1
    <3>. QED
      BY <2>2, <2>3, <3>2
  <2>. QED
    BY <2>4, <2>5
<1>3. Nat \subseteq T
  <2>. HIDE DEF T
  <2>. QED
    BY <1>1, <1>2, StepInduction
<1>4. m \in Nat /\ m <= Len(s) /\ n \in 0..Len(s)
  BY <1>0
<1>5. SumTo(s, n) \in Nat /\ SumTo(s, m) \in Nat
  BY <1>0, <1>4 DEF Sums
<1>. QED
  BY <1>3, <1>4, <1>5

\* A sum of terms that are c or more, or that are all c.
LEMMA SumBounds ==
  ASSUME NEW s \in Seq(Nat), NEW c \in Nat, NEW n \in 0..Len(s)
  PROVE  /\ (\A i \in 1..Len(s) : s[i] >= c) => SumTo(s, n) >= n * c
         /\ (\A i \in 1..Len(s) : s[i] = c) => SumTo(s, n) = n * c
<1>0. Sums(s) /\ Len(s) \in Nat
  BY SumSteps
<1>. DEFINE T == {k \in Nat : k <= Len(s) =>
                    /\ (\A i \in 1..Len(s) : s[i] >= c) => SumTo(s, k) >= k * c
                    /\ (\A i \in 1..Len(s) : s[i] = c) => SumTo(s, k) = k * c}
<1>1. 0 \in T
  BY <1>0 DEF Sums
<1>2. ASSUME NEW k \in Nat, k \in T PROVE k + 1 \in T
  <2>. SUFFICES ASSUME k + 1 <= Len(s)
                PROVE  /\ (\A i \in 1..Len(s) : s[i] >= c) => SumTo(s, k + 1) >= (k + 1) * c
                       /\ (\A i \in 1..Len(s) : s[i] = c) => SumTo(s, k + 1) = (k + 1) * c
    OBVIOUS
  <2>1. k \in 0..Len(s) /\ k + 1 \in 1..Len(s) /\ (k + 1) - 1 = k /\ k <= Len(s)
    BY <1>0
  <2>2. SumTo(s, k + 1) = SumTo(s, k) + s[k + 1] /\ s[k + 1] \in Nat /\ SumTo(s, k) \in Nat
    BY <1>0, <2>1 DEF Sums
  <2>3. (k + 1) * c = k * c + c /\ k * c \in Nat
    OBVIOUS
  <2>4. ASSUME \A i \in 1..Len(s) : s[i] >= c PROVE SumTo(s, k + 1) >= (k + 1) * c
    BY <1>2, <2>1, <2>2, <2>3, <2>4
  <2>5. ASSUME \A i \in 1..Len(s) : s[i] = c PROVE SumTo(s, k + 1) = (k + 1) * c
    BY <1>2, <2>1, <2>2, <2>3, <2>5
  <2>. QED
    BY <2>4, <2>5
<1>3. Nat \subseteq T
  <2>. HIDE DEF T
  <2>. QED
    BY <1>1, <1>2, StepInduction
<1>. QED
  BY <1>0, <1>3

-----------------------------------------------------------------------------
(* A number is written into a word and read back.                          *)

LEMMA ToBytesIs ==
  ASSUME NEW n \in Nat, NEW w \in Nat
  PROVE  /\ ToBytes(n, w) \in Seq(Byte) /\ Len(ToBytes(n, w)) = w
         /\ \A i \in 1..w : ToBytes(n, w)[i] = (n \div Power[w - i]) % Base
<1>1. ASSUME NEW i \in 1..w PROVE (n \div Power[w - i]) % Base \in Byte
  <2>1. w - i \in Nat
    OBVIOUS
  <2>2. PICK p \in Nat : p = Power[w - i] /\ 0 < p
    BY <2>1, PowerPositive
  <2>3. n \div p \in Nat
    BY <2>2, Quotient
  <2>4. Base \in Nat /\ 0 < Base
    BY WordAssumption
  <2>. QED
    BY <2>2, <2>3, <2>4, Quotient DEF Byte
<1>. QED
  BY <1>1 DEF ToBytes

Weighted(bytes) == [i \in DOMAIN bytes |-> bytes[i] * Power[Len(bytes) - i]]

LEMMA FromBytesIs ==
  ASSUME NEW bytes \in Seq(Byte)
  PROVE  /\ Weighted(bytes) \in Seq(Nat) /\ Len(Weighted(bytes)) = Len(bytes)
         /\ FromBytes(bytes) = SumTo(Weighted(bytes), Len(bytes))
         /\ FromBytes(bytes) \in Nat
<1>1. ASSUME NEW i \in 1..Len(bytes) PROVE bytes[i] * Power[Len(bytes) - i] \in Nat
  <2>1. bytes[i] \in Byte
    BY ElementOfSeq
  <2>2. Len(bytes) - i \in Nat /\ bytes[i] \in Nat
    <3>1. Len(bytes) - i \in Nat
      OBVIOUS
    <3>. QED
      BY <2>1, <3>1, ByteIs
  <2>3. Power[Len(bytes) - i] \in Nat
    BY <2>2, PowerPositive
  <2>. QED
    BY <2>2, <2>3
<1>2. Weighted(bytes) \in Seq(Nat) /\ Len(Weighted(bytes)) = Len(bytes)
  BY <1>1 DEF Weighted
<1>3. FromBytes(bytes) = SumTo(Weighted(bytes), Len(bytes))
  BY DEF FromBytes, Weighted
<1>4. SumTo(Weighted(bytes), Len(bytes)) \in Nat
  <2>1. Len(bytes) \in 0..Len(Weighted(bytes))
    BY <1>2
  <2>. QED
    BY <1>2, <2>1, SumSteps DEF Sums
<1>. QED
  BY <1>2, <1>3, <1>4

LEMMA FromToBytes ==
  ASSUME NEW n \in Nat, NEW w \in Nat, n < Power[w]
  PROVE  FromBytes(ToBytes(n, w)) = n
<1>. DEFINE b == ToBytes(n, w)
            s == Weighted(b)
            T == {k \in Nat : k <= w => SumTo(s, k) = (n \div Power[w - k]) * Power[w - k]}
<1>1. b \in Seq(Byte) /\ Len(b) = w /\ \A i \in 1..w : b[i] = (n \div Power[w - i]) % Base
  BY ToBytesIs
<1>. HIDE DEF b
<1>2. s \in Seq(Nat) /\ Len(s) = w /\ Sums(s)
  BY <1>1, FromBytesIs, SumSteps
<1>3. \A i \in 1..w : s[i] = b[i] * Power[w - i]
  BY <1>1 DEF Weighted
<1>. HIDE DEF s
<1>4. 0 \in T
  <2>1. SumTo(s, 0) = 0
    BY <1>2 DEF Sums
  <2>2. n \div Power[w] = 0
    <3>1. PICK p \in Nat : p = Power[w] /\ n < p
      BY PowerPositive
    <3>2. n = 0 * p + n /\ n \in 0..(p - 1) /\ 0 < p
      BY <3>1
    <3>3. n \div p = 0
      BY <3>2, QuotientIs
    <3>. QED
      BY <3>1, <3>3
  <2>3. Power[w] \in Nat /\ w - 0 = w
    BY PowerPositive
  <2>. QED
    BY <2>1, <2>2, <2>3
<1>5. ASSUME NEW k \in Nat, k \in T PROVE k + 1 \in T
  <2>. SUFFICES ASSUME k + 1 <= w
                PROVE  SumTo(s, k + 1) = (n \div Power[w - (k + 1)]) * Power[w - (k + 1)]
    OBVIOUS
  <2>1. k + 1 \in 1..w /\ (k + 1) - 1 = k /\ w - (k + 1) \in Nat /\ w - k = (w - (k + 1)) + 1
        /\ k <= w
    OBVIOUS
  <2>2. PICK p \in Nat : p = Power[w - (k + 1)] /\ 0 < p
    BY <2>1, PowerPositive
  <2>3. Power[w - k] = Base * p
    BY <2>1, <2>2, PowerUnfolds
  <2>4. SumTo(s, k) = (n \div (Base * p)) * (Base * p)
    BY <1>5, <2>1, <2>3
  <2>5. Base \in Nat /\ 0 < Base
    BY WordAssumption
  <2>6. PICK q \in Nat : q = n \div p
    BY <2>2, Quotient
  <2>7. n \div (Base * p) = q \div Base
    BY <2>2, <2>5, <2>6, QuotientTwice
  <2>8. s[k + 1] = (q % Base) * p
    BY <1>1, <1>3, <2>1, <2>2, <2>6
  <2>9. SumTo(s, k + 1) = SumTo(s, k) + s[k + 1]
    BY <1>2, <2>1 DEF Sums
  <2>10. PICK u \in Nat, r \in Nat : u = q \div Base /\ r = q % Base /\ q = u * Base + r
    <3>1. q \div Base \in Nat /\ q % Base \in 0..(Base - 1) /\ q = (q \div Base) * Base + (q % Base)
      BY <2>5, <2>6, Quotient
    <3>2. q % Base \in Nat
      BY <3>1
    <3>. QED
      BY <3>1, <3>2
  <2>11. SumTo(s, k + 1) = u * (Base * p) + r * p
    BY <2>4, <2>7, <2>8, <2>9, <2>10
  <2>12. u * (Base * p) + r * p = q * p
    BY <2>5, <2>10
  <2>. QED
    BY <2>2, <2>6, <2>11, <2>12
<1>6. Nat \subseteq T
  <2>. HIDE DEF T
  <2>. QED
    BY <1>4, <1>5, StepInduction
<1>7. SumTo(s, w) = (n \div Power[w - w]) * Power[w - w]
  BY <1>6
<1>8. SumTo(s, w) = n
  <2>1. w - w = 0 /\ Power[0] = 1
    BY PowerUnfolds
  <2>2. n = n * 1 + 0 /\ 0 \in 0..(1 - 1)
    OBVIOUS
  <2>3. n \div 1 = n
    BY <2>2, QuotientIs
  <2>. QED
    BY <1>7, <2>1, <2>3
<1>. QED
  BY <1>1, <1>2, <1>8, FromBytesIs DEF s, b

-----------------------------------------------------------------------------
(* What stands where in the data.                                          *)

\* What a slice is, within the data and past its end.
LEMMA SliceTyped ==
  ASSUME NEW T, NEW raw \in Seq(T), NEW from \in Nat, NEW n \in Nat
  PROVE  Slice(raw, from, n) \in Seq(T)
<1>1. PICK L \in Nat : L = Len(raw)
  OBVIOUS
<1>2. Min({from + n, L}) = IF from + n <= L THEN from + n ELSE L
  BY MinTwo
<1>3. PICK to \in Nat : to = (IF from + n <= L THEN from + n ELSE L) /\ to <= L
  OBVIOUS
<1>4. Slice(raw, from, n) = SubSeq(raw, from + 1, to)
  BY <1>1, <1>2, <1>3 DEF Slice
<1>5. CASE from <= to
  <2>1. 1 <= from + 1 /\ from + 1 <= to + 1
    BY <1>5
  <2>. QED
    BY <1>1, <1>3, <1>4, <2>1, PartIs
<1>6. CASE from > to
  BY <1>1, <1>3, <1>4, <1>6
<1>. QED
  BY <1>5, <1>6

LEMMA SliceWithin ==
  ASSUME NEW T, NEW raw \in Seq(T), NEW from \in Nat, NEW n \in Nat,
         from + n <= Len(raw)
  PROVE  /\ Len(Slice(raw, from, n)) = n
         /\ \A i \in 1..n : Slice(raw, from, n)[i] = raw[from + i]
<1>1. Len(raw) \in Nat
  OBVIOUS
<1>2. Min({from + n, Len(raw)}) = from + n
  BY <1>1, MinTwo
<1>3. Slice(raw, from, n) = SubSeq(raw, from + 1, from + n)
  BY <1>2 DEF Slice
<1>4. /\ 1 <= from + 1 /\ from + 1 <= (from + n) + 1
      /\ (from + n) - (from + 1) + 1 = n
  OBVIOUS
<1>5. /\ Len(SubSeq(raw, from + 1, from + n)) = (from + n) - (from + 1) + 1
      /\ \A i \in 1..((from + n) - (from + 1) + 1) :
           SubSeq(raw, from + 1, from + n)[i] = raw[(from + 1) + i - 1]
  BY <1>4, PartIs
<1>6. \A i \in 1..n : (from + 1) + i - 1 = from + i
  OBVIOUS
<1>. QED
  BY <1>3, <1>4, <1>5, <1>6

LEMMA SliceAt ==
  ASSUME NEW T, NEW raw \in Seq(T), NEW x \in Seq(T), NEW p \in Nat, At(raw, p, x)
  PROVE  Slice(raw, p, Len(x)) = x
<1>1. PICK n \in Nat : n = Len(x)
  OBVIOUS
<1>2. p + n <= Len(raw) /\ \A i \in 1..n : raw[p + i] = x[i]
  BY <1>1 DEF At
<1>3. PICK y : y = Slice(raw, p, n)
  OBVIOUS
<1>4. y \in Seq(T) /\ Len(y) = n /\ \A i \in 1..n : y[i] = raw[p + i]
  <2>1. /\ Slice(raw, p, n) \in Seq(T) /\ Len(Slice(raw, p, n)) = n
        /\ \A i \in 1..n : Slice(raw, p, n)[i] = raw[p + i]
    BY <1>2, SliceTyped, SliceWithin
  <2>. QED
    BY <1>3, <2>1
<1>5. \A i \in 1..Len(y) : y[i] = x[i]
  BY <1>2, <1>4
<1>6. y = x
  BY <1>1, <1>4, <1>5, SeqEqual
<1>. QED
  BY <1>1, <1>3, <1>6

\* A word that was written is read.
LEMMA WordIsRead ==
  ASSUME NEW raw \in Seq(Byte), NEW p \in Nat, NEW n \in Nat, n < WordRange,
         At(raw, p, ToBytes(n, Word))
  PROVE  FromBytes(Slice(raw, p, Word)) = n
<1>1. Word \in Nat
  BY WordRangeIs
<1>2. ToBytes(n, Word) \in Seq(Byte) /\ Len(ToBytes(n, Word)) = Word
  BY <1>1, ToBytesIs
<1>3. Slice(raw, p, Word) = ToBytes(n, Word)
  BY <1>2, SliceAt
<1>. QED
  BY <1>1, <1>3, FromToBytes DEF WordRange

LEMMA ReadTyped ==
  ASSUME NEW raw \in Seq(Byte), NEW p \in Nat
  PROVE  FromBytes(Slice(raw, p, Word)) \in Nat
<1>1. Slice(raw, p, Word) \in Seq(Byte)
  BY WordRangeIs, SliceTyped
<1>. QED
  BY <1>1, FromBytesIs

-----------------------------------------------------------------------------
(* Induction and recursion over types, by the depth of their brackets.     *)

LEMMA TypeInduction ==
  ASSUME NEW T, \A t \in Types : (\A u \in Types : Depth(u) < Depth(t) => u \in T) => t \in T
  PROVE  Types \subseteq T
<1>. DEFINE rank == [t \in Types |-> Depth(t)]
<1>1. \A t \in Types : rank[t] \in Nat /\ rank[t] = Depth(t)
  BY TypesAssumption
<1>. HIDE DEF rank
<1>. QED
  BY <1>1, RankInduction

\* Functions that give each type t a value in D[t], and a step H that makes the value
\* of a type of those of types less deep.
Fitting(D) == {f \in [Types -> UNION {D[t] : t \in Types}] : \A t \in Types : f[t] \in D[t]}
Descends(H, D) ==
  \A t \in Types : \A f \in Fitting(D) :
    /\ H[t][f] \in D[t]
    /\ \A g \in Fitting(D) :
         (\A u \in Types : Depth(u) < Depth(t) => f[u] = g[u]) => H[t][f] = H[t][g]

LEMMA TypeRecursion ==
  ASSUME NEW D, NEW H, \A t \in Types : D[t] # {}, Descends(H, D)
  PROVE  \E f \in Fitting(D) : \A t \in Types : f[t] = H[t][f]
<1>1. PICK rank : rank = [t \in Types |-> Depth(t)]
  OBVIOUS
<1>2. Fitting(D) = Assignments(Types, D)
  BY DEF Fitting, Assignments
<1>3. GoesDown(H, Types, D, rank)
  <2>. SUFFICES ASSUME NEW t \in Types, NEW f \in Fitting(D)
                PROVE  /\ rank[t] \in Nat /\ D[t] # {}
                       /\ H[t][f] \in D[t]
                       /\ \A g \in Fitting(D) :
                            (\A u \in Types : rank[u] < rank[t] => f[u] = g[u]) => H[t][f] = H[t][g]
    <3>1. ASSUME NEW t \in Types PROVE rank[t] \in Nat /\ D[t] # {}
      BY <1>1, TypesAssumption
    <3>. QED
      BY <1>2, <3>1 DEF GoesDown
  <2>0. rank[t] \in Nat
    BY <1>1, TypesAssumption
  <2>1. H[t][f] \in D[t]
    BY DEF Descends
  <2>2. ASSUME NEW g \in Fitting(D), \A u \in Types : rank[u] < rank[t] => f[u] = g[u]
        PROVE  H[t][f] = H[t][g]
    <3>1. \A u \in Types : Depth(u) < Depth(t) => f[u] = g[u]
      BY <1>1, <2>2
    <3>. QED
      BY <3>1 DEF Descends
  <2>. QED
    BY <2>0, <2>1, <2>2
<1>4. PICK f \in Assignments(Types, D) : Follows(f, H, Types)
  BY <1>3, RankRecursion
<1>. QED
  BY <1>2, <1>4 DEF Follows

LEMMA DynamicUnfolds ==
  /\ is_dynamic \in [Types -> BOOLEAN]
  /\ \A t \in Types :
       is_dynamic[t] <=> \/ t.kind \in {"bytes", "string", "array"}
                         \/ t.kind = "fixed" /\ is_dynamic[t.of]
                         \/ t.kind = "tuple" /\ \E i \in DOMAIN t.parts : is_dynamic[t.parts[i]]
<1>. DEFINE body(t, f) == \/ t.kind \in {"bytes", "string", "array"}
                          \/ t.kind = "fixed" /\ f[t.of]
                          \/ t.kind = "tuple" /\ \E i \in DOMAIN t.parts : f[t.parts[i]]
            D == [t \in Types |-> BOOLEAN]
            H == [t \in Types |-> [f \in Fitting(D) |-> body(t, f)]]
            Eq(f) == f = [t \in Types |-> body(t, f)]
<1>1. ASSUME NEW t \in Types, NEW f PROVE body(t, f) \in BOOLEAN
  OBVIOUS
<1>2. ASSUME NEW t \in Types, NEW f, NEW g,
             \A u \in Types : Depth(u) < Depth(t) => f[u] = g[u]
      PROVE  body(t, f) = body(t, g)
  <2>1. t.kind = "fixed" => f[t.of] = g[t.of]
    BY <1>2, TypesAssumption
  <2>2. t.kind = "tuple" => \A i \in DOMAIN t.parts : f[t.parts[i]] = g[t.parts[i]]
    <3>. SUFFICES ASSUME t.kind = "tuple", NEW i \in DOMAIN t.parts
                  PROVE  f[t.parts[i]] = g[t.parts[i]]
      OBVIOUS
    <3>1. t.parts \in Seq(Types) /\ Depth(t.parts[i]) < Depth(t)
      BY TypesAssumption
    <3>2. t.parts[i] \in Types
      BY <3>1
    <3>. QED
      BY <1>2, <3>1, <3>2
  <2>3. CASE t.kind = "fixed"
    BY <2>1, <2>3
  <2>4. CASE t.kind = "tuple"
    BY <2>2, <2>4
  <2>. QED
    BY <2>3, <2>4
<1>3. /\ \A t \in Types : D[t] = BOOLEAN
      /\ \A t \in Types : \A f \in Fitting(D) : H[t][f] = body(t, f)
  OBVIOUS
<1>. HIDE DEF body, H, D
<1>4. Descends(H, D)
  BY <1>1, <1>2, <1>3 DEF Descends
<1>5. PICK f \in Fitting(D) : \A t \in Types : f[t] = H[t][f]
  <2>1. \A t \in Types : D[t] # {}
    BY <1>3
  <2>. QED
    BY <1>4, <2>1, TypeRecursion
<1>6. Eq(f)
  <2>1. f = [t \in Types |-> f[t]]
    BY DEF Fitting
  <2>. QED
    BY <1>3, <1>5, <2>1
<1>7. Eq(is_dynamic)
  <2>1. is_dynamic = CHOOSE g : Eq(g)
    BY DEF is_dynamic, body
  <2>. HIDE DEF Eq
  <2>. QED
    BY <1>6, <2>1
<1>8. \A t \in Types : is_dynamic[t] = body(t, is_dynamic)
  BY <1>7
<1>9. is_dynamic \in [Types -> BOOLEAN]
  BY <1>1, <1>7
<1>. QED
  BY <1>8, <1>9 DEF body

\* The parts of a type are less deep than it.
LEMMA PartsOf ==
  ASSUME NEW t \in Types, t.kind = "tuple"
  PROVE  /\ t.parts \in Seq(Types) /\ Len(t.parts) \in Nat /\ DOMAIN t.parts = 1..Len(t.parts)
         /\ \A i \in DOMAIN t.parts : t.parts[i] \in Types /\ Depth(t.parts[i]) < Depth(t)
<1>1. t.parts \in Seq(Types) /\ \A i \in DOMAIN t.parts : Depth(t.parts[i]) < Depth(t)
  BY TypesAssumption
<1>2. \A i \in DOMAIN t.parts : t.parts[i] \in Types
  BY <1>1
<1>. QED
  BY <1>1, <1>2

LEMMA StaticSizeUnfolds ==
  /\ static_size \in [Types -> Nat]
  /\ \A t \in Types :
       static_size[t] =
         IF t.kind = "fixed" THEN t.size * static_size[t.of]
         ELSE IF t.kind = "tuple"
           THEN SumTo([i \in DOMAIN t.parts |-> static_size[t.parts[i]]], Len(t.parts))
         ELSE Word
<1>. DEFINE sizes(t, f) == [i \in DOMAIN t.parts |-> f[t.parts[i]]]
            body(t, f) == IF t.kind = "fixed" THEN t.size * f[t.of]
                          ELSE IF t.kind = "tuple" THEN SumTo(sizes(t, f), Len(t.parts))
                          ELSE Word
            D == [t \in Types |-> Nat]
            H == [t \in Types |-> [f \in Fitting(D) |-> body(t, f)]]
            Eq(f) == f = [t \in Types |-> body(t, f)]
<1>0. D = [t \in Types |-> Nat] /\ \A f \in Fitting(D) : \A t \in Types : f[t] \in Nat
  BY DEF Fitting
<1>1. ASSUME NEW t \in Types, NEW f, \A u \in Types : f[u] \in Nat
      PROVE  body(t, f) \in Nat
  <2>1. CASE t.kind = "fixed"
    <3>1. t.size \in Nat /\ t.of \in Types
      BY <2>1, TypesAssumption
    <3>2. f[t.of] \in Nat
      BY <1>1, <3>1
    <3>. QED
      BY <2>1, <3>1, <3>2
  <2>2. CASE t.kind = "tuple"
    <3>1. sizes(t, f) \in Seq(Nat) /\ Len(sizes(t, f)) = Len(t.parts)
      BY <1>1, <2>2, PartsOf
    <3>. HIDE DEF sizes
    <3>2. SumTo(sizes(t, f), Len(t.parts)) \in Nat
      <4>1. Len(t.parts) \in 0..Len(sizes(t, f))
        BY <2>2, <3>1, PartsOf
      <4>. QED
        BY <3>1, <4>1, SumSteps DEF Sums
    <3>. QED
      BY <2>2, <3>2
  <2>3. CASE t.kind \notin {"fixed", "tuple"}
    BY <2>3, WordRangeIs
  <2>. QED
    BY <2>1, <2>2, <2>3
<1>2. ASSUME NEW t \in Types, NEW f, NEW g,
             \A u \in Types : Depth(u) < Depth(t) => f[u] = g[u]
      PROVE  body(t, f) = body(t, g)
  <2>1. t.kind = "fixed" => f[t.of] = g[t.of]
    BY <1>2, TypesAssumption
  <2>2. t.kind = "tuple" => sizes(t, f) = sizes(t, g)
    BY <1>2, PartsOf
  <2>. HIDE DEF sizes
  <2>3. CASE t.kind = "fixed"
    BY <2>1, <2>3
  <2>4. CASE t.kind = "tuple"
    BY <2>2, <2>4
  <2>5. CASE t.kind \notin {"fixed", "tuple"}
    BY <2>5
  <2>. QED
    BY <2>3, <2>4, <2>5
<1>3. /\ \A t \in Types : D[t] = Nat
      /\ \A t \in Types : \A f \in Fitting(D) : H[t][f] = body(t, f)
  OBVIOUS
<1>. HIDE DEF body, H, D
<1>4. Descends(H, D)
  <2>1. ASSUME NEW t \in Types, NEW f \in Fitting(D)
        PROVE  H[t][f] \in D[t]
    <3>1. body(t, f) \in Nat
      BY <1>0, <1>1
    <3>. QED
      BY <1>3, <3>1
  <2>2. ASSUME NEW t \in Types, NEW f \in Fitting(D), NEW g \in Fitting(D),
               \A u \in Types : Depth(u) < Depth(t) => f[u] = g[u]
        PROVE  H[t][f] = H[t][g]
    BY <1>2, <1>3, <2>2
  <2>. QED
    BY <2>1, <2>2 DEF Descends
<1>5. PICK f \in Fitting(D) : \A t \in Types : f[t] = H[t][f]
  <2>1. \A t \in Types : D[t] # {}
    BY <1>3
  <2>. QED
    BY <1>4, <2>1, TypeRecursion
<1>6. Eq(f)
  <2>1. f = [t \in Types |-> f[t]]
    BY DEF Fitting
  <2>. QED
    BY <1>3, <1>5, <2>1
<1>7. Eq(static_size)
  <2>1. static_size = CHOOSE g : Eq(g)
    BY DEF static_size, body
  <2>. HIDE DEF Eq
  <2>. QED
    BY <1>6, <2>1
<1>8. \A t \in Types : static_size[t] = body(t, static_size)
  BY <1>7
<1>9. \A t \in Types : static_size[t] \in Nat
  <2>. DEFINE T == {t \in Types : static_size[t] \in Nat}
  <2>1. ASSUME NEW t \in Types, \A u \in Types : Depth(u) < Depth(t) => u \in T
        PROVE  t \in T
    <3>. DEFINE g == [u \in Types |-> IF u \in T THEN static_size[u] ELSE 0]
    <3>1. \A u \in Types : g[u] \in Nat
      OBVIOUS
    <3>2. \A u \in Types : Depth(u) < Depth(t) => static_size[u] = g[u]
      BY <2>1
    <3>. HIDE DEF g
    <3>3. body(t, static_size) = body(t, g)
      BY <1>2, <3>2
    <3>4. body(t, g) \in Nat
      BY <1>1, <3>1
    <3>. QED
      BY <1>8, <3>3, <3>4
  <2>. HIDE DEF T
  <2>2. Types \subseteq T
    BY <2>1, TypeInduction
  <2>. QED
    BY <2>2 DEF T
<1>10. static_size \in [Types -> Nat]
  <2>1. DOMAIN static_size = Types /\ static_size = [t \in Types |-> static_size[t]]
    BY <1>7
  <2>. QED
    BY <1>9, <2>1
<1>. QED
  BY <1>8, <1>10 DEF body

-----------------------------------------------------------------------------
(* The layout of a tuple.                                                  *)

Lens(s) == [i \in DOMAIN s |-> Len(s[i])]

\* Where each part stands in what the parts are joined to.
LEMMA JoinedAt ==
  ASSUME NEW T, NEW s \in Seq(Seq(T))
  PROVE  /\ Lens(s) \in Seq(Nat) /\ Len(Lens(s)) = Len(s) /\ Sums(Lens(s))
         /\ FlattenSeq(s) \in Seq(T) /\ Len(FlattenSeq(s)) = SumTo(Lens(s), Len(s))
         /\ \A i \in 1..Len(s) : At(FlattenSeq(s), SumTo(Lens(s), i - 1), s[i])
<1>. DEFINE n == Len(s)
<1>0. n \in Nat
  OBVIOUS
<1>1. \A i \in 1..n : s[i] \in Seq(T) /\ Len(s[i]) \in Nat
  <2>1. ASSUME NEW i \in 1..n PROVE s[i] \in Seq(T) /\ Len(s[i]) \in Nat
    <3>1. s[i] \in Seq(T)
      BY ElementOfSeq
    <3>. QED
      BY <3>1
  <2>. QED
    BY <2>1
<1>2. Lens(s) \in Seq(Nat) /\ Len(Lens(s)) = n /\ \A i \in 1..n : Lens(s)[i] = Len(s[i])
  BY <1>1 DEF Lens
<1>3. Sums(Lens(s))
  BY <1>2, SumSteps
<1>4. PICK f : Grows(f, s, T)
  BY GrowthExists
<1>5. PICK L : L = Lens(s)
  OBVIOUS
<1>. DEFINE X == {k \in Nat : k <= n => Len(f[k]) = SumTo(L, k)}
<1>6. 0 \in X
  BY <1>3, <1>4, <1>5 DEF Grows, Sums
<1>7. ASSUME NEW k \in Nat, k \in X PROVE k + 1 \in X
  <2>. SUFFICES ASSUME k + 1 <= n PROVE Len(f[k + 1]) = SumTo(L, k + 1)
    OBVIOUS
  <2>1. k + 1 \in 1..Len(s) /\ (k + 1) - 1 = k /\ k <= n
    BY <1>0
  <2>2. Adds(f, s, T, k + 1)
    BY <1>4, <2>1, GrowsBy
  <2>3. Len(f[k + 1]) = Len(f[k]) + Len(s[k + 1])
    BY <2>1, <2>2 DEF Adds
  <2>4. SumTo(L, k + 1) = SumTo(L, k) + L[k + 1]
    BY <1>2, <1>3, <1>5, <2>1 DEF Sums
  <2>5. L[k + 1] = Len(s[k + 1]) /\ Len(f[k]) = SumTo(L, k)
    BY <1>2, <1>5, <1>7, <2>1
  <2>. QED
    BY <2>3, <2>4, <2>5
<1>8. Nat \subseteq X
  <2>. HIDE DEF X
  <2>. QED
    BY <1>6, <1>7, StepInduction
<1>9. FlattenSeq(s) = f[n] /\ f[n] \in Seq(T)
  BY <1>0, <1>4, FlattenIs DEF Grows
<1>10. Len(f[n]) = SumTo(L, n)
  BY <1>0, <1>8
<1>11. ASSUME NEW i \in 1..n PROVE At(f[n], SumTo(L, i - 1), s[i])
  <2>1. i - 1 \in Nat /\ i - 1 <= n /\ i \in 0..n /\ n \in 0..Len(s) /\ i \in 1..Len(s)
    BY <1>0
  <2>2. PICK p, w : p = SumTo(L, i - 1) /\ w = Len(s[i])
    OBVIOUS
  <2>3. Len(f[i - 1]) = p
    BY <1>8, <2>1, <2>2
  <2>4. p \in Nat /\ w \in Nat
    <3>1. i - 1 \in 0..Len(L)
      BY <1>2, <1>5, <2>1
    <3>. QED
      BY <1>1, <1>3, <1>5, <2>2, <3>1 DEF Sums
  <2>5. Adds(f, s, T, i)
    BY <1>4, <2>1, GrowsBy
  <2>6. Keeps(f, s, T, i, n)
    BY <1>4, <2>1, GrowthKeeps
  <2>7. Len(f[i]) = p + w /\ \A j \in 1..w : f[i][p + j] = s[i][j]
    BY <2>2, <2>3, <2>5 DEF Adds
  <2>8. p + w <= Len(f[n]) /\ \A j \in 1..(p + w) : f[n][j] = f[i][j]
    BY <2>6, <2>7 DEF Keeps
  <2>9. \A j \in 1..w : p + j \in 1..(p + w)
    BY <2>4
  <2>10. \A j \in 1..w : f[n][p + j] = s[i][j]
    BY <2>7, <2>8, <2>9
  <2>. QED
    BY <2>2, <2>8, <2>10 DEF At
<1>. QED
  BY <1>2, <1>3, <1>5, <1>9, <1>10, <1>11

LEMMA HeadWidths ==
  ASSUME NEW types \in Seq(Types)
  PROVE  /\ head_widths(types) \in Seq(Nat) /\ Len(head_widths(types)) = Len(types)
         /\ Sums(head_widths(types)) /\ head_size(types) \in Nat
         /\ \A i \in 1..Len(types) :
              head_widths(types)[i] = IF is_dynamic[types[i]] THEN Word ELSE static_size[types[i]]
<1>1. ASSUME NEW i \in 1..Len(types)
      PROVE  (IF is_dynamic[types[i]] THEN Word ELSE static_size[types[i]]) \in Nat
  <2>1. types[i] \in Types
    BY ElementOfSeq
  <2>. QED
    BY <2>1, StaticSizeUnfolds, WordRangeIs
<1>2. head_widths(types) \in Seq(Nat) /\ Len(head_widths(types)) = Len(types)
  BY <1>1 DEF head_widths
<1>3. Sums(head_widths(types))
  BY <1>2, SumSteps
<1>4. head_size(types) \in Nat
  <2>1. Len(types) \in 0..Len(head_widths(types))
    BY <1>2
  <2>. QED
    BY <1>3, <2>1 DEF head_size, Sums
<1>5. \A i \in 1..Len(types) :
        head_widths(types)[i] = IF is_dynamic[types[i]] THEN Word ELSE static_size[types[i]]
  BY DEF head_widths
<1>. QED
  BY <1>2, <1>3, <1>4, <1>5

\* Members that were encoded, each of its type's size if that is fixed.
Encoded(types, encs) ==
  /\ types \in Seq(Types) /\ encs \in Seq(Seq(Byte)) /\ Len(encs) = Len(types)
  /\ \A i \in 1..Len(types) : ~is_dynamic[types[i]] => Len(encs[i]) = static_size[types[i]]

\* What the layout of members holds: in the head a static member, or the offset of
\* a dynamic one.
HeadAt(types, i) == SumTo(head_widths(types), i - 1)
MemberLaid(types, encs, layout, i) ==
  /\ ~is_dynamic[types[i]] => At(layout, HeadAt(types, i), encs[i])
  /\ is_dynamic[types[i]] =>
       \E offset \in 0..Len(layout) : /\ At(layout, HeadAt(types, i), ToBytes(offset, Word))
                                      /\ At(layout, offset, encs[i])
Laid(types, encs, layout) ==
  /\ layout \in Seq(Byte) /\ head_size(types) <= Len(layout)
  /\ \A i \in 1..Len(types) : MemberLaid(types, encs, layout, i)
  /\ (\A i \in 1..Len(types) : ~is_dynamic[types[i]]) => Len(layout) = head_size(types)

LEMMA LayoutIs ==
  ASSUME NEW types, NEW encs, Encoded(types, encs)
  PROVE  Laid(types, encs, enc_layout(types, encs))
<1>0. /\ types \in Seq(Types) /\ Len(types) \in Nat /\ DOMAIN types = 1..Len(types)
      /\ encs \in Seq(Seq(Byte)) /\ Len(encs) = Len(types)
  BY DEF Encoded
<1>. PICK n, offs, T, HS, hw, dyn :
       /\ n \in Nat /\ n = Len(types) /\ offs = offsets(types, encs)
       /\ T = tails(types, encs) /\ HS = heads(types, encs, offs) /\ hw = head_widths(types)
       /\ dyn = [i \in 1..n |-> is_dynamic[types[i]]]
  BY <1>0
<1>1. /\ DOMAIN types = 1..n /\ Len(encs) = n
      /\ hw \in Seq(Nat) /\ Len(hw) = n /\ Sums(hw) /\ head_size(types) \in Nat
      /\ head_size(types) = SumTo(hw, n)
      /\ \A i \in 1..n : hw[i] = IF is_dynamic[types[i]] THEN Word ELSE static_size[types[i]]
  BY <1>0, HeadWidths DEF head_size
<1>2. \A i \in 1..n : encs[i] \in Seq(Byte) /\ Len(encs[i]) \in Nat
  <2>1. ASSUME NEW i \in 1..n PROVE encs[i] \in Seq(Byte) /\ Len(encs[i]) \in Nat
    <3>1. encs[i] \in Seq(Byte)
      BY <1>0, ElementOfSeq
    <3>. QED
      BY <3>1
  <2>. QED
    BY <2>1
<1>3. T \in Seq(Seq(Byte)) /\ Len(T) = n
      /\ \A i \in 1..n : T[i] = IF is_dynamic[types[i]] THEN encs[i] ELSE <<>>
  <2>1. T = [i \in 1..n |-> IF is_dynamic[types[i]] THEN encs[i] ELSE <<>>]
    BY <1>1 DEF tails
  <2>2. \A i \in 1..n : (IF is_dynamic[types[i]] THEN encs[i] ELSE <<>>) \in Seq(Byte)
    BY <1>2
  <2>. QED
    BY <2>1, <2>2
<1>4. /\ Lens(T) \in Seq(Nat) /\ Len(Lens(T)) = n /\ Sums(Lens(T))
      /\ FlattenSeq(T) \in Seq(Byte) /\ Len(FlattenSeq(T)) = SumTo(Lens(T), n)
      /\ \A i \in 1..n : At(FlattenSeq(T), SumTo(Lens(T), i - 1), T[i])
  BY <1>3, JoinedAt
<1>5. ASSUME NEW i \in 1..n
      PROVE  /\ offs[i] = SumTo(hw, n) + SumTo(Lens(T), i - 1)
             /\ SumTo(Lens(T), i - 1) \in Nat /\ offs[i] \in Nat
             /\ SumTo(Lens(T), i - 1) <= SumTo(Lens(T), n) /\ SumTo(Lens(T), n) \in Nat
  <2>1. [j \in DOMAIN types |-> IF is_dynamic[types[j]] THEN Word ELSE Len(encs[j])] = hw
    <3>1. \A j \in 1..n : (IF is_dynamic[types[j]] THEN Word ELSE Len(encs[j])) = hw[j]
      BY <1>1 DEF Encoded
    <3>2. hw = [j \in 1..n |-> hw[j]]
      BY <1>1
    <3>. QED
      BY <1>1, <3>1, <3>2
  <2>2. [j \in DOMAIN types |-> Len(tails(types, encs)[j])] = Lens(T)
    BY <1>1, <1>3 DEF Lens
  <2>3. offs[i] = SumTo(hw, n) + SumTo(Lens(T), i - 1)
    BY <1>1, <2>1, <2>2 DEF offsets
  <2>4. i - 1 \in 0..n /\ n \in 0..Len(Lens(T))
    BY <1>4
  <2>5. /\ SumTo(Lens(T), i - 1) <= SumTo(Lens(T), n)
        /\ SumTo(Lens(T), i - 1) \in Nat /\ SumTo(Lens(T), n) \in Nat
    BY <1>4, <2>4, SumMonotone
  <2>. QED
    BY <1>1, <2>3, <2>5
<1>6. ASSUME NEW i \in 1..n
      PROVE  /\ HS[i] = IF is_dynamic[types[i]] THEN ToBytes(offs[i], Word) ELSE encs[i]
             /\ HS[i] \in Seq(Byte) /\ Len(HS[i]) = hw[i]
  <2>1. HS[i] = IF is_dynamic[types[i]] THEN ToBytes(offs[i], Word) ELSE encs[i]
    BY <1>1 DEF heads
  <2>2. CASE is_dynamic[types[i]]
    <3>1. ToBytes(offs[i], Word) \in Seq(Byte) /\ Len(ToBytes(offs[i], Word)) = Word
      BY <1>5, WordRangeIs, ToBytesIs
    <3>. QED
      BY <1>1, <2>1, <2>2, <3>1
  <2>3. CASE ~is_dynamic[types[i]]
    <3>1. Len(encs[i]) = static_size[types[i]]
      BY <2>3 DEF Encoded
    <3>. QED
      BY <1>1, <1>2, <2>1, <2>3, <3>1
  <2>. QED
    BY <2>1, <2>2, <2>3
<1>7. HS \in Seq(Seq(Byte)) /\ Len(HS) = n /\ Lens(HS) = hw
  <2>1. HS = [i \in 1..n |-> HS[i]]
    BY <1>1 DEF heads
  <2>2. HS \in Seq(Seq(Byte)) /\ Len(HS) = n
    BY <1>6, <2>1
  <2>3. Lens(HS) = [i \in 1..n |-> hw[i]]
    BY <1>6, <2>2 DEF Lens
  <2>. QED
    BY <1>1, <2>2, <2>3
<1>8. /\ FlattenSeq(HS) \in Seq(Byte) /\ Len(FlattenSeq(HS)) = SumTo(hw, n)
      /\ \A i \in 1..n : At(FlattenSeq(HS), SumTo(hw, i - 1), HS[i])
  BY <1>7, JoinedAt
<1>. PICK h, t, x : h = FlattenSeq(HS) /\ t = FlattenSeq(T) /\ x = enc_layout(types, encs)
  OBVIOUS
<1>9. x = h \o t /\ h \in Seq(Byte) /\ t \in Seq(Byte)
  BY <1>4, <1>8 DEF enc_layout
<1>10. /\ x \in Seq(Byte) /\ Len(x) = SumTo(hw, n) + SumTo(Lens(T), n)
       /\ At(x, 0, h) /\ At(x, SumTo(hw, n), t)
  <2>1. x \in Seq(Byte) /\ Len(x) = Len(h) + Len(t)
    BY <1>9
  <2>2. At(x, 0, h) /\ At(x, Len(h), t)
    BY <1>9, AtBegin
  <2>. QED
    BY <1>4, <1>8, <2>1, <2>2
<1>11. n \in 0..Len(Lens(T)) /\ SumTo(Lens(T), n) \in Nat
  <2>1. n \in 0..Len(Lens(T))
    BY <1>4
  <2>. QED
    BY <1>4, <2>1 DEF Sums
<1>12. ASSUME NEW i \in 1..n PROVE MemberLaid(types, encs, x, i)
  <2>0. HeadAt(types, i) = SumTo(hw, i - 1) /\ SumTo(hw, i - 1) \in Nat
    <3>1. i - 1 \in 0..Len(hw)
      BY <1>1
    <3>. QED
      BY <1>1, <3>1 DEF HeadAt, Sums
  <2>1. At(x, SumTo(hw, i - 1), HS[i])
    <3>1. At(x, 0 + SumTo(hw, i - 1), HS[i])
      BY <1>6, <1>8, <1>9, <1>10, <2>0, AtInside
    <3>. QED
      BY <2>0, <3>1
  <2>2. CASE ~is_dynamic[types[i]]
    BY <1>6, <2>0, <2>1, <2>2 DEF MemberLaid
  <2>3. CASE is_dynamic[types[i]]
    <3>1. At(x, SumTo(hw, n) + SumTo(Lens(T), i - 1), T[i])
      <4>1. At(t, SumTo(Lens(T), i - 1), T[i]) /\ T[i] \in Seq(Byte)
        BY <1>2, <1>3, <1>4
      <4>. QED
        BY <1>1, <1>5, <1>9, <1>10, <4>1, AtInside
    <3>2. At(x, offs[i], encs[i])
      BY <1>3, <1>5, <2>3, <3>1
    <3>3. offs[i] \in 0..Len(x)
      BY <1>1, <1>5, <1>10
    <3>4. At(x, HeadAt(types, i), ToBytes(offs[i], Word))
      BY <1>6, <2>0, <2>1, <2>3
    <3>. QED
      BY <2>3, <3>2, <3>3, <3>4 DEF MemberLaid
  <2>. QED
    BY <2>2, <2>3
<1>13. ASSUME \A i \in 1..n : ~is_dynamic[types[i]] PROVE Len(x) = head_size(types)
  <2>1. \A i \in 1..Len(Lens(T)) : Lens(T)[i] = 0
    <3>1. \A i \in 1..n : T[i] = <<>>
      BY <1>3, <1>13
    <3>. QED
      BY <1>3, <1>4, <3>1 DEF Lens
  <2>2. SumTo(Lens(T), n) = n * 0
    BY <1>4, <1>11, <2>1, SumBounds
  <2>. QED
    BY <1>1, <1>10, <2>2
<1>14. head_size(types) <= Len(x)
  BY <1>1, <1>10, <1>11
<1>. QED
  BY <1>10, <1>12, <1>13, <1>14 DEF Laid

-----------------------------------------------------------------------------
(* Encoding.                                                               *)

Composite(t) == t.kind \in {"array", "fixed", "tuple"}

LEMMA OfTypesIs ==
  ASSUME NEW types \in Seq(Types), NEW values, OfTypes(values, types)
  PROVE  /\ Len(values) = Len(types) /\ DOMAIN values = 1..Len(types) /\ Len(types) \in Nat
         /\ values = [i \in 1..Len(types) |-> values[i]]
         /\ \A i \in 1..Len(types) : types[i] \in Types /\ values[i] \in Values(types[i])
<1>1. Len(types) \in Nat /\ DOMAIN types = 1..Len(types)
  OBVIOUS
<1>2. \A i \in 1..Len(types) : types[i] \in Types
  BY ElementOfSeq
<1>3. /\ values = [i \in 1..Len(types) |-> values[i]]
      /\ \A i \in 1..Len(types) : values[i] \in Values(types[i])
  BY <1>1 DEF OfTypes
<1>4. DOMAIN values = 1..Len(types)
  BY <1>3
<1>5. Len(values) = Len(types)
  <2>. DEFINE U == UNION {Values(types[i]) : i \in 1..Len(types)}
  <2>1. values \in [1..Len(types) -> U]
    BY <1>3
  <2>2. values \in Seq(U)
    BY <1>1, <2>1
  <2>. QED
    BY <1>1, <1>4, <2>2
<1>. QED
  BY <1>1, <1>2, <1>3, <1>4, <1>5

LEMMA MembersOf ==
  ASSUME NEW t \in Types, Composite(t), NEW v \in Values(t)
  PROVE  /\ Len(v) \in Nat /\ DOMAIN v = 1..Len(v) /\ v = [i \in 1..Len(v) |-> v[i]]
         /\ members(t, Len(v)) \in Seq(Types) /\ Len(members(t, Len(v))) = Len(v)
         /\ \A i \in 1..Len(v) : /\ members(t, Len(v))[i] \in Types
                                 /\ Depth(members(t, Len(v))[i]) < Depth(t)
                                 /\ v[i] \in Values(members(t, Len(v))[i])
<1>1. CASE t.kind = "tuple"
  <2>1. OfTypes(v, t.parts)
    BY <1>1, ValuesAssumption
  <2>2. members(t, Len(v)) = t.parts
    BY <1>1 DEF members
  <2>3. /\ t.parts \in Seq(Types) /\ Len(t.parts) \in Nat /\ DOMAIN t.parts = 1..Len(t.parts)
        /\ \A i \in DOMAIN t.parts : Depth(t.parts[i]) < Depth(t)
    BY <1>1, PartsOf
  <2>. QED
    BY <2>1, <2>2, <2>3, OfTypesIs
<1>2. CASE t.kind \in {"array", "fixed"}
  <2>1. v \in Seq(Values(t.of)) /\ t.of \in Types /\ Depth(t.of) < Depth(t)
    BY <1>2, ValuesAssumption, TypesAssumption
  <2>2. Len(v) \in Nat /\ DOMAIN v = 1..Len(v) /\ v = [i \in 1..Len(v) |-> v[i]]
    BY <2>1
  <2>3. \A i \in 1..Len(v) : v[i] \in Values(t.of)
    BY <2>1, ElementOfSeq
  <2>4. PICK m : m = members(t, Len(v))
    OBVIOUS
  <2>5. m = [i \in 1..Len(v) |-> t.of]
    BY <1>2, <2>4 DEF members, Repeat
  <2>6. m \in Seq(Types) /\ Len(m) = Len(v) /\ \A i \in 1..Len(v) : m[i] = t.of
    BY <2>1, <2>2, <2>5
  <2>. QED
    BY <2>1, <2>2, <2>3, <2>4, <2>6
<1>. QED
  BY <1>1, <1>2 DEF Composite

\* Dividing rounded up loses nothing.
LEMMA CeilIs ==
  ASSUME NEW n \in Nat
  PROVE  ceil32(n) \in Nat /\ n <= ceil32(n)
<1>1. PICK w \in Nat : w = Word /\ 0 < w
  BY WordRangeIs
<1>2. n + w - 1 \in Nat
  BY <1>1
<1>3. PICK q \in Nat, r \in 0..(w - 1) : q = (n + w - 1) \div w /\ n + w - 1 = q * w + r
  BY <1>1, <1>2, Quotient
<1>4. q * w \in Nat
  BY <1>1
<1>. QED
  BY <1>1, <1>3, <1>4 DEF ceil32

LEMMA ZerosIs ==
  ASSUME NEW n \in Nat
  PROVE  Zeros(n) \in Seq(Byte) /\ Len(Zeros(n)) = n
BY ByteIs DEF Zeros

\* What is written for a scalar value.
LEMMA ScalarIs ==
  ASSUME NEW t \in Types, ~Composite(t), NEW v \in Values(t)
  PROVE  /\ enc_scalar(t, v) \in Seq(Byte)
         /\ t.kind \notin {"bytes", "string"} => Len(enc_scalar(t, v)) = Word
         /\ t.kind \in {"bytes", "string"} =>
              /\ v \in Seq(Byte)
              /\ \E zeros \in Seq(Byte) : enc_scalar(t, v) = ToBytes(Len(v), Word) \o v \o zeros
         /\ t.kind = "bytes1" =>
              /\ v \in Seq(Byte) /\ Len(v) = 1
              /\ \E zeros \in Seq(Byte) : enc_scalar(t, v) = v \o zeros
         /\ t.kind \in {"uint", "int"} =>
              /\ v \in Int /\ v % WordRange \in Nat /\ v % WordRange < WordRange
              /\ enc_scalar(t, v) = ToBytes(v % WordRange, Word)
<1>0. t.kind \in {"uint", "int", "bytes1", "bytes", "string"}
  BY TypesAssumption DEF Composite
<1>1. CASE t.kind \in {"bytes", "string"}
  <2>1. v \in Seq(Byte) /\ Len(v) \in Nat
    <3>1. v \in Seq(Byte)
      BY <1>1, ValuesAssumption
    <3>. QED
      BY <3>1
  <2>2. ToBytes(Len(v), Word) \in Seq(Byte)
    BY <2>1, WordRangeIs, ToBytesIs
  <2>3. Zeros(ceil32(Len(v)) - Len(v)) \in Seq(Byte)
    <3>1. ceil32(Len(v)) - Len(v) \in Nat
      BY <2>1, CeilIs
    <3>. QED
      BY <3>1, ZerosIs
  <2>4. enc_scalar(t, v) = ToBytes(Len(v), Word) \o v \o Zeros(ceil32(Len(v)) - Len(v))
    BY <1>1 DEF enc_scalar
  <2>5. enc_scalar(t, v) \in Seq(Byte)
    BY <2>1, <2>2, <2>3, <2>4
  <2>. QED
    BY <1>1, <2>1, <2>3, <2>4, <2>5
<1>2. CASE t.kind = "bytes1"
  <2>1. v \in Seq(Byte) /\ Len(v) = 1
    BY <1>2, ValuesAssumption
  <2>2. PICK z \in Seq(Byte) : z = Zeros(Word - Len(v)) /\ Len(z) = Word - 1
    <3>1. Word - 1 \in Nat
      BY WordRangeIs
    <3>. QED
      BY <2>1, <3>1, ZerosIs
  <2>3. enc_scalar(t, v) = v \o z
    BY <1>2, <2>2 DEF enc_scalar
  <2>4. v \o z \in Seq(Byte) /\ Len(v \o z) = Word
    <3>1. v \o z \in Seq(Byte) /\ Len(v \o z) = Len(v) + Len(z)
      BY <2>1, <2>2, Concats
    <3>2. 1 + (Word - 1) = Word
      BY WordRangeIs
    <3>. QED
      BY <2>1, <2>2, <3>1, <3>2
  <2>. QED
    BY <1>2, <2>1, <2>3, <2>4
<1>3. CASE t.kind \in {"uint", "int"}
  <2>1. v \in Int
    <3>1. WordRange \in Nat /\ WordRange \div 2 \in Int
      BY WordRangeIs
    <3>2. CASE t.kind = "uint"
      <4>1. v \in 0..(WordRange - 1)
        BY <3>2, ValuesAssumption
      <4>. QED
        BY <3>1, <4>1
    <3>3. CASE t.kind = "int"
      <4>1. v \in -(WordRange \div 2)..(WordRange \div 2 - 1)
        BY <3>3, ValuesAssumption
      <4>. QED
        BY <3>1, <4>1
    <3>. QED
      BY <1>3, <3>2, <3>3
  <2>2. v % WordRange \in Nat /\ v % WordRange < WordRange
    BY <2>1, WordRangeIs, ModSplit
  <2>3. enc_scalar(t, v) = ToBytes(v % WordRange, Word)
    BY <1>3 DEF enc_scalar
  <2>4. ToBytes(v % WordRange, Word) \in Seq(Byte) /\ Len(ToBytes(v % WordRange, Word)) = Word
    BY <2>2, WordRangeIs, ToBytesIs
  <2>. QED
    BY <1>3, <2>1, <2>2, <2>3, <2>4
<1>. QED
  BY <1>0, <1>1, <1>2, <1>3

\* Encodings e of the values of type t, of the size of the type if it has one.
Sized(t, e) ==
  \A v \in Values(t) : /\ e[v] \in Seq(Byte)
                       /\ ~is_dynamic[t] => Len(e[v]) = static_size[t]

\* The encoded members of v, and the encoding made of them.
EncsOf(f, t, v) == [i \in DOMAIN v |-> f[members(t, Len(v))[i]][v[i]]]
LayoutOf(f, t, v) == enc_layout(members(t, Len(v)), EncsOf(f, t, v))
EncodingOf(f, t, v) ==
  IF t.kind = "array" THEN ToBytes(Len(v), Word) \o LayoutOf(f, t, v)
  ELSE IF t.kind \in {"fixed", "tuple"} THEN LayoutOf(f, t, v)
  ELSE enc_scalar(t, v)

LEMMA MembersEncoded ==
  ASSUME NEW t \in Types, Composite(t), NEW v \in Values(t), NEW f,
         \A u \in Types : Depth(u) < Depth(t) => Sized(u, f[u])
  PROVE  Encoded(members(t, Len(v)), EncsOf(f, t, v))
<1>. PICK m, n, e : m = members(t, Len(v)) /\ n = Len(v) /\ e = EncsOf(f, t, v)
  OBVIOUS
<1>1. /\ n \in Nat /\ DOMAIN v = 1..n /\ m \in Seq(Types) /\ Len(m) = n
      /\ \A i \in 1..n : /\ m[i] \in Types /\ Depth(m[i]) < Depth(t)
                         /\ v[i] \in Values(m[i])
  BY MembersOf
<1>2. e = [i \in 1..n |-> f[m[i]][v[i]]]
  BY <1>1 DEF EncsOf
<1>3. ASSUME NEW i \in 1..n
      PROVE  e[i] \in Seq(Byte) /\ (~is_dynamic[m[i]] => Len(e[i]) = static_size[m[i]])
  <2>1. Sized(m[i], f[m[i]]) /\ v[i] \in Values(m[i])
    BY <1>1
  <2>2. e[i] = f[m[i]][v[i]]
    BY <1>2
  <2>. QED
    BY <2>1, <2>2 DEF Sized
<1>4. e \in Seq(Seq(Byte)) /\ Len(e) = n
  BY <1>1, <1>2, <1>3
<1>. QED
  BY <1>1, <1>3, <1>4 DEF Encoded

LEMMA EncodingIsSized ==
  ASSUME NEW t \in Types, NEW v \in Values(t), NEW f,
         \A u \in Types : Depth(u) < Depth(t) => Sized(u, f[u])
  PROVE  /\ EncodingOf(f, t, v) \in Seq(Byte)
         /\ ~is_dynamic[t] => Len(EncodingOf(f, t, v)) = static_size[t]
<1>1. CASE ~Composite(t)
  <2>1. EncodingOf(f, t, v) = enc_scalar(t, v)
    BY <1>1 DEF EncodingOf, Composite
  <2>2. is_dynamic[t] <=> t.kind \in {"bytes", "string"}
    BY <1>1, DynamicUnfolds DEF Composite
  <2>3. static_size[t] = Word
    BY <1>1, StaticSizeUnfolds DEF Composite
  <2>. QED
    BY <1>1, <2>1, <2>2, <2>3, ScalarIs
<1>2. CASE Composite(t)
  <2>. PICK m, n, e, x : m = members(t, Len(v)) /\ n = Len(v) /\ e = EncsOf(f, t, v)
                         /\ x = LayoutOf(f, t, v)
    OBVIOUS
  <2>1. /\ n \in Nat /\ DOMAIN v = 1..n /\ m \in Seq(Types) /\ Len(m) = n
        /\ \A i \in 1..n : m[i] \in Types
    BY <1>2, MembersOf
  <2>2. Encoded(m, e)
    BY <1>2, MembersEncoded
  <2>3. Laid(m, e, x)
    BY <2>2, LayoutIs DEF LayoutOf
  <2>4. x \in Seq(Byte)
    BY <2>3 DEF Laid
  <2>5. CASE t.kind = "array"
    <3>1. is_dynamic[t]
      BY <2>5, DynamicUnfolds
    <3>2. ToBytes(n, Word) \in Seq(Byte)
      BY <2>1, WordRangeIs, ToBytesIs
    <3>3. EncodingOf(f, t, v) = ToBytes(n, Word) \o x
      BY <2>5 DEF EncodingOf
    <3>. QED
      BY <2>4, <3>1, <3>2, <3>3
  <2>6. CASE t.kind = "fixed"
    <3>1. EncodingOf(f, t, v) = x
      BY <2>6 DEF EncodingOf
    <3>2. ASSUME ~is_dynamic[t] PROVE Len(x) = static_size[t]
      <4>1. ~is_dynamic[t.of] /\ t.of \in Types /\ n = t.size
        BY <2>6, <3>2, DynamicUnfolds, TypesAssumption, ValuesAssumption
      <4>2. \A i \in 1..n : m[i] = t.of
        BY <2>1, <2>6 DEF members, Repeat
      <4>3. Len(x) = head_size(m)
        BY <2>1, <2>3, <4>1, <4>2 DEF Laid
      <4>4. PICK c \in Nat : c = static_size[t.of]
        BY <4>1, StaticSizeUnfolds
      <4>5. /\ head_widths(m) \in Seq(Nat) /\ Len(head_widths(m)) = n
            /\ \A i \in 1..Len(head_widths(m)) : head_widths(m)[i] = c
        BY <2>1, <4>1, <4>2, <4>4, HeadWidths
      <4>6. head_size(m) = n * c
        <5>1. n \in 0..Len(head_widths(m))
          BY <2>1, <4>5
        <5>2. SumTo(head_widths(m), n) = n * c
          BY <4>4, <4>5, <5>1, SumBounds
        <5>. QED
          BY <2>1, <5>2 DEF head_size
      <4>7. static_size[t] = t.size * c
        BY <2>6, <4>4, StaticSizeUnfolds
      <4>. QED
        BY <4>1, <4>3, <4>6, <4>7
    <3>. QED
      BY <2>4, <3>1, <3>2
  <2>7. CASE t.kind = "tuple"
    <3>1. EncodingOf(f, t, v) = x /\ m = t.parts
      BY <2>7 DEF EncodingOf, members
    <3>2. ASSUME ~is_dynamic[t] PROVE Len(x) = static_size[t]
      <4>1. \A i \in 1..n : ~is_dynamic[m[i]]
        <5>1. DOMAIN m = 1..n
          BY <2>1
        <5>. QED
          BY <2>7, <3>1, <3>2, <5>1, DynamicUnfolds
      <4>2. Len(x) = head_size(m)
        BY <2>1, <2>3, <4>1 DEF Laid
      <4>3. head_widths(m) = [i \in DOMAIN m |-> static_size[m[i]]]
        BY <2>1, <4>1 DEF head_widths
      <4>. QED
        BY <2>1, <2>7, <3>1, <4>2, <4>3, StaticSizeUnfolds DEF head_size
    <3>. QED
      BY <2>4, <3>1, <3>2
  <2>. QED
    BY <1>2, <2>5, <2>6, <2>7 DEF Composite
<1>. QED
  BY <1>1, <1>2

LEMMA EncUnfolds ==
  \A t \in Types : /\ Sized(t, enc[t])
                   /\ \A v \in Values(t) : enc[t][v] = EncodingOf(enc, t, v)
<1>. DEFINE body(t, f) == [v \in Values(t) |-> EncodingOf(f, t, v)]
            D == [t \in Types |-> {e \in [Values(t) -> Seq(Byte)] : Sized(t, e)}]
            H == [t \in Types |-> [f \in Fitting(D) |-> body(t, f)]]
            Eq(f) == f = [t \in Types |-> body(t, f)]
<1>1. ASSUME NEW t \in Types, NEW f,
             \A u \in Types : Depth(u) < Depth(t) => Sized(u, f[u])
      PROVE  body(t, f) \in D[t] /\ Sized(t, body(t, f))
  <2>1. \A v \in Values(t) : /\ EncodingOf(f, t, v) \in Seq(Byte)
                             /\ ~is_dynamic[t] => Len(EncodingOf(f, t, v)) = static_size[t]
    BY <1>1, EncodingIsSized
  <2>2. body(t, f) \in [Values(t) -> Seq(Byte)] /\ Sized(t, body(t, f))
    BY <2>1 DEF Sized
  <2>. QED
    BY <2>2
<1>2. ASSUME NEW t \in Types, NEW f, NEW g,
             \A u \in Types : Depth(u) < Depth(t) => f[u] = g[u]
      PROVE  body(t, f) = body(t, g)
  <2>1. ASSUME NEW v \in Values(t) PROVE EncodingOf(f, t, v) = EncodingOf(g, t, v)
    <3>1. CASE Composite(t)
      <4>1. EncsOf(f, t, v) = EncsOf(g, t, v)
        <5>1. \A i \in DOMAIN v : members(t, Len(v))[i] \in Types
                                  /\ Depth(members(t, Len(v))[i]) < Depth(t)
          BY <3>1, MembersOf
        <5>2. \A i \in DOMAIN v : f[members(t, Len(v))[i]] = g[members(t, Len(v))[i]]
          BY <1>2, <5>1
        <5>. QED
          BY <5>2 DEF EncsOf
      <4>. QED
        BY <4>1 DEF EncodingOf, LayoutOf
    <3>2. CASE ~Composite(t)
      BY <3>2 DEF EncodingOf, Composite
    <3>. QED
      BY <3>1, <3>2
  <2>. QED
    BY <2>1
<1>3. /\ \A t \in Types : D[t] = {e \in [Values(t) -> Seq(Byte)] : Sized(t, e)}
      /\ \A t \in Types : \A f \in Fitting(D) : H[t][f] = body(t, f)
  OBVIOUS
<1>4. \A f \in Fitting(D) : \A t \in Types : Sized(t, f[t])
  BY <1>3 DEF Fitting
<1>5. \A t \in Types : D[t] # {}
  <2>1. ASSUME NEW t \in Types PROVE D[t] # {}
    <3>1. PICK z \in Seq(Byte) : Len(z) = static_size[t]
      BY ZerosIs, StaticSizeUnfolds
    <3>2. [v \in Values(t) |-> z] \in D[t]
      BY <3>1 DEF Sized
    <3>. QED
      BY <3>2
  <2>. QED
    BY <2>1
<1>. HIDE DEF body, H, D
<1>6. Descends(H, D)
  <2>1. ASSUME NEW t \in Types, NEW f \in Fitting(D)
        PROVE  H[t][f] \in D[t]
    <3>1. body(t, f) \in D[t]
      BY <1>1, <1>4
    <3>. QED
      BY <1>3, <3>1
  <2>2. ASSUME NEW t \in Types, NEW f \in Fitting(D), NEW g \in Fitting(D),
               \A u \in Types : Depth(u) < Depth(t) => f[u] = g[u]
        PROVE  H[t][f] = H[t][g]
    BY <1>2, <1>3, <2>2
  <2>. QED
    BY <2>1, <2>2 DEF Descends
<1>7. PICK f \in Fitting(D) : \A t \in Types : f[t] = H[t][f]
  BY <1>5, <1>6, TypeRecursion
<1>8. Eq(f)
  <2>1. f = [t \in Types |-> f[t]]
    BY DEF Fitting
  <2>. QED
    BY <1>3, <1>7, <2>1
<1>9. Eq(enc)
  <2>1. enc = CHOOSE g : Eq(g)
    BY DEF enc, body, EncodingOf, LayoutOf, EncsOf
  <2>. HIDE DEF Eq
  <2>. QED
    BY <1>8, <2>1
<1>10. \A t \in Types : enc[t] = body(t, enc)
  BY <1>9
<1>11. \A t \in Types : Sized(t, enc[t])
  <2>. DEFINE T == {t \in Types : Sized(t, enc[t])}
  <2>1. ASSUME NEW t \in Types, \A u \in Types : Depth(u) < Depth(t) => u \in T
        PROVE  t \in T
    <3>1. Sized(t, body(t, enc))
      BY <1>1, <2>1
    <3>. QED
      BY <1>10, <3>1
  <2>. HIDE DEF T
  <2>2. Types \subseteq T
    BY <2>1, TypeInduction
  <2>. QED
    BY <2>2 DEF T
<1>12. \A t \in Types : \A v \in Values(t) : enc[t][v] = EncodingOf(enc, t, v)
  BY <1>10 DEF body
<1>. QED
  BY <1>11, <1>12

-----------------------------------------------------------------------------
(* Decoding.                                                               *)

\* What is read of type t at pos, its members read by dec.
DecodingOf(dec, t, raw, pos) ==
  LET length == FromBytes(Slice(raw, pos, Word))
  IN  IF t.kind = "array"
        THEN IF array_fits(length, raw, pos)
             THEN dec_members(dec, members(t, length), raw, pos + Word) ELSE Raise
      ELSE IF t.kind = "fixed" THEN dec_members(dec, members(t, t.size), raw, pos)
      ELSE IF t.kind = "tuple" THEN dec_members(dec, t.parts, raw, pos)
      ELSE dec_scalar(t, raw, pos)

LEMMA SameMembersRead ==
  ASSUME NEW f, NEW g, NEW types, NEW raw, NEW base,
         \A i \in DOMAIN types : f[types[i]] = g[types[i]]
  PROVE  dec_members(f, types, raw, base) = dec_members(g, types, raw, base)
<1>. DEFINE p(h) == [i \in DOMAIN types |-> h[types[i]][member_at(types, raw, base, i)]]
            r(q) == IF \A i \in DOMAIN types : q[i].ok
                    THEN Ok([i \in DOMAIN types |-> q[i].value]) ELSE Raise
<1>1. p(f) = p(g)
  OBVIOUS
<1>2. dec_members(f, types, raw, base) = r(p(f)) /\ dec_members(g, types, raw, base) = r(p(g))
  BY DEF dec_members
<1>. HIDE DEF p, r
<1>. QED
  BY <1>1, <1>2

\* Only the decoders of types less deep matter.
LEMMA SameDecoding ==
  ASSUME NEW f, NEW g, NEW t \in Types, NEW raw, NEW pos,
         \A u \in Types : Depth(u) < Depth(t) => f[u] = g[u]
  PROVE  DecodingOf(f, t, raw, pos) = DecodingOf(g, t, raw, pos)
<1>. PICK length : length = FromBytes(Slice(raw, pos, Word))
  OBVIOUS
<1>1. CASE t.kind \in {"array", "fixed"}
  <2>1. f[t.of] = g[t.of]
    BY <1>1, TypesAssumption
  <2>2. ASSUME NEW n, NEW p
        PROVE  dec_members(f, members(t, n), raw, p) = dec_members(g, members(t, n), raw, p)
    <3>1. \A i \in DOMAIN members(t, n) : members(t, n)[i] = t.of
      BY <1>1 DEF members, Repeat
    <3>. QED
      BY <2>1, <3>1, SameMembersRead
  <2>. QED
    BY <1>1, <2>2 DEF DecodingOf
<1>2. CASE t.kind = "tuple"
  <2>1. \A i \in DOMAIN t.parts : f[t.parts[i]] = g[t.parts[i]]
    BY <1>2, PartsOf
  <2>2. dec_members(f, t.parts, raw, pos) = dec_members(g, t.parts, raw, pos)
    BY <2>1, SameMembersRead
  <2>. QED
    BY <1>2, <2>2 DEF DecodingOf
<1>3. CASE t.kind \notin {"array", "fixed", "tuple"}
  BY <1>3 DEF DecodingOf
<1>. QED
  BY <1>1, <1>2, <1>3

LEMMA DecoderUnfolds ==
  ASSUME NEW raw
  PROVE  \A t \in Types : \A pos \in Nat :
           decoder(raw)[t][pos] = DecodingOf(decoder(raw), t, raw, pos)
<1>. DEFINE body(t, f) == [pos \in Nat |-> DecodingOf(f, t, raw, pos)]
            Upto(n, f) == f = [t \in Types |-> IF Depth(t) < n THEN body(t, f) ELSE 0]
            X == {n \in Nat : \E f : Upto(n, f)}
            Eq(f) == f = [t \in Types |-> body(t, f)]
<1>1. ASSUME NEW t \in Types, NEW f, NEW g, \A u \in Types : Depth(u) < Depth(t) => f[u] = g[u]
      PROVE  body(t, f) = body(t, g)
  BY <1>1, SameDecoding
<1>2. \A t \in Types : Depth(t) \in Nat
  BY TypesAssumption
<1>. HIDE DEF body
<1>3. 0 \in X
  <2>1. Upto(0, [t \in Types |-> 0])
    BY <1>2
  <2>. QED
    BY <2>1
<1>4. ASSUME NEW n \in Nat, n \in X PROVE n + 1 \in X
  <2>1. PICK f : Upto(n, f)
    BY <1>4
  <2>2. PICK g : g = [t \in Types |-> IF Depth(t) < n + 1 THEN body(t, f) ELSE 0]
    OBVIOUS
  <2>3. ASSUME NEW t \in Types, Depth(t) < n + 1 PROVE body(t, f) = body(t, g)
    <3>1. ASSUME NEW u \in Types, Depth(u) < Depth(t) PROVE f[u] = g[u]
      <4>1. Depth(u) < n /\ Depth(u) < n + 1
        BY <1>2, <2>3, <3>1
      <4>. QED
        BY <2>1, <2>2, <4>1
    <3>. QED
      BY <1>1, <3>1
  <2>4. Upto(n + 1, g)
    BY <2>2, <2>3
  <2>. QED
    BY <2>4
<1>5. \A n \in Nat : \E f : Upto(n, f)
  <2>1. Nat \subseteq X
    <3>. HIDE DEF X
    <3>. QED
      BY <1>3, <1>4, StepInduction
  <2>. QED
    BY <2>1
<1>. DEFINE apx(n) == CHOOSE f : Upto(n, f)
<1>6. \A n \in Nat : \A t \in Types : Depth(t) < n => apx(n)[t] = body(t, apx(n))
  <2>1. \A n \in Nat : Upto(n, apx(n))
    <3>. HIDE DEF Upto
    <3>. QED
      BY <1>5
  <2>. HIDE DEF apx
  <2>. QED
    BY <2>1
<1>. HIDE DEF apx, Upto, X
<1>. DEFINE T == {t \in Types : \A m, k \in Nat :
                    Depth(t) < m /\ Depth(t) < k => apx(m)[t] = apx(k)[t]}
<1>7. Types \subseteq T
  <2>1. ASSUME NEW t \in Types, \A u \in Types : Depth(u) < Depth(t) => u \in T
        PROVE  t \in T
    <3>. SUFFICES ASSUME NEW m \in Nat, NEW k \in Nat, Depth(t) < m, Depth(t) < k
                  PROVE  apx(m)[t] = apx(k)[t]
      OBVIOUS
    <3>1. ASSUME NEW u \in Types, Depth(u) < Depth(t) PROVE apx(m)[u] = apx(k)[u]
      <4>1. Depth(u) < m /\ Depth(u) < k
        BY <1>2, <3>1
      <4>. QED
        BY <2>1, <3>1, <4>1
    <3>2. body(t, apx(m)) = body(t, apx(k))
      BY <1>1, <3>1
    <3>. QED
      BY <1>6, <3>2
  <2>. HIDE DEF T
  <2>. QED
    BY <2>1, TypeInduction
<1>. DEFINE L == [t \in Types |-> apx(Depth(t) + 1)[t]]
<1>8. ASSUME NEW t \in Types PROVE L[t] = body(t, L)
  <2>1. Depth(t) + 1 \in Nat /\ Depth(t) < Depth(t) + 1
    BY <1>2
  <2>2. PICK a : a = apx(Depth(t) + 1)
    OBVIOUS
  <2>3. a[t] = body(t, a) /\ L[t] = a[t]
    BY <1>6, <2>1, <2>2
  <2>4. ASSUME NEW u \in Types, Depth(u) < Depth(t) PROVE a[u] = L[u]
    <3>1. Depth(u) + 1 \in Nat /\ Depth(u) < Depth(u) + 1 /\ Depth(u) < Depth(t) + 1
      BY <1>2, <2>4
    <3>2. apx(Depth(t) + 1)[u] = apx(Depth(u) + 1)[u]
      BY <1>7, <2>1, <3>1
    <3>. QED
      BY <2>2, <3>2
  <2>. HIDE DEF L
  <2>5. body(t, a) = body(t, L)
    BY <1>1, <2>4
  <2>. QED
    BY <2>3, <2>5
<1>9. Eq(L)
  <2>1. L = [t \in Types |-> L[t]]
    OBVIOUS
  <2>. HIDE DEF L
  <2>. QED
    BY <1>8, <2>1
<1>10. decoder(raw) = CHOOSE f : Eq(f)
  BY DEF decoder, body, DecodingOf
<1>11. Eq(decoder(raw))
  <2>. HIDE DEF Eq, L
  <2>. QED
    BY <1>9, <1>10
<1>. QED
  BY <1>11 DEF body

\* What is in the words of a scalar is what was written there.
LEMMA NumberDecodes ==
  ASSUME NEW t \in Types, t.kind \in {"uint", "int"}, NEW v \in Values(t)
  PROVE  /\ v \in Int /\ v % WordRange \in Nat
         /\ v = IF t.kind = "int" /\ v % WordRange >= WordRange \div 2
                THEN (v % WordRange) - WordRange ELSE v % WordRange
<1>1. PICK M \in Nat, h \in Nat : M = WordRange /\ 1 < M /\ h = M \div 2 /\ 2 * h <= M
  <2>1. WordRange \in Nat /\ 1 < WordRange
    BY WordRangeIs
  <2>2. PICK M \in Nat : M = WordRange /\ 1 < M
    BY <2>1
  <2>3. M \div 2 \in Nat /\ M = (M \div 2) * 2 + (M % 2) /\ M % 2 \in 0..(2 - 1)
    BY Quotient
  <2>4. PICK h \in Nat, r \in 0..1 : h = M \div 2 /\ r = M % 2 /\ M = h * 2 + r
    BY <2>3
  <2>. QED
    BY <2>2, <2>4
<1>2. ASSUME NEW a \in Int, NEW b \in 0..(M - 1), NEW k \in Int, b = a + k * M
      PROVE  a % M = b
  <2>1. a % M \in 0..(M - 1) /\ a % M \in Int /\ Eqv(a % M, a, M)
    BY <1>1, ModSplit, ModEqv
  <2>2. Eqv(b, a, M)
    BY <1>2 DEF Eqv
  <2>3. Eqv(a, b, M)
    BY <2>2, EqvSym
  <2>4. Eqv(a % M, b, M)
    BY <2>1, <2>3, EqvTrans
  <2>. QED
    BY <1>1, <2>1, <2>4, EqvUnique
<1>3. CASE t.kind = "uint"
  <2>1. v \in 0..(M - 1)
    BY <1>1, <1>3, ValuesAssumption
  <2>2. v = v + 0 * M
    BY <2>1
  <2>3. v % M = v
    BY <1>2, <2>1, <2>2
  <2>. QED
    BY <1>1, <1>3, <2>1, <2>3
<1>4. CASE t.kind = "int"
  <2>1. v \in (-h)..(h - 1)
    BY <1>1, <1>4, ValuesAssumption
  <2>2. CASE v >= 0
    <3>1. v \in 0..(M - 1) /\ v = v + 0 * M /\ v < h
      BY <1>1, <2>1, <2>2
    <3>2. v % M = v
      BY <1>2, <3>1
    <3>. QED
      BY <1>1, <1>4, <3>1, <3>2
  <2>3. CASE v < 0
    <3>1. v + M \in 0..(M - 1) /\ v + M = v + 1 * M /\ v + M >= h /\ v \in Int
      BY <1>1, <2>1, <2>3
    <3>2. v % M = v + M
      BY <1>2, <3>1
    <3>3. v = (v + M) - M /\ v + M \in Nat
      BY <3>1
    <3>4. v % M >= h /\ v = (v % M) - M /\ v % M \in Nat
      BY <3>1, <3>2, <3>3
    <3>5. v % WordRange >= WordRange \div 2 /\ v = (v % WordRange) - WordRange
          /\ v % WordRange \in Nat
      BY <1>1, <3>4
    <3>. QED
      BY <1>4, <3>1, <3>5
  <2>. QED
    BY <2>1, <2>2, <2>3
<1>. QED
  BY <1>3, <1>4

LEMMA ScalarDecodes ==
  ASSUME NEW t \in Types, ~Composite(t), NEW v \in Values(t), NEW raw \in Seq(Byte),
         NEW p \in Nat, At(raw, p, enc_scalar(t, v)), Len(enc_scalar(t, v)) < WordRange
  PROVE  dec_scalar(t, raw, p) = Ok(v)
<1>0. t.kind \in {"uint", "int", "bytes1", "bytes", "string"}
  BY TypesAssumption DEF Composite
<1>. PICK e, word : e = enc_scalar(t, v) /\ word = FromBytes(Slice(raw, p, Word))
  OBVIOUS
<1>1. e \in Seq(Byte) /\ At(raw, p, e) /\ Len(e) < WordRange
  BY ScalarIs
<1>2. CASE t.kind \in {"bytes", "string"}
  <2>1. v \in Seq(Byte)
    BY <1>2, ScalarIs
  <2>2. PICK n \in Nat, b \in Seq(Byte) : n = Len(v) /\ b = ToBytes(n, Word) /\ Len(b) = Word
    <3>1. Len(v) \in Nat
      BY <2>1
    <3>. QED
      BY <3>1, WordRangeIs, ToBytesIs
  <2>3. PICK z \in Seq(Byte) : e = b \o v \o z
    BY <1>2, <2>2, ScalarIs
  <2>4. b \o v \in Seq(Byte) /\ Len(b \o v) = Word + n /\ Len(e) = (Word + n) + Len(z)
    <3>1. b \o v \in Seq(Byte) /\ Len(b \o v) = Len(b) + Len(v)
      BY <2>1, <2>2, Concats
    <3>2. Len(e) = Len(b \o v) + Len(z)
      BY <2>3, <3>1, Concats
    <3>. QED
      BY <2>2, <3>1, <3>2
  <2>5. n < WordRange
    <3>1. Len(z) \in Nat
      OBVIOUS
    <3>. QED
      BY <1>1, <2>4, <3>1, WordRangeIs
  <2>6. At(raw, p, b \o v)
    <3>1. At(e, 0, b \o v)
      BY <2>3, <2>4, AtBegin
    <3>2. At(raw, p + 0, b \o v)
      BY <1>1, <2>4, <3>1, AtInside
    <3>. QED
      BY <3>2
  <2>7. At(raw, p, b) /\ At(raw, p + Word, v)
    <3>1. At(b \o v, 0, b) /\ At(b \o v, Len(b), v)
      BY <2>1, AtBegin
    <3>2. At(raw, p + 0, b) /\ At(raw, p + Word, v)
      BY <2>1, <2>2, <2>4, <2>6, <3>1, AtInside, WordRangeIs
    <3>. QED
      BY <3>2
  <2>8. word = n
    BY <2>2, <2>5, <2>7, WordIsRead
  <2>9. Slice(raw, p + Word, word) = v
    <3>1. p + Word \in Nat
      BY WordRangeIs
    <3>. QED
      BY <2>1, <2>2, <2>7, <2>8, <3>1, SliceAt
  <2>10. t.kind = "string" => IsUtf8(v)
    BY ValuesAssumption
  <2>. QED
    BY <1>2, <2>9, <2>10 DEF dec_scalar
<1>3. CASE t.kind = "bytes1"
  <2>1. v \in Seq(Byte) /\ Len(v) = 1
    BY <1>3, ScalarIs
  <2>2. PICK z \in Seq(Byte) : e = v \o z
    BY <1>3, ScalarIs
  <2>3. At(e, 0, v)
    BY <2>1, <2>2, AtBegin
  <2>4. At(raw, p + 0, v) /\ p + 0 = p
    BY <1>1, <2>1, <2>3, AtInside
  <2>5. Slice(raw, p, 1) = v
    <3>1. Slice(raw, p, Len(v)) = v
      BY <2>1, <2>4, SliceAt
    <3>. QED
      BY <2>1, <3>1
  <2>. QED
    BY <1>3, <2>5 DEF dec_scalar
<1>4. CASE t.kind \in {"uint", "int"}
  <2>1. v % WordRange \in Nat /\ v % WordRange < WordRange /\ e = ToBytes(v % WordRange, Word)
    BY <1>4, ScalarIs
  <2>2. word = v % WordRange
    BY <1>1, <2>1, WordIsRead
  <2>3. v = IF t.kind = "int" /\ word >= WordRange \div 2 THEN word - WordRange ELSE word
    BY <1>4, <2>2, NumberDecodes
  <2>4. dec_scalar(t, raw, p) =
          Ok(IF t.kind = "int" /\ word >= WordRange \div 2 THEN word - WordRange ELSE word)
    BY <1>4 DEF dec_scalar
  <2>. QED
    BY <2>3, <2>4
<1>. QED
  BY <1>0, <1>2, <1>3, <1>4

\* The decoder finds every member where the layout has it.
LEMMA MemberFound ==
  ASSUME NEW types, NEW encs, Encoded(types, encs), NEW x, Laid(types, encs, x),
         NEW raw \in Seq(Byte), NEW p \in Nat, At(raw, p, x), Len(x) < WordRange,
         NEW i \in 1..Len(types)
  PROVE  /\ member_at(types, raw, p, i) \in Nat
         /\ At(raw, member_at(types, raw, p, i), encs[i])
         /\ Len(encs[i]) < WordRange
<1>. PICK e, head : e = encs[i] /\ head = HeadAt(types, i)
  OBVIOUS
<1>1. /\ types \in Seq(Types) /\ Len(types) \in Nat /\ types[i] \in Types
      /\ e \in Seq(Byte) /\ Len(e) \in Nat /\ x \in Seq(Byte) /\ Len(x) \in Nat
  <2>1. /\ types \in Seq(Types) /\ encs \in Seq(Seq(Byte)) /\ Len(encs) = Len(types)
        /\ x \in Seq(Byte)
    BY DEF Encoded, Laid
  <2>2. e \in Seq(Byte) /\ types[i] \in Types
    BY <2>1, ElementOfSeq
  <2>. QED
    BY <2>1, <2>2
<1>2. head \in Nat
  <2>1. i - 1 \in 0..Len(head_widths(types))
    BY <1>1, HeadWidths
  <2>. QED
    BY <1>1, <2>1, HeadWidths DEF HeadAt, Sums
<1>3. MemberLaid(types, encs, x, i)
  BY DEF Laid
<1>4. ASSUME NEW q \in Nat, At(x, q, e) PROVE At(raw, p + q, e) /\ Len(e) < WordRange
  <2>1. At(raw, p + q, e)
    BY <1>1, <1>4, AtInside
  <2>2. q + Len(e) <= Len(x)
    BY <1>4 DEF At
  <2>. QED
    BY <1>1, <2>1, <2>2, WordRangeIs
<1>5. CASE ~is_dynamic[types[i]]
  <2>1. At(x, head, e)
    BY <1>3, <1>5 DEF MemberLaid
  <2>2. At(raw, p + head, e) /\ Len(e) < WordRange
    BY <1>2, <1>4, <2>1
  <2>3. member_at(types, raw, p, i) = p + head /\ p + head \in Nat
    BY <1>2, <1>5 DEF member_at, HeadAt
  <2>. QED
    BY <2>2, <2>3
<1>6. CASE is_dynamic[types[i]]
  <2>1. PICK offset \in 0..Len(x) : At(x, head, ToBytes(offset, Word)) /\ At(x, offset, e)
    BY <1>3, <1>6 DEF MemberLaid
  <2>2. offset \in Nat /\ offset < WordRange
    BY <1>1, <2>1, WordRangeIs
  <2>3. At(raw, p + offset, e) /\ Len(e) < WordRange
    BY <1>4, <2>1, <2>2
  <2>4. At(raw, p + head, ToBytes(offset, Word))
    <3>1. ToBytes(offset, Word) \in Seq(Byte)
      BY <2>2, WordRangeIs, ToBytesIs
    <3>. QED
      BY <1>1, <1>2, <2>1, <3>1, AtInside
  <2>5. FromBytes(Slice(raw, p + head, Word)) = offset
    <3>1. p + head \in Nat
      BY <1>2
    <3>. QED
      BY <2>2, <2>4, <3>1, WordIsRead
  <2>6. member_at(types, raw, p, i) = p + offset /\ p + offset \in Nat
    BY <1>6, <2>2, <2>5 DEF member_at, HeadAt
  <2>. QED
    BY <2>3, <2>6
<1>. QED
  BY <1>5, <1>6

\* The members that dec reads one by one, read together.
LEMMA MembersRead ==
  ASSUME NEW types, NEW values, NEW dec, NEW raw, NEW p,
         values = [i \in DOMAIN types |-> values[i]],
         \A i \in DOMAIN types : dec[types[i]][member_at(types, raw, p, i)] = Ok(values[i])
  PROVE  dec_members(dec, types, raw, p) = Ok(values)
<1>1. \A i \in DOMAIN types : /\ dec[types[i]][member_at(types, raw, p, i)].ok
                              /\ dec[types[i]][member_at(types, raw, p, i)].value = values[i]
  <2>1. ASSUME NEW a, NEW b, a = Ok(b) PROVE a.ok /\ a.value = b
    BY <2>1 DEF Ok
  <2>. QED
    BY <2>1
<1>2. dec_members(dec, types, raw, p) = Ok([i \in DOMAIN types |-> values[i]])
  BY <1>1 DEF dec_members
<1>. QED
  BY <1>2

\* Each member, wherever its encoding stands.
ReadsBack(dec, types, encs, values, raw) ==
  /\ values = [i \in DOMAIN types |-> values[i]]
  /\ \A i \in 1..Len(types) : \A m \in Nat :
       At(raw, m, encs[i]) /\ Len(encs[i]) < WordRange => dec[types[i]][m] = Ok(values[i])

LEMMA LayoutDecodes ==
  ASSUME NEW types, NEW encs, Encoded(types, encs), NEW x, Laid(types, encs, x),
         NEW raw \in Seq(Byte), NEW p \in Nat, At(raw, p, x), Len(x) < WordRange,
         NEW values, NEW dec, ReadsBack(dec, types, encs, values, raw)
  PROVE  dec_members(dec, types, raw, p) = Ok(values)
<1>1. DOMAIN types = 1..Len(types)
  BY DEF Encoded
<1>2. \A i \in DOMAIN types : dec[types[i]][member_at(types, raw, p, i)] = Ok(values[i])
  BY <1>1, MemberFound DEF ReadsBack
<1>. QED
  BY <1>2, MembersRead DEF ReadsBack

LEMMA MaxTwo ==
  ASSUME NEW a \in Int, NEW b \in Int
  PROVE  Max({a, b}) = IF a >= b THEN a ELSE b
<1>. DEFINE m == IF a >= b THEN a ELSE b
<1>1. m \in {a, b} /\ \A y \in {a, b} : m >= y
  OBVIOUS
<1>2. \A x \in {a, b} : (\A y \in {a, b} : x >= y) => x = m
  OBVIOUS
<1>. HIDE DEF m
<1>3. Max({a, b}) = m
  BY <1>1, <1>2 DEF Max
<1>. QED
  BY <1>3 DEF m

\* A length is accepted where that many words are left.
LEMMA ArrayFits ==
  ASSUME NEW n \in Nat, NEW raw, Len(raw) \in Nat, NEW p \in Nat,
         p + Word + n * Word <= Len(raw)
  PROVE  array_fits(n, raw, p)
<1>. PICK w \in Nat : w = Word /\ 0 < w
  BY WordRangeIs
<1>. PICK left : left = Len(raw) - p - w
  OBVIOUS
<1>0. left \in Int
  OBVIOUS
<1>1. n * w \in Nat /\ n * w <= left /\ left \in Nat
  OBVIOUS
<1>2. Max({0, left}) = left
  BY <1>1, MaxTwo
<1>3. PICK q \in Nat, r \in 0..(w - 1) : q = left \div w /\ left = q * w + r
  <2>. SUFFICES ASSUME NEW a \in Nat
                PROVE  \E q \in Nat, r \in 0..(w - 1) : q = a \div w /\ a = q * w + r
    BY <1>1
  <2>1. a \div w \in Nat /\ a % w \in 0..(w - 1) /\ a = (a \div w) * w + (a % w)
    BY Quotient
  <2>. QED
    BY <2>1
<1>4. n <= q
  <2>. SUFFICES ASSUME n >= q + 1 PROVE FALSE
    OBVIOUS
  <2>1. n * w >= (q + 1) * w
    OBVIOUS
  <2>2. (q + 1) * w = q * w + w /\ q * w \in Nat
    OBVIOUS
  <2>. QED
    BY <1>1, <1>3, <2>1, <2>2
<1>. QED
  BY <1>2, <1>3, <1>4 DEF array_fits

\* Every element of an array takes a word or more of its layout.
LEMMA ArrayTakesRoom ==
  ASSUME NEW t \in Types, t.kind = "array", NEW n \in Nat, NEW encs, NEW x,
         Laid(members(t, n), encs, x)
  PROVE  n * Word <= Len(x) /\ n <= Len(x)
<1>. PICK m : m = members(t, n)
  OBVIOUS
<1>1. t.of \in Types /\ (is_dynamic[t.of] \/ static_size[t.of] >= Word)
  BY TypesAssumption
<1>2. m \in Seq(Types) /\ Len(m) = n /\ \A i \in 1..n : m[i] = t.of
  <2>1. m = [i \in 1..n |-> t.of]
    BY DEF members, Repeat
  <2>. QED
    BY <1>1, <2>1
<1>. PICK hw : hw = head_widths(m)
  OBVIOUS
<1>3. /\ hw \in Seq(Nat) /\ Len(hw) = n
      /\ \A i \in 1..n : hw[i] = IF is_dynamic[m[i]] THEN Word ELSE static_size[m[i]]
  BY <1>2, HeadWidths
<1>4. Word \in Nat /\ 0 < Word /\ static_size[t.of] \in Nat
  BY <1>1, WordRangeIs, StaticSizeUnfolds
<1>5. \A i \in 1..Len(hw) : hw[i] >= Word
  BY <1>1, <1>2, <1>3, <1>4
<1>6. SumTo(hw, n) >= n * Word
  <2>1. n \in 0..Len(hw)
    BY <1>3
  <2>. QED
    BY <1>3, <1>4, <1>5, <2>1, SumBounds
<1>7. head_size(m) \in Nat /\ head_size(m) = SumTo(hw, n)
  BY <1>2, HeadWidths DEF head_size
<1>8. head_size(m) <= Len(x) /\ Len(x) \in Nat
  <2>1. x \in Seq(Byte) /\ head_size(m) <= Len(x)
    BY DEF Laid
  <2>. QED
    BY <2>1
<1>9. n * Word \in Nat /\ n <= n * Word
  BY <1>4
<1>. QED
  BY <1>6, <1>7, <1>8, <1>9

\* What decoding gives of any value of type t that stands in the data.
DecodesBack(t, raw) ==
  \A v \in Values(t) : \A p \in Nat :
    At(raw, p, enc[t][v]) /\ Len(enc[t][v]) < WordRange => decoder(raw)[t][p] = Ok(v)

\* The members of a composite value, wherever their layout stands.
LEMMA CompositeDecodes ==
  ASSUME NEW raw \in Seq(Byte), NEW t \in Types, Composite(t),
         \A u \in Types : Depth(u) < Depth(t) => DecodesBack(u, raw),
         NEW v \in Values(t), NEW q \in Nat, At(raw, q, LayoutOf(enc, t, v)),
         Len(LayoutOf(enc, t, v)) < WordRange
  PROVE  /\ dec_members(decoder(raw), members(t, Len(v)), raw, q) = Ok(v)
         /\ Laid(members(t, Len(v)), EncsOf(enc, t, v), LayoutOf(enc, t, v))
<1>. PICK m, n, e, x : m = members(t, Len(v)) /\ n = Len(v) /\ e = EncsOf(enc, t, v)
                       /\ x = LayoutOf(enc, t, v)
  OBVIOUS
<1>1. /\ n \in Nat /\ v = [i \in 1..n |-> v[i]] /\ m \in Seq(Types) /\ Len(m) = n
      /\ \A i \in 1..n : m[i] \in Types /\ Depth(m[i]) < Depth(t) /\ v[i] \in Values(m[i])
  BY MembersOf
<1>2. Encoded(m, e) /\ e = [i \in 1..n |-> enc[m[i]][v[i]]]
  <2>1. \A u \in Types : Depth(u) < Depth(t) => Sized(u, enc[u])
    BY EncUnfolds
  <2>2. Encoded(m, e)
    BY <2>1, MembersEncoded
  <2>3. DOMAIN v = 1..n
    BY <1>1
  <2>. QED
    BY <2>2, <2>3 DEF EncsOf
<1>3. Laid(m, e, x)
  BY <1>2, LayoutIs DEF LayoutOf
<1>. PICK dec : dec = decoder(raw)
  OBVIOUS
<1>4. ASSUME NEW i \in 1..n, NEW p \in Nat, At(raw, p, e[i]), Len(e[i]) < WordRange
      PROVE  dec[m[i]][p] = Ok(v[i])
  <2>1. DecodesBack(m[i], raw)
    BY <1>1
  <2>2. e[i] = enc[m[i]][v[i]]
    BY <1>2
  <2>. QED
    BY <1>1, <1>4, <2>1, <2>2 DEF DecodesBack
<1>5. v = [i \in DOMAIN m |-> v[i]]
  BY <1>1
<1>6. dec_members(dec, m, raw, q) = Ok(v)
  <2>1. At(raw, q, x) /\ Len(x) < WordRange
    OBVIOUS
  <2>2. ReadsBack(dec, m, e, v, raw)
    BY <1>1, <1>4, <1>5 DEF ReadsBack
  <2>. QED
    BY <1>2, <1>3, <2>1, <2>2, LayoutDecodes
<1>. QED
  BY <1>3, <1>6

\* Every value of every type is read back from where its encoding stands.
LEMMA EveryTypeDecodes ==
  ASSUME NEW raw \in Seq(Byte)
  PROVE  \A t \in Types : DecodesBack(t, raw)
<1>. DEFINE T == {t \in Types : DecodesBack(t, raw)}
<1>1. ASSUME NEW t \in Types, \A u \in Types : Depth(u) < Depth(t) => u \in T
      PROVE  t \in T
  <2>. SUFFICES ASSUME NEW v \in Values(t), NEW p \in Nat,
                       At(raw, p, enc[t][v]), Len(enc[t][v]) < WordRange
                PROVE  decoder(raw)[t][p] = Ok(v)
    BY DEF DecodesBack
  <2>0. \A u \in Types : Depth(u) < Depth(t) => DecodesBack(u, raw)
    BY <1>1
  <2>. HIDE DEF T
  <2>. PICK e, dec, n, x : e = enc[t][v] /\ dec = decoder(raw) /\ n = Len(v)
                           /\ x = LayoutOf(enc, t, v)
    OBVIOUS
  <2>1. e = EncodingOf(enc, t, v) /\ e \in Seq(Byte)
    BY EncUnfolds DEF Sized
  <2>2. dec[t][p] = DecodingOf(dec, t, raw, p)
    BY DecoderUnfolds
  <2>3. CASE ~Composite(t)
    <3>1. e = enc_scalar(t, v)
      BY <2>1, <2>3 DEF EncodingOf, Composite
    <3>2. DecodingOf(dec, t, raw, p) = dec_scalar(t, raw, p)
      BY <2>3 DEF DecodingOf, Composite
    <3>3. dec_scalar(t, raw, p) = Ok(v)
      BY <2>3, <3>1, ScalarDecodes
    <3>. QED
      BY <2>2, <3>2, <3>3
  <2>4. CASE t.kind \in {"fixed", "tuple"}
    <3>1. e = x /\ Composite(t)
      BY <2>1, <2>4 DEF EncodingOf, Composite
    <3>2. dec_members(dec, members(t, n), raw, p) = Ok(v)
      BY <2>0, <3>1, CompositeDecodes
    <3>3. t.kind = "fixed" => members(t, n) = members(t, t.size)
      BY ValuesAssumption DEF members
    <3>4. t.kind = "tuple" => members(t, n) = t.parts
      BY DEF members
    <3>. QED
      BY <2>2, <2>4, <3>2, <3>3, <3>4 DEF DecodingOf
  <2>5. CASE t.kind = "array"
    <3>1. Composite(t) /\ e = ToBytes(n, Word) \o x
      BY <2>1, <2>5 DEF EncodingOf, Composite
    <3>2. n \in Nat /\ ToBytes(n, Word) \in Seq(Byte) /\ Len(ToBytes(n, Word)) = Word
          /\ Word \in Nat
      BY <3>1, MembersOf, WordRangeIs, ToBytesIs
    <3>3. Laid(members(t, n), EncsOf(enc, t, v), x)
      <4>1. \A u \in Types : Depth(u) < Depth(t) => Sized(u, enc[u])
        BY EncUnfolds
      <4>2. Encoded(members(t, n), EncsOf(enc, t, v))
        BY <3>1, <4>1, MembersEncoded
      <4>. QED
        BY <4>2, LayoutIs DEF LayoutOf
    <3>4. x \in Seq(Byte) /\ Len(x) \in Nat
      <4>1. x \in Seq(Byte)
        BY <3>3 DEF Laid
      <4>. QED
        BY <4>1
    <3>5. Len(e) = Word + Len(x)
      BY <3>1, <3>2, <3>4, Concats
    <3>6. At(raw, p, ToBytes(n, Word)) /\ At(raw, p + Word, x)
      <4>1. At(e, 0, ToBytes(n, Word)) /\ At(e, Word, x)
        BY <3>1, <3>2, <3>4, AtBegin
      <4>2. At(raw, p + 0, ToBytes(n, Word)) /\ At(raw, p + Word, x)
        BY <2>1, <3>2, <3>4, <4>1, AtInside
      <4>. QED
        BY <4>2
    <3>7. n * Word <= Len(x) /\ n <= Len(x) /\ n * Word \in Nat
      <4>1. n * Word <= Len(x) /\ n <= Len(x)
        BY <2>5, <3>2, <3>3, ArrayTakesRoom
      <4>. QED
        BY <3>2, <4>1
    <3>8. Len(x) < WordRange /\ n < WordRange
      BY <3>2, <3>4, <3>5, <3>7, WordRangeIs
    <3>9. FromBytes(Slice(raw, p, Word)) = n
      BY <3>2, <3>6, <3>8, WordIsRead
    <3>10. array_fits(n, raw, p)
      <4>1. p + Word + n * Word <= Len(raw) /\ Len(raw) \in Nat
        <5>1. (p + Word) + Len(x) <= Len(raw)
          BY <3>6 DEF At
        <5>2. Len(raw) \in Nat
          OBVIOUS
        <5>. QED
          BY <3>2, <3>4, <3>7, <5>1, <5>2
      <4>. QED
        BY <3>2, <4>1, ArrayFits
    <3>11. dec_members(dec, members(t, n), raw, p + Word) = Ok(v)
      <4>1. p + Word \in Nat
        BY <3>2
      <4>. QED
        BY <2>0, <3>1, <3>6, <3>8, <4>1, CompositeDecodes
    <3>. QED
      BY <2>2, <2>5, <3>9, <3>10, <3>11 DEF DecodingOf
  <2>. QED
    BY <2>3, <2>4, <2>5 DEF Composite
<1>2. Types \subseteq T
  <2>. HIDE DEF T
  <2>. QED
    BY <1>1, TypeInduction
<1>. QED
  BY <1>2

\* Decoding inverts encoding (_abi_dec and _abi_enc of eth.py): a value of any type,
\* nested however deep, is read back from wherever in the data its encoding stands.
\* So no offset, length or head is ever taken for another's.
THEOREM DecodeInvertsEncode ==
  ASSUME NEW raw \in Seq(Byte), NEW t \in Types, NEW v \in Values(t), NEW p \in Nat,
         At(raw, p, enc[t][v]), Len(enc[t][v]) < WordRange
  PROVE  decoder(raw)[t][p] = Ok(v)
BY EveryTypeDecodes DEF DecodesBack

-----------------------------------------------------------------------------
(* Tuples of arguments.                                                    *)

ArgumentsOf(types, values) == [i \in DOMAIN types |-> enc[types[i]][values[i]]]

LEMMA TupleIsLaid ==
  ASSUME NEW types \in Seq(Types), NEW values, OfTypes(values, types)
  PROVE  /\ Encoded(types, ArgumentsOf(types, values))
         /\ Laid(types, ArgumentsOf(types, values), enc_tuple(types, values))
         /\ enc_tuple(types, values) \in Seq(Byte)
         /\ head_size(types) <= Len(enc_tuple(types, values))
<1>. PICK e, x, n : e = ArgumentsOf(types, values) /\ x = enc_tuple(types, values)
                    /\ n = Len(types)
  OBVIOUS
<1>1. /\ n \in Nat /\ DOMAIN types = 1..n
      /\ \A i \in 1..n : types[i] \in Types /\ values[i] \in Values(types[i])
  BY OfTypesIs
<1>2. e = [i \in 1..n |-> enc[types[i]][values[i]]]
  BY <1>1 DEF ArgumentsOf
<1>3. \A i \in 1..n : e[i] \in Seq(Byte)
                      /\ (~is_dynamic[types[i]] => Len(e[i]) = static_size[types[i]])
  BY <1>1, <1>2, EncUnfolds DEF Sized
<1>4. e \in Seq(Seq(Byte)) /\ Len(e) = n
  BY <1>1, <1>2, <1>3
<1>5. Encoded(types, e)
  BY <1>3, <1>4 DEF Encoded
<1>6. x = enc_layout(types, e)
  BY DEF enc_tuple, ArgumentsOf
<1>7. Laid(types, e, x)
  BY <1>5, <1>6, LayoutIs
<1>. QED
  BY <1>5, <1>7 DEF Laid

\* A tuple of arguments is read back from wherever it stands (_abi_dec_tuple).
THEOREM TupleDecodes ==
  ASSUME NEW raw \in Seq(Byte), NEW types \in Seq(Types), NEW values,
         OfTypes(values, types), NEW p \in Nat, At(raw, p, enc_tuple(types, values)),
         Len(enc_tuple(types, values)) < WordRange
  PROVE  dec_tuple(types, raw, p) = Ok(values)
<1>. PICK e, x, n, dec : /\ e = ArgumentsOf(types, values) /\ x = enc_tuple(types, values)
                         /\ n = Len(types) /\ dec = decoder(raw)
  OBVIOUS
<1>1. /\ DOMAIN types = 1..n /\ values = [i \in 1..n |-> values[i]]
      /\ \A i \in 1..n : types[i] \in Types /\ values[i] \in Values(types[i])
  BY OfTypesIs
<1>2. Encoded(types, e) /\ Laid(types, e, x) /\ At(raw, p, x) /\ Len(x) < WordRange
  BY TupleIsLaid
<1>3. ASSUME NEW i \in 1..n, NEW m \in Nat, At(raw, m, e[i]), Len(e[i]) < WordRange
      PROVE  dec[types[i]][m] = Ok(values[i])
  <2>1. e[i] = enc[types[i]][values[i]]
    BY <1>1 DEF ArgumentsOf
  <2>2. DecodesBack(types[i], raw)
    BY <1>1, EveryTypeDecodes
  <2>. QED
    BY <1>1, <1>3, <2>1, <2>2 DEF DecodesBack
<1>4. ReadsBack(dec, types, e, values, raw)
  BY <1>1, <1>3 DEF ReadsBack
<1>5. dec_members(dec, types, raw, p) = Ok(values)
  BY <1>2, <1>4, LayoutDecodes
<1>. QED
  BY <1>5 DEF dec_tuple


-----------------------------------------------------------------------------
(* Choosing the indexed arguments, or the others.                          *)

Chosen(s, types, indexed, wanted) ==
  [i \in DOMAIN types |-> IF indexed[i] = wanted THEN <<s[i]>> ELSE <<>>]

\* How many of the first i arguments are chosen.
Marks(indexed, wanted) == [i \in DOMAIN indexed |-> IF indexed[i] = wanted THEN 1 ELSE 0]
CountTo(indexed, wanted, i) == SumTo(Marks(indexed, wanted), i)

LEMMA CountSteps ==
  ASSUME NEW indexed \in Seq(BOOLEAN), NEW wanted \in BOOLEAN
  PROVE  /\ Marks(indexed, wanted) \in Seq(Nat) /\ Len(Marks(indexed, wanted)) = Len(indexed)
         /\ CountTo(indexed, wanted, 0) = 0
         /\ \A i \in 0..Len(indexed) : CountTo(indexed, wanted, i) \in Nat
         /\ \A i \in 1..Len(indexed) :
              CountTo(indexed, wanted, i) =
                CountTo(indexed, wanted, i - 1) + (IF indexed[i] = wanted THEN 1 ELSE 0)
<1>. PICK n \in Nat : n = Len(indexed)
  OBVIOUS
<1>1. DOMAIN indexed = 1..n
  OBVIOUS
<1>. PICK m : m = Marks(indexed, wanted)
  OBVIOUS
<1>2. m = [i \in 1..n |-> IF indexed[i] = wanted THEN 1 ELSE 0]
  BY <1>1 DEF Marks
<1>3. m \in Seq(Nat) /\ Len(m) = n /\ \A i \in 1..n : m[i] = IF indexed[i] = wanted THEN 1 ELSE 0
  BY <1>2
<1>4. Sums(m)
  BY <1>3, SumSteps
<1>. QED
  BY <1>3, <1>4 DEF Sums, CountTo

\* An argument is indexed or it is not.
LEMMA CountBoth ==
  ASSUME NEW indexed \in Seq(BOOLEAN), NEW i \in 0..Len(indexed)
  PROVE  /\ CountTo(indexed, TRUE, i) + CountTo(indexed, FALSE, i) = i
         /\ IsFiniteSet({j \in 1..i : indexed[j]})
         /\ Cardinality({j \in 1..i : indexed[j]}) = CountTo(indexed, TRUE, i)
<1>. DEFINE c(k) == CountTo(indexed, TRUE, k)
            d(k) == CountTo(indexed, FALSE, k)
            S(k) == {j \in 1..k : indexed[j]}
            T == {k \in Nat : k <= Len(indexed) =>
                    c(k) + d(k) = k /\ IsFiniteSet(S(k)) /\ Cardinality(S(k)) = c(k)}
<1>0. Len(indexed) \in Nat /\ \A k \in 1..Len(indexed) : indexed[k] \in BOOLEAN
  <2>1. \A k \in 1..Len(indexed) : indexed[k] \in BOOLEAN
    BY ElementOfSeq
  <2>. QED
    BY <2>1
<1>1. c(0) = 0 /\ d(0) = 0
  BY CountSteps
<1>2. ASSUME NEW k \in 1..Len(indexed)
      PROVE  /\ c(k - 1) \in Nat /\ d(k - 1) \in Nat
             /\ c(k) = c(k - 1) + (IF indexed[k] THEN 1 ELSE 0)
             /\ d(k) = d(k - 1) + (IF indexed[k] THEN 0 ELSE 1)
  <2>1. indexed[k] \in BOOLEAN /\ k - 1 \in 0..Len(indexed)
    BY <1>0
  <2>2. /\ c(k) = c(k - 1) + (IF indexed[k] = TRUE THEN 1 ELSE 0)
        /\ d(k) = d(k - 1) + (IF indexed[k] = FALSE THEN 1 ELSE 0)
        /\ c(k - 1) \in Nat /\ d(k - 1) \in Nat
    BY <2>1, CountSteps
  <2>3. (indexed[k] = TRUE <=> indexed[k]) /\ (indexed[k] = FALSE <=> ~indexed[k])
    BY <2>1
  <2>. QED
    BY <2>2, <2>3
<1>. HIDE DEF c, d
<1>3. 0 \in T
  <2>1. S(0) = {}
    OBVIOUS
  <2>. QED
    BY <1>1, <2>1, FS_EmptySet
<1>4. ASSUME NEW k \in Nat, k \in T PROVE k + 1 \in T
  <2>. SUFFICES ASSUME k + 1 <= Len(indexed)
                PROVE  /\ c(k + 1) + d(k + 1) = k + 1 /\ IsFiniteSet(S(k + 1))
                       /\ Cardinality(S(k + 1)) = c(k + 1)
    OBVIOUS
  <2>1. k + 1 \in 1..Len(indexed) /\ (k + 1) - 1 = k /\ k <= Len(indexed)
    BY <1>0
  <2>2. /\ c(k) \in Nat /\ d(k) \in Nat
        /\ c(k + 1) = c(k) + (IF indexed[k + 1] THEN 1 ELSE 0)
        /\ d(k + 1) = d(k) + (IF indexed[k + 1] THEN 0 ELSE 1)
    BY <1>2, <2>1
  <2>3. c(k) + d(k) = k /\ IsFiniteSet(S(k)) /\ Cardinality(S(k)) = c(k)
    BY <1>4, <2>1
  <2>4. S(k + 1) = IF indexed[k + 1] THEN S(k) \cup {k + 1} ELSE S(k)
    <3>1. 1..(k + 1) = (1..k) \cup {k + 1}
      OBVIOUS
    <3>. QED
      BY <3>1
  <2>5. k + 1 \notin S(k)
    OBVIOUS
  <2>. HIDE DEF S
  <2>6. IsFiniteSet(S(k) \cup {k + 1}) /\ Cardinality(S(k) \cup {k + 1}) = c(k) + 1
    BY <2>3, <2>5, FS_AddElement
  <2>. QED
    BY <2>2, <2>3, <2>4, <2>6
<1>5. Nat \subseteq T
  <2>. HIDE DEF T
  <2>. QED
    BY <1>3, <1>4, StepInduction
<1>6. i \in Nat /\ i <= Len(indexed)
  BY <1>0
<1>7. c(i) + d(i) = i /\ IsFiniteSet(S(i)) /\ Cardinality(S(i)) = c(i)
  BY <1>5, <1>6
<1>. QED
  BY <1>7 DEF c, d

\* Every place among the chosen is some argument's.
LEMMA CountOnto ==
  ASSUME NEW indexed \in Seq(BOOLEAN), NEW wanted \in BOOLEAN,
         NEW k \in 1..CountTo(indexed, wanted, Len(indexed))
  PROVE  \E i \in 1..Len(indexed) : indexed[i] = wanted /\ CountTo(indexed, wanted, i) = k
<1>. DEFINE c(i) == CountTo(indexed, wanted, i)
            T == {n \in Nat : n <= Len(indexed) =>
                    \A m \in 1..c(n) : \E i \in 1..n : indexed[i] = wanted /\ c(i) = m}
<1>0. Len(indexed) \in Nat
  OBVIOUS
<1>1. 0 \in T
  <2>1. c(0) = 0
    BY CountSteps
  <2>2. 1..0 = {}
    OBVIOUS
  <2>. QED
    BY <2>1, <2>2
<1>2. ASSUME NEW n \in Nat, n \in T PROVE n + 1 \in T
  <2>. SUFFICES ASSUME n + 1 <= Len(indexed), NEW m \in 1..c(n + 1)
                PROVE  \E i \in 1..(n + 1) : indexed[i] = wanted /\ c(i) = m
    OBVIOUS
  <2>1. n + 1 \in 1..Len(indexed) /\ (n + 1) - 1 = n /\ n \in 0..Len(indexed)
    BY <1>0
  <2>2. c(n) \in Nat /\ c(n + 1) = c(n) + (IF indexed[n + 1] = wanted THEN 1 ELSE 0)
    BY <2>1, CountSteps
  <2>. HIDE DEF c
  <2>3. CASE m \in 1..c(n)
    <3>1. PICK i \in 1..n : indexed[i] = wanted /\ c(i) = m
      BY <1>2, <2>1, <2>3
    <3>. QED
      BY <3>1
  <2>4. CASE m \notin 1..c(n)
    <3>1. indexed[n + 1] = wanted /\ c(n + 1) = m
      BY <2>2, <2>4
    <3>. QED
      BY <3>1
  <2>. QED
    BY <2>3, <2>4
<1>3. Nat \subseteq T
  <2>. HIDE DEF T
  <2>. QED
    BY <1>1, <1>2, StepInduction
<1>. QED
  BY <1>0, <1>3

\* Where a chosen argument is.
Selection(T, s, types, indexed, wanted) ==
  /\ Select(s, types, indexed, wanted) \in Seq(T)
  /\ Len(Select(s, types, indexed, wanted)) = CountTo(indexed, wanted, Len(indexed))
  /\ \A i \in 1..Len(indexed) : indexed[i] = wanted =>
       /\ CountTo(indexed, wanted, i) \in 1..CountTo(indexed, wanted, Len(indexed))
       /\ Select(s, types, indexed, wanted)[CountTo(indexed, wanted, i)] = s[i]

LEMMA Selected ==
  ASSUME NEW T, NEW types, NEW indexed \in Seq(BOOLEAN), DOMAIN types = 1..Len(indexed),
         NEW s, \A i \in 1..Len(indexed) : s[i] \in T, NEW wanted \in BOOLEAN
  PROVE  Selection(T, s, types, indexed, wanted)
<1>. PICK n \in Nat : n = Len(indexed)
  OBVIOUS
<1>. PICK C, x, m : C = Chosen(s, types, indexed, wanted) /\ x = Select(s, types, indexed, wanted)
                    /\ m = Marks(indexed, wanted)
  OBVIOUS
<1>1. C = [i \in 1..n |-> IF indexed[i] = wanted THEN <<s[i]>> ELSE <<>>]
  BY DEF Chosen
<1>2. C \in Seq(Seq(T)) /\ Len(C) = n
  BY <1>1
<1>3. m = [i \in 1..n |-> IF indexed[i] = wanted THEN 1 ELSE 0]
  <2>1. DOMAIN indexed = 1..n
    OBVIOUS
  <2>. QED
    BY <2>1 DEF Marks
<1>4. Lens(C) = m
  <2>1. \A i \in 1..n : Len(C[i]) = IF indexed[i] = wanted THEN 1 ELSE 0
    BY <1>1
  <2>2. DOMAIN C = 1..n
    BY <1>2
  <2>. QED
    BY <1>3, <2>1, <2>2 DEF Lens
<1>5. x = FlattenSeq(C)
  BY DEF Select, Chosen
<1>6. /\ x \in Seq(T) /\ Len(x) = SumTo(m, n)
      /\ \A i \in 1..n : At(x, SumTo(m, i - 1), C[i])
  BY <1>2, <1>4, <1>5, JoinedAt
<1>7. ASSUME NEW i \in 1..n, indexed[i] = wanted
      PROVE  SumTo(m, i) \in 1..SumTo(m, n) /\ x[SumTo(m, i)] = s[i]
  <2>1. i - 1 \in 0..n
    OBVIOUS
  <2>2. SumTo(m, i - 1) \in Nat /\ SumTo(m, i) = SumTo(m, i - 1) + 1
    BY <1>7, <2>1, CountSteps DEF CountTo
  <2>3. C[i] = <<s[i]>>
    BY <1>1, <1>7
  <2>4. Len(C[i]) = 1 /\ C[i][1] = s[i] /\ 1 \in 1..Len(C[i])
    BY <2>3
  <2>5. SumTo(m, i - 1) + Len(C[i]) <= Len(x) /\ x[SumTo(m, i - 1) + 1] = C[i][1]
    BY <1>6, <2>4 DEF At
  <2>. QED
    BY <1>6, <2>2, <2>4, <2>5
<1>. QED
  BY <1>6, <1>7 DEF CountTo, Selection

\* The chosen arguments have the chosen types.
LEMMA SelectTyped ==
  ASSUME NEW types \in Seq(Types), NEW values, OfTypes(values, types),
         NEW indexed \in Seq(BOOLEAN), Len(indexed) = Len(types), NEW wanted \in BOOLEAN
  PROVE  /\ Select(types, types, indexed, wanted) \in Seq(Types)
         /\ OfTypes(Select(values, types, indexed, wanted), Select(types, types, indexed, wanted))
<1>. PICK n \in Nat : n = Len(types)
  OBVIOUS
<1>. PICK a, b : a = Select(values, types, indexed, wanted) /\ b = Select(types, types, indexed, wanted)
  OBVIOUS
<1>. DEFINE c(i) == CountTo(indexed, wanted, i)
<1>1. /\ DOMAIN types = 1..n
      /\ \A i \in 1..n : types[i] \in Types /\ values[i] \in Values(types[i])
  BY OfTypesIs
<1>. PICK V : V = UNION {Values(types[i]) : i \in 1..n}
  OBVIOUS
<1>2. \A i \in 1..n : values[i] \in V
  BY <1>1
<1>3. /\ a \in Seq(V) /\ Len(a) = c(n)
      /\ \A i \in 1..n : indexed[i] = wanted => c(i) \in 1..c(n) /\ a[c(i)] = values[i]
  <2>1. DOMAIN types = 1..Len(indexed) /\ \A i \in 1..Len(indexed) : values[i] \in V
    BY <1>1, <1>2
  <2>2. Selection(V, values, types, indexed, wanted)
    BY <2>1, Selected
  <2>. QED
    BY <2>2 DEF Selection
<1>4. /\ b \in Seq(Types) /\ Len(b) = c(n)
      /\ \A i \in 1..n : indexed[i] = wanted => c(i) \in 1..c(n) /\ b[c(i)] = types[i]
  <2>1. DOMAIN types = 1..Len(indexed) /\ \A i \in 1..Len(indexed) : types[i] \in Types
    BY <1>1
  <2>2. Selection(Types, types, types, indexed, wanted)
    BY <2>1, Selected
  <2>. QED
    BY <2>2 DEF Selection
<1>5. ASSUME NEW k \in 1..c(n) PROVE a[k] \in Values(b[k])
  <2>1. PICK i \in 1..n : indexed[i] = wanted /\ c(i) = k
    BY CountOnto
  <2>. QED
    BY <1>1, <1>3, <1>4, <2>1
<1>. HIDE DEF c
<1>6. DOMAIN b = 1..c(n) /\ a = [k \in 1..c(n) |-> a[k]]
  <2>1. Len(a) = c(n) /\ a \in Seq(V)
    BY <1>3
  <2>. QED
    BY <1>4, <2>1
<1>. QED
  BY <1>4, <1>5, <1>6 DEF OfTypes

-----------------------------------------------------------------------------
(* Decoding what was cut or padded.                                        *)

\* The data, of any length, is x as far as it goes.
Agrees(body, x) ==
  /\ body \in Seq(Byte)
  /\ \A i \in 1..Len(body) : i <= Len(x) => body[i] = x[i]

LEMMA AtKept ==
  ASSUME NEW x \in Seq(Byte), NEW body, Agrees(body, x), NEW y \in Seq(Byte), NEW q \in Nat,
         At(x, q, y), q + Len(y) <= Len(body)
  PROVE  At(body, q, y)
<1>. PICK l \in Nat, k \in Nat, n \in Nat : l = Len(body) /\ k = Len(x) /\ n = Len(y)
  <2>1. Len(body) \in Nat /\ Len(x) \in Nat /\ Len(y) \in Nat
    BY DEF Agrees
  <2>. QED
    BY <2>1
<1>1. q + n <= k /\ \A i \in 1..n : x[q + i] = y[i]
  BY DEF At
<1>2. ASSUME NEW i \in 1..n PROVE body[q + i] = y[i]
  <2>1. q + i \in 1..l /\ q + i <= k
    BY <1>1
  <2>2. body[q + i] = x[q + i]
    BY <2>1 DEF Agrees
  <2>. QED
    BY <1>1, <2>2
<1>. QED
  BY <1>2 DEF At

\* Members that were read together were each read.
LEMMA MembersReadOk ==
  ASSUME NEW types, NEW dec, NEW body, NEW p, dec_members(dec, types, body, p).ok,
         NEW i \in DOMAIN types
  PROVE  /\ dec[types[i]][member_at(types, body, p, i)].ok
         /\ dec_members(dec, types, body, p).value[i]
              = dec[types[i]][member_at(types, body, p, i)].value
<1>. DEFINE r == [j \in DOMAIN types |-> dec[types[j]][member_at(types, body, p, j)]]
            all == \A j \in DOMAIN types : r[j].ok
            vals == [j \in DOMAIN types |-> r[j].value]
<1>1. dec_members(dec, types, body, p) = IF all THEN Ok(vals) ELSE Raise
  BY DEF dec_members
<1>2. r[i] = dec[types[i]][member_at(types, body, p, i)] /\ vals[i] = r[i].value /\ (all => r[i].ok)
  OBVIOUS
<1>. HIDE DEF r, all, vals
<1>3. Raise.ok = FALSE /\ \A v : Ok(v).value = v
  BY DEF Raise, Ok
<1>4. all
  BY <1>1, <1>3
<1>5. dec_members(dec, types, body, p).value = vals
  BY <1>1, <1>3, <1>4
<1>. QED
  BY <1>2, <1>4, <1>5

\* The encoding of an array.
LEMMA ArrayEncoded ==
  ASSUME NEW t \in Types, t.kind = "array", NEW v \in Values(t)
  PROVE  /\ Len(v) \in Nat /\ LayoutOf(enc, t, v) \in Seq(Byte)
         /\ enc[t][v] = ToBytes(Len(v), Word) \o LayoutOf(enc, t, v)
         /\ Laid(members(t, Len(v)), EncsOf(enc, t, v), LayoutOf(enc, t, v))
<1>1. Composite(t)
  BY DEF Composite
<1>2. \A u \in Types : Depth(u) < Depth(t) => Sized(u, enc[u])
  BY EncUnfolds
<1>3. Encoded(members(t, Len(v)), EncsOf(enc, t, v))
  BY <1>1, <1>2, MembersEncoded
<1>4. Laid(members(t, Len(v)), EncsOf(enc, t, v), LayoutOf(enc, t, v))
  BY <1>3, LayoutIs DEF LayoutOf
<1>5. enc[t][v] = ToBytes(Len(v), Word) \o LayoutOf(enc, t, v)
  BY EncUnfolds DEF EncodingOf
<1>6. Len(v) \in Nat
  BY <1>1, MembersOf
<1>. QED
  BY <1>4, <1>5, <1>6 DEF Laid

ArrayOfWords(t) == t.kind = "array" /\ ~is_dynamic[t.of] /\ static_size[t.of] = Word

LEMMA ArrayOfWordsSize ==
  ASSUME NEW t \in Types, ArrayOfWords(t), NEW v \in Values(t)
  PROVE  Len(LayoutOf(enc, t, v)) = Len(v) * Word
<1>. PICK n, x, m : n = Len(v) /\ x = LayoutOf(enc, t, v) /\ m = members(t, n)
  OBVIOUS
<1>1. t.kind = "array" /\ ~is_dynamic[t.of] /\ static_size[t.of] = Word /\ t.of \in Types
  BY TypesAssumption DEF ArrayOfWords
<1>2. n \in Nat /\ Laid(m, EncsOf(enc, t, v), x)
  BY <1>1, ArrayEncoded
<1>3. m \in Seq(Types) /\ Len(m) = n /\ \A i \in 1..n : m[i] = t.of
  <2>1. m = [i \in 1..n |-> t.of]
    BY <1>1 DEF members, Repeat
  <2>. QED
    BY <1>1, <1>2, <2>1
<1>4. Len(x) = head_size(m)
  BY <1>1, <1>2, <1>3 DEF Laid
<1>5. /\ head_widths(m) \in Seq(Nat) /\ Len(head_widths(m)) = n
      /\ \A i \in 1..n : head_widths(m)[i] = Word
  BY <1>1, <1>3, HeadWidths
<1>6. SumTo(head_widths(m), n) = n * Word
  <2>1. n \in 0..Len(head_widths(m)) /\ \A i \in 1..Len(head_widths(m)) : head_widths(m)[i] = Word
    BY <1>2, <1>5
  <2>2. Word \in Nat
    BY WordRangeIs
  <2>. QED
    BY <1>5, <2>1, <2>2, SumBounds
<1>. QED
  BY <1>3, <1>4, <1>6 DEF head_size

LEMMA FitsIs ==
  ASSUME NEW n \in Nat, NEW body, Len(body) \in Nat, NEW p \in Nat, array_fits(n, body, p)
  PROVE  /\ p + Word <= Len(body) => n * Word <= Len(body) - p - Word
         /\ p + Word > Len(body) => n = 0
<1>. PICK w \in Nat : w = Word /\ 0 < w
  BY WordRangeIs
<1>. PICK left : left = Len(body) - p - w
  OBVIOUS
<1>0. left \in Int
  OBVIOUS
<1>. PICK room : room = Max({0, left})
  OBVIOUS
<1>1. room \in Nat /\ (left >= 0 => room = left) /\ (left < 0 => room = 0)
  BY <1>0, MaxTwo
<1>2. PICK q \in Nat, r \in 0..(w - 1) : q = room \div w /\ room = q * w + r
  <2>1. room \div w \in Nat /\ room % w \in 0..(w - 1) /\ room = (room \div w) * w + (room % w)
    BY <1>1, Quotient
  <2>. QED
    BY <2>1
<1>3. n <= q
  BY <1>2 DEF array_fits
<1>4. n * w <= q * w /\ q * w <= room /\ n <= n * w /\ n * w \in Nat /\ q * w \in Nat
  <2>1. n * w <= q * w /\ n <= n * w
    BY <1>3
  <2>2. n * w \in Nat /\ q * w \in Nat
    OBVIOUS
  <2>. QED
    BY <1>2, <2>1, <2>2
<1>5. ASSUME p + w <= Len(body) PROVE n * w <= Len(body) - p - w
  BY <1>0, <1>1, <1>4, <1>5
<1>6. ASSUME p + w > Len(body) PROVE n = 0
  BY <1>0, <1>1, <1>4, <1>6
<1>. QED
  BY <1>5, <1>6

\* An array of words in cut data is read whole or empty, if it is read at all.
LEMMA ArrayCut ==
  ASSUME NEW t \in Types, ArrayOfWords(t), NEW v \in Values(t),
         NEW x \in Seq(Byte), NEW body, Agrees(body, x), NEW p \in Nat, At(x, p, enc[t][v]),
         Len(enc[t][v]) < WordRange, decoder(body)[t][p].ok
  PROVE  decoder(body)[t][p].value \in {v, <<>>}
<1>. PICK n, e, y, dec, l : /\ n = Len(v) /\ e = enc[t][v] /\ y = LayoutOf(enc, t, v)
                            /\ dec = decoder(body) /\ l = Len(body)
  OBVIOUS
<1>. PICK b, r : b = ToBytes(n, Word) /\ r = FromBytes(Slice(body, p, Word))
  OBVIOUS
<1>1. t.kind = "array"
  BY DEF ArrayOfWords
<1>2. Word \in Nat /\ 0 < Word
  BY WordRangeIs
<1>3. n \in Nat /\ y \in Seq(Byte) /\ e = b \o y /\ Len(y) = n * Word /\ b \in Seq(Byte)
      /\ Len(b) = Word
  BY <1>1, <1>2, ArrayEncoded, ArrayOfWordsSize, ToBytesIs
<1>4. e \in Seq(Byte) /\ Len(e) = Word + n * Word /\ n * Word \in Nat
  <2>1. e \in Seq(Byte) /\ Len(e) = Len(b) + Len(y)
    BY <1>3, Concats
  <2>. QED
    BY <1>2, <1>3, <2>1
<1>5. body \in Seq(Byte) /\ l \in Nat
  <2>1. body \in Seq(Byte)
    BY DEF Agrees
  <2>. QED
    BY <2>1
<1>6. r \in Nat
  BY <1>5, ReadTyped
<1>7. dec[t][p] = IF array_fits(r, body, p)
                  THEN dec_members(dec, members(t, r), body, p + Word) ELSE Raise
  BY <1>1, DecoderUnfolds DEF DecodingOf
<1>8. array_fits(r, body, p) /\ dec[t][p] = dec_members(dec, members(t, r), body, p + Word)
  <2>1. Raise.ok = FALSE
    BY DEF Raise
  <2>. QED
    BY <1>7, <2>1
<1>9. CASE p + Word <= l
  <2>1. At(x, p, b)
    <3>1. At(e, 0, b)
      BY <1>3, AtBegin
    <3>2. At(x, p + 0, b)
      BY <1>3, <1>4, <3>1, AtInside
    <3>. QED
      BY <3>2
  <2>2. At(body, p, b)
    BY <1>3, <1>9, <2>1, AtKept
  <2>3. r = n
    <3>1. n < WordRange
      <4>1. n <= n * Word
        BY <1>2, <1>3
      <4>. QED
        BY <1>2, <1>3, <1>4, <4>1, WordRangeIs
    <3>. QED
      BY <1>3, <1>5, <2>2, <3>1, WordIsRead
  <2>4. n * Word <= l - p - Word
    BY <1>3, <1>5, <1>8, <1>9, <2>3, FitsIs
  <2>5. p + Len(e) <= Len(body)
    BY <1>2, <1>4, <1>5, <2>4
  <2>6. At(body, p, e)
    BY <1>4, <2>5, AtKept
  <2>7. dec[t][p] = Ok(v)
    BY <1>5, <2>6, DecodeInvertsEncode
  <2>. QED
    BY <2>7 DEF Ok
<1>10. CASE p + Word > l
  <2>1. r = 0
    BY <1>5, <1>6, <1>8, <1>10, FitsIs
  <2>2. DOMAIN members(t, r) = {}
    BY <1>1, <2>1 DEF members, Repeat
  <2>3. dec_members(dec, members(t, r), body, p + Word) = Ok([i \in {} |-> 0])
    <3>1. \A f : [i \in {} |-> f[i]] = [i \in {} |-> 0]
      OBVIOUS
    <3>. QED
      BY <2>2, <3>1 DEF dec_members
  <2>4. [i \in {} |-> 0] = <<>>
    OBVIOUS
  <2>. QED
    BY <1>8, <2>3, <2>4 DEF Ok
<1>. QED
  BY <1>2, <1>5, <1>9, <1>10

\* The arguments of cut or padded data: a static one is as it was sent, an array of
\* words whole or empty, and of data that is not cut all are as they were sent.
Read(types, values, args) ==
  /\ args = [i \in DOMAIN types |-> args[i]]
  /\ \A i \in 1..Len(types) :
       /\ ~is_dynamic[types[i]] => args[i] = values[i]
       /\ ArrayOfWords(types[i]) => args[i] \in {values[i], <<>>}

LEMMA ArgumentsRead ==
  ASSUME NEW types \in Seq(Types), NEW values, OfTypes(values, types),
         NEW body, Agrees(body, enc_tuple(types, values)),
         Len(enc_tuple(types, values)) < WordRange, decode_args(types, body).ok
  PROVE  Read(types, values, decode_args(types, body).value)
<1>. PICK n \in Nat : n = Len(types)
  OBVIOUS
<1>. PICK e, x, dec, hw : /\ e = ArgumentsOf(types, values) /\ x = enc_tuple(types, values)
                          /\ dec = decoder(body) /\ hw = head_widths(types)
  OBVIOUS
<1>. PICK a : a = decode_args(types, body)
  OBVIOUS
<1>1. ~too_short(types, body) /\ a = dec_members(dec, types, body, 0)
  <2>1. Raise.ok = FALSE
    BY DEF Raise
  <2>. QED
    BY <2>1 DEF decode_args, dec_tuple
<1>2. /\ DOMAIN types = 1..n
      /\ \A i \in 1..n : types[i] \in Types /\ values[i] \in Values(types[i])
  BY OfTypesIs
<1>3. Encoded(types, e) /\ Laid(types, e, x) /\ x \in Seq(Byte) /\ Len(x) \in Nat
  <2>1. Encoded(types, e) /\ Laid(types, e, x) /\ x \in Seq(Byte)
    BY TupleIsLaid
  <2>. QED
    BY <2>1
<1>4. body \in Seq(Byte) /\ Len(body) \in Nat /\ head_size(types) <= Len(body)
  <2>1. body \in Seq(Byte)
    BY DEF Agrees
  <2>2. head_size(types) \in Nat
    BY HeadWidths
  <2>3. Len(body) \in Nat
    BY <2>1
  <2>. QED
    BY <1>1, <2>1, <2>2, <2>3 DEF too_short
<1>5. ASSUME NEW i \in 1..n
      PROVE  /\ HeadAt(types, i) \in Nat /\ HeadAt(types, i) + hw[i] <= Len(body)
             /\ hw[i] = IF is_dynamic[types[i]] THEN Word ELSE static_size[types[i]]
             /\ hw[i] \in Nat
  <2>1. /\ hw \in Seq(Nat) /\ Len(hw) = n /\ Sums(hw)
        /\ hw[i] = IF is_dynamic[types[i]] THEN Word ELSE static_size[types[i]]
    BY HeadWidths
  <2>2. i \in 0..Len(hw) /\ i - 1 \in 0..Len(hw) /\ i \in 1..Len(hw)
        /\ n \in 0..Len(hw) /\ i \in 0..n
    BY <2>1
  <2>3. /\ SumTo(hw, i - 1) \in Nat /\ SumTo(hw, i) = SumTo(hw, i - 1) + hw[i]
        /\ SumTo(hw, i) <= SumTo(hw, n) /\ SumTo(hw, i) \in Nat /\ SumTo(hw, n) \in Nat
    BY <2>1, <2>2, SumMonotone DEF Sums
  <2>4. hw[i] \in Nat
    BY <2>1, <2>2, ElementOfSeq
  <2>5. head_size(types) = SumTo(hw, n) /\ HeadAt(types, i) = SumTo(hw, i - 1)
    BY DEF head_size, HeadAt
  <2>. QED
    BY <1>4, <2>1, <2>3, <2>4, <2>5
<1>6. ASSUME NEW i \in 1..n
      PROVE  /\ e[i] = enc[types[i]][values[i]] /\ e[i] \in Seq(Byte) /\ Len(e[i]) \in Nat
             /\ ~is_dynamic[types[i]] => Len(e[i]) = static_size[types[i]]
             /\ MemberLaid(types, e, x, i)
  <2>1. e[i] = enc[types[i]][values[i]]
    BY <1>2 DEF ArgumentsOf
  <2>2. e[i] \in Seq(Byte) /\ (~is_dynamic[types[i]] => Len(e[i]) = static_size[types[i]])
    BY <1>2, <2>1, EncUnfolds DEF Sized
  <2>. QED
    BY <1>3, <2>1, <2>2 DEF Laid
<1>7. ASSUME NEW i \in 1..n, NEW q \in Nat, At(x, q, e[i])
      PROVE  Len(e[i]) < WordRange
  <2>1. q + Len(e[i]) <= Len(x)
    BY <1>7 DEF At
  <2>. QED
    BY <1>3, <1>6, <2>1, WordRangeIs
<1>8. ASSUME NEW i \in 1..n
      PROVE  a.value[i] = dec[types[i]][member_at(types, body, 0, i)].value
             /\ dec[types[i]][member_at(types, body, 0, i)].ok
  BY <1>1, <1>2, MembersReadOk
<1>9. ASSUME NEW i \in 1..n, ~is_dynamic[types[i]] PROVE a.value[i] = values[i]
  <2>. PICK h : h = HeadAt(types, i)
    OBVIOUS
  <2>1. h \in Nat /\ h + Len(e[i]) <= Len(body)
    BY <1>5, <1>6, <1>9
  <2>2. At(x, h, e[i])
    BY <1>6, <1>9 DEF MemberLaid
  <2>3. At(body, h, e[i])
    BY <1>3, <1>6, <2>1, <2>2, AtKept
  <2>4. member_at(types, body, 0, i) = h
    BY <1>9, <2>1 DEF member_at, HeadAt
  <2>5. dec[types[i]][h] = Ok(values[i])
    BY <1>2, <1>4, <1>6, <1>7, <2>1, <2>2, <2>3, DecodeInvertsEncode
  <2>. QED
    BY <1>8, <2>4, <2>5 DEF Ok
<1>10. ASSUME NEW i \in 1..n, ArrayOfWords(types[i]) PROVE a.value[i] \in {values[i], <<>>}
  <2>. PICK h : h = HeadAt(types, i)
    OBVIOUS
  <2>0. is_dynamic[types[i]]
    BY <1>2, <1>10, DynamicUnfolds DEF ArrayOfWords
  <2>1. h \in Nat /\ h + Word <= Len(body)
    BY <1>5, <2>0
  <2>2. PICK offset \in 0..Len(x) : At(x, h, ToBytes(offset, Word)) /\ At(x, offset, e[i])
    BY <1>6, <2>0 DEF MemberLaid
  <2>3. offset \in Nat /\ offset < WordRange
    BY <1>3, <2>2, WordRangeIs
  <2>4. ToBytes(offset, Word) \in Seq(Byte) /\ Len(ToBytes(offset, Word)) = Word
    BY <2>3, WordRangeIs, ToBytesIs
  <2>5. At(body, h, ToBytes(offset, Word))
    BY <1>3, <2>1, <2>2, <2>4, AtKept
  <2>6. FromBytes(Slice(body, h, Word)) = offset
    BY <1>4, <2>1, <2>3, <2>5, WordIsRead
  <2>7. member_at(types, body, 0, i) = offset
    <3>1. 0 + SumTo(hw, i - 1) = h
      BY <2>1 DEF HeadAt
    <3>. QED
      BY <2>0, <2>3, <2>6, <3>1 DEF member_at
  <2>8. dec[types[i]][offset].value \in {values[i], <<>>}
    <3>1. dec[types[i]][offset].ok /\ At(x, offset, enc[types[i]][values[i]])
          /\ Len(enc[types[i]][values[i]]) < WordRange
      BY <1>6, <1>7, <1>8, <2>2, <2>3, <2>7
    <3>. QED
      BY <1>2, <1>3, <1>10, <2>3, <3>1, ArrayCut
  <2>. QED
    BY <1>8, <2>7, <2>8
<1>11. a.value = [i \in DOMAIN types |-> a.value[i]]
  <2>1. a = IF \A i \in DOMAIN types :
                 [j \in DOMAIN types |-> dec[types[j]][member_at(types, body, 0, j)]][i].ok
            THEN Ok([i \in DOMAIN types |->
                 [j \in DOMAIN types |-> dec[types[j]][member_at(types, body, 0, j)]][i].value])
            ELSE Raise
    BY <1>1 DEF dec_members
  <2>2. Raise.ok = FALSE
    BY DEF Raise
  <2>3. a = Ok([i \in DOMAIN types |->
                 [j \in DOMAIN types |-> dec[types[j]][member_at(types, body, 0, j)]][i].value])
    BY <2>1, <2>2
  <2>. QED
    BY <2>3 DEF Ok
<1>. QED
  BY <1>9, <1>10, <1>11 DEF Read

LEMMA WholeIsRead ==
  ASSUME NEW types \in Seq(Types), NEW values, OfTypes(values, types),
         NEW body, Agrees(body, enc_tuple(types, values)),
         Len(enc_tuple(types, values)) <= Len(body),
         Len(enc_tuple(types, values)) < WordRange
  PROVE  decode_args(types, body) = Ok(values)
<1>. PICK x : x = enc_tuple(types, values)
  OBVIOUS
<1>1. x \in Seq(Byte) /\ head_size(types) <= Len(x) /\ head_size(types) \in Nat
  BY TupleIsLaid, HeadWidths
<1>2. body \in Seq(Byte) /\ Len(body) \in Nat /\ Len(x) \in Nat
  <2>1. body \in Seq(Byte)
    BY DEF Agrees
  <2>. QED
    BY <1>1, <2>1
<1>3. At(x, 0, x)
  BY <1>2 DEF At
<1>4. At(body, 0, x)
  BY <1>1, <1>2, <1>3, AtKept
<1>5. dec_tuple(types, body, 0) = Ok(values)
  BY <1>2, <1>4, TupleDecodes
<1>6. ~too_short(types, body)
  BY <1>1, <1>2 DEF too_short
<1>. QED
  BY <1>5, <1>6 DEF decode_args

-----------------------------------------------------------------------------
(* The inductive invariant: what was sent, what is left of it, and that the *)
(* answer is the tool's.                                                    *)

Whole == EncodedOf(sent.as, sent.decl, sent.values)

Sent == \E s \in Shapes : \E values \in Values(ArgsOf(s.decl)) :
          sent = [as |-> s.as, decl |-> s.decl, values |-> values]

TopicsKept ==
  sent.as = "log" =>
    topics = (IF sent.decl.anonymous THEN <<>> ELSE <<Topic0(sent.decl)>>)
             \o Indexed(sent.decl, [i \in DOMAIN sent.values |->
                                      TopicOf(sent.decl.types[i], sent.values[i])])

DataKept ==
  \/ damage = "none" /\ data = Whole
  \/ damage = "padded" /\ data = Whole \o Suffix
  \/ damage = "cut" /\ \E n \in 0..Len(Whole) - 1 : data = SubSeq(Whole, 1, n)

Told ==
  \/ answer = Pending
  \/ sent.as = "call" /\ guess \in Methods /\ answer = eth_calldata(guess, data)
  \/ sent.as = "revert" /\ guess \in Errors \cup {NoDecl}
     /\ answer = eth_revert_decode(guess, data)
  \/ sent.as = "log" /\ guess \in Events /\ answer = eth_log_decode(guess, topics, data)

ToolsInv == Sent /\ TopicsKept /\ DataKept /\ Told

LEMMA ToolsInvInit == Init => ToolsInv
<1>. SUFFICES ASSUME Init PROVE ToolsInv
  OBVIOUS
<1>. PICK s \in Shapes : \E values \in Values(ArgsOf(s.decl)) :
       /\ sent = [as |-> s.as, decl |-> s.decl, values |-> values]
       /\ topics = IF s.as # "log" THEN <<>>
                   ELSE (IF s.decl.anonymous THEN <<>> ELSE <<Topic0(s.decl)>>)
                        \o Indexed(s.decl, [i \in DOMAIN values |->
                                              TopicOf(s.decl.types[i], values[i])])
       /\ data = EncodedOf(s.as, s.decl, values)
       /\ damage = "none" /\ answer = Pending
  BY DEF Init
<1>. PICK values \in Values(ArgsOf(s.decl)) :
       /\ sent = [as |-> s.as, decl |-> s.decl, values |-> values]
       /\ topics = IF s.as # "log" THEN <<>>
                   ELSE (IF s.decl.anonymous THEN <<>> ELSE <<Topic0(s.decl)>>)
                        \o Indexed(s.decl, [i \in DOMAIN values |->
                                              TopicOf(s.decl.types[i], values[i])])
       /\ data = EncodedOf(s.as, s.decl, values)
       /\ damage = "none" /\ answer = Pending
  OBVIOUS
<1>1. sent.as = s.as /\ sent.decl = s.decl /\ sent.values = values
  OBVIOUS
<1>2. Sent
  BY DEF Sent
<1>3. TopicsKept
  BY <1>1 DEF TopicsKept
<1>4. DataKept
  BY <1>1 DEF DataKept, Whole
<1>. QED
  BY <1>2, <1>3, <1>4 DEF ToolsInv, Told

LEMMA ToolsInvStep == ToolsInv /\ [Next]_vars => ToolsInv'
<1>. SUFFICES ASSUME ToolsInv, [Next]_vars PROVE ToolsInv'
  OBVIOUS
<1>. USE DEF ToolsInv
<1>0. ASSUME UNCHANGED <<sent, topics>> PROVE Sent' /\ TopicsKept'
  BY <1>0 DEF Sent, TopicsKept
<1>1. CASE Cut
  <2>1. Whole' = Whole
    BY <1>1 DEF Cut, Whole
  <2>2. DataKept'
    BY <1>1, <2>1 DEF Cut, DataKept
  <2>3. Told'
    BY <1>1 DEF Cut, Told
  <2>. QED
    BY <1>0, <1>1, <2>2, <2>3 DEF Cut
<1>2. CASE AppendSuffix
  <2>1. Whole' = Whole
    BY <1>2 DEF AppendSuffix, Whole
  <2>2. DataKept'
    BY <1>2, <2>1 DEF AppendSuffix, DataKept
  <2>3. Told'
    BY <1>2 DEF AppendSuffix, Told
  <2>. QED
    BY <1>0, <1>2, <2>2, <2>3 DEF AppendSuffix
<1>3. ASSUME UNCHANGED <<sent, data, damage>> PROVE DataKept'
  BY <1>3 DEF DataKept, Whole
<1>4. ASSUME NEW d \in Methods, DecodeCall(d) PROVE ToolsInv'
  <2>1. Told'
    BY <1>4 DEF DecodeCall, Told
  <2>. QED
    BY <1>0, <1>3, <1>4, <2>1 DEF DecodeCall
<1>5. ASSUME NEW d \in Errors \cup {NoDecl}, DecodeRevert(d) PROVE ToolsInv'
  <2>1. Told'
    BY <1>5 DEF DecodeRevert, Told
  <2>. QED
    BY <1>0, <1>3, <1>5, <2>1 DEF DecodeRevert
<1>6. ASSUME NEW d \in Events, DecodeLog(d) PROVE ToolsInv'
  <2>1. Told'
    BY <1>6 DEF DecodeLog, Told
  <2>. QED
    BY <1>0, <1>3, <1>6, <2>1 DEF DecodeLog
<1>7. CASE UNCHANGED vars
  <2>1. Told'
    BY <1>7 DEF vars, Told
  <2>. QED
    BY <1>0, <1>3, <1>7, <2>1 DEF vars
<1>. QED
  BY <1>1, <1>2, <1>4, <1>5, <1>6, <1>7 DEF Next

\* The invariant holds of every reachable state.
THEOREM ToolsInvariant == Spec => []ToolsInv
<1>1. Init => ToolsInv
  BY ToolsInvInit
<1>2. ToolsInv /\ [Next]_vars => ToolsInv'
  BY ToolsInvStep
<1>. QED
  BY <1>1, <1>2, PTL DEF Spec

-----------------------------------------------------------------------------
(* What the invariant says of the data.                                    *)

\* A declaration that was taken from the declared ones.
Declared(d) ==
  /\ d.types \in Seq(Types) /\ d.selector \in Seq(Byte) /\ Len(d.selector) = SelLen
  /\ d.indexed \in Seq(BOOLEAN) /\ Len(d.indexed) = Len(d.types)

LEMMA SentIs ==
  ASSUME Sent
  PROVE  /\ Declared(sent.decl) /\ OfTypes(sent.values, sent.decl.types)
         /\ Len(Whole) < WordRange
         /\ sent.as \in {"call", "revert", "log"}
         /\ sent.as = "call" => sent.decl \in Methods
         /\ sent.as = "revert" => sent.decl \in Errors
         /\ sent.as = "log" => sent.decl \in Events
<1>. PICK s \in Shapes : \E values \in Values(ArgsOf(s.decl)) :
       sent = [as |-> s.as, decl |-> s.decl, values |-> values]
  BY DEF Sent
<1>. PICK values \in Values(ArgsOf(s.decl)) :
       sent = [as |-> s.as, decl |-> s.decl, values |-> values]
  OBVIOUS
<1>1. sent.as = s.as /\ sent.decl = s.decl /\ sent.values = values
  OBVIOUS
<1>2. \/ s.as = "call" /\ s.decl \in Methods
      \/ s.as = "revert" /\ s.decl \in Errors
      \/ s.as = "log" /\ s.decl \in Events
  BY DEF Shapes
<1>3. s.decl \in Methods \cup Errors \cup Events
  BY <1>2
<1>4. Declared(s.decl) /\ ArgsOf(s.decl) \in Types
  BY <1>3, DeclarationsAssumption DEF Declared
<1>5. ArgsOf(s.decl).kind = "tuple" /\ ArgsOf(s.decl).parts = s.decl.types
  BY DEF ArgsOf
<1>6. OfTypes(values, s.decl.types)
  BY <1>4, <1>5, ValuesAssumption
<1>7. Len(EncodedOf(s.as, s.decl, values)) < WordRange
  BY FitsAssumption
<1>. QED
  BY <1>1, <1>2, <1>4, <1>6, <1>7 DEF Whole

\* The data is what was sent, cut or padded.
LEMMA DataAgrees ==
  ASSUME DataKept, Whole \in Seq(Byte)
  PROVE  Agrees(data, Whole) /\ (damage # "cut" => Len(Whole) <= Len(data))
<1>. PICK w \in Seq(Byte), n \in Nat : w = Whole /\ n = Len(w)
  OBVIOUS
<1>1. CASE data = w
  BY <1>1 DEF Agrees
<1>2. CASE data = w \o Suffix
  <2>1. Suffix \in Seq(Byte) /\ Len(Suffix) \in Nat
    BY DeclarationsAssumption
  <2>2. data \in Seq(Byte) /\ Len(data) = n + Len(Suffix) /\ \A i \in 1..n : data[i] = w[i]
    BY <1>2, <2>1, Concats
  <2>3. \A i \in 1..Len(data) : i <= n => i \in 1..n
    OBVIOUS
  <2>. QED
    BY <2>1, <2>2, <2>3 DEF Agrees
<1>3. CASE damage = "cut" /\ \E k \in 0..n - 1 : data = SubSeq(w, 1, k)
  <2>1. PICK k \in 0..n - 1 : data = SubSeq(w, 1, k)
    BY <1>3
  <2>2. k \in Int /\ 1 <= k + 1 /\ k <= Len(w)
    OBVIOUS
  <2>3. SubSeq(w, 1, k) \in Seq(Byte) /\ Len(SubSeq(w, 1, k)) = k
        /\ \A i \in 1..k : SubSeq(w, 1, k)[i] = w[i]
    BY <2>2
  <2>. QED
    BY <1>3, <2>1, <2>3 DEF Agrees
<1>. QED
  BY <1>1, <1>2, <1>3 DEF DataKept

\* What follows the selector.
Body(raw) == Slice(raw, SelLen, Len(raw))

LEMMA BodyAgrees ==
  ASSUME NEW sel \in Seq(Byte), Len(sel) = SelLen, NEW x \in Seq(Byte), NEW raw,
         Agrees(raw, sel \o x), SelLen <= Len(raw)
  PROVE  /\ Slice(raw, 0, SelLen) = sel
         /\ Agrees(Body(raw), x)
         /\ Len(sel \o x) <= Len(raw) => Len(x) <= Len(Body(raw))
<1>0. /\ sel \o x \in Seq(Byte) /\ Len(sel \o x) = Len(sel) + Len(x)
      /\ \A i \in 1..Len(sel) : (sel \o x)[i] = sel[i]
      /\ \A i \in 1..Len(x) : (sel \o x)[Len(sel) + i] = x[i]
  OBVIOUS
<1>. PICK k \in Nat, l \in Nat, m \in Nat : k = SelLen /\ l = Len(raw) /\ m = Len(x)
  <2>1. SelLen \in Nat /\ Len(raw) \in Nat /\ Len(x) \in Nat
    BY DeclarationsAssumption DEF Agrees
  <2>. QED
    BY <2>1
<1>. PICK w, b : w = sel \o x /\ b = Body(raw)
  OBVIOUS
<1>1. raw \in Seq(Byte) /\ k <= l
  BY DEF Agrees
<1>2. /\ w \in Seq(Byte) /\ Len(w) = k + m
      /\ \A i \in 1..k : w[i] = sel[i]
      /\ \A i \in 1..m : w[k + i] = x[i]
  BY <1>0
<1>3. \A i \in 1..l : i <= k + m => raw[i] = w[i]
  BY <1>2 DEF Agrees
<1>4. Slice(raw, 0, k) = sel
  <2>1. At(raw, 0, sel)
    <3>1. \A i \in 1..k : i \in 1..l /\ i <= k + m /\ 0 + i = i
      BY <1>1
    <3>2. \A i \in 1..k : raw[0 + i] = sel[i]
      BY <1>2, <1>3, <3>1
    <3>. QED
      BY <1>1, <3>2 DEF At
  <2>2. Slice(raw, 0, Len(sel)) = sel
    BY <1>1, <2>1, SliceAt
  <2>. QED
    BY <2>2
<1>5. b = SubSeq(raw, k + 1, l)
  <2>1. Min({k + l, l}) = l
    <3>1. Min({k + l, l}) = IF k + l <= l THEN k + l ELSE l
      <4>1. k + l \in Int /\ l \in Int
        OBVIOUS
      <4>. QED
        BY <4>1, MinTwo
    <3>2. k + l <= l => k + l = l
      OBVIOUS
    <3>. QED
      BY <3>1, <3>2
  <2>. QED
    BY <2>1 DEF Body, Slice
<1>6. /\ b \in Seq(Byte) /\ Len(b) = l - k
      /\ \A i \in 1..(l - k) : b[i] = raw[k + i]
  <2>1. 1 <= k + 1 /\ k + 1 <= l + 1 /\ l - (k + 1) + 1 = l - k
        /\ \A i \in 1..(l - k) : (k + 1) + i - 1 = k + i
    BY <1>1
  <2>2. /\ SubSeq(raw, k + 1, l) \in Seq(Byte) /\ Len(SubSeq(raw, k + 1, l)) = l - (k + 1) + 1
        /\ \A i \in 1..(l - (k + 1) + 1) : SubSeq(raw, k + 1, l)[i] = raw[(k + 1) + i - 1]
    BY <1>1, <2>1, PartIs
  <2>. QED
    BY <1>5, <2>1, <2>2
<1>7. ASSUME NEW i \in 1..Len(b), i <= m PROVE b[i] = x[i]
  <2>1. i \in 1..(l - k) /\ k + i \in 1..l /\ k + i <= k + m /\ i \in 1..m
    BY <1>6, <1>7
  <2>. QED
    BY <1>2, <1>3, <1>6, <2>1
<1>8. Agrees(b, x)
  BY <1>6, <1>7 DEF Agrees
<1>9. Len(w) <= l => m <= Len(b)
  BY <1>2, <1>6
<1>. QED
  BY <1>4, <1>8, <1>9

-----------------------------------------------------------------------------
(* Calldata and revert data.                                               *)

\* What the arguments of the data's own signature are.
OwnArgs(args) ==
  /\ args.ok => Read(sent.decl.types, sent.values, args.value)
  /\ damage # "cut" => args = Ok(sent.values)

LEMMA CallIs ==
  ASSUME ToolsInv, sent.as # "log"
  PROVE  /\ data \in Seq(Byte) /\ (damage # "cut" => SelLen <= Len(data))
         /\ SelLen <= Len(data) =>
              /\ Slice(data, 0, SelLen) = sent.decl.selector
              /\ OwnArgs(decode_args(sent.decl.types, Body(data)))
<1>. PICK d, v, x, sel : /\ d = sent.decl /\ v = sent.values /\ x = enc_tuple(d.types, v)
                         /\ sel = d.selector
  OBVIOUS
<1>1. /\ d.types \in Seq(Types) /\ OfTypes(v, d.types) /\ Len(Whole) < WordRange
      /\ sel \in Seq(Byte) /\ Len(sel) = SelLen
  BY SentIs DEF ToolsInv, Declared
<1>2. x \in Seq(Byte) /\ Len(x) \in Nat /\ SelLen \in Nat
  <2>1. x \in Seq(Byte)
    BY <1>1, TupleIsLaid
  <2>. QED
    BY <2>1, DeclarationsAssumption
<1>3. Whole = sel \o x
  BY DEF Whole, EncodedOf
<1>4. Whole \in Seq(Byte) /\ Len(Whole) = SelLen + Len(x)
  <2>1. ASSUME NEW a \in Seq(Byte), NEW b \in Seq(Byte)
        PROVE  a \o b \in Seq(Byte) /\ Len(a \o b) = Len(a) + Len(b)
    OBVIOUS
  <2>2. sel \o x \in Seq(Byte) /\ Len(sel \o x) = Len(sel) + Len(x)
    BY <1>1, <1>2, <2>1
  <2>. QED
    BY <1>1, <1>3, <2>2
<1>5. Agrees(data, Whole) /\ (damage # "cut" => Len(Whole) <= Len(data))
  BY <1>4, DataAgrees DEF ToolsInv
<1>6. data \in Seq(Byte) /\ Len(data) \in Nat
  <2>1. data \in Seq(Byte)
    BY <1>5 DEF Agrees
  <2>. QED
    BY <2>1
<1>7. damage # "cut" => SelLen <= Len(data)
  BY <1>2, <1>4, <1>5, <1>6
<1>8. ASSUME SelLen <= Len(data)
      PROVE  Slice(data, 0, SelLen) = sel /\ OwnArgs(decode_args(d.types, Body(data)))
  <2>1. /\ Slice(data, 0, SelLen) = sel /\ Agrees(Body(data), x)
        /\ Len(sel \o x) <= Len(data) => Len(x) <= Len(Body(data))
    BY <1>1, <1>2, <1>3, <1>5, <1>8, BodyAgrees
  <2>2. Len(x) < WordRange
    BY <1>1, <1>2, <1>4, WordRangeIs
  <2>. PICK args : args = decode_args(d.types, Body(data))
    OBVIOUS
  <2>3. ASSUME args.ok PROVE Read(d.types, v, args.value)
    BY <1>1, <2>1, <2>2, <2>3, ArgumentsRead
  <2>4. ASSUME damage # "cut" PROVE args = Ok(v)
    <3>1. Len(x) <= Len(Body(data))
      BY <1>3, <1>5, <2>1, <2>4
    <3>. QED
      BY <1>1, <2>1, <2>2, <3>1, WholeIsRead
  <2>. QED
    BY <2>1, <2>3, <2>4 DEF OwnArgs
<1>. QED
  BY <1>6, <1>7, <1>8

\* What the selector alone says of a revert.
LEMMA SelectorSays ==
  ASSUME ToolsInv, sent.as = "revert", SelLen <= Len(data)
  PROVE  without_signature(data) =
           IF sent.decl = ErrorDecl THEN builtin_answer(sent.decl, "error", Body(data))
           ELSE IF sent.decl = PanicDecl THEN builtin_answer(sent.decl, "panic", Body(data))
           ELSE Answer("unknown", FALSE, <<>>)
<1>1. sent.decl \in Errors
  BY SentIs DEF ToolsInv
<1>2. Slice(data, 0, SelLen) = sent.decl.selector
  BY CallIs
<1>3. /\ sent.decl.selector = ErrorDecl.selector <=> sent.decl = ErrorDecl
      /\ sent.decl.selector = PanicDecl.selector <=> sent.decl = PanicDecl
  BY <1>1, DeclarationsAssumption
<1>. QED
  BY <1>2, <1>3 DEF without_signature, Body

\* Without a signature, a built-in error is read from its own arguments.
LEMMA BuiltinRead ==
  ASSUME ToolsInv, Builtin, SelLen <= Len(data),
         NEW args, args = decode_args(sent.decl.types, Body(data))
  PROVE  without_signature(data) =
           IF args.ok THEN Answer(IF sent.decl = ErrorDecl THEN "error" ELSE "panic",
                                  TRUE, args.value)
           ELSE Raised
<1>1. sent.as = "revert" /\ sent.decl \in {ErrorDecl, PanicDecl}
  BY DEF Builtin
<1>. QED
  BY <1>1, SelectorSays DEF builtin_answer

\* An answer made of the arguments.
FromArgs(args) ==
  args.ok /\ OwnArgs(args) /\ answer.matches /\ answer.values = args.value

LEMMA OwnAnswer ==
  ASSUME ToolsInv, OwnSignature, sent.as # "log"
  PROVE  /\ answer.kind \in {"raised", "empty"} \/ \E args : FromArgs(args)
         /\ damage # "cut" => \E args : FromArgs(args)
<1>. PICK d, raw, args : d = sent.decl /\ raw = data /\ args = decode_args(d.types, Body(raw))
  OBVIOUS
<1>1. raw \in Seq(Byte) /\ Len(raw) \in Nat /\ SelLen \in Nat /\ 0 < SelLen
  <2>1. raw \in Seq(Byte)
    BY CallIs
  <2>2. SelLen \in Nat /\ SelLen # 0
    BY DeclarationsAssumption
  <2>. QED
    BY <2>1, <2>2
<1>2. /\ damage # "cut" => SelLen <= Len(raw)
      /\ SelLen <= Len(raw) => Slice(raw, 0, SelLen) = d.selector /\ OwnArgs(args)
  BY CallIs
<1>3. Raised.kind = "raised" /\ Answer("empty", FALSE, <<>>).kind = "empty"
  BY DEF Raised, Answer
<1>4. \A k, m : Answer(k, TRUE, m).matches /\ Answer(k, TRUE, m).values = m
  BY DEF Answer
<1>5. ASSUME damage # "cut" PROVE args.ok
  BY <1>2, <1>5 DEF OwnArgs, Ok
<1>6. ASSUME SelLen <= Len(raw), NEW k,
             answer = IF args.ok THEN Answer(k, TRUE, args.value) ELSE Raised
      PROVE  /\ answer.kind = "raised" \/ FromArgs(args)
             /\ damage # "cut" => FromArgs(args)
  BY <1>2, <1>3, <1>4, <1>5, <1>6 DEF FromArgs
<1>7. CASE sent.as = "call"
  <2>1. guess = d /\ answer = eth_calldata(guess, raw)
    BY <1>7 DEF ToolsInv, Told, OwnSignature, Answered, Builtin
  <2>2. CASE Len(raw) < SelLen
    <3>1. answer = Raised
      BY <2>1, <2>2 DEF eth_calldata
    <3>. QED
      BY <1>1, <1>2, <1>3, <2>2, <3>1
  <2>3. CASE SelLen <= Len(raw)
    <3>1. ~(Len(raw) < SelLen) /\ Slice(raw, 0, SelLen) = d.selector
      BY <1>1, <1>2, <2>3
    <3>2. eth_calldata(d, raw) = IF ~args.ok THEN Raised
                                 ELSE Answer("args", Slice(raw, 0, SelLen) = d.selector, args.value)
      BY <3>1 DEF eth_calldata, Body
    <3>3. answer = IF args.ok THEN Answer("args", TRUE, args.value) ELSE Raised
      BY <2>1, <3>1, <3>2
    <3>. QED
      BY <1>6, <2>3, <3>3
  <2>. QED
    BY <1>1, <2>2, <2>3
<1>8. CASE sent.as = "revert"
  <2>1. guess \in Errors \cup {NoDecl} /\ answer = eth_revert_decode(guess, raw)
    BY <1>8 DEF ToolsInv, Told, OwnSignature, Answered
  <2>2. CASE Len(raw) < SelLen
    <3>1. answer = Raised \/ answer = Answer("empty", FALSE, <<>>)
      BY <2>1, <2>2 DEF eth_revert_decode
    <3>2. answer.kind \in {"raised", "empty"}
      BY <1>3, <3>1
    <3>3. damage = "cut"
      BY <1>1, <1>2, <2>2
    <3>. QED
      BY <3>2, <3>3
  <2>3. CASE SelLen <= Len(raw)
    <3>1. raw # <<>> /\ ~(Len(raw) < SelLen)
      BY <1>1, <2>3
    <3>2. Slice(raw, 0, SelLen) = d.selector
      BY <1>2, <2>3
    <3>3. d \in Errors
      BY <1>8, SentIs DEF ToolsInv
    <3>4. CASE guess = d
      <4>1. guess_applies(d, d.selector)
        BY <3>3, DeclarationsAssumption DEF guess_applies
      <4>2. guess_fails(d, raw) = Raised
        BY <3>2 DEF guess_fails
      <4>3. answer = IF args.ok THEN Answer("custom", TRUE, args.value) ELSE Raised
        BY <2>1, <3>1, <3>2, <3>4, <4>1, <4>2 DEF eth_revert_decode, Body
      <4>. QED
        BY <1>6, <2>3, <4>3
    <3>5. CASE guess # d
      <4>1. Builtin
        BY <3>5 DEF OwnSignature
      <4>2. ~guess_applies(guess, d.selector)
        <5>1. guess # NoDecl => d.selector # guess.selector
          BY <2>1, <3>3, <3>5, DeclarationsAssumption
        <5>. QED
          BY <4>1, <5>1 DEF guess_applies, Builtin
      <4>3. answer = without_signature(raw)
        BY <2>1, <3>1, <3>2, <4>2 DEF eth_revert_decode
      <4>4. answer = IF args.ok THEN Answer(IF d = ErrorDecl THEN "error" ELSE "panic",
                                            TRUE, args.value)
                     ELSE Raised
        BY <2>3, <4>1, <4>3, BuiltinRead
      <4>. QED
        BY <1>6, <2>3, <4>4
    <3>. QED
      BY <3>4, <3>5
  <2>. QED
    BY <1>1, <2>2, <2>3
<1>. QED
  BY <1>7, <1>8, SentIs DEF ToolsInv

LEMMA RoundTripHolds == ToolsInv => RoundTrip
<1>. SUFFICES ASSUME ToolsInv, OwnSignature, damage # "cut", sent.as # "log"
              PROVE  answer.matches /\ answer.values = sent.values
  BY DEF RoundTrip
<1>1. PICK args : FromArgs(args)
  BY OwnAnswer
<1>2. args.value = sent.values
  BY <1>1 DEF FromArgs, OwnArgs, Ok
<1>. QED
  BY <1>1, <1>2 DEF FromArgs

\* The arguments that an answer gives, of data that may have been cut.
LEMMA AnswerRead ==
  ASSUME ToolsInv, OwnSignature, sent.as # "log",
         answer.kind \in {"args", "custom", "error", "panic"}
  PROVE  /\ Read(sent.decl.types, sent.values, answer.values)
         /\ DOMAIN sent.values = 1..Len(sent.decl.types)
<1>1. PICK args : FromArgs(args)
  BY OwnAnswer
<1>2. Read(sent.decl.types, sent.values, answer.values)
  BY <1>1 DEF FromArgs, OwnArgs
<1>3. sent.decl.types \in Seq(Types) /\ OfTypes(sent.values, sent.decl.types)
  BY SentIs DEF ToolsInv, Declared
<1>4. DOMAIN sent.values = 1..Len(sent.decl.types)
  BY <1>3, OfTypesIs
<1>. QED
  BY <1>2, <1>4

LEMMA ArraysHold == ToolsInv => ArraysWholeOrEmpty
<1>. SUFFICES ASSUME ToolsInv, OwnSignature, sent.as # "log", answer.kind \in {"args", "custom"},
                     NEW i \in DOMAIN sent.values, NEW t, t = sent.decl.types[i],
                     t.kind = "array" /\ ~is_dynamic[t.of] /\ static_size[t.of] = Word
              PROVE  answer.values[i] \in {sent.values[i], <<>>}
  BY DEF ArraysWholeOrEmpty
<1>1. ArrayOfWords(sent.decl.types[i])
  BY DEF ArrayOfWords
<1>2. Read(sent.decl.types, sent.values, answer.values) /\ i \in 1..Len(sent.decl.types)
  BY AnswerRead
<1>. QED
  BY <1>1, <1>2 DEF Read

LEMMA GuessHolds == ToolsInv => GuessHarmless
<1>. SUFFICES ASSUME ToolsInv, Answered, sent.as = "revert", damage # "cut"
              PROVE  /\ answer # Raised
                     /\ Builtin /\ guess # sent.decl =>
                          answer = Answer(IF sent.decl = ErrorDecl THEN "error" ELSE "panic",
                                          TRUE, sent.values)
  BY DEF GuessHarmless
<1>. PICK d, raw, v, own : /\ d = sent.decl /\ raw = data /\ v = sent.values
                           /\ own = decode_args(d.types, Body(raw))
  OBVIOUS
<1>1. SelLen <= Len(raw) /\ Slice(raw, 0, SelLen) = d.selector /\ own = Ok(v)
  BY CallIs DEF OwnArgs
<1>2. raw # <<>> /\ ~(Len(raw) < SelLen)
  <2>1. SelLen \in Nat /\ SelLen # 0 /\ raw \in Seq(Byte)
    BY CallIs, DeclarationsAssumption
  <2>2. Len(raw) \in Nat
    BY <2>1
  <2>. QED
    BY <1>1, <2>1, <2>2
<1>3. d \in Errors /\ guess \in Errors \cup {NoDecl} /\ answer = eth_revert_decode(guess, raw)
  BY SentIs DEF ToolsInv, Told, Answered
<1>4. /\ \A m, k : Answer("unknown", m, k) # Raised /\ Answer("custom", m, k) # Raised
                   /\ Answer("error", m, k) # Raised /\ Answer("panic", m, k) # Raised
      /\ own.ok /\ own.value = v
  <2>1. \A m, k : /\ Answer("unknown", m, k).kind # Raised.kind
                  /\ Answer("custom", m, k).kind # Raised.kind
                  /\ Answer("error", m, k).kind # Raised.kind
                  /\ Answer("panic", m, k).kind # Raised.kind
    BY DEF Answer, Raised
  <2>. QED
    BY <1>1, <2>1 DEF Ok
<1>. PICK w : w = without_signature(raw)
  OBVIOUS
<1>5. Builtin => w = Answer(IF d = ErrorDecl THEN "error" ELSE "panic", TRUE, v)
  BY <1>1, <1>4, BuiltinRead
<1>6. w # Raised
  <2>1. CASE Builtin
    BY <1>4, <1>5, <2>1
  <2>2. CASE ~Builtin
    <3>1. d # ErrorDecl /\ d # PanicDecl
      BY <2>2 DEF Builtin
    <3>2. w = Answer("unknown", FALSE, <<>>)
      BY <1>1, <3>1, SelectorSays
    <3>. QED
      BY <1>4, <3>2
  <2>. QED
    BY <2>1, <2>2
<1>7. ASSUME guess_applies(guess, d.selector)
      PROVE  answer # Raised
  <2>1. guess \in Errors /\ (d.selector = guess.selector => guess = d)
    BY <1>3, <1>7, DeclarationsAssumption DEF guess_applies
  <2>. PICK args : args = decode_args(guess.types, Body(raw))
    OBVIOUS
  <2>2. answer = IF args.ok THEN Answer("custom", d.selector = guess.selector, args.value)
                 ELSE guess_fails(guess, raw)
    BY <1>1, <1>2, <1>3, <1>7 DEF eth_revert_decode, Body
  <2>3. ~args.ok => guess_fails(guess, raw) = w
    <3>1. ~args.ok => guess # d
      BY <1>4
    <3>. QED
      BY <1>1, <2>1, <3>1 DEF guess_fails
  <2>. QED
    BY <1>4, <1>6, <2>2, <2>3
<1>8. ASSUME ~guess_applies(guess, d.selector) PROVE answer = w
  BY <1>1, <1>2, <1>3, <1>8 DEF eth_revert_decode
<1>9. Builtin /\ guess # d => ~guess_applies(guess, d.selector)
  <2>1. guess # d /\ guess # NoDecl => d.selector # guess.selector
    BY <1>3, DeclarationsAssumption
  <2>. QED
    BY <2>1 DEF guess_applies, Builtin
<1>. QED
  BY <1>5, <1>6, <1>7, <1>8, <1>9

-----------------------------------------------------------------------------
(* Logs.                                                                   *)

\* The topic each argument would have.
TopicsFor(d, values) == [i \in DOMAIN values |-> TopicOf(d.types[i], values[i])]
TopicsSent == TopicsFor(sent.decl, sent.values)

LEMMA IndexedSized ==
  ASSUME NEW d, Declared(d), NEW s
  PROVE  Len(Indexed(d, s)) = CountTo(d.indexed, TRUE, Len(d.types))
<1>1. d.indexed \in Seq(BOOLEAN) /\ DOMAIN d.types = 1..Len(d.indexed) /\ Len(d.indexed) = Len(d.types)
  BY DEF Declared
<1>2. Selection({s[i] : i \in 1..Len(d.indexed)}, s, d.types, d.indexed, TRUE)
  BY <1>1, Selected
<1>. QED
  BY <1>1, <1>2 DEF Selection, Indexed

LEMMA TopicsAre ==
  ASSUME ToolsInv, sent.as = "log"
  PROVE  /\ Len(topics) = CountTo(sent.decl.indexed, TRUE, Len(sent.decl.types))
                          + (IF sent.decl.anonymous THEN 0 ELSE 1)
         /\ sent.decl.anonymous => topics = Indexed(sent.decl, TopicsSent)
         /\ ~sent.decl.anonymous => /\ topics[1] = Topic0(sent.decl)
                                    /\ Tail(topics) = Indexed(sent.decl, TopicsSent)
<1>. PICK d, w, n : d = sent.decl /\ w = Indexed(d, TopicsSent)
                    /\ n = CountTo(d.indexed, TRUE, Len(d.types))
  OBVIOUS
<1>0. Declared(d)
  BY SentIs DEF ToolsInv
<1>a. PICK T : T = {TopicsSent[i] : i \in 1..Len(d.indexed)} \cup {Topic0(d)}
  OBVIOUS
<1>1. w \in Seq(T) /\ Len(w) = n
  <2>1. d.indexed \in Seq(BOOLEAN) /\ DOMAIN d.types = 1..Len(d.indexed)
    BY <1>0 DEF Declared
  <2>2. \A i \in 1..Len(d.indexed) : TopicsSent[i] \in T
    BY <1>a
  <2>3. Selection(T, TopicsSent, d.types, d.indexed, TRUE)
    BY <2>1, <2>2, Selected
  <2>4. w \in Seq(T)
    BY <2>3 DEF Selection, Indexed
  <2>5. Len(w) = n
    BY <1>0, IndexedSized
  <2>. QED
    BY <2>4, <2>5
<1>2. topics = (IF d.anonymous THEN <<>> ELSE <<Topic0(d)>>) \o w
  BY DEF ToolsInv, TopicsKept, TopicsSent, TopicsFor
<1>3. Len(w) \in Nat /\ n \in Nat /\ Topic0(d) \in T
  <2>1. Len(w) \in Nat
    BY <1>1, LenProperties
  <2>2. Topic0(d) \in T
    BY <1>a
  <2>. QED
    BY <1>1, <2>1, <2>2
<1>4. CASE d.anonymous
  <2>1. \A s \in Seq(T) : <<>> \o s = s
    OBVIOUS
  <2>2. topics = w
    BY <1>1, <1>2, <1>4, <2>1
  <2>3. Len(topics) = n + 0
    <3>1. \A k \in Nat : k = k + 0
      OBVIOUS
    <3>2. n = n + 0
      BY <1>3, <3>1
    <3>. QED
      BY <1>1, <2>2, <3>2
  <2>. QED
    BY <1>4, <2>2, <2>3
<1>5. CASE ~d.anonymous
  <2>1. topics = <<Topic0(d)>> \o w
    BY <1>2, <1>5
  <2>2. ASSUME NEW a \in T, NEW s \in Seq(T)
        PROVE  /\ Len(<<a>> \o s) = Len(s) + 1 /\ (<<a>> \o s)[1] = a
               /\ Tail(<<a>> \o s) = s
    OBVIOUS
  <2>3. /\ Len(<<Topic0(d)>> \o w) = Len(w) + 1 /\ (<<Topic0(d)>> \o w)[1] = Topic0(d)
        /\ Tail(<<Topic0(d)>> \o w) = w
    BY <1>1, <1>3, <2>2
  <2>. QED
    BY <1>1, <1>5, <2>1, <2>3
<1>. QED
  BY <1>4, <1>5

\* What an answer to a log implies.
LEMMA LogAnswered ==
  ASSUME ToolsInv, sent.as = "log", Answered
  PROVE  /\ guess \in Events /\ answer = eth_log_decode(guess, topics, data)
         /\ answer.kind = "args" => arity_ok(guess, topics)
<1>1. guess \in Events /\ answer = eth_log_decode(guess, topics, data)
  BY DEF ToolsInv, Told, Answered
<1>2. ASSUME ~arity_ok(guess, topics) PROVE answer.kind # "args"
  <2>1. answer = Raised
    BY <1>1, <1>2 DEF eth_log_decode
  <2>. QED
    BY <2>1 DEF Raised, Answer
<1>. QED
  BY <1>1, <1>2

LEMMA ArityHolds == ToolsInv => ArityCaught
<1>. SUFFICES ASSUME ToolsInv, sent.as = "log", answer.kind = "args",
                     guess.anonymous = sent.decl.anonymous
              PROVE  Len(Indexed(guess, guess.types)) = Len(Indexed(sent.decl, sent.decl.types))
  BY DEF ArityCaught
<1>1. Answered
  BY DEF Answered, Pending, Answer
<1>2. guess \in Events /\ arity_ok(guess, topics)
  BY <1>1, LogAnswered
<1>3. Declared(guess) /\ Declared(sent.decl)
  BY <1>2, SentIs, DeclarationsAssumption DEF Declared, ToolsInv
<1>. PICK m, n : m = Len(Indexed(guess, guess.types)) /\ n = Len(Indexed(sent.decl, sent.decl.types))
  OBVIOUS
<1>4. m \in Nat /\ n \in Nat
  <2>1. m = CountTo(guess.indexed, TRUE, Len(guess.types))
        /\ n = CountTo(sent.decl.indexed, TRUE, Len(sent.decl.types))
    BY <1>3, IndexedSized
  <2>2. /\ guess.indexed \in Seq(BOOLEAN) /\ Len(guess.types) \in 0..Len(guess.indexed)
        /\ sent.decl.indexed \in Seq(BOOLEAN)
        /\ Len(sent.decl.types) \in 0..Len(sent.decl.indexed)
    BY <1>3 DEF Declared
  <2>. QED
    BY <2>1, <2>2, CountSteps
<1>5. Len(topics) = n + (IF sent.decl.anonymous THEN 0 ELSE 1)
  <2>1. n = CountTo(sent.decl.indexed, TRUE, Len(sent.decl.types))
    BY <1>3, IndexedSized
  <2>. QED
    BY <2>1, TopicsAre
<1>6. Len(topics) = m + (IF guess.anonymous THEN 0 ELSE 1)
  BY <1>2 DEF arity_ok
<1>. QED
  BY <1>4, <1>5, <1>6

\* What the arguments in the data of a log are.
OwnPlain(args) ==
  /\ args.ok => Read(Plain(sent.decl, sent.decl.types), Plain(sent.decl, sent.values), args.value)
  /\ damage # "cut" => args = Ok(Plain(sent.decl, sent.values))

LEMMA PlainIs ==
  ASSUME ToolsInv, sent.as = "log"
  PROVE  OwnPlain(decode_args(Plain(sent.decl, sent.decl.types), data))
<1>. PICK types, values, x : /\ types = Plain(sent.decl, sent.decl.types)
                             /\ values = Plain(sent.decl, sent.values)
                             /\ x = enc_tuple(types, values)
  OBVIOUS
<1>1. Declared(sent.decl) /\ OfTypes(sent.values, sent.decl.types) /\ Len(Whole) < WordRange
  BY SentIs DEF ToolsInv
<1>2. types \in Seq(Types) /\ OfTypes(values, types)
  BY <1>1, SelectTyped DEF Declared, Plain
<1>3. x \in Seq(Byte)
  BY <1>2, TupleIsLaid
<1>4. Whole = x
  BY DEF Whole, EncodedOf
<1>5. Agrees(data, x) /\ (damage # "cut" => Len(x) <= Len(data)) /\ Len(x) < WordRange
  BY <1>1, <1>3, <1>4, DataAgrees DEF ToolsInv
<1>. PICK args : args = decode_args(types, data)
  OBVIOUS
<1>6. ASSUME args.ok PROVE Read(types, values, args.value)
  BY <1>2, <1>5, <1>6, ArgumentsRead
<1>7. ASSUME damage # "cut" PROVE args = Ok(values)
  BY <1>2, <1>5, <1>7, WholeIsRead
<1>. QED
  BY <1>6, <1>7 DEF OwnPlain

\* A topic that is not a hash is read back.
LEMMA TopicRead ==
  ASSUME NEW t \in Types, ~is_hashed(t), NEW v \in Values(t)
  PROVE  dec_scalar(t, TopicOf(t, v).word, 0).value = v
<1>1. ~Composite(t) /\ t.kind \notin {"bytes", "string"}
  BY DEF is_hashed, Composite
<1>2. TopicOf(t, v).word = enc[t][v] /\ enc[t][v] = enc_scalar(t, v)
  BY <1>1, EncUnfolds DEF TopicOf, EncodingOf, Composite
<1>. PICK e : e = enc_scalar(t, v)
  OBVIOUS
<1>3. e \in Seq(Byte) /\ Len(e) = Word
  BY <1>1, ScalarIs
<1>4. Len(e) < WordRange
  BY <1>3, WordRangeIs, PowerPositive DEF WordRange
<1>5. At(e, 0, e)
  <2>1. Len(e) \in Nat
    BY <1>3, WordRangeIs
  <2>. QED
    BY <2>1 DEF At
<1>6. dec_scalar(t, e, 0) = Ok(v)
  BY <1>1, <1>3, <1>4, <1>5, ScalarDecodes
<1>. QED
  BY <1>2, <1>6 DEF Ok

\* The arguments put together from the topics and the data.
ArgumentAt(d, values, plain, i) ==
  IF ~d.indexed[i] THEN plain[CountTo(d.indexed, FALSE, i)]
  ELSE IF is_hashed(d.types[i]) THEN TopicOf(d.types[i], values[i]) ELSE values[i]

LEMMA Assembled ==
  ASSUME NEW d, Declared(d), NEW values, OfTypes(values, d.types), NEW plain,
         NEW words, words = Indexed(d, TopicsFor(d, values)),
         NEW i \in 1..Len(d.types)
  PROVE  args_of(d, words, plain)[i] = ArgumentAt(d, values, plain, i)
<1>1. /\ d.indexed \in Seq(BOOLEAN) /\ Len(d.indexed) = Len(d.types)
      /\ d.types \in Seq(Types) /\ DOMAIN d.types = 1..Len(d.types)
  BY DEF Declared
<1>2. d.types[i] \in Types /\ values[i] \in Values(d.types[i]) /\ DOMAIN values = 1..Len(d.types)
  BY <1>1, OfTypesIs
<1>3. i \in 0..Len(d.indexed) /\ i \in 1..Len(d.indexed)
  BY <1>1
<1>. PICK c, f : c = CountTo(d.indexed, TRUE, i) /\ f = CountTo(d.indexed, FALSE, i)
  OBVIOUS
<1>4. Cardinality({j \in 1..i : d.indexed[j]}) = c /\ i - c = f
  <2>1. c + f = i /\ Cardinality({j \in 1..i : d.indexed[j]}) = c
    BY <1>1, <1>3, CountBoth
  <2>2. c \in Nat /\ f \in Nat
    BY <1>1, <1>3, CountSteps
  <2>3. \A a, b \in Nat : (a + b) - a = b
    OBVIOUS
  <2>. QED
    BY <2>1, <2>2, <2>3
<1>5. args_of(d, words, plain)[i] =
        IF ~d.indexed[i] THEN plain[i - Cardinality({j \in 1..i : d.indexed[j]})]
        ELSE IF is_hashed(d.types[i]) THEN words[Cardinality({j \in 1..i : d.indexed[j]})]
        ELSE dec_scalar(d.types[i], words[Cardinality({j \in 1..i : d.indexed[j]})].word, 0).value
  BY <1>1 DEF args_of
<1>6. args_of(d, words, plain)[i] =
        IF ~d.indexed[i] THEN plain[f]
        ELSE IF is_hashed(d.types[i]) THEN words[c]
        ELSE dec_scalar(d.types[i], words[c].word, 0).value
  BY <1>4, <1>5
<1>7. ASSUME d.indexed[i] PROVE words[c] = TopicOf(d.types[i], values[i])
  <2>. PICK ts : ts = TopicsFor(d, values)
    OBVIOUS
  <2>0. PICK T : T = {ts[k] : k \in 1..Len(d.indexed)}
    OBVIOUS
  <2>1. \A k \in 1..Len(d.indexed) : ts[k] \in T
    BY <2>0
  <2>2. Selection(T, ts, d.types, d.indexed, TRUE)
    BY <1>1, <2>1, Selected
  <2>3. d.indexed[i] = TRUE
    <3>1. d.indexed[i] \in BOOLEAN
      BY <1>1, <1>3, ElementOfSeq
    <3>. QED
      BY <1>7, <3>1
  <2>4. words[c] = ts[i]
    BY <1>3, <2>2, <2>3 DEF Selection, Indexed
  <2>. QED
    BY <1>2, <2>4 DEF TopicsFor
<1>8. ~is_hashed(d.types[i]) =>
        dec_scalar(d.types[i], TopicOf(d.types[i], values[i]).word, 0).value = values[i]
  BY <1>2, TopicRead
<1>. QED
  BY <1>6, <1>7, <1>8 DEF ArgumentAt

\* The answer to a log decoded with its own declaration.
LEMMA LogIs ==
  ASSUME ToolsInv, OwnSignature, sent.as = "log",
         NEW args, args = decode_args(Plain(sent.decl, sent.decl.types), data),
         NEW words, words = Indexed(sent.decl, TopicsSent)
  PROVE  answer = IF args.ok THEN Answer("args", TRUE, args_of(sent.decl, words, args.value))
                  ELSE Raised
<1>. PICK d : d = sent.decl
  OBVIOUS
<1>1. guess = d /\ answer = eth_log_decode(d, topics, data)
  BY LogAnswered DEF OwnSignature, Builtin
<1>2. Declared(d) /\ d \in Events
  BY SentIs DEF ToolsInv
<1>. PICK n : n = CountTo(d.indexed, TRUE, Len(d.types))
  OBVIOUS
<1>3. /\ Len(topics) = n + (IF d.anonymous THEN 0 ELSE 1)
      /\ d.anonymous => topics = words
      /\ ~d.anonymous => topics[1] = Topic0(d) /\ Tail(topics) = words
  BY TopicsAre
<1>4. words = IF d.anonymous THEN topics ELSE Tail(topics)
  BY <1>3
<1>5. topic0_matches(d, topics) = TRUE
  <2>1. CASE d.anonymous
    BY <2>1 DEF topic0_matches
  <2>2. CASE ~d.anonymous
    <3>1. /\ Topic0(d).hash = "signature" /\ Topic0(d).name = d.name
          /\ Topic0(d).of = d.types
      BY DEF Topic0
    <3>2. topics[1] = Topic0(d)
      BY <1>3, <2>2
    <3>. QED
      BY <3>1, <3>2 DEF topic0_matches
  <2>. QED
    BY <2>1, <2>2
<1>6. n <= (IF d.anonymous THEN 4 ELSE 3)
  <2>1. /\ d.indexed \in Seq(BOOLEAN) /\ Len(d.types) = Len(d.indexed)
        /\ Len(d.indexed) \in 0..Len(d.indexed) /\ DOMAIN d.types = 1..Len(d.types)
    BY <1>2 DEF Declared
  <2>2. Cardinality({i \in 1..Len(d.indexed) : d.indexed[i]}) = n
    BY <2>1, CountBoth
  <2>. QED
    BY <1>2, <2>1, <2>2, DeclarationsAssumption
<1>7. arity_ok(d, topics)
  <2>1. Len(Indexed(d, d.types)) = n
    BY <1>2, IndexedSized
  <2>. QED
    BY <1>3, <1>6, <2>1 DEF arity_ok
<1>8. eth_log_decode(d, topics, data) =
        IF ~arity_ok(d, topics) \/ ~args.ok THEN Raised
        ELSE Answer("args", topic0_matches(d, topics),
                    args_of(d, IF d.anonymous THEN topics ELSE Tail(topics), args.value))
  BY DEF eth_log_decode
<1>. QED
  BY <1>1, <1>4, <1>5, <1>7, <1>8

\* Where an argument that is not indexed is among those in the data.
LEMMA PlainAt ==
  ASSUME Sent, NEW i \in 1..Len(sent.decl.types), ~sent.decl.indexed[i]
  PROVE  \E k \in 1..Len(Plain(sent.decl, sent.decl.types)) :
           /\ k = CountTo(sent.decl.indexed, FALSE, i)
           /\ Plain(sent.decl, sent.decl.types)[k] = sent.decl.types[i]
           /\ Plain(sent.decl, sent.values)[k] = sent.values[i]
<1>. PICK d, v : d = sent.decl /\ v = sent.values
  OBVIOUS
<1>1. Declared(d) /\ OfTypes(v, d.types)
  BY SentIs
<1>2. /\ d.indexed \in Seq(BOOLEAN) /\ Len(d.indexed) = Len(d.types)
      /\ DOMAIN d.types = 1..Len(d.indexed) /\ i \in 1..Len(d.indexed)
  BY <1>1 DEF Declared
<1>3. d.indexed[i] = FALSE
  <2>1. d.indexed[i] \in BOOLEAN
    BY <1>2, ElementOfSeq
  <2>. QED
    BY <2>1
<1>4. ASSUME NEW s PROVE Selection({s[k] : k \in 1..Len(d.indexed)}, s, d.types, d.indexed, FALSE)
  BY <1>2, Selected
<1>. PICK c : c = CountTo(d.indexed, FALSE, i)
  OBVIOUS
<1>5. ASSUME NEW s PROVE c \in 1..Len(Plain(d, s)) /\ Plain(d, s)[c] = s[i]
  BY <1>2, <1>3, <1>4 DEF Selection, Plain
<1>. QED
  BY <1>5

LEMMA LogHolds == ToolsInv => LogReassembled
<1>. DEFINE back(d, values) ==
              [i \in DOMAIN values |->
                 IF d.indexed[i] /\ is_hashed(d.types[i]) THEN TopicOf(d.types[i], values[i])
                 ELSE values[i]]
<1>. SUFFICES ASSUME ToolsInv, OwnSignature, damage # "cut", sent.as = "log"
              PROVE  answer = Answer("args", TRUE, back(sent.decl, sent.values))
  BY DEF LogReassembled
<1>. PICK d, v, plain, args, words :
       /\ d = sent.decl /\ v = sent.values /\ plain = Plain(d, v)
       /\ args = decode_args(Plain(d, d.types), data) /\ words = Indexed(d, TopicsSent)
  OBVIOUS
<1>1. args = Ok(plain)
  BY PlainIs DEF OwnPlain
<1>2. args.ok /\ args.value = plain
  BY <1>1 DEF Ok
<1>3. answer = Answer("args", TRUE, args_of(d, words, plain))
  <2>1. answer = IF args.ok THEN Answer("args", TRUE, args_of(d, words, args.value)) ELSE Raised
    BY LogIs
  <2>. QED
    BY <1>2, <2>1
<1>4. Declared(d) /\ OfTypes(v, d.types) /\ Sent
  BY SentIs DEF ToolsInv
<1>5. DOMAIN d.types = 1..Len(d.types) /\ DOMAIN v = 1..Len(d.types)
  BY <1>4, OfTypesIs DEF Declared
<1>6. args_of(d, words, plain) = [i \in 1..Len(d.types) |-> args_of(d, words, plain)[i]]
  BY <1>5 DEF args_of
<1>7. words = Indexed(d, TopicsFor(d, v))
  BY DEF TopicsSent
<1>8. ASSUME NEW i \in 1..Len(d.types)
      PROVE  args_of(d, words, plain)[i] =
               IF d.indexed[i] /\ is_hashed(d.types[i]) THEN TopicOf(d.types[i], v[i]) ELSE v[i]
  <2>1. args_of(d, words, plain)[i] = ArgumentAt(d, v, plain, i)
    BY <1>4, <1>7, Assembled
  <2>2. ~d.indexed[i] => plain[CountTo(d.indexed, FALSE, i)] = v[i]
    BY <1>4, PlainAt
  <2>. QED
    BY <2>1, <2>2 DEF ArgumentAt
<1>9. args_of(d, words, plain) = back(d, v)
  BY <1>5, <1>6, <1>8
<1>. QED
  BY <1>3, <1>9

LEMMA HeadHolds == ToolsInv => HeadNeverInvented
<1>. SUFFICES ASSUME ToolsInv, OwnSignature, answer.kind \in {"args", "custom", "error", "panic"},
                     NEW i \in DOMAIN sent.values, ~is_dynamic[sent.decl.types[i]],
                     ~(sent.decl.indexed[i] /\ is_hashed(sent.decl.types[i]))
              PROVE  answer.values[i] = sent.values[i]
  BY DEF HeadNeverInvented
<1>. PICK d, v : d = sent.decl /\ v = sent.values
  OBVIOUS
<1>1. Declared(d) /\ OfTypes(v, d.types) /\ Sent
  BY SentIs DEF ToolsInv
<1>2. i \in 1..Len(d.types)
  BY <1>1, OfTypesIs DEF Declared
<1>3. CASE sent.as # "log"
  <2>1. Read(d.types, v, answer.values)
    BY <1>3, AnswerRead
  <2>. QED
    BY <1>2, <2>1 DEF Read
<1>4. CASE sent.as = "log"
  <2>. PICK args, words : /\ args = decode_args(Plain(d, d.types), data)
                          /\ words = Indexed(d, TopicsSent)
    OBVIOUS
  <2>1. answer = IF args.ok THEN Answer("args", TRUE, args_of(d, words, args.value)) ELSE Raised
    BY <1>4, LogIs
  <2>2. args.ok /\ answer.values = args_of(d, words, args.value)
    <3>1. Raised.kind = "raised" /\ \A w : Answer("args", TRUE, w).values = w
      BY DEF Raised, Answer
    <3>. QED
      BY <2>1, <3>1
  <2>3. words = Indexed(d, TopicsFor(d, v))
    BY DEF TopicsSent
  <2>4. answer.values[i] = ArgumentAt(d, v, args.value, i)
    BY <1>1, <1>2, <2>2, <2>3, Assembled
  <2>5. ASSUME ~d.indexed[i] PROVE args.value[CountTo(d.indexed, FALSE, i)] = v[i]
    <3>1. PICK k \in 1..Len(Plain(d, d.types)) :
            /\ k = CountTo(d.indexed, FALSE, i) /\ Plain(d, d.types)[k] = d.types[i]
            /\ Plain(d, v)[k] = v[i]
      BY <1>1, <1>2, <2>5, PlainAt
    <3>2. Read(Plain(d, d.types), Plain(d, v), args.value)
      BY <1>4, <2>2, PlainIs DEF OwnPlain
    <3>. QED
      BY <3>1, <3>2 DEF Read
  <2>. QED
    BY <2>4, <2>5 DEF ArgumentAt
<1>. QED
  BY <1>3, <1>4

-----------------------------------------------------------------------------
(* The theorems.                                                           *)

\* Calldata and revert data decoded with their own signature give back every argument
\* as it was sent (eth_calldata, eth_revert_decode), whatever is appended to them.
THEOREM RoundTripTheorem == Spec => []RoundTrip
<1>1. ToolsInv => RoundTrip
  BY RoundTripHolds
<1>. QED
  BY <1>1, ToolsInvariant, PTL

\* A log's arguments come back in the order of the declaration (eth_log_decode).
THEOREM LogTheorem == Spec => []LogReassembled
<1>1. ToolsInv => LogReassembled
  BY LogHolds
<1>. QED
  BY <1>1, ToolsInvariant, PTL

\* Cut data never decodes to a static argument that was not sent: the size of the head
\* is a sufficient guard of all three decoders.
THEOREM HeadTheorem == Spec => []HeadNeverInvented
<1>1. ToolsInv => HeadNeverInvented
  BY HeadHolds
<1>. QED
  BY <1>1, ToolsInvariant, PTL

\* No guess of a client's makes whole revert data fail or hides a built-in error
\* (eth_revert_decode).
THEOREM GuessTheorem == Spec => []GuessHarmless
<1>1. ToolsInv => GuessHarmless
  BY GuessHolds
<1>. QED
  BY <1>1, ToolsInvariant, PTL

\* Two events of one topic0 and different numbers of indexed arguments are never read
\* as each other (eth_log_decode).
THEOREM ArityTheorem == Spec => []ArityCaught
<1>1. ToolsInv => ArityCaught
  BY ArityHolds
<1>. QED
  BY <1>1, ToolsInvariant, PTL

\* An array of one-word elements in cut data is decoded whole, decoded empty, or refused
\* (the check of its length in _abi_dec).
THEOREM ArraysTheorem == Spec => []ArraysWholeOrEmpty
<1>1. ToolsInv => ArraysWholeOrEmpty
  BY ArraysHold
<1>. QED
  BY <1>1, ToolsInvariant, PTL
=============================================================================
