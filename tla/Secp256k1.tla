----------------------------- MODULE Secp256k1 -----------------------------
(***************************************************************************)
(* The elliptic-curve arithmetic of eth.py, over a curve y^2 = x^3 + B of  *)
(* any size: points, scalar multiplication and public-key recovery.  A     *)
(* point is <<x, y>>; Infinity is the code's None.                         *)
(***************************************************************************)
EXTENDS Integers

CONSTANTS P,    \* _SECP_P, the field's prime (P % 4 = 3)
          B,    \* the curve's constant, 7
          Q,    \* _SECP_N, the order of the group
          G,    \* _SECP_G, its generator
          PubPoint  \* _secp_pubkey_point: the multiples of G, by their scalar

ASSUME CurveAssumption == /\ P \in Nat /\ P % 4 = 3 /\ B \in 0..(P - 1)
                          /\ Q \in Nat /\ 1 < Q /\ Q < P /\ Q % 2 = 1
\* The order is prime: every scalar but 0 has an inverse.
ASSUME PrimeOrder == \A a \in 1..(Q - 1) : \E i \in 1..(Q - 1) : (a * i) % Q = 1

Infinity == << >>
Field == 0..(P - 1)

\* The right-hand side of the curve's equation, and the points that satisfy it.
Alpha(x) == (x * x * x + B) % P
CurvePoints == {p \in Field \X Field : (p[2] * p[2] - Alpha(p[1])) % P = 0}
Points == CurvePoints \cup {Infinity}

\* pow(a, -1, m) for a prime m
Inverse_mod(a, m) == CHOOSE i \in 1..(m - 1) : (a * i) % m = 1

\* pow(a, e, P), by squaring
Pow(a, e) ==
  LET pw[k \in 0..e] == IF k = 0 THEN 1
                        ELSE LET h == pw[k \div 2]
                             IN  (h * h * (IF k % 2 = 1 THEN a ELSE 1)) % P
  IN  pw[e]

ec_add(p, q) ==
  IF p = Infinity THEN q
  ELSE IF q = Infinity THEN p
  ELSE IF p[1] = q[1] /\ (p[2] + q[2]) % P = 0 THEN Infinity
  ELSE LET m == (IF p = q
                   THEN 3 * p[1] * p[1] * Inverse_mod((2 * p[2]) % P, P)
                   ELSE (q[2] - p[2]) * Inverse_mod((q[1] - p[1]) % P, P)) % P
           x3 == (m * m - p[1] - q[1]) % P
       IN  <<x3, (m * (p[1] - x3) - p[2]) % P>>

\* One round of _ec_mul's loop, on the addend and the result so far.
DoubleAdd(j, x) == <<ec_add(x[1], x[1]), IF j % 2 = 1 THEN ec_add(x[2], x[1]) ELSE x[2]>>

\* Double-and-add, from the low bit up.
ec_mul(k, p) ==
  LET loop[j \in Nat] ==
        [x \in Points \X Points |-> IF j = 0 THEN x[2] ELSE loop[j \div 2][DoubleAdd(j, x)]]
  IN  loop[k][<<p, Infinity>>]

\* Mutant (VerifySound): the digest enters with the wrong sign.
ecrecover_PlusZ(z, r, s, rec_id) ==
  LET alpha == Alpha(r)
      beta  == Pow(alpha, (P + 1) \div 4)
      y     == IF beta % 2 = rec_id % 2 THEN beta ELSE P - beta
  IN  IF ~(r \in 1..(Q - 1) /\ s \in 1..(Q - 1)) \/ (y * y - alpha) % P # 0 THEN Infinity
      ELSE ec_mul(Inverse_mod(r, Q), ec_add(ec_mul(s, <<r, y>>), ec_mul(z % Q, G)))

\* _ecrecover: the key whose signature of z this is, or Infinity when the numbers
\* are out of range or no key is recovered.
ecrecover(z, r, s, rec_id) ==
  LET x     == r + (IF rec_id >= 2 THEN Q ELSE 0)
      alpha == Alpha(x)
      beta  == Pow(alpha, (P + 1) \div 4)
      y     == IF beta % 2 = rec_id % 2 THEN beta ELSE P - beta
      q     == ec_mul(Inverse_mod(r, Q),
                      ec_add(ec_mul(s, <<x, y>>), ec_mul((-z) % Q, G)))
  IN  IF \/ ~(r \in 1..(Q - 1) /\ s \in 1..(Q - 1) /\ rec_id \in 0..3)
         \/ x >= P
         \/ (y * y - alpha) % P # 0
        THEN Infinity
        ELSE q

-----------------------------------------------------------------------------
(* What the arithmetic is used for: facts about the curve and its field.    *)

\* k*G for any k below the order.
Multiple(k) == IF k = 0 THEN Infinity ELSE PubPoint[k]

\* The points of the curve are a cyclic group: G generates all of them, and adding
\* points adds their scalars modulo the order.
ASSUME GroupLaw ==
  /\ PubPoint \in [1..(Q - 1) -> CurvePoints] /\ PubPoint[1] = G
  /\ \A p \in CurvePoints : \E k \in 1..(Q - 1) : p = PubPoint[k]
  /\ \A i, j \in 0..(Q - 1) : ec_add(Multiple(i), Multiple(j)) = Multiple((i + j) % Q)

\* Fermat's little theorem, where P % 4 = 3: a square's power is one of its roots.
ASSUME SquareRoots == /\ \A a \in Field : Pow(a, (P + 1) \div 4) \in Field
                      /\ \A y \in 1..(P - 1) : Pow((y * y) % P, (P + 1) \div 4) \in {y, P - y}
=============================================================================
