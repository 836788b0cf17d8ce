---------------------------- MODULE EthSignProof ----------------------------
(***************************************************************************)
(* Proofs about EthSign for any curve of prime order and any word width:   *)
(* the wire forms lose nothing, whatever chain of conversions a signature  *)
(* goes through; and, where the points are a cyclic group, double-and-add  *)
(* multiplies, the signer is recovered from every form of what she signed, *)
(* and what verify accepts passes textbook verification.                   *)
(***************************************************************************)
EXTENDS EthSign, TLAPS, CommonLemmas

\* Both s of one signature are signatures, and swapping twice is no swap.
LEMMA TwinProperties ==
  ASSUME NEW sig \in Signature
  PROVE  Twin(sig) \in Signature /\ Twin(Twin(sig)) = sig
<1>1. sig.s \in 1..(Q - 1) /\ sig.parity \in {0, 1} /\ sig.r \in 1..(Q - 1)
  BY DEF Signature
<1>2. Q - sig.s \in 1..(Q - 1) /\ Q - (Q - sig.s) = sig.s
  BY <1>1, CurveAssumption
<1>3. 1 - sig.parity \in {0, 1} /\ 1 - (1 - sig.parity) = sig.parity
  BY <1>1
<1>. QED
  BY <1>1, <1>2, <1>3 DEF Twin, Signature

\* Of the two s of a signature one is low: negating a high s makes it low.
LEMMA HighTwinIsLow ==
  ASSUME NEW sig \in Signature, ~LowS(sig)
  PROVE  LowS(Twin(sig))
<1>1. sig.s \in 1..(Q - 1) /\ sig.s > HALF_N
  BY CurveAssumption DEF Signature, LowS, HALF_N
<1>2. Q - sig.s <= HALF_N
  BY <1>1, CurveAssumption DEF HALF_N
<1>. QED
  BY <1>2 DEF Twin, LowS, Signature

\* The compact form's two fields come apart again.
LEMMA CompactFields ==
  ASSUME NEW parity \in {0, 1}, NEW s \in Nat, s < TopBit
  PROVE  /\ (parity * TopBit + s) % TopBit = s
         /\ (parity * TopBit + s) \div TopBit = parity
         /\ parity * TopBit + s \in 0..(W2 - 1)
<1>1. TopBit \in Nat \ {0} /\ W2 = 2 * TopBit
  BY WidthAssumption
<1>2. CASE parity = 0
  BY <1>1, <1>2
<1>3. CASE parity = 1
  <2>1. parity * TopBit + s = TopBit + s
    BY <1>1, <1>3
  <2>2. (TopBit + s) % TopBit = s /\ (TopBit + s) \div TopBit = 1
    BY <1>1, SMTT(30)
  <2>. QED
    BY <1>1, <1>3, <2>1, <2>2
<1>. QED
  BY <1>2, <1>3

LEMMA Widths == Q \in Nat /\ Q < W2 /\ W2 \in Nat /\ TopBit \in Nat \ {0} /\ HALF_N \in Nat
  BY CurveAssumption, WidthAssumption DEF HALF_N

\* Nothing out of range is a signature, and a refusal is none.
LEMMA SignatureParts ==
  ASSUME NEW r, NEW s, NEW parity
  PROVE  /\ [r |-> r, s |-> s, parity |-> parity] \in Signature
              <=> r \in 1..(Q - 1) /\ s \in 1..(Q - 1) /\ parity \in {0, 1}
         /\ NoSignature \notin Signature
<1>1. [r |-> r, s |-> s, parity |-> parity] \in Signature
        <=> r \in 1..(Q - 1) /\ s \in 1..(Q - 1) /\ parity \in {0, 1}
  BY DEF Signature
<1>2. NoSignature \notin Signature
  <2>. SUFFICES ASSUME NoSignature \in Signature
                PROVE  FALSE
    OBVIOUS
  <2>1. NoSignature.r \in 1..(Q - 1)
    BY DEF Signature
  <2>. QED
    BY <2>1, CurveAssumption DEF NoSignature
<1>. QED
  BY <1>1, <1>2

\* What eth_sign reads is a signature, or refused.
LEMMA ParseType ==
  ASSUME NEW w
  PROVE  /\ sig_parse(w) \in Signature \cup {NoSignature}
         /\ sig_parse(w) # NoSignature <=> sig_parse(w) \in Signature
  BY SignatureParts DEF sig_parse

LEMMA NoWireHoldsNothing == sig_parse(NoWire) = NoSignature
<1>1. NoWire.r = 0 /\ 0 \notin 1..(Q - 1)
  BY DEF NoWire
<1>. QED
  BY <1>1, SignatureParts DEF sig_parse

LEMMA NoWireIsNone == NoWire \notin Wires
<1>1. NoWire.form = "none"
  BY DEF NoWire
<1>2. \A w \in Wires : w.form \in Forms
  BY DEF Wires, Packed, Compact, Object, Forms
<1>. QED
  BY <1>1, <1>2 DEF Forms

\* A signature is read back from each form it can be put in.
LEMMA RoundTrip ==
  ASSUME NEW sig \in Signature, NEW form \in Forms, sig_render(sig, form) # NoWire
  PROVE  /\ sig_render(sig, form) \in Wires
         /\ sig_parse(sig_render(sig, form)) = sig
<1>1. /\ sig.r \in 1..(Q - 1) /\ sig.s \in 1..(Q - 1) /\ sig.parity \in {0, 1}
      /\ sig = [r |-> sig.r, s |-> sig.s, parity |-> sig.parity]
  BY DEF Signature
<1>2. sig.r \in Word /\ sig.s \in Word /\ sig.r \in Int /\ sig.s \in Int /\ sig.parity \in Int
  BY <1>1, Widths DEF Word
<1>3. CASE form = "eip2098"
  <2>1. sig.s \in Nat /\ sig.s < TopBit /\ LowS(sig)
    BY <1>1, <1>3, Widths, WidthAssumption DEF sig_render, LowS
  <2>2. sig_render(sig, form) = [form |-> form, r |-> sig.r,
          s |-> sig.parity * TopBit + sig.s, v |-> Absent, yParity |-> Absent]
    BY <1>3, <2>1 DEF sig_render, Wire
  <2>3. /\ (sig.parity * TopBit + sig.s) % TopBit = sig.s
        /\ (sig.parity * TopBit + sig.s) \div TopBit = sig.parity
        /\ sig.parity * TopBit + sig.s \in Word
    BY <1>1, <2>1, CompactFields DEF Word
  <2>. HIDE DEF Signature
  <2>4. sig_render(sig, form) \in Wires
    BY <1>2, <1>3, <2>2, <2>3 DEF Wires, Compact
  <2>5. sig_parse(sig_render(sig, form)) = [r |-> sig.r, s |-> sig.s, parity |-> sig.parity]
    BY <1>1, <1>3, <2>2, <2>3 DEF sig_parse
  <2>. QED
    BY <1>1, <2>4, <2>5
<1>4. CASE form = "packed65"
  <2>1. sig_render(sig, form) = [form |-> form, r |-> sig.r, s |-> sig.s,
                                 v |-> 27 + sig.parity, yParity |-> Absent]
    BY <1>4 DEF sig_render, Wire
  <2>2. 27 + sig.parity \in 0..255 /\ sig_parity(27 + sig.parity) = sig.parity
    BY <1>1 DEF sig_parity
  <2>. HIDE DEF Signature
  <2>3. sig_render(sig, form) \in Wires
    BY <1>2, <1>4, <2>1, <2>2 DEF Wires, Packed
  <2>4. sig_parse(sig_render(sig, form)) = [r |-> sig.r, s |-> sig.s, parity |-> sig.parity]
    BY <1>1, <1>4, <2>1, <2>2 DEF sig_parse
  <2>. QED
    BY <1>1, <2>3, <2>4
<1>5. CASE form = "rsv"
  <2>1. sig_render(sig, form) = [form |-> form, r |-> sig.r, s |-> sig.s,
                                 v |-> 27 + sig.parity, yParity |-> sig.parity]
    BY <1>5 DEF sig_render, Wire
  <2>2. sig.parity # Absent /\ 27 + sig.parity \in Int
    BY <1>2, AbsentAssumption
  <2>. HIDE DEF Signature
  <2>3. sig_render(sig, form) \in Wires
    BY <1>2, <1>5, <2>1, <2>2 DEF Wires, Object, Entry
  <2>4. sig_parse(sig_render(sig, form)) = [r |-> sig.r, s |-> sig.s, parity |-> sig.parity]
    BY <1>1, <1>5, <2>1, <2>2 DEF sig_parse
  <2>. QED
    BY <1>1, <2>3, <2>4
<1>. QED
  BY <1>3, <1>4, <1>5 DEF Forms

\* A usable nonce makes a signature, and a low one.
LEMMA SignedType ==
  ASSUME NEW d \in Keys, NEW z \in Digests, NEW k, Usable(d, z, k)
  PROVE  Signed(d, z, k) \in Signature /\ LowS(Signed(d, z, k))
<1>1. k \in 1..(Q - 1) /\ d \in Int /\ z \in Int
      /\ PubPoint[k][1] \in Int /\ PubPoint[k][2] \in Int
  <2>1. k \in 1..(Q - 1)
    BY DEF Usable
  <2>2. PubPoint[k] \in Field \X Field
    BY <2>1, GroupLaw DEF CurvePoints
  <2>. QED
    BY <2>1, <2>2, CurveAssumption, Widths, InputsAssumption DEF Field
<1>2. Inverse_mod(k, Q) \in Int
  <2>1. \E i \in 1..(Q - 1) : (k * i) % Q = 1
    BY <1>1, PrimeOrder
  <2>2. Inverse_mod(k, Q) \in 1..(Q - 1)
    BY <2>1, Zenon DEF Inverse_mod
  <2>. QED
    BY <2>2, Widths
<1>3. ECDSA_s(d, z, k) \in 1..(Q - 1)
  <2>. DEFINE x == PubPoint[k][1]
              t == z + (x % Q) * d
  <2>1. x % Q \in Int
    BY <1>1, CurveAssumption
  <2>. HIDE DEF x
  <2>2. t \in Int
    BY <1>1, <2>1
  <2>. HIDE DEF t
  <2>3. Inverse_mod(k, Q) * t \in Int
    BY <1>2, <2>2
  <2>4. (Inverse_mod(k, Q) * t) % Q \in 0..(Q - 1)
    BY <2>3, CurveAssumption
  <2>5. ECDSA_s(d, z, k) = (Inverse_mod(k, Q) * t) % Q
    BY DEF ECDSA_s, t, x
  <2>6. ECDSA_s(d, z, k) # 0
    BY DEF Usable
  <2>. QED
    BY <2>4, <2>5, <2>6, CurveAssumption
<1>4. PubPoint[k][1] % Q \in 1..(Q - 1) /\ PubPoint[k][2] % 2 \in {0, 1}
  BY <1>1, CurveAssumption DEF Usable
<1>5. RawSignature(d, z, k) \in Signature
  BY <1>3, <1>4 DEF RawSignature, Signature
<1>. QED
  BY <1>5, TwinProperties, HighTwinIsLow DEF Signed

-----------------------------------------------------------------------------
(* The inductive invariant: the wire is well formed, and what it parses to  *)
(* is what was made, its twin, or, from the start, nothing.                 *)

IInv == /\ key \in Keys /\ digest \in Digests /\ signed \in BOOLEAN
        /\ wire \in Wires \cup {NoWire}
        /\ made \in Signature \cup {NoSignature}
        /\ ConversionsKeepSignature
        /\ wire = NoWire => made = NoSignature
        /\ signed => wire # NoWire /\ made \in Signature /\ LowS(made)

LEMMA InitIInv == Init => IInv
  BY NoWireHoldsNothing DEF Init, IInv, ConversionsKeepSignature

\* Giving an existing signature another form, or swapping its s, keeps IInv.
LEMMA Rewired ==
  ASSUME IInv, sig_parse(wire) \in Signature, NEW sig \in Signature, NEW form \in Forms,
         sig \in {sig_parse(wire), Twin(sig_parse(wire))},
         wire' = sig_render(sig, form), wire' # NoWire,
         UNCHANGED <<key, digest, made, signed>>
  PROVE  IInv'
<1>1. wire' \in Wires /\ sig_parse(wire') = sig
  BY RoundTrip
<1>2. made \in Signature /\ made # NoSignature /\ sig \in {made, Twin(made)}
  BY TwinProperties, SignatureParts DEF IInv, ConversionsKeepSignature
<1>. QED
  BY <1>1, <1>2 DEF IInv, ConversionsKeepSignature

\* Writing v as a parity, or leaving yParity out, changes no signature.
LEMMA RespellKeeps ==
  ASSUME wire \in Wires, Respell
  PROVE  wire' \in Wires /\ sig_parse(wire') = sig_parse(wire)
<1>1. wire.form \in {"packed65", "rsv"} /\ wire \in Packed \cup Object
  BY DEF Respell, Wires, Packed, Compact, Object
<1>2. CASE wire.v \in {27, 28} /\ wire' = [wire EXCEPT !.v = @ - 27]
  <2>1. wire.v - 27 \in {0, 1} /\ sig_parity(wire.v - 27) = sig_parity(wire.v)
        /\ wire.v - 27 \in 0..255 /\ wire.v - 27 \in Entry
    BY <1>2 DEF sig_parity, Entry
  <2>2. wire' = [form |-> wire.form, r |-> wire.r, s |-> wire.s, v |-> wire.v - 27,
                 yParity |-> wire.yParity]
    BY <1>1, <1>2 DEF Packed, Object
  <2>3. wire' \in Wires
    BY <1>1, <2>1, <2>2 DEF Wires, Packed, Object
  <2>. HIDE DEF Signature
  <2>4. sig_parse(wire') = sig_parse(wire)
    BY <1>1, <2>1, <2>2 DEF sig_parse
  <2>. QED
    BY <2>3, <2>4
<1>3. CASE /\ wire.yParity # Absent /\ sig_parity(wire.v) = wire.yParity
           /\ wire' = [wire EXCEPT !.yParity = Absent]
  <2>1. wire' = [form |-> wire.form, r |-> wire.r, s |-> wire.s, v |-> wire.v,
                 yParity |-> Absent]
    BY <1>1, <1>3 DEF Packed, Object
  <2>2. wire' \in Wires
    BY <1>1, <2>1 DEF Wires, Packed, Object, Entry
  <2>3. sig_parse(wire') = sig_parse(wire)
    BY <1>1, <1>3, <2>1 DEF sig_parse
  <2>. QED
    BY <2>2, <2>3
<1>. QED
  BY <1>2, <1>3 DEF Respell

LEMMA NextIInv == IInv /\ [Next]_vars => IInv'
<1>. SUFFICES ASSUME IInv, [Next]_vars
              PROVE  IInv'
  OBVIOUS
<1>1. CASE Sign
  <2>1. PICK k : Usable(key, digest, k) /\ made' = Signed(key, digest, k)
    BY <1>1 DEF Sign
  <2>2. made' \in Signature /\ LowS(made')
    BY <2>1, SignedType DEF IInv
  <2>3. wire' = sig_render(made', "packed65") /\ wire' # NoWire
    BY <1>1 DEF Sign, sig_render, Wire, NoWire
  <2>4. wire' \in Wires /\ sig_parse(wire') = made'
    BY <2>2, <2>3, RoundTrip DEF Forms
  <2>. QED
    BY <1>1, <2>2, <2>3, <2>4, SignatureParts DEF Sign, IInv, ConversionsKeepSignature
<1>2. CASE Present
  <2>1. /\ wire' \in Wires /\ wire' # NoWire /\ made' = sig_parse(wire')
        /\ made' \in Signature \cup {NoSignature} /\ ~signed
    BY <1>2, InputsAssumption, NoWireIsNone, ParseType DEF Present, IInv
  <2>. QED
    BY <1>2, <2>1 DEF Present, IInv, ConversionsKeepSignature
<1>3. ASSUME NEW form \in Forms, Convert(form)
      PROVE  IInv'
  BY <1>3, ParseType, Rewired DEF Convert
<1>4. CASE Malleate
  <2>1. sig_parse(wire) \in Signature
    BY <1>4, ParseType DEF Malleate
  <2>2. Twin(sig_parse(wire)) \in Signature
    BY <2>1, TwinProperties
  <2>3. wire' = sig_render(Twin(sig_parse(wire)), "packed65") /\ wire' # NoWire
    BY <1>4 DEF Malleate, sig_render, Wire, NoWire
  <2>. QED
    BY <1>4, <2>1, <2>2, <2>3, Rewired DEF Malleate, Forms
<1>5. CASE Respell
  <2>1. wire # NoWire /\ wire \in Wires /\ UNCHANGED <<key, digest, made, signed>>
    BY <1>5 DEF Respell, NoWire, IInv
  <2>2. wire' \in Wires /\ wire' # NoWire /\ sig_parse(wire') = sig_parse(wire)
    BY <1>5, <2>1, RespellKeeps, NoWireIsNone
  <2>. QED
    BY <2>1, <2>2 DEF IInv, ConversionsKeepSignature
<1>6. ASSUME UNCHANGED <<key, digest, wire, made, signed>>
      PROVE  IInv'
  BY <1>6 DEF IInv, ConversionsKeepSignature
<1>7. CASE Recover
  BY <1>6, <1>7 DEF Recover
<1>8. ASSUME NEW a, Verify(a)
      PROVE  IInv'
  BY <1>6, <1>8 DEF Verify
<1>9. CASE UNCHANGED vars
  BY <1>6, <1>9 DEF vars
<1>. QED
  BY <1>1, <1>2, <1>3, <1>4, <1>5, <1>7, <1>8, <1>9 DEF Next

LEMMA Invariance == Spec => []IInv
  BY InitIInv, NextIInv, PTL DEF Spec

-----------------------------------------------------------------------------
\* Every wire form fits its fields, and parses to a signature in range or is refused.
THEOREM TypeCorrect == Spec => []TypeOK
<1>1. IInv => TypeOK
  BY ParseType DEF IInv, TypeOK
<1>. QED
  BY <1>1, Invariance, PTL

\* No chain of conversions, respellings and swaps ever yields another signature.
THEOREM ConversionsAreLossless == Spec => []ConversionsKeepSignature
<1>1. IInv => ConversionsKeepSignature
  BY DEF IInv
<1>. QED
  BY <1>1, Invariance, PTL

\* Every signature that action=sign makes is low, so that it has all three forms.
THEOREM SignedIsLow == Spec => [](signed => LowS(made))
<1>1. IInv => (signed => LowS(made))
  BY DEF IInv
<1>. QED
  BY <1>1, Invariance, PTL

-----------------------------------------------------------------------------
(* Recovery and verification, for any curve whose points are a cyclic      *)
(* group of prime order (GroupLaw).                                        *)

(* Double-and-add.                                                         *)

Scalars == 0..(Q - 1)

LEMMA MultipleIsPoint ==
  ASSUME NEW k \in Scalars
  PROVE  Multiple(k) \in Points /\ (Multiple(k) = Infinity <=> k = 0)
<1>1. CASE k = 0
  BY <1>1 DEF Multiple, Points
<1>2. CASE k # 0
  <2>1. k \in 1..(Q - 1)
    BY <1>2, CurveAssumption DEF Scalars
  <2>2. PubPoint[k] \in CurvePoints
    BY <2>1, GroupLaw
  <2>3. PubPoint[k] # Infinity
    BY <2>2 DEF CurvePoints, Infinity
  <2>. QED
    BY <1>2, <2>2, <2>3 DEF Multiple, Points
<1>. QED
  BY <1>1, <1>2

LEMMA PointIsMultiple ==
  ASSUME NEW p \in Points
  PROVE  \E k \in Scalars : p = Multiple(k)
<1>1. CASE p = Infinity
  BY <1>1, CurveAssumption DEF Multiple, Scalars
<1>2. CASE p \in CurvePoints
  <2>1. PICK k \in 1..(Q - 1) : p = PubPoint[k]
    BY <1>2, GroupLaw
  <2>2. k # 0 /\ k \in Scalars
    BY CurveAssumption DEF Scalars
  <2>. QED
    BY <2>1, <2>2 DEF Multiple
<1>. QED
  BY <1>1, <1>2 DEF Points

LEMMA PointsAdd ==
  ASSUME NEW p \in Points, NEW q \in Points
  PROVE  ec_add(p, q) \in Points
<1>1. PICK i \in Scalars, j \in Scalars : p = Multiple(i) /\ q = Multiple(j)
  BY PointIsMultiple
<1>2. (i + j) % Q \in Scalars
  BY CurveAssumption DEF Scalars
<1>3. ec_add(p, q) = Multiple((i + j) % Q)
  BY <1>1, GroupLaw DEF Scalars
<1>. QED
  BY <1>2, <1>3, MultipleIsPoint

Pairs == Points \X Points
LoopValue(f, j, x) == IF j = 0 THEN x[2] ELSE f[j \div 2][DoubleAdd(j, x)]
Loop == CHOOSE f : f = [j \in Nat |-> [x \in Pairs |-> LoopValue(f, j, x)]]

LEMMA DoubleAddPairs ==
  ASSUME NEW j \in Nat, NEW x \in Pairs
  PROVE  DoubleAdd(j, x) \in Pairs
BY PointsAdd DEF DoubleAdd, Pairs

\* The loop of _ec_mul defines a function.
LEMMA LoopExists ==
  \A j \in Nat : \A x \in Pairs : Loop[j][x] = LoopValue(Loop, j, x)
<1>. DEFINE S == [Pairs -> Points]
            H == [j \in Nat |-> [f \in [Nat -> S] |-> [x \in Pairs |-> LoopValue(f, j, x)]]]
<1>1. [x \in Pairs |-> x[2]] \in S
  BY DEF Pairs
<1>2. ASSUME NEW j \in Nat, NEW f \in [Nat -> S], NEW x \in Pairs
      PROVE  LoopValue(f, j, x) \in Points
  <2>1. CASE j = 0
    BY <2>1 DEF LoopValue, Pairs
  <2>2. CASE j # 0
    <3>1. j \div 2 \in Nat /\ DoubleAdd(j, x) \in Pairs
      BY <2>2, Halves, DoubleAddPairs
    <3>2. f[j \div 2] \in S
      BY <3>1
    <3>. QED
      BY <2>2, <3>1, <3>2 DEF LoopValue
  <2>. QED
    BY <2>1, <2>2
<1>3. H \in [Nat -> [[Nat -> S] -> S]]
  BY <1>2
<1>4. ASSUME NEW j \in Nat, NEW f \in [Nat -> S], NEW g \in [Nat -> S],
             \A m \in Nat : m < j => f[m] = g[m]
      PROVE  H[j][f] = H[j][g]
  <2>1. j # 0 => f[j \div 2] = g[j \div 2]
    BY <1>4, Halves
  <2>2. \A x \in Pairs : LoopValue(f, j, x) = LoopValue(g, j, x)
    BY <2>1 DEF LoopValue
  <2>. QED
    BY <2>2
<1>a. \A j \in Nat : \A f \in [Nat -> S] : H[j][f] = [x \in Pairs |-> LoopValue(f, j, x)]
  OBVIOUS
<1>5. \E f \in [Nat -> S] : \A j \in Nat : f[j] = H[j][f]
  <2>1. \A j \in Nat : \A f, g \in [Nat -> S] :
          (\A m \in Nat : m < j => f[m] = g[m]) => H[j][f] = H[j][g]
    BY <1>4
  <2>2. S # {}
    BY <1>1
  <2>. HIDE DEF H, S
  <2>3. Computes(H, S)
    BY <1>3, <2>1 DEF Computes
  <2>. QED
    BY <2>2, <2>3, Recursion DEF Unfolds
<1>6. PICK F \in [Nat -> S] : \A j \in Nat : F[j] = H[j][F]
  BY <1>5
<1>7. F = [j \in Nat |-> [x \in Pairs |-> LoopValue(F, j, x)]]
  <2>. HIDE DEF H, S
  <2>. QED
    BY <1>6, <1>a
<1>8. Loop = [j \in Nat |-> [x \in Pairs |-> LoopValue(Loop, j, x)]]
  <2>. HIDE DEF LoopValue
  <2>. QED
    BY <1>7 DEF Loop
<1>. HIDE DEF Loop, LoopValue
<1>9. \A j \in Nat : Loop[j] = [x \in Pairs |-> LoopValue(Loop, j, x)]
  BY <1>8
<1>. QED
  BY <1>9

LEMMA PairParts ==
  ASSUME NEW a \in Points, NEW r \in Points
  PROVE  <<a, r>> \in Pairs /\ <<a, r>>[1] = a /\ <<a, r>>[2] = r
BY DEF Pairs

\* Scalar arithmetic modulo the order.
LEMMA AddMultiples ==
  ASSUME NEW a \in Scalars, NEW b \in Scalars
  PROVE  /\ (a + b) % Q \in Scalars
         /\ ec_add(Multiple(a), Multiple(b)) = Multiple((a + b) % Q)
<1>1. a + b \in Int
  BY DEF Scalars
<1>2. (a + b) % Q \in Scalars
  BY <1>1, ModSplit, CurveAssumption DEF Scalars
<1>3. ec_add(Multiple(a), Multiple(b)) = Multiple((a + b) % Q)
  BY GroupLaw DEF Scalars
<1>. QED
  BY <1>2, <1>3

\* With j left, the loop adds j times the addend to the result.
Folds(j) == \A a, r \in Scalars :
              Loop[j][<<Multiple(a), Multiple(r)>>] = Multiple((r + j * a) % Q)

LEMMA LoopFolds == \A j \in Nat : Folds(j)
<1>. DEFINE T == {j \in Nat : Folds(j)}
<1>1. ASSUME NEW j \in Nat, \A m \in Nat : m < j => m \in T
      PROVE  j \in T
  <2>. SUFFICES ASSUME NEW a \in Scalars, NEW r \in Scalars
                PROVE  Loop[j][<<Multiple(a), Multiple(r)>>] = Multiple((r + j * a) % Q)
    BY DEF Folds
  <2>. DEFINE x == <<Multiple(a), Multiple(r)>>
  <2>1. Multiple(a) \in Points /\ Multiple(r) \in Points
    BY MultipleIsPoint
  <2>2. x \in Pairs /\ x[1] = Multiple(a) /\ x[2] = Multiple(r)
    BY <2>1, PairParts
  <2>. HIDE DEF x
  <2>3. Loop[j][x] = LoopValue(Loop, j, x)
    BY <2>2, LoopExists
  <2>4. CASE j = 0
    <3>1. (r + j * a) % Q = r
      <4>1. r + j * a = r
        BY <2>4 DEF Scalars
      <4>. QED
        BY <4>1, CurveAssumption DEF Scalars
    <3>. QED
      BY <2>2, <2>3, <2>4, <3>1 DEF LoopValue, x
  <2>5. CASE j # 0
    <3>1. PICK h \in Nat, b \in {0, 1} :
             h = j \div 2 /\ h < j /\ b = j % 2 /\ j = 2 * h + b
      BY <2>5, Halves
    <3>2. PICK c \in Scalars : c = (a + a) % Q /\ ec_add(Multiple(a), Multiple(a)) = Multiple(c)
      BY AddMultiples
    <3>3. PICK d \in Scalars :
             /\ d = (IF b = 1 THEN (r + a) % Q ELSE r)
             /\ (IF b = 1 THEN ec_add(Multiple(r), Multiple(a)) ELSE Multiple(r)) = Multiple(d)
      BY AddMultiples
    <3>4. DoubleAdd(j, x) = <<Multiple(c), Multiple(d)>>
      BY <2>2, <3>1, <3>2, <3>3 DEF DoubleAdd
    <3>5. Loop[h][<<Multiple(c), Multiple(d)>>] = Multiple((d + h * c) % Q)
      BY <1>1, <3>1 DEF Folds
    <3>6. (d + h * c) % Q = (r + j * a) % Q
      <4>1. Q \in Nat /\ 1 < Q /\ a \in Int /\ r \in Int /\ c \in Int /\ d \in Int
        BY CurveAssumption DEF Scalars
      <4>2. Eqv(c, a + a, Q)
        <5>. a + a \in Int
          BY <4>1
        <5>. QED
          BY <3>2, <4>1, ModEqv
      <4>3. Eqv(d, r + b * a, Q)
        <5>1. CASE b = 1
          <6>1. r + b * a = r + a /\ r + a \in Int
            BY <4>1, <5>1
          <6>. QED
            BY <3>3, <4>1, <5>1, <6>1, ModEqv
        <5>2. CASE b = 0
          <6>1. r + b * a = r /\ d = r
            BY <3>3, <4>1, <5>2
          <6>. QED
            BY <4>1, <6>1, EqvSelf
        <5>. QED
          BY <5>1, <5>2
      <4>4. Eqv(h * c, h * (a + a), Q)
        <5>. h \in Int /\ a + a \in Int /\ Eqv(h, h, Q)
          BY <4>1, EqvSelf
        <5>. QED
          BY <4>1, <4>2, EqvMul
      <4>5. Eqv(d + h * c, (r + b * a) + h * (a + a), Q)
        <5>. r + b * a \in Int /\ h * c \in Int /\ h * (a + a) \in Int
          BY <4>1
        <5>. QED
          BY <4>1, <4>3, <4>4, EqvAdd
      <4>6. (r + b * a) + h * (a + a) = r + j * a
        BY <3>1, <4>1
      <4>. QED
        <5>. d + h * c \in Int /\ r + j * a \in Int
          BY <4>1
        <5>. QED
          BY <4>1, <4>5, <4>6, EqvMod
    <3>. QED
      BY <2>3, <2>5, <3>1, <3>4, <3>5, <3>6 DEF LoopValue, x
  <2>. QED
    BY <2>4, <2>5
<1>. HIDE DEF T
<1>2. Nat \subseteq T
  BY <1>1, Induction
<1>. QED
  BY <1>2 DEF T

\* _ec_mul multiplies: k times the j-th multiple of G is its (k*j)-th one.
THEOREM DoubleAndAdd ==
  ASSUME NEW k \in Nat, NEW j \in Scalars
  PROVE  ec_mul(k, Multiple(j)) = Multiple((k * j) % Q) /\ (k * j) % Q \in Scalars
<1>1. ec_mul(k, Multiple(j)) = Loop[k][<<Multiple(j), Infinity>>]
  BY DEF ec_mul, Loop, LoopValue, Pairs
<1>2. 0 \in Scalars /\ Infinity = Multiple(0)
  BY CurveAssumption DEF Scalars, Multiple
<1>3. Loop[k][<<Multiple(j), Infinity>>] = Multiple((0 + k * j) % Q)
  BY <1>2, LoopFolds DEF Folds
<1>4. 0 + k * j = k * j /\ k * j \in Int
  BY DEF Scalars
<1>5. (k * j) % Q \in Scalars
  BY <1>4, ModSplit, CurveAssumption DEF Scalars
<1>. QED
  BY <1>1, <1>3, <1>4, <1>5

-----------------------------------------------------------------------------
(* Points and their negatives.                                             *)

\* k*G and (Q-k)*G are each other's negatives: the same x, the other y.
LEMMA NegatedPoint ==
  ASSUME NEW k \in 1..(Q - 1), NEW x \in Field, NEW y \in Field, PubPoint[k] = <<x, y>>
  PROVE  /\ y \in 1..(P - 1)
         /\ Q - k \in 1..(Q - 1) /\ PubPoint[Q - k] = <<x, P - y>>
<1>0. /\ P \in Nat /\ 1 < P /\ Q \in Nat /\ 1 < Q /\ Q % 2 = 1
      /\ x \in Int /\ y \in Int /\ 0 <= y /\ y < P /\ k \in Int /\ 1 <= k /\ k < Q
  BY CurveAssumption DEF Field
<1>1. k \in Scalars /\ k # 0 /\ Multiple(k) = PubPoint[k]
  BY <1>0 DEF Scalars, Multiple
<1>2. y # 0
  <2>. SUFFICES ASSUME y = 0
                PROVE  FALSE
    OBVIOUS
  <2>1. PubPoint[k] # Infinity /\ (y + y) % P = 0
    BY <1>0, CurveAssumption DEF Infinity
  <2>2. ec_add(Multiple(k), Multiple(k)) = Infinity
    BY <1>1, <2>1 DEF ec_add
  <2>3. (k + k) % Q \in Scalars /\ Multiple((k + k) % Q) = Infinity
    BY <1>1, <2>2, AddMultiples
  <2>4. (k + k) % Q = 0
    BY <2>3, MultipleIsPoint
  <2>. QED
    BY <1>0, <2>4
<1>3. P - y \in Field /\ y \in 1..(P - 1)
  BY <1>0, <1>2 DEF Field
<1>4. <<x, P - y>> \in CurvePoints
  <2>0. Alpha(x) \in Int
    <3>1. x * x * x + B \in Int
      BY <1>0, CurveAssumption
    <3>. QED
      BY <1>0, <3>1, ModSplit DEF Alpha
  <2>1. <<x, y>> \in CurvePoints
    BY GroupLaw
  <2>2. (y * y - Alpha(x)) % P = 0
    BY <2>1 DEF CurvePoints
  <2>3. y * y \in Int /\ (P - y) * (P - y) \in Int
    BY <1>0
  <2>4. Eqv(y * y, Alpha(x), P)
    BY <1>0, <2>0, <2>2, <2>3, ModZero
  <2>5. Eqv((P - y) * (P - y), y * y, P)
    <3>1. P - y - y \in Int /\ (P - y) * (P - y) = y * y + (P - y - y) * P
      BY <1>0
    <3>. QED
      BY <3>1 DEF Eqv
  <2>6. Eqv((P - y) * (P - y), Alpha(x), P)
    BY <1>0, <2>0, <2>3, <2>4, <2>5, EqvTrans
  <2>7. ((P - y) * (P - y) - Alpha(x)) % P = 0
    BY <1>0, <2>0, <2>3, <2>6, ModZero
  <2>. QED
    BY <1>3, <2>7 DEF CurvePoints
<1>5. PICK l \in 1..(Q - 1) : <<x, P - y>> = PubPoint[l]
  BY <1>4, GroupLaw
<1>6. l \in Scalars /\ l # 0 /\ Multiple(l) = PubPoint[l] /\ l \in Int /\ 1 <= l /\ l < Q
  BY <1>0 DEF Scalars, Multiple
<1>7. (y + (P - y)) % P = 0
  BY <1>0
<1>8. ec_add(Multiple(k), Multiple(l)) = Infinity
  <2>1. /\ PubPoint[k] # Infinity /\ PubPoint[k][1] = x /\ PubPoint[k][2] = y
        /\ PubPoint[l] # Infinity /\ PubPoint[l][1] = x /\ PubPoint[l][2] = P - y
    <3>1. \A u, v \in Int : <<u, v>> # << >> /\ <<u, v>>[1] = u /\ <<u, v>>[2] = v
      OBVIOUS
    <3>2. P - y \in Int
      BY <1>0
    <3>. QED
      BY <1>0, <1>5, <3>1, <3>2 DEF Infinity
  <2>2. ec_add(PubPoint[k], PubPoint[l]) = Infinity
    BY <1>7, <2>1 DEF ec_add
  <2>. QED
    BY <1>1, <1>6, <2>2
<1>9. (k + l) % Q = 0
  <2>1. (k + l) % Q \in Scalars /\ Multiple((k + l) % Q) = Infinity
    BY <1>1, <1>6, <1>8, AddMultiples
  <2>. QED
    BY <2>1, MultipleIsPoint
<1>10. l = Q - k
  BY <1>0, <1>6, <1>9
<1>. QED
  BY <1>3, <1>5, <1>10

LEMMA PubPoints ==
  ASSUME NEW k \in 1..(Q - 1)
  PROVE  \E x, y \in Field : /\ PubPoint[k] = <<x, y>> /\ y # 0
                             /\ (y * y - Alpha(x)) % P = 0
<1>1. PubPoint[k] \in CurvePoints
  BY GroupLaw
<1>2. PICK x \in Field, y \in Field : PubPoint[k] = <<x, y>> /\ (y * y - Alpha(x)) % P = 0
  BY <1>1 DEF CurvePoints
<1>. QED
  BY <1>2, NegatedPoint

-----------------------------------------------------------------------------
(* Recovering the nonce's point from its x and the parity of its y.         *)

Root(x, parity) ==
  LET beta == Pow(Alpha(x), (P + 1) \div 4)
  IN  IF beta % 2 = parity % 2 THEN beta ELSE P - beta
OnCurve(x, y) == (y * y - Alpha(x)) % P = 0

\* The root with a point's parity is that point's y.
LEMMA RootOfPoint ==
  ASSUME NEW x \in Field, NEW y \in 1..(P - 1), OnCurve(x, y)
  PROVE  Root(x, y % 2) = y
<1>0. P \in Nat /\ 1 < P /\ P % 2 = 1 /\ y \in Int /\ 1 <= y /\ y < P
  BY CurveAssumption
<1>1. Alpha(x) = (y * y) % P
  <2>1. x * x * x + B \in Int /\ y * y \in Int
    BY <1>0, CurveAssumption DEF Field
  <2>2. Alpha(x) \in 0..(P - 1) /\ Alpha(x) \in Int
    BY <1>0, <2>1, ModSplit DEF Alpha
  <2>3. (y * y) % P \in 0..(P - 1) /\ (y * y) % P \in Int /\ Eqv((y * y) % P, y * y, P)
    BY <1>0, <2>1, ModSplit, ModEqv
  <2>4. Eqv(y * y, Alpha(x), P)
    BY <1>0, <2>1, <2>2, ModZero DEF OnCurve
  <2>5. Eqv((y * y) % P, Alpha(x), P)
    BY <1>0, <2>1, <2>2, <2>3, <2>4, EqvTrans
  <2>. QED
    BY <1>0, <2>2, <2>3, <2>5, EqvUnique
<1>2. PICK beta \in {y, P - y} : beta = Pow(Alpha(x), (P + 1) \div 4)
  BY <1>1, SquareRoots
<1>3. Root(x, y % 2) = IF beta % 2 = (y % 2) % 2 THEN beta ELSE P - beta
  BY <1>2 DEF Root
<1>4. (y % 2) % 2 = y % 2 /\ (P - y) % 2 # y % 2 /\ P - (P - y) = y
  BY <1>0
<1>. QED
  BY <1>2, <1>3, <1>4

\* The two parities of an x have opposite roots.
LEMMA OppositeRoots ==
  ASSUME NEW x \in Field, NEW parity \in {0, 1}
  PROVE  /\ Root(x, parity) \in 0..P
         /\ Root(x, 1 - parity) = P - Root(x, parity)
<1>1. PICK beta \in Field : beta = Pow(Alpha(x), (P + 1) \div 4)
  <2>1. x * x * x + B \in Int
    BY CurveAssumption DEF Field
  <2>2. Alpha(x) \in Field
    BY <2>1, CurveAssumption, ModSplit DEF Alpha, Field
  <2>. QED
    BY <2>2, SquareRoots
<1>2. Root(x, parity) = IF beta % 2 = parity THEN beta ELSE P - beta
  <2>1. parity % 2 = parity
    OBVIOUS
  <2>. QED
    BY <1>1, <2>1 DEF Root
<1>3. Root(x, 1 - parity) = IF beta % 2 = 1 - parity THEN beta ELSE P - beta
  <2>1. (1 - parity) % 2 = 1 - parity
    OBVIOUS
  <2>. QED
    BY <1>1, <2>1 DEF Root
<1>4. P \in Nat /\ beta \in Int /\ 0 <= beta /\ beta < P /\ beta % 2 \in {0, 1}
  BY CurveAssumption DEF Field
<1>. QED
  BY <1>2, <1>3, <1>4

\* The root of a parity has that parity.
LEMMA RootParity ==
  ASSUME NEW x \in Field, NEW parity \in {0, 1}
  PROVE  Root(x, parity) % 2 = parity
<1>1. PICK beta \in Field : beta = Pow(Alpha(x), (P + 1) \div 4)
  <2>1. x * x * x + B \in Int
    BY CurveAssumption DEF Field
  <2>2. Alpha(x) \in Field
    BY <2>1, CurveAssumption, ModSplit DEF Alpha, Field
  <2>. QED
    BY <2>2, SquareRoots
<1>2. parity % 2 = parity
  OBVIOUS
<1>3. Root(x, parity) = IF beta % 2 = parity THEN beta ELSE P - beta
  BY <1>1, <1>2 DEF Root
<1>4. P \in Nat /\ P % 2 = 1 /\ beta \in Int /\ beta % 2 \in {0, 1}
  BY CurveAssumption DEF Field
<1>5. (P - beta) % 2 # beta % 2 /\ (P - beta) % 2 \in {0, 1}
  BY <1>4
<1>. QED
  BY <1>3, <1>4, <1>5

\* Opposite roots are on the curve together.
LEMMA OppositeOnCurve ==
  ASSUME NEW x \in Field, NEW y \in 0..P, OnCurve(x, y)
  PROVE  OnCurve(x, P - y)
<1>0. P \in Nat /\ 1 < P /\ y \in Int
  BY CurveAssumption
<1>1. x * x * x + B \in Int
  BY <1>0, CurveAssumption DEF Field
<1>2. Alpha(x) \in Int
  BY <1>0, <1>1, ModSplit DEF Alpha
<1>3. y * y \in Int /\ (P - y) * (P - y) \in Int
  BY <1>0
<1>4. Eqv(y * y, Alpha(x), P)
  BY <1>0, <1>2, <1>3, ModZero DEF OnCurve
<1>5. Eqv((P - y) * (P - y), y * y, P)
  <2>1. P - y - y \in Int /\ (P - y) * (P - y) = y * y + (P - y - y) * P
    BY <1>0
  <2>. QED
    BY <2>1 DEF Eqv
<1>6. Eqv((P - y) * (P - y), Alpha(x), P)
  BY <1>0, <1>2, <1>3, <1>4, <1>5, EqvTrans
<1>. QED
  BY <1>0, <1>2, <1>3, <1>6, ModZero DEF OnCurve

\* A root on the curve is the y of a point, a multiple of G.
LEMMA RootPoint ==
  ASSUME NEW x \in Field, NEW parity \in {0, 1}, OnCurve(x, Root(x, parity))
  PROVE  \E k \in 1..(Q - 1) : PubPoint[k] = <<x, Root(x, parity)>>
<1>0. P \in Nat /\ 1 < P
  BY CurveAssumption
<1>1. PICK y \in 0..P : y = Root(x, parity) /\ OnCurve(x, y)
  BY OppositeRoots
<1>2. ASSUME y = P PROVE FALSE
  <2>1. OnCurve(x, P - P) /\ P - P = 0 /\ P \in 0..P /\ 0 \in Field
    BY <1>0, <1>1, <1>2, OppositeOnCurve DEF Field
  <2>2. <<x, 0>> \in CurvePoints
    BY <2>1 DEF OnCurve, CurvePoints
  <2>3. PICK k \in 1..(Q - 1) : <<x, 0>> = PubPoint[k]
    BY <2>2, GroupLaw
  <2>. QED
    BY <2>1, <2>3, NegatedPoint
<1>3. y \in Field
  BY <1>0, <1>2 DEF Field
<1>4. <<x, y>> \in CurvePoints
  BY <1>1, <1>3 DEF OnCurve, CurvePoints
<1>. QED
  BY <1>1, <1>4, GroupLaw

\* The inverse of a scalar.
LEMMA Inverses ==
  ASSUME NEW a \in 1..(Q - 1)
  PROVE  Inverse_mod(a, Q) \in 1..(Q - 1) /\ (a * Inverse_mod(a, Q)) % Q = 1
<1>1. \E i \in 1..(Q - 1) : (a * i) % Q = 1
  BY PrimeOrder
<1>. QED
  BY <1>1, Zenon DEF Inverse_mod

\* ecrecover, by scalars: from k*G with its x in r, it recovers (s*k - z) / r.
LEMMA RecoverIs ==
  ASSUME NEW z \in Int, NEW r \in 1..(Q - 1), NEW s \in 1..(Q - 1), NEW parity \in {0, 1},
         NEW k \in 1..(Q - 1), PubPoint[k] = <<r, Root(r, parity)>>
  PROVE  \E e \in Scalars : /\ ecrecover(z, r, s, parity) = Multiple(e)
                            /\ Eqv(e, Inverse_mod(r, Q) * (s * k - z), Q)
<1>. DEFINE i == Inverse_mod(r, Q)
<1>1. /\ P \in Nat /\ 1 < P /\ Q \in Nat /\ 1 < Q /\ Q < P /\ r \in Int /\ s \in Int /\ k \in Int
      /\ r \in Field /\ s \in Nat
      /\ k \in Scalars /\ Multiple(k) = PubPoint[k] /\ 1 \in Scalars /\ Multiple(1) = G
  BY CurveAssumption, GroupLaw DEF Scalars, Multiple, Field
<1>2. i \in Nat /\ i \in Int
  BY <1>1, Inverses
<1>. HIDE DEF i
<1>3. PICK a \in Scalars : a = (s * k) % Q /\ ec_mul(s, Multiple(k)) = Multiple(a)
  BY <1>1, DoubleAndAdd
<1>4. -z \in Int /\ (-z) % Q \in Nat /\ (-z) % Q \in Int
  BY <1>1, ModSplit
<1>5. PICK b \in Scalars : b = (((-z) % Q) * 1) % Q /\ ec_mul((-z) % Q, G) = Multiple(b)
  BY <1>1, <1>4, DoubleAndAdd
<1>6. PICK c \in Scalars : c = (a + b) % Q /\ ec_add(Multiple(a), Multiple(b)) = Multiple(c)
  BY AddMultiples
<1>7. PICK e \in Scalars : e = (i * c) % Q /\ ec_mul(i, Multiple(c)) = Multiple(e)
  BY <1>2, DoubleAndAdd
<1>8. ecrecover(z, r, s, parity) = Multiple(e)
  <2>1. OnCurve(r, Root(r, parity))
    <3>1. <<r, Root(r, parity)>> \in CurvePoints
      BY GroupLaw
    <3>. QED
      BY <3>1 DEF CurvePoints, OnCurve
  <2>2. ~(parity >= 2) /\ r + 0 = r /\ ~(r >= P)
    BY <1>1
  <2>. QED
    BY <1>1, <1>3, <1>5, <1>6, <1>7, <2>1, <2>2 DEF ecrecover, OnCurve, Root, i
<1>9. Eqv(e, i * (s * k - z), Q)
  <2>0. a \in Int /\ b \in Int /\ c \in Int /\ s * k \in Int /\ a + b \in Int /\ i * c \in Int
        /\ s * k + (-z) \in Int /\ i * (s * k + (-z)) \in Int /\ ((-z) % Q) * 1 \in Int /\ e \in Int
    BY <1>1, <1>2, <1>4 DEF Scalars
  <2>1. Eqv(a, s * k, Q)
    BY <1>1, <1>3, <2>0, ModEqv
  <2>2. Eqv(b, -z, Q)
    <3>1. Eqv(b, ((-z) % Q) * 1, Q)
      BY <1>1, <1>5, <2>0, ModEqv
    <3>2. \A m \in Int : m * 1 = m
      OBVIOUS
    <3>3. ((-z) % Q) * 1 = (-z) % Q
      BY <1>4, <3>2
    <3>. QED
      BY <1>1, <1>4, <2>0, <3>1, <3>3, ModEqv, EqvTrans
  <2>3. Eqv(a + b, s * k + (-z), Q)
    BY <1>1, <1>4, <2>0, <2>1, <2>2, EqvAdd
  <2>4. Eqv(c, s * k + (-z), Q)
    BY <1>1, <1>6, <2>0, <2>3, ModEqv, EqvTrans
  <2>5. Eqv(i * c, i * (s * k + (-z)), Q)
    BY <1>1, <1>2, <2>0, <2>4, EqvSelf, EqvMul
  <2>6. Eqv(e, i * (s * k + (-z)), Q)
    BY <1>1, <1>7, <2>0, <2>5, ModEqv, EqvTrans
  <2>7. s * k + (-z) = s * k - z
    BY <2>0
  <2>. QED
    BY <2>6, <2>7
<1>. QED
  BY <1>8, <1>9 DEF i

\* Without a root on the curve there is no key to recover.
LEMMA NoRecovery ==
  ASSUME NEW z \in Int, NEW r \in 1..(Q - 1), NEW s \in 1..(Q - 1), NEW parity \in {0, 1},
         ~OnCurve(r, Root(r, parity))
  PROVE  ecrecover(z, r, s, parity) = Infinity
<1>1. ~(parity >= 2) /\ r + 0 = r
  BY CurveAssumption
<1>. QED
  BY <1>1 DEF ecrecover, OnCurve, Root

-----------------------------------------------------------------------------
(* Recovery, signing and verification agree.                               *)

SigRecovers(z, sig) == ecrecover(z, sig.r, sig.s, sig.parity)

LEMMA SigParts ==
  ASSUME NEW sig \in Signature
  PROVE  /\ sig.r \in 1..(Q - 1) /\ sig.s \in 1..(Q - 1) /\ sig.parity \in {0, 1}
         /\ sig.r \in Field
BY CurveAssumption DEF Signature, Field

\* Both s of a signature recover the same key.
LEMMA TwinRecovers ==
  ASSUME NEW z \in Int, NEW sig \in Signature
  PROVE  SigRecovers(z, Twin(sig)) = SigRecovers(z, sig)
<1>. DEFINE r == sig.r
            s == sig.s
            parity == sig.parity
            t == Q - s
            y == Root(r, parity)
<1>1. /\ r \in 1..(Q - 1) /\ s \in 1..(Q - 1) /\ parity \in {0, 1} /\ r \in Field
      /\ 1 - parity \in {0, 1} /\ t \in 1..(Q - 1) /\ s \in Int /\ t \in Int
      /\ Q \in Nat /\ 1 < Q /\ P \in Nat /\ 1 < P
  BY SigParts, CurveAssumption
<1>2. Twin(sig).r = r /\ Twin(sig).s = t /\ Twin(sig).parity = 1 - parity
  BY DEF Twin, Signature
<1>. HIDE DEF r, s, parity, t
<1>3. y \in 0..P /\ Root(r, 1 - parity) = P - y
  BY <1>1, OppositeRoots
<1>. SUFFICES ecrecover(z, r, t, 1 - parity) = ecrecover(z, r, s, parity)
  BY <1>2 DEF SigRecovers, r, s, parity
<1>4. CASE OnCurve(r, y)
  <2>1. PICK k \in 1..(Q - 1) : PubPoint[k] = <<r, y>>
    BY <1>1, <1>4, RootPoint
  <2>2. y \in Field
    <3>1. <<r, y>> \in CurvePoints
      BY <2>1, GroupLaw
    <3>. QED
      BY <3>1 DEF CurvePoints
  <2>3. PICK l \in 1..(Q - 1) : l = Q - k /\ PubPoint[l] = <<r, P - y>>
    BY <1>1, <2>1, <2>2, NegatedPoint
  <2>. DEFINE i == Inverse_mod(r, Q)
  <2>4. PICK e \in Scalars : /\ ecrecover(z, r, s, parity) = Multiple(e)
                             /\ Eqv(e, i * (s * k - z), Q)
    BY <1>1, <2>1, RecoverIs
  <2>5. PICK f \in Scalars : /\ ecrecover(z, r, t, 1 - parity) = Multiple(f)
                             /\ Eqv(f, i * (t * l - z), Q)
    BY <1>1, <1>3, <2>3, RecoverIs
  <2>6. i \in Int /\ k \in Int /\ l \in Int
    BY <1>1, Inverses
  <2>. HIDE DEF i, y
  <2>7. Eqv(t * l - z, s * k - z, Q)
    <3>1. (Q - s) * (Q - k) = s * k + (Q - s - k) * Q
      BY <1>1, <2>6
    <3>2. t * l - z = (s * k - z) + (Q - s - k) * Q /\ Q - s - k \in Int
      <4>. s * k \in Int /\ (Q - s - k) * Q \in Int
        BY <1>1, <2>6
      <4>. QED
        BY <1>1, <2>3, <2>6, <3>1 DEF t
    <3>. QED
      BY <3>2 DEF Eqv
  <2>8. e \in Int /\ f \in Int /\ s * k - z \in Int /\ t * l - z \in Int
        /\ i * (s * k - z) \in Int /\ i * (t * l - z) \in Int
    BY <1>1, <2>6 DEF Scalars
  <2>9. Eqv(i * (t * l - z), i * (s * k - z), Q)
    BY <1>1, <2>6, <2>7, <2>8, EqvSelf, EqvMul
  <2>10. Eqv(f, e, Q)
    BY <1>1, <2>4, <2>5, <2>8, <2>9, EqvTrans, EqvSym
  <2>11. f = e
    BY <1>1, <2>10, EqvUnique DEF Scalars
  <2>. QED
    BY <2>4, <2>5, <2>11
<1>5. CASE ~OnCurve(r, y)
  <2>1. P - y \in 0..P /\ P - (P - y) = y
    BY <1>1, <1>3
  <2>2. ~OnCurve(r, P - y)
    BY <1>1, <1>5, <2>1, OppositeOnCurve
  <2>3. ~OnCurve(r, Root(r, 1 - parity))
    BY <1>3, <2>2
  <2>. QED
    BY <1>1, <1>5, <2>3, NoRecovery
<1>. QED
  BY <1>4, <1>5

\* A key that recovery yields passes the textbook equation, and the parity of the
\* point found there is the one the signature tells.
LEMMA RecoverSound ==
  ASSUME NEW z \in Int, NEW sig \in Signature, SigRecovers(z, sig) # Infinity
  PROVE  /\ TextbookValid(sig.r, sig.s, z, SigRecovers(z, sig))
         /\ TextbookR(sig.r, sig.s, z, SigRecovers(z, sig))[2] % 2 = sig.parity
<1>. DEFINE r == sig.r
            s == sig.s
            y == Root(r, sig.parity)
            i == Inverse_mod(r, Q)
            w == Inverse_mod(s, Q)
<1>1. /\ r \in 1..(Q - 1) /\ s \in 1..(Q - 1) /\ sig.parity \in {0, 1} /\ r \in Field
      /\ Q \in Nat /\ 1 < Q /\ r \in Int /\ s \in Int
  BY SigParts, CurveAssumption
<1>2. i \in Int /\ w \in Int /\ (r * i) % Q = 1 /\ (s * w) % Q = 1
  <2>1. i \in 1..(Q - 1) /\ (r * i) % Q = 1
    BY <1>1, Inverses
  <2>2. w \in 1..(Q - 1) /\ (s * w) % Q = 1
    BY <1>1, Inverses
  <2>. QED
    BY <1>1, <2>1, <2>2
<1>3. OnCurve(r, y) /\ y % 2 = sig.parity
  BY <1>1, NoRecovery, RootParity DEF SigRecovers
<1>4. PICK k \in 1..(Q - 1) : PubPoint[k] = <<r, y>>
  BY <1>1, <1>3, RootPoint
<1>5. PICK e \in Scalars : /\ SigRecovers(z, sig) = Multiple(e)
                           /\ Eqv(e, i * (s * k - z), Q)
  BY <1>1, <1>4, RecoverIs DEF SigRecovers
<1>. HIDE DEF r, s, i, w, y
<1>6. /\ k \in Int /\ e \in Int /\ 1 \in Scalars /\ Multiple(1) = G
      /\ k \in Scalars /\ Multiple(k) = PubPoint[k]
  BY <1>1, GroupLaw DEF Scalars, Multiple
<1>. DEFINE zw == z * w
            rw == r * w
<1>7. zw \in Int /\ rw \in Int
  BY <1>1, <1>2
<1>. HIDE DEF zw, rw
<1>8. zw % Q \in Nat /\ rw % Q \in Nat /\ zw % Q \in Int /\ rw % Q \in Int
  BY <1>1, <1>7, ModSplit
<1>9. PICK a \in Scalars : a = ((zw % Q) * 1) % Q /\ ec_mul(zw % Q, G) = Multiple(a)
  BY <1>6, <1>8, DoubleAndAdd
<1>10. PICK b \in Scalars : b = ((rw % Q) * e) % Q /\ ec_mul(rw % Q, Multiple(e)) = Multiple(b)
  BY <1>8, DoubleAndAdd
<1>11. PICK c \in Scalars : c = (a + b) % Q /\ ec_add(Multiple(a), Multiple(b)) = Multiple(c)
  BY AddMultiples
<1>12. c = k
  <2>0. a \in Int /\ b \in Int /\ c \in Int /\ a + b \in Int /\ rw * e \in Int /\ zw + rw * e \in Int
        /\ (zw % Q) * 1 \in Int /\ (rw % Q) * e \in Int
    BY <1>6, <1>7, <1>8 DEF Scalars
  <2>1. Eqv(a, zw, Q)
    <3>1. \A m \in Int : m * 1 = m
      OBVIOUS
    <3>2. a = (zw % Q) % Q
      BY <1>8, <1>9, <3>1
    <3>. QED
      BY <1>1, <1>7, <1>8, <2>0, <3>2, ModEqv, EqvTrans
  <2>2. Eqv(b, rw * e, Q)
    <3>1. Eqv(b, (rw % Q) * e, Q)
      BY <1>1, <1>10, <2>0, ModEqv
    <3>2. Eqv((rw % Q) * e, rw * e, Q)
      BY <1>1, <1>6, <1>7, <1>8, ModEqv, EqvSelf, EqvMul
    <3>. QED
      BY <1>1, <2>0, <3>1, <3>2, EqvTrans
  <2>3. Eqv(a + b, zw + rw * e, Q)
    BY <1>1, <1>7, <2>0, <2>1, <2>2, EqvAdd
  <2>4. Eqv(c, zw + rw * e, Q)
    BY <1>1, <1>11, <2>0, <2>3, ModEqv, EqvTrans
  \* rw * e is congruent to rw * i * (s*k - z), in which r*i and s*w are 1.
  <2>. DEFINE m == s * k - z
              ri == r * i
              sw == s * w
  <2>5. m \in Int /\ ri \in Int /\ sw \in Int /\ i * m \in Int /\ rw * (i * m) \in Int
    BY <1>1, <1>2, <1>6, <1>7
  <2>6. Eqv(ri, 1, Q) /\ Eqv(sw, 1, Q)
    <3>1. Eqv(ri, ri % Q, Q) /\ Eqv(sw, sw % Q, Q)
      BY <1>1, <2>5, ModSplit
    <3>. QED
      BY <1>2, <3>1
  <2>7. Eqv(rw * e, rw * (i * m), Q)
    BY <1>1, <1>5, <1>6, <1>7, <2>5, EqvSelf, EqvMul
  <2>8. rw * (i * m) = ri * (w * m)
    BY <1>1, <1>2, <2>5 DEF rw
  <2>9. w * m = sw * k - zw
    BY <1>1, <1>2, <1>6 DEF zw
  <2>. HIDE DEF m, ri, sw
  <2>10. w * m \in Int /\ sw * k \in Int /\ ri * (w * m) \in Int /\ 1 * (w * m) = w * m
         /\ 1 * k = k
    BY <1>2, <1>6, <2>5
  <2>11. Eqv(ri * (w * m), w * m, Q)
    BY <1>1, <2>5, <2>6, <2>10, EqvSelf, EqvMul
  <2>12. Eqv(sw * k, k, Q)
    BY <1>1, <1>6, <2>5, <2>6, <2>10, EqvSelf, EqvMul
  <2>13. Eqv(rw * e, w * m, Q)
    BY <1>1, <2>0, <2>5, <2>7, <2>8, <2>10, <2>11, EqvTrans
  <2>14. Eqv(zw + rw * e, zw + w * m, Q)
    BY <1>1, <1>7, <2>0, <2>10, <2>13, EqvSelf, EqvAdd
  <2>15. zw + w * m = sw * k
    BY <1>7, <2>9, <2>10
  <2>16. Eqv(zw + rw * e, k, Q)
    BY <1>1, <1>6, <2>0, <2>10, <2>12, <2>14, <2>15, EqvTrans
  <2>17. Eqv(c, k, Q)
    BY <1>1, <1>6, <2>0, <2>4, <2>16, EqvTrans
  <2>. QED
    BY <1>1, <1>6, <2>17, EqvUnique DEF Scalars
<1>13. PubPoint[k] # Infinity /\ PubPoint[k][1] = r /\ PubPoint[k][2] % 2 = sig.parity
  BY <1>3, <1>4 DEF Infinity
<1>14. r % Q = r
  BY <1>1
<1>15. TextbookR(r, s, z, SigRecovers(z, sig)) = PubPoint[k]
  BY <1>5, <1>6, <1>9, <1>10, <1>11, <1>12 DEF TextbookR, w, zw, rw
<1>16. /\ TextbookValid(r, s, z, SigRecovers(z, sig))
       /\ TextbookR(r, s, z, SigRecovers(z, sig))[2] % 2 = sig.parity
  BY <1>1, <1>13, <1>14, <1>15 DEF TextbookValid
<1>. QED
  BY <1>16 DEF r, s

\* What action=sign makes recovers the signer.
LEMMA SignedRecovers ==
  ASSUME NEW d \in Keys, NEW z \in Digests, NEW k, Usable(d, z, k)
  PROVE  SigRecovers(z, Signed(d, z, k)) = PubPoint[d]
<1>. DEFINE raw == RawSignature(d, z, k)
            s == ECDSA_s(d, z, k)
            r == PubPoint[k][1]
            i == Inverse_mod(k, Q)
            j == Inverse_mod(r, Q)
<1>1. /\ k \in 1..(Q - 1) /\ k \in Int /\ d \in 1..(Q - 1) /\ d \in Int /\ z \in Int
      /\ Q \in Nat /\ 1 < Q /\ Q < P /\ P \in Nat
  BY CurveAssumption, Widths, InputsAssumption DEF Usable
<1>2. PICK x \in Field, y \in Field :
         PubPoint[k] = <<x, y>> /\ y # 0 /\ (y * y - Alpha(x)) % P = 0
  BY <1>1, PubPoints
<1>3. r = x /\ PubPoint[k][2] = y
  BY <1>2
<1>4. r \in 1..(Q - 1) /\ r \in Int /\ r % Q = r /\ r \in Field
  <2>1. r \in Field /\ r \in Int /\ 0 <= r
    BY <1>1, <1>2, <1>3 DEF Field
  <2>2. r % Q # 0 /\ r < Q
    BY DEF Usable
  <2>. HIDE DEF r
  <2>3. r # 0 /\ r % Q = r
    BY <1>1, <2>1, <2>2
  <2>. QED
    BY <1>1, <2>1, <2>2, <2>3
<1>5. i \in Int /\ (k * i) % Q = 1
  <2>1. i \in 1..(Q - 1) /\ (k * i) % Q = 1
    BY <1>1, Inverses
  <2>. QED
    BY <1>1, <2>1
<1>. HIDE DEF i, j
<1>6. s = (i * (z + r * d)) % Q /\ s # 0
  BY <1>4 DEF ECDSA_s, Usable, i
<1>. HIDE DEF r, s
<1>7. r * d \in Int /\ z + r * d \in Int /\ i * (z + r * d) \in Int
  BY <1>1, <1>4, <1>5
<1>8. s \in 1..(Q - 1) /\ s \in Int /\ Eqv(s, i * (z + r * d), Q)
  <2>1. s \in 0..(Q - 1) /\ s \in Int
    BY <1>1, <1>6, <1>7, ModSplit
  <2>. QED
    BY <1>1, <1>6, <1>7, <2>1, ModEqv
<1>9. y \in 1..(P - 1) /\ y % 2 \in {0, 1} /\ OnCurve(r, y)
  BY <1>1, <1>2, <1>3 DEF Field, OnCurve
<1>10. Root(r, y % 2) = y
  BY <1>4, <1>9, RootOfPoint
<1>11. PICK e \in Scalars : /\ ecrecover(z, r, s, y % 2) = Multiple(e)
                            /\ Eqv(e, j * (s * k - z), Q)
  <2>1. PubPoint[k] = <<r, Root(r, y % 2)>>
    BY <1>2, <1>3, <1>10
  <2>. QED
    BY <1>1, <1>4, <1>8, <1>9, <2>1, RecoverIs DEF j
<1>12. raw = [r |-> r, s |-> s, parity |-> y % 2]
  BY <1>3, <1>4 DEF RawSignature, r, s
<1>13. raw \in Signature
  BY <1>4, <1>8, <1>9, <1>12 DEF Signature
<1>. HIDE DEF raw
<1>14. e = d
  <2>1. j \in Int /\ (r * j) % Q = 1
    <3>1. j \in 1..(Q - 1) /\ (r * j) % Q = 1
      BY <1>4, Inverses DEF j
    <3>. QED
      BY <1>1, <3>1
  <2>. DEFINE ki == k * i
              rj == r * j
              u == z + r * d
  <2>2. ki \in Int /\ rj \in Int /\ u \in Int /\ s * k \in Int /\ i * u * k \in Int /\ ki * u \in Int
        /\ s * k - z \in Int /\ j * (s * k - z) \in Int /\ r * d \in Int /\ j * (r * d) \in Int
        /\ e \in Int /\ -z \in Int /\ i * u \in Int
    BY <1>1, <1>4, <1>5, <1>7, <1>8, <2>1 DEF Scalars
  <2>3. Eqv(ki, 1, Q) /\ Eqv(rj, 1, Q)
    <3>1. Eqv(ki, ki % Q, Q) /\ Eqv(rj, rj % Q, Q)
      BY <1>1, <2>2, ModSplit
    <3>. QED
      BY <1>5, <2>1, <3>1
  <2>4. Eqv(s * k, (i * u) * k, Q)
    BY <1>1, <1>8, <2>2, EqvSelf, EqvMul
  <2>. HIDE DEF u
  <2>5. (i * u) * k = ki * u
    BY <1>1, <1>5, <2>2
  <2>6. rj * d = j * (r * d)
    BY <1>1, <1>4, <2>1
  <2>. HIDE DEF ki, rj
  <2>7. Eqv(ki * u, 1 * u, Q) /\ 1 * u = u /\ 1 * u \in Int
    BY <1>1, <2>2, <2>3, EqvSelf, EqvMul
  <2>8. Eqv(s * k, u, Q)
    BY <1>1, <2>2, <2>4, <2>5, <2>7, EqvTrans
  <2>9. Eqv(s * k + (-z), u + (-z), Q)
    BY <1>1, <2>2, <2>8, EqvSelf, EqvAdd
  <2>10. s * k + (-z) = s * k - z /\ u + (-z) = r * d
    BY <1>1, <2>2 DEF u
  <2>11. Eqv(j * (s * k - z), j * (r * d), Q)
    BY <1>1, <2>1, <2>2, <2>9, <2>10, EqvSelf, EqvMul
  <2>12. Eqv(rj * d, 1 * d, Q) /\ 1 * d = d /\ rj * d \in Int
    BY <1>1, <2>2, <2>3, EqvSelf, EqvMul
  <2>13. Eqv(e, d, Q)
    BY <1>1, <1>11, <2>2, <2>6, <2>11, <2>12, EqvTrans
  <2>. QED
    BY <1>1, <2>13, EqvUnique DEF Scalars
<1>15. SigRecovers(z, raw) = PubPoint[d]
  <2>1. SigRecovers(z, raw) = Multiple(d)
    BY <1>11, <1>12, <1>14 DEF SigRecovers
  <2>. QED
    BY <1>1, <2>1 DEF Multiple
<1>. QED
  BY <1>1, <1>13, <1>15, TwinRecovers DEF Signed, raw

-----------------------------------------------------------------------------
(* The theorems: two facts about the history ride along with IInv.          *)

\* A signature that action=sign made came from the key, the digest and a usable nonce.
FromSign == signed => \E k : Usable(key, digest, k) /\ made = Signed(key, digest, k)

\* A "valid" stays earned: recovery still yields the address it was asked about.
ValidRecovers == verdict.valid => /\ sig_parse(wire) \in Signature
                                  /\ verdict.asked # Infinity
                                  /\ recovered = verdict.asked

RInv == FromSign /\ ValidRecovers

LEMMA RecoveredIs == recovered = SigRecovers(digest, sig_parse(wire))
  BY DEF recovered, SigRecovers

\* From what it refuses eth_sign recovers nothing.
LEMMA RefusedRecoversNothing ==
  ASSUME recovered # Infinity
  PROVE  sig_parse(wire) \in Signature
<1>1. NoSignature.r = 0 /\ 0 \notin 1..(Q - 1)
  BY DEF NoSignature
<1>2. SigRecovers(digest, NoSignature) = Infinity
  BY <1>1 DEF SigRecovers, ecrecover
<1>. QED
  BY <1>2, ParseType, RecoveredIs

LEMMA InitRInv == Init => RInv
  BY DEF Init, RInv, FromSign, ValidRecovers, NoVerdict

LEMMA NextRInv == IInv /\ IInv' /\ RInv /\ [Next]_vars => RInv'
<1>. SUFFICES ASSUME IInv, IInv', RInv, [Next]_vars
              PROVE  RInv'
  OBVIOUS
<1>0. wire = NoWire => ~verdict.valid
  BY NoWireHoldsNothing, SignatureParts DEF RInv, ValidRecovers
<1>1. CASE Sign
  <2>1. ~verdict'.valid
    BY <1>0, <1>1 DEF Sign
  <2>2. \E k : Usable(key, digest, k) /\ made' = Signed(key, digest, k)
    BY <1>1 DEF Sign
  <2>. QED
    BY <1>1, <2>1, <2>2 DEF Sign, RInv, ValidRecovers, FromSign
<1>2. CASE Present
  <2>1. ~signed /\ ~verdict.valid
    BY <1>0, <1>2 DEF Present, IInv
  <2>. QED
    BY <1>2, <2>1 DEF Present, RInv, ValidRecovers, FromSign
\* Converting, respelling and swapping s leave the recovered key alone.
<1>3. ASSUME UNCHANGED <<key, digest, made, signed, verdict>>,
             \/ sig_parse(wire') = sig_parse(wire)
             \/ /\ sig_parse(wire) \in Signature
                /\ sig_parse(wire') = Twin(sig_parse(wire))
      PROVE  RInv'
  <2>1. FromSign'
    BY <1>3 DEF RInv, FromSign
  <2>2. digest \in Int
    BY InputsAssumption, Widths DEF IInv
  <2>3. SigRecovers(digest, sig_parse(wire')) = SigRecovers(digest, sig_parse(wire))
    BY <1>3, <2>2, TwinRecovers
  <2>4. recovered' = recovered
    BY <1>3, <2>3 DEF recovered, SigRecovers
  <2>5. sig_parse(wire) \in Signature => sig_parse(wire') \in Signature
    BY <1>3, TwinProperties
  <2>6. ValidRecovers'
    BY <1>3, <2>4, <2>5 DEF RInv, ValidRecovers
  <2>. QED
    BY <2>1, <2>6 DEF RInv
<1>4. ASSUME NEW form \in Forms, Convert(form)
      PROVE  RInv'
  <2>1. /\ sig_parse(wire) \in Signature /\ wire' # NoWire
        /\ wire' = sig_render(sig_parse(wire), form)
        /\ UNCHANGED <<key, digest, made, signed, verdict>>
    BY <1>4, ParseType DEF Convert
  <2>2. sig_parse(wire') = sig_parse(wire)
    BY <2>1, RoundTrip
  <2>. QED
    BY <1>3, <2>1, <2>2
<1>5. CASE Malleate
  <2>1. /\ sig_parse(wire) \in Signature
        /\ wire' = sig_render(Twin(sig_parse(wire)), "packed65")
        /\ UNCHANGED <<key, digest, made, signed, verdict>>
    BY <1>5, ParseType DEF Malleate
  <2>2. wire' # NoWire
    BY <2>1 DEF sig_render, Wire, NoWire
  <2>3. sig_parse(wire') = Twin(sig_parse(wire))
    BY <2>1, <2>2, TwinProperties, RoundTrip DEF Forms
  <2>. QED
    BY <1>3, <2>1, <2>3
<1>6. CASE Respell
  <2>1. wire \in Wires /\ UNCHANGED <<key, digest, made, signed, verdict>>
    BY <1>6 DEF Respell, NoWire, IInv
  <2>2. sig_parse(wire') = sig_parse(wire)
    BY <1>6, <2>1, RespellKeeps
  <2>. QED
    BY <1>3, <2>1, <2>2
<1>7. CASE Recover
  <2>1. /\ recovered # Infinity /\ verdict' = [asked |-> recovered, valid |-> TRUE]
        /\ UNCHANGED <<key, digest, wire, made, signed>>
    BY <1>7 DEF Recover
  <2>2. FromSign'
    BY <2>1 DEF RInv, FromSign
  <2>3. recovered' = recovered /\ verdict'.asked = recovered
    BY <2>1 DEF recovered
  <2>4. sig_parse(wire') \in Signature
    BY <2>1, RefusedRecoversNothing
  <2>. QED
    BY <2>1, <2>2, <2>3, <2>4 DEF RInv, ValidRecovers
<1>8. ASSUME NEW a \in Addresses \cup {PubPoint[key]}, Verify(a)
      PROVE  RInv'
  <2>1. a # Infinity
    <3>1. a \in Field \X Field
      BY InputsAssumption, GroupLaw DEF IInv, CurvePoints
    <3>. QED
      BY <3>1 DEF Infinity
  <2>2. UNCHANGED <<key, digest, wire, made, signed>> /\ FromSign'
    BY <1>8 DEF Verify, RInv, FromSign
  <2>3. recovered' = recovered
    BY <2>2 DEF recovered
  <2>4. CASE sig_parse(wire) = NoSignature
    <3>1. verdict' = verdict
      BY <1>8, <2>4 DEF Verify
    <3>. QED
      BY <2>2, <2>3, <3>1 DEF RInv, ValidRecovers
  <2>5. CASE sig_parse(wire) # NoSignature
    <3>1. verdict' = [asked |-> a, valid |-> recovered = a]
      BY <1>8, <2>5 DEF Verify
    <3>2. verdict'.asked = a /\ verdict'.valid = (recovered = a)
      BY <3>1
    <3>3. sig_parse(wire') \in Signature
      BY <2>2, <2>5, ParseType
    <3>. QED
      BY <2>1, <2>2, <2>3, <3>2, <3>3 DEF RInv, ValidRecovers
  <2>. QED
    BY <2>4, <2>5
<1>9. CASE UNCHANGED vars
  BY <1>9 DEF vars, RInv, FromSign, ValidRecovers, recovered
<1>. QED
  BY <1>1, <1>2, <1>4, <1>5, <1>6, <1>7, <1>8, <1>9 DEF Next

LEMMA RecoverInvariance == Spec => [](IInv /\ RInv)
<1>1. Init => IInv /\ RInv
  BY InitIInv, InitRInv
<1>2. IInv /\ RInv /\ [Next]_vars => (IInv /\ RInv)'
  BY NextIInv, NextRInv
<1>. QED
  BY <1>1, <1>2, PTL DEF Spec

-----------------------------------------------------------------------------
\* From every form and respelling of what action=sign made, and from its other s,
\* ecrecover yields the signer.
THEOREM SignerIsRecovered == Spec => []SignerRecovered
<1>1. IInv /\ RInv => SignerRecovered
  <2>. SUFFICES ASSUME IInv, RInv, signed
                PROVE  recovered = PubPoint[key]
    BY DEF SignerRecovered
  <2>1. PICK k : Usable(key, digest, k) /\ made = Signed(key, digest, k)
    BY DEF RInv, FromSign
  <2>2. /\ made \in Signature /\ sig_parse(wire) \in {made, Twin(made)}
        /\ digest \in Int
    BY InputsAssumption, SignatureParts, Widths DEF IInv, ConversionsKeepSignature
  <2>3. SigRecovers(digest, made) = PubPoint[key]
    BY <2>1, SignedRecovers DEF IInv
  <2>. QED
    BY <2>2, <2>3, TwinRecovers, RecoveredIs
<1>. QED
  BY <1>1, RecoverInvariance, PTL

\* What action=sign makes is low-s and passes the textbook equation for its key.
THEOREM SigningIsSound == Spec => []SignedIsValid
<1>1. IInv /\ RInv => SignedIsValid
  <2>. SUFFICES ASSUME IInv, RInv, signed
                PROVE  /\ LowS(made)
                       /\ TextbookValid(made.r, made.s, digest, PubPoint[key])
    BY DEF SignedIsValid
  <2>1. PICK k : Usable(key, digest, k) /\ made = Signed(key, digest, k)
    BY DEF RInv, FromSign
  <2>2. made \in Signature /\ LowS(made) /\ digest \in Int
    BY InputsAssumption, Widths DEF IInv
  <2>3. SigRecovers(digest, made) = PubPoint[key]
    BY <2>1, SignedRecovers DEF IInv
  <2>4. PubPoint[key] # Infinity
    <3>1. PubPoint[key] \in CurvePoints
      BY InputsAssumption, GroupLaw DEF IInv
    <3>. QED
      BY <3>1 DEF CurvePoints, Infinity
  <2>. QED
    BY <2>2, <2>3, <2>4, RecoverSound
<1>. QED
  BY <1>1, RecoverInvariance, PTL

\* The numbers of a signature are those its wire form spells.
LEMMA ParsedNumbers ==
  ASSUME NEW w, sig_parse(w) \in Signature
  PROVE  /\ sig_parse(w).r = w.r /\ sig_parse(w).s = SpelledS(w)
         /\ sig_parse(w).parity \in {0, 1} /\ Spells(w, sig_parse(w).parity)
<1>. DEFINE compact == w.form = "eip2098"
            parity == IF compact THEN w.s \div TopBit
                      ELSE IF w.yParity # Absent THEN w.yParity ELSE sig_parity(w.v)
<1>1. sig_parse(w) = [r |-> w.r, s |-> SpelledS(w), parity |-> parity]
  BY SignatureParts DEF sig_parse, SpelledS
<1>. HIDE DEF parity
<1>2. parity \in {0, 1}
  BY <1>1, SignatureParts
<1>3. Spells(w, parity)
  <2>1. CASE compact \/ w.yParity # Absent
    BY <2>1 DEF Spells, parity
  <2>2. CASE ~compact /\ w.yParity = Absent
    <3>1. parity = sig_parity(w.v) /\ Absent \notin {0, 1}
      BY <2>2, AbsentAssumption DEF parity
    <3>2. \/ w.v \in {0, 1} /\ w.v = parity
          \/ w.v \in {27, 28} /\ w.v - 27 = parity
      BY <1>2, <3>1 DEF sig_parity
    <3>3. w.v \in {parity, 27 + parity}
      BY <1>2, <3>2
    <3>. QED
      BY <2>2, <3>3 DEF Spells
  <2>. QED
    BY <2>1, <2>2
<1>. QED
  BY <1>1, <1>2, <1>3

\* "valid" is the answer only for a wire form whose own numbers, in range, pass the
\* textbook verification of that very key with the parity the form spells, whatever
\* the form is and wherever it comes from; and it stays true of every form the
\* signature takes later.
THEOREM VerifyIsSound == Spec => []VerifySound
<1>1. IInv /\ RInv => VerifySound
  <2>. SUFFICES ASSUME IInv, RInv, verdict.valid
                PROVE  VerifySound
    BY DEF VerifySound
  <2>. DEFINE sig == sig_parse(wire)
  <2>1. /\ verdict.asked # Infinity /\ recovered = verdict.asked
        /\ sig \in Signature /\ digest \in Int
    BY InputsAssumption, Widths DEF IInv, RInv, ValidRecovers
  <2>2. SigRecovers(digest, sig) = verdict.asked
    BY <2>1, RecoveredIs
  <2>3. /\ TextbookValid(sig.r, sig.s, digest, verdict.asked)
        /\ TextbookR(sig.r, sig.s, digest, verdict.asked)[2] % 2 = sig.parity
    BY <2>1, <2>2, RecoverSound
  <2>4. /\ sig.r = wire.r /\ sig.s = SpelledS(wire)
        /\ sig.parity \in {0, 1} /\ Spells(wire, sig.parity)
    BY <2>1, ParsedNumbers
  <2>. HIDE DEF sig
  <2>. QED
    BY <2>3, <2>4 DEF VerifySound
<1>. QED
  BY <1>1, RecoverInvariance, PTL
=============================================================================
