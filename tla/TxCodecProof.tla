---------------------------- MODULE TxCodecProof ----------------------------
(***************************************************************************)
(* Proofs about TxCodec for every set of chain ids without 0 and any raw   *)
(* transactions from elsewhere.                                            *)
(***************************************************************************)
EXTENDS TxCodec, TLAPS

\* The v of an EIP-155 signature comes apart into its chain id and parity.
LEMMA SplitV ==
  ASSUME NEW c \in Nat, NEW p \in {0, 1}
  PROVE  /\ c * 2 + 35 + p >= 35
         /\ ((c * 2 + 35 + p) - 35) \div 2 = c
         /\ ((c * 2 + 35 + p) - 35) % 2 = p
  OBVIOUS

LEMMA InferredType ==
  ASSUME NEW f, f.type = None \/ f.type \in Types
  PROVE  tx_infer_type(f) \in Types
  BY DEF tx_infer_type, Types

LEMMA InferredAgain ==
  ASSUME NEW f, NEW t \in Types, f.type = None, f.markers = MarkersOf(t)
  PROVE  tx_infer_type(f) = t
  BY DEF tx_infer_type, Types, MarkersOf, Markers

-----------------------------------------------------------------------------
(* The raw transaction of a type t, a chain id c, a body b, signed (n = 1)  *)
(* or not (n = 0), and what is hashed and reported of it.                   *)

RawOf(t, c, b, n, v) == [type |-> t, chainId |-> IF t = 0 THEN 0 ELSE Leaf(c),
                         v |-> v, r |-> n, s |-> n, body |-> b, pad |-> 0]
UnsignedV(t, c) == IF t = 0 THEN Leaf(c) ELSE 0
Chain(t, c) == IF t = 0 THEN c ELSE Leaf(c)
DigestOf(t, c, b) == [type |-> t, body |-> b, pad |-> 0, chainId |-> Chain(t, c)]

\* An absent field is not a number.
LEMMA NoneIsNoNumber == None # 0 /\ None # 1 /\ None \notin Types /\ \A n \in Nat : n # None
  BY ConstantsAssumption DEF Types

LEMMA UnsignedHash ==
  ASSUME NEW t \in Types, NEW c, c = None \/ c \in Nat \ {0}, NEW b
  PROVE  LET u == RawOf(t, c, b, 0, UnsignedV(t, c))
         IN  /\ signing_hash(u) = DigestOf(t, c, b)
             /\ decode_fields(u).chainId = Chain(t, c)
  BY NoneIsNoNumber DEF RawOf, UnsignedV, Chain, DigestOf, signing_hash, legacy_chain, Unsigned,
     Leaf, decode_fields

LEMMA SignedHash ==
  ASSUME NEW t \in Types, NEW c, c = None \/ c \in Nat \ {0}, NEW b, NEW p \in {0, 1}
  PROVE  LET u == RawOf(t, c, b, 1, SignedV(t, c, p))
         IN  /\ signing_hash(u) = DigestOf(t, c, b)
             /\ decode_fields(u).chainId = Chain(t, c)
             /\ rec_id(u) = p
<1>. DEFINE u == RawOf(t, c, b, 1, SignedV(t, c, p))
<1>1. ~Unsigned(u)
  BY DEF RawOf, Unsigned
<1>2. CASE t # 0
  BY <1>2 DEF RawOf, signing_hash, DigestOf, Chain, rec_id, SignedV, decode_fields
<1>3. CASE t = 0 /\ c = None
  BY <1>1, <1>3, NoneIsNoNumber DEF RawOf, signing_hash, DigestOf, Chain, rec_id, SignedV,
     legacy_chain, legacy_rec_id, decode_fields
<1>4. CASE t = 0 /\ c \in Nat \ {0}
  <2>1. u.v = c * 2 + 35 + p /\ u.type = 0 /\ u.body = b /\ u.pad = 0
    BY <1>4, NoneIsNoNumber DEF RawOf, SignedV
  <2>2. u.v >= 35 /\ (u.v - 35) \div 2 = c /\ (u.v - 35) % 2 = p
    BY <1>4, <2>1, SplitV
  <2>. HIDE DEF u
  <2>3. legacy_chain(u) = c /\ legacy_rec_id(u) = p
    BY <1>1, <2>2 DEF legacy_chain, legacy_rec_id
  <2>4. signing_hash(u) = DigestOf(t, c, b) /\ decode_fields(u).chainId = Chain(t, c)
    BY <1>4, <2>1, <2>3 DEF signing_hash, DigestOf, Chain, decode_fields
  <2>5. rec_id(u) = p
    BY <2>1, <2>3 DEF rec_id
  <2>. QED
    BY <2>4, <2>5 DEF u
<1>. QED
  BY <1>2, <1>3, <1>4

-----------------------------------------------------------------------------
(* The inductive invariant: what the raw transaction holds at each stage, in *)
(* terms of what the client intended, and that the client's fields, its own *)
(* or the decoder's, still say so.                                          *)

Intents == [type : Types \cup {None}, markers : SUBSET Markers,
            chainId : ChainIds \cup {None}, v : {None}, r : {0}, s : {0}, body : Bodies]

FieldsInv == /\ fields = [type |-> fields.type, markers |-> fields.markers,
                          chainId |-> fields.chainId, v |-> fields.v, r |-> fields.r,
                          s |-> fields.s, body |-> fields.body]
             /\ fields.type = None \/ fields.type \in Types
             /\ tx_infer_type(fields) = raw.type
             /\ fields.r = raw.r /\ fields.s = raw.s /\ fields.body = raw.body
             /\ Chain(raw.type, fields.chainId) = Chain(raw.type, intent.chainId)
             /\ fields.v = raw.v \/ (fields.v = None /\ stage = "unsigned")

IInv == /\ stage \in {"new", "unsigned", "signed", "wild"}
        /\ stage # "wild" => intent \in Intents
        /\ stage = "new" => fields = intent /\ raw = Refused
        /\ stage = "unsigned" =>
              /\ raw.type \in Types
              /\ raw = RawOf(raw.type, intent.chainId, intent.body, 0,
                             UnsignedV(raw.type, intent.chainId))
              /\ FieldsInv
        /\ stage = "signed" =>
              /\ raw.type \in Types /\ signature.parity \in {0, 1}
              /\ raw = RawOf(raw.type, intent.chainId, intent.body, 1,
                             SignedV(raw.type, intent.chainId, signature.parity))
              /\ FieldsInv
              /\ signature.digest = DigestOf(raw.type, intent.chainId, intent.body)

\* What encode makes of fields that say what the client intended.
LEMMA EncodesUnsigned ==
  ASSUME NEW f, NEW t \in Types, NEW c, c = None \/ c \in Nat \ {0},
         tx_infer_type(f) = t, Chain(t, f.chainId) = Chain(t, c),
         f.r = 0, f.s = 0, f.v = None \/ f.v = UnsignedV(t, c)
  PROVE  tx_encode(f) = RawOf(t, c, f.body, 0, UnsignedV(t, c)) /\ tx_encode(f) # Refused
<1>1. Leaf(f.v) = UnsignedV(t, c) \/ (f.v = None /\ Leaf(f.v) = 0)
  BY NoneIsNoNumber DEF Leaf, UnsignedV
<1>2. CASE t = 0
  <2>1. f.chainId = c
    BY <1>2 DEF Chain
  <2>2. legacy_chain_v(f) = Leaf(c) /\ Leaf(c) # None
    BY <1>1, <1>2, <2>1, NoneIsNoNumber DEF legacy_chain_v, UnsignedV, Leaf
  <2>. QED
    BY <1>2, <2>2, NoneIsNoNumber DEF tx_encode, RawOf, UnsignedV, Refused
<1>3. CASE t # 0
  <2>1. Leaf(f.chainId) = Leaf(c) /\ Leaf(f.v) = 0
    BY <1>1, <1>3 DEF Chain, UnsignedV
  <2>. QED
    BY <1>3, <2>1, NoneIsNoNumber DEF tx_encode, RawOf, UnsignedV, Refused
<1>. QED
  BY <1>2, <1>3

LEMMA EncodesSigned ==
  ASSUME NEW f, NEW t \in Types, NEW c, c = None \/ c \in Nat \ {0}, NEW p \in {0, 1},
         tx_infer_type(f) = t, Chain(t, f.chainId) = Chain(t, c),
         f.r = 1, f.s = 1, f.v = SignedV(t, c, p)
  PROVE  tx_encode(f) = RawOf(t, c, f.body, 1, SignedV(t, c, p)) /\ tx_encode(f) # Refused
<1>1. SignedV(t, c, p) \in Nat
  BY NoneIsNoNumber DEF SignedV
<1>2. CASE t = 0
  <2>1. f.chainId = c
    BY <1>2 DEF Chain
  <2>2. legacy_chain_v(f) = SignedV(t, c, p)
    <3>1. CASE c = None
      BY <1>1, <2>1, <3>1, NoneIsNoNumber DEF legacy_chain_v, Leaf
    <3>2. CASE c \in Nat \ {0}
      <4>1. f.v = c * 2 + 35 + p /\ f.v \in Nat
        BY <1>1, <1>2, <3>2, NoneIsNoNumber DEF SignedV
      <4>2. ~(f.v < 35) /\ (f.v - 35) \div 2 = f.chainId
        BY <2>1, <3>2, <4>1, SplitV
      <4>. QED
        BY <1>1, <2>1, <3>2, <4>1, <4>2, NoneIsNoNumber DEF legacy_chain_v
    <3>. QED
      BY <3>1, <3>2
  <2>. QED
    BY <1>1, <1>2, <2>2, NoneIsNoNumber DEF tx_encode, RawOf, Refused
<1>3. CASE t # 0
  <2>1. Leaf(f.chainId) = Leaf(c) /\ Leaf(f.v) = SignedV(t, c, p)
    BY <1>1, <1>3, NoneIsNoNumber DEF Chain, Leaf
  <2>. QED
    BY <1>1, <1>3, <2>1, NoneIsNoNumber DEF tx_encode, RawOf, Refused
<1>. QED
  BY <1>2, <1>3

-----------------------------------------------------------------------------
(* The invariant is inductive.                                             *)

\* A client that never chooses chain id 0.
IntendedChain(c) == c = None \/ c \in Nat \ {0}

LEMMA IntendedChains ==
  ASSUME 0 \notin ChainIds, intent \in Intents
  PROVE  /\ IntendedChain(intent.chainId)
         /\ tx_infer_type(intent) \in Types
         /\ intent.v = None /\ intent.r = 0 /\ intent.s = 0
<1>1. intent.type = None \/ intent.type \in Types
  BY DEF Intents
<1>. QED
  BY <1>1, ConstantsAssumption, InferredType DEF Intents, IntendedChain

LEMMA InitIInv == Init => IInv
  BY DEF Init, IInv, Intents

LEMMA EncodeUnsignedKeeps ==
  ASSUME 0 \notin ChainIds, IInv, EncodeUnsigned
  PROVE  IInv'
<1>. DEFINE t == tx_infer_type(intent)
<1>1. intent \in Intents /\ fields = intent
  BY DEF IInv, EncodeUnsigned
<1>2. IntendedChain(intent.chainId) /\ t \in Types /\ intent.v = None /\ intent.r = 0 /\ intent.s = 0
  BY <1>1, IntendedChains
<1>3. /\ raw' = RawOf(t, intent.chainId, intent.body, 0, UnsignedV(t, intent.chainId))
      /\ raw' # Refused
  BY <1>1, <1>2, EncodesUnsigned DEF EncodeUnsigned, IntendedChain
<1>4. stage' = "unsigned" /\ intent' = intent /\ fields' = intent /\ signature' = signature
  BY <1>1, <1>3 DEF EncodeUnsigned
<1>5. raw'.type = t /\ raw'.r = 0 /\ raw'.s = 0 /\ raw'.body = intent.body
  BY <1>3 DEF RawOf
<1>6. FieldsInv'
  BY <1>1, <1>2, <1>4, <1>5 DEF FieldsInv, Intents
<1>. QED
  BY <1>1, <1>2, <1>3, <1>4, <1>5, <1>6 DEF IInv

LEMMA SignAndEncodeKeeps ==
  ASSUME 0 \notin ChainIds, IInv, NEW p \in {0, 1}, SignAndEncode(p)
  PROVE  IInv'
<1>. DEFINE t == raw.type
            c == intent.chainId
<1>1. /\ intent \in Intents /\ FieldsInv /\ t \in Types
      /\ raw = RawOf(t, c, intent.body, 0, UnsignedV(t, c))
  BY DEF IInv, SignAndEncode
<1>2. IntendedChain(c)
  BY <1>1, IntendedChains
<1>3. tx_infer_type(fields) = t /\ Chain(t, fields.chainId) = Chain(t, c) /\ fields.body = intent.body
  BY <1>1 DEF FieldsInv, RawOf
<1>4. SignedV(t, fields.chainId, p) = SignedV(t, c, p)
  BY <1>3 DEF Chain, SignedV
<1>5. fields' = [type |-> fields.type, markers |-> fields.markers, chainId |-> fields.chainId,
                 v |-> SignedV(t, c, p), r |-> 1, s |-> 1, body |-> intent.body]
  BY <1>1, <1>3, <1>4 DEF SignAndEncode, FieldsInv
<1>6. tx_infer_type(fields') = t
  BY <1>3, <1>5 DEF tx_infer_type
<1>7. /\ raw' = RawOf(t, c, intent.body, 1, SignedV(t, c, p))
      /\ raw' # Refused
  <2>1. Chain(t, fields'.chainId) = Chain(t, c) /\ fields'.r = 1 /\ fields'.s = 1
        /\ fields'.v = SignedV(t, c, p) /\ fields'.body = intent.body
    BY <1>3, <1>5
  <2>2. tx_encode(fields') = RawOf(t, c, fields'.body, 1, SignedV(t, c, p))
        /\ tx_encode(fields') # Refused
    BY <1>1, <1>2, <1>6, <2>1, EncodesSigned DEF IntendedChain
  <2>. QED
    BY <2>1, <2>2 DEF SignAndEncode
<1>8. /\ stage' = "signed" /\ intent' = intent
      /\ signature' = [digest |-> signing_hash(raw), parity |-> p]
  BY <1>7 DEF SignAndEncode
<1>9. signing_hash(raw) = DigestOf(t, c, intent.body)
  BY <1>1, <1>2, UnsignedHash DEF IntendedChain
<1>10. raw'.type = t /\ raw'.v = SignedV(t, c, p) /\ raw'.r = 1 /\ raw'.s = 1
       /\ raw'.body = intent.body
  BY <1>7 DEF RawOf
<1>11. FieldsInv'
  BY <1>1, <1>3, <1>5, <1>6, <1>8, <1>10 DEF FieldsInv
<1>. QED
  BY <1>1, <1>7, <1>8, <1>9, <1>10, <1>11 DEF IInv

\* What FieldsInv says of the decoder's fields.
LEMMA DecodedFields ==
  ASSUME raw.type \in Types,
         decode_fields(raw).chainId = Chain(raw.type, intent.chainId)
  PROVE  LET f == decode_fields(raw)
         IN  /\ f.type = None /\ tx_infer_type(f) = raw.type
             /\ f.v = raw.v /\ f.r = raw.r /\ f.s = raw.s /\ f.body = raw.body
             /\ Chain(raw.type, f.chainId) = Chain(raw.type, intent.chainId)
<1>. DEFINE f == decode_fields(raw)
<1>1. f.type = None /\ f.markers = MarkersOf(raw.type) /\ f.v = raw.v
      /\ f.r = raw.r /\ f.s = raw.s /\ f.body = raw.body
  BY DEF decode_fields
<1>2. tx_infer_type(f) = raw.type
  <2>. HIDE DEF f
  <2>. QED
    BY <1>1, InferredAgain
<1>3. Chain(raw.type, f.chainId) = Chain(raw.type, intent.chainId)
  <2>. HIDE DEF f
  <2>1. f.chainId = Chain(raw.type, intent.chainId)
    BY DEF f
  <2>. QED
    BY <2>1, NoneIsNoNumber DEF Chain, Leaf
<1>. QED
  BY <1>1, <1>2, <1>3

\* The hash and the chain id of the raw transaction are the intended ones.
LEMMA ReportedIntent ==
  ASSUME 0 \notin ChainIds, IInv, stage \in {"unsigned", "signed"}
  PROVE  /\ raw.type \in Types /\ IntendedChain(intent.chainId)
         /\ signing_hash(raw) = DigestOf(raw.type, intent.chainId, intent.body)
         /\ decode_fields(raw).chainId = Chain(raw.type, intent.chainId)
<1>1. raw.type \in Types /\ IntendedChain(intent.chainId)
  BY IntendedChains DEF IInv
<1>2. CASE stage = "unsigned"
  BY <1>1, <1>2, UnsignedHash DEF IInv, IntendedChain
<1>3. CASE stage = "signed"
  BY <1>1, <1>3, SignedHash DEF IInv, IntendedChain
<1>. QED
  BY <1>1, <1>2, <1>3

LEMMA DecodeKeeps ==
  ASSUME 0 \notin ChainIds, IInv, Decode
  PROVE  IInv'
<1>1. CASE stage = "wild"
  BY <1>1 DEF IInv, Decode
<1>2. CASE stage \in {"unsigned", "signed"}
  <2>1. raw.type \in Types /\ decode_fields(raw).chainId = Chain(raw.type, intent.chainId)
    BY <1>2, ReportedIntent
  <2>2. fields' = decode_fields(raw) /\ UNCHANGED <<intent, raw, stage, signature>>
    BY DEF Decode
  <2>3. FieldsInv'
    <3>1. fields' = [type |-> fields'.type, markers |-> fields'.markers,
                     chainId |-> fields'.chainId, v |-> fields'.v, r |-> fields'.r,
                     s |-> fields'.s, body |-> fields'.body]
      BY <2>2 DEF decode_fields
    <3>. QED
      BY <2>1, <2>2, <3>1, DecodedFields DEF FieldsInv
  <2>. QED
    BY <1>2, <2>2, <2>3 DEF IInv
<1>. QED
  BY <1>1, <1>2 DEF Decode

LEMMA StutterKeeps == ASSUME IInv, UNCHANGED vars PROVE IInv'
  BY DEF IInv, FieldsInv, vars

LEMMA ReencodeKeeps ==
  ASSUME 0 \notin ChainIds, IInv, Reencode
  PROVE  IInv'
<1>1. CASE stage = "wild"
  BY <1>1 DEF IInv, Reencode
<1>2. CASE stage \in {"unsigned", "signed"}
  <2>. DEFINE t == raw.type
              c == intent.chainId
  <2>1. t \in Types /\ IntendedChain(c) /\ decode_fields(raw).chainId = Chain(t, c)
    BY <1>2, ReportedIntent
  <2>2. /\ fields = decode_fields(raw) /\ raw' = tx_encode(fields)
        /\ UNCHANGED <<intent, fields, stage, signature>>
    BY DEF Reencode
  <2>3. /\ tx_infer_type(fields) = t /\ Chain(t, fields.chainId) = Chain(t, c)
        /\ fields.v = raw.v /\ fields.r = raw.r /\ fields.s = raw.s /\ fields.body = raw.body
    BY <2>1, <2>2, DecodedFields
  <2>4. ASSUME stage = "unsigned" PROVE raw' = raw
    <3>1. raw = RawOf(t, c, intent.body, 0, UnsignedV(t, c))
      BY <2>4 DEF IInv
    <3>2. raw.r = 0 /\ raw.s = 0 /\ raw.v = UnsignedV(t, c) /\ raw.body = intent.body
      BY <3>1 DEF RawOf
    <3>3. tx_encode(fields) = RawOf(t, c, fields.body, 0, UnsignedV(t, c))
      BY <2>1, <2>3, <3>2, EncodesUnsigned DEF IntendedChain
    <3>. QED
      BY <2>2, <2>3, <3>1, <3>2, <3>3
  <2>5. ASSUME stage = "signed" PROVE raw' = raw
    <3>. DEFINE p == signature.parity
    <3>1. raw = RawOf(t, c, intent.body, 1, SignedV(t, c, p)) /\ p \in {0, 1}
      BY <2>5 DEF IInv
    <3>2. raw.r = 1 /\ raw.s = 1 /\ raw.v = SignedV(t, c, p) /\ raw.body = intent.body
      BY <3>1 DEF RawOf
    <3>3. tx_encode(fields) = RawOf(t, c, fields.body, 1, SignedV(t, c, p))
      BY <2>1, <2>3, <3>1, <3>2, EncodesSigned DEF IntendedChain
    <3>. QED
      BY <2>2, <2>3, <3>1, <3>2, <3>3
  <2>6. raw' = raw
    BY <1>2, <2>4, <2>5
  <2>7. UNCHANGED vars
    BY <2>2, <2>6 DEF vars
  <2>. QED
    BY <2>7, StutterKeeps
<1>. QED
  BY <1>1, <1>2 DEF Reencode

LEMMA NextKeeps ==
  ASSUME 0 \notin ChainIds, IInv, [Next]_vars
  PROVE  IInv'
<1>1. CASE UNCHANGED vars
  BY <1>1, StutterKeeps
<1>. QED
  BY <1>1, EncodeUnsignedKeeps, SignAndEncodeKeeps, DecodeKeeps, ReencodeKeeps DEF Next

-----------------------------------------------------------------------------
(* The theorems: whatever chain id but 0 the client chooses.               *)

THEOREM Invariance == ASSUME 0 \notin ChainIds PROVE Spec => []IInv
<1>1. Init => IInv
  BY InitIInv
<1>2. IInv /\ [Next]_vars => IInv'
  BY NextKeeps
<1>. QED
  BY <1>1, <1>2, PTL DEF Spec

\* The hash that decode reports for the signed transaction is the one that was
\* signed (_tx_signing_hash against _tx_legacy_chain_v).
THEOREM SigningHashIsStable == ASSUME 0 \notin ChainIds PROVE Spec => []SigningHashStable
<1>1. IInv => SigningHashStable
  BY ReportedIntent DEF IInv, SigningHashStable
<1>. QED
  BY <1>1, Invariance, PTL

\* Decode recovers the digest and parity that were signed, so ecrecover gives the
\* signer, and reports nobody for an unsigned transaction.
THEOREM SignerIsShown == ASSUME 0 \notin ChainIds PROVE Spec => []SignerShown
<1>1. ASSUME IInv, stage = "signed" PROVE from(raw) = "signer"
  <2>. DEFINE p == signature.parity
  <2>1. /\ raw = RawOf(raw.type, intent.chainId, intent.body, 1,
                       SignedV(raw.type, intent.chainId, p))
        /\ p \in {0, 1} /\ signature.digest = DigestOf(raw.type, intent.chainId, intent.body)
    BY <1>1 DEF IInv
  <2>2. raw.r = 1 /\ raw.s = 1
    BY <2>1 DEF RawOf
  <2>3. rec_id(raw) = p
    BY <1>1, <2>1, ReportedIntent, SignedHash DEF IntendedChain
  <2>4. signing_hash(raw) = signature.digest
    BY <1>1, <2>1, ReportedIntent
  <2>. QED
    BY <2>1, <2>2, <2>3, <2>4 DEF from
<1>2. ASSUME IInv, stage = "unsigned" PROVE from(raw) = "nobody"
  <2>1. raw.r = 0
    BY <1>2 DEF IInv, RawOf
  <2>. QED
    BY <2>1 DEF from
<1>3. IInv => SignerShown
  BY <1>1, <1>2 DEF SignerShown
<1>. QED
  BY <1>3, Invariance, PTL

\* Decode reports the chain id the client chose, although a legacy transaction
\* carries it only inside v.
THEOREM ChainIsKept == ASSUME 0 \notin ChainIds PROVE Spec => []ChainKept
<1>1. IInv => ChainKept
  BY ReportedIntent DEF ChainKept, Chain
<1>. QED
  BY <1>1, Invariance, PTL

\* Signing as documented never contradicts _tx_legacy_chain_v.
THEOREM SigningNeverRefused == ASSUME 0 \notin ChainIds PROVE Spec => []NeverRefused
<1>1. IInv => NeverRefused
  BY DEF IInv, NeverRefused
<1>. QED
  BY <1>1, Invariance, PTL

-----------------------------------------------------------------------------
(* Decode and encode again: for every chain id, 0 included, and every raw   *)
(* transaction from elsewhere.  The invariant needed is only that of types. *)

RawTxs == {t \in [type : Types, chainId : Nat, v : Nat, r : {0, 1}, s : {0, 1},
                  body : Bodies, pad : {0, 1}] : t.type = 0 => t.chainId = 0}
FieldObjects == [type : Types \cup {None}, markers : SUBSET Markers,
                 chainId : Nat \cup {None}, v : Nat \cup {None},
                 r : {0, 1}, s : {0, 1}, body : Bodies]

TypedInv == /\ fields \in FieldObjects
            /\ raw = Refused \/ raw \in RawTxs
            /\ stage \in {"unsigned", "signed", "wild"} => raw \in RawTxs

LEMMA HalfOf ==
  ASSUME NEW v \in Nat, v >= 35
  PROVE  (v - 35) \div 2 \in Nat
  OBVIOUS

\* A legacy v stands for a chain id or for none.
LEMMA LegacyChainTyped ==
  ASSUME NEW t \in RawTxs
  PROVE  legacy_chain(t) \in Nat \cup {None}
<1>1. t.v \in Nat
  BY DEF RawTxs
<1>. QED
  BY <1>1, HalfOf DEF legacy_chain

LEMMA DecodeTyped ==
  ASSUME NEW t \in RawTxs
  PROVE  decode_fields(t) \in FieldObjects
<1>1. MarkersOf(t.type) \in SUBSET Markers
  BY DEF MarkersOf, Markers
<1>2. (IF t.type = 0 THEN legacy_chain(t) ELSE t.chainId) \in Nat \cup {None}
  BY LegacyChainTyped DEF RawTxs
<1>. QED
  BY <1>1, <1>2 DEF decode_fields, FieldObjects, RawTxs

LEMMA EncodeTyped ==
  ASSUME NEW f \in FieldObjects
  PROVE  tx_encode(f) = Refused \/ tx_encode(f) \in RawTxs
<1>1. tx_infer_type(f) \in Types
  BY InferredType DEF FieldObjects
<1>2. /\ f.chainId \in Nat \cup {None} /\ f.v \in Nat \cup {None} /\ f.r \in {0, 1}
      /\ f.s \in {0, 1} /\ f.body \in Bodies
  BY DEF FieldObjects
<1>3. Leaf(f.chainId) \in Nat /\ Leaf(f.v) \in Nat
  BY <1>2 DEF Leaf
<1>4. legacy_chain_v(f) = None \/ legacy_chain_v(f) \in Nat
  BY <1>2, <1>3 DEF legacy_chain_v
<1>. QED
  BY <1>1, <1>2, <1>3, <1>4 DEF tx_encode, RawTxs

\* The chain id that decode reads from a legacy v never contradicts that v.
LEMMA ChainAgrees ==
  ASSUME NEW t \in RawTxs, t.type = 0
  PROVE  legacy_chain_v(decode_fields(t)) = t.v
<1>. DEFINE f == decode_fields(t)
<1>1. f.chainId = legacy_chain(t) /\ f.v = t.v /\ f.r = t.r /\ f.s = t.s
  BY DEF decode_fields
<1>2. t.v \in Nat /\ t.v # None /\ t.r \in {0, 1} /\ t.s \in {0, 1}
  BY NoneIsNoNumber DEF RawTxs
<1>3. Leaf(t.v) = t.v
  BY <1>2 DEF Leaf
<1>. HIDE DEF f
<1>4. CASE Unsigned(t)
  <2>1. legacy_chain(t) = IF t.v = 0 THEN None ELSE t.v
    BY <1>4 DEF legacy_chain
  <2>. QED
    BY <1>1, <1>2, <1>3, <1>4, <2>1 DEF legacy_chain_v, Unsigned, f
<1>5. CASE ~Unsigned(t) /\ t.v >= 35
  <2>1. legacy_chain(t) = (t.v - 35) \div 2 /\ legacy_chain(t) # None
    BY <1>2, <1>5, HalfOf, NoneIsNoNumber DEF legacy_chain
  <2>2. f.r = 1 \/ f.s = 1
    BY <1>1, <1>2, <1>5 DEF Unsigned
  <2>3. ~(f.v < 35) /\ f.v # None /\ f.chainId # None /\ (f.v - 35) \div 2 = f.chainId
    BY <1>1, <1>2, <1>5, <2>1
  <2>. QED
    BY <1>1, <2>2, <2>3 DEF legacy_chain_v, f
<1>6. CASE ~Unsigned(t) /\ ~(t.v >= 35)
  <2>1. legacy_chain(t) = None
    BY <1>6 DEF legacy_chain
  <2>. QED
    BY <1>1, <1>3, <2>1 DEF legacy_chain_v, f
<1>. QED
  BY <1>4, <1>5, <1>6

LEMMA Reencodes ==
  ASSUME NEW t \in RawTxs
  PROVE  tx_encode(decode_fields(t)) = [t EXCEPT !.pad = 0]
<1>. DEFINE f == decode_fields(t)
<1>1. /\ f.type = None /\ f.markers = MarkersOf(t.type) /\ f.v = t.v
      /\ f.r = t.r /\ f.s = t.s /\ f.body = t.body
      /\ t.type # 0 => f.chainId = t.chainId
  BY DEF decode_fields
<1>2. /\ t.type \in Types /\ t.v \in Nat /\ t.chainId \in Nat /\ (t.type = 0 => t.chainId = 0)
      /\ [t EXCEPT !.pad = 0] = [type |-> t.type, chainId |-> t.chainId, v |-> t.v, r |-> t.r,
                                s |-> t.s, body |-> t.body, pad |-> 0]
  BY DEF RawTxs
<1>3. t.type = 0 => legacy_chain_v(f) = t.v
  BY ChainAgrees
<1>. HIDE DEF f
<1>4. tx_infer_type(f) = t.type
  BY <1>1, <1>2, InferredAgain
<1>5. t.v # None /\ Leaf(f.v) = t.v /\ (t.type # 0 => Leaf(f.chainId) = t.chainId)
  BY <1>1, <1>2, NoneIsNoNumber DEF Leaf
<1>6. tx_encode(f) = [type |-> t.type, chainId |-> t.chainId, v |-> t.v, r |-> t.r,
                      s |-> t.s, body |-> t.body, pad |-> 0]
  BY <1>1, <1>2, <1>3, <1>4, <1>5 DEF tx_encode
<1>. QED
  BY <1>2, <1>6 DEF f

LEMMA TypedInvariance == Spec => []TypedInv
<1>1. Init => TypedInv
  <2>1. ASSUME Init, stage = "new" PROVE TypedInv
    <3>1. raw = Refused /\ fields = intent /\ intent \in Intents
      BY <2>1 DEF Init, Intents
    <3>2. fields \in FieldObjects
      BY <3>1, ConstantsAssumption DEF Intents, FieldObjects
    <3>. QED
      BY <2>1, <3>1, <3>2 DEF TypedInv
  <2>2. ASSUME Init, stage = "wild" PROVE TypedInv
    <3>1. /\ raw \in [type : Types, chainId : ChainIds \cup {0}, v : WildVs,
                      r : {0, 1}, s : {0, 1}, body : Bodies, pad : {0, 1}]
          /\ raw.type = 0 => raw.chainId = 0
          /\ fields = decode_fields(raw)
      BY <2>2 DEF Init
    <3>2. raw \in RawTxs
      <4>1. ChainIds \cup {0} \subseteq Nat /\ WildVs \subseteq Nat
        BY ConstantsAssumption
      <4>2. raw \in [type : Types, chainId : Nat, v : Nat, r : {0, 1}, s : {0, 1},
                     body : Bodies, pad : {0, 1}]
        BY <3>1, <4>1
      <4>. QED
        BY <3>1, <4>2 DEF RawTxs
    <3>. QED
      BY <3>1, <3>2, DecodeTyped DEF TypedInv
  <2>. QED
    BY <2>1, <2>2 DEF Init
<1>2. TypedInv /\ [Next]_vars => TypedInv'
  <2>. SUFFICES ASSUME TypedInv, [Next]_vars
                PROVE  TypedInv'
    OBVIOUS
  <2>1. CASE EncodeUnsigned
    BY <2>1, EncodeTyped DEF EncodeUnsigned, TypedInv
  <2>2. ASSUME NEW parity \in {0, 1}, SignAndEncode(parity)
        PROVE  TypedInv'
    <3>. DEFINE v == SignedV(tx_infer_type(fields), fields.chainId, parity)
    <3>1. fields.chainId \in Nat \cup {None}
      BY DEF TypedInv, FieldObjects
    <3>2. v \in Nat
      BY <3>1 DEF SignedV
    <3>. HIDE DEF v
    <3>3. fields' = [fields EXCEPT !.r = 1, !.s = 1, !.v = v]
      BY <2>2 DEF SignAndEncode, v
    <3>4. fields' \in FieldObjects
      BY <3>2, <3>3 DEF TypedInv, FieldObjects
    <3>. QED
      BY <2>2, <3>4, EncodeTyped DEF SignAndEncode, TypedInv
  <2>3. CASE Decode
    BY <2>3, DecodeTyped DEF Decode, TypedInv
  <2>4. CASE Reencode
    <3>1. raw \in RawTxs /\ raw' = [raw EXCEPT !.pad = 0]
      BY <2>4, Reencodes DEF Reencode, TypedInv
    <3>2. raw' \in RawTxs
      BY <3>1 DEF RawTxs
    <3>. QED
      BY <2>4, <3>2 DEF Reencode, TypedInv
  <2>5. CASE UNCHANGED vars
    BY <2>5 DEF vars, TypedInv
  <2>. QED
    BY <2>1, <2>2, <2>3, <2>4, <2>5 DEF Next
<1>. QED
  BY <1>1, <1>2, PTL DEF Spec

\* Encoding what _tx_decode reports gives the transaction back up to padding, for
\* whatever raw transaction: of any type, with any v, signed or not.
THEOREM ReencodeIsIdentity == Spec => []ReencodeIdentity
<1>1. TypedInv => ReencodeIdentity
  BY Reencodes DEF TypedInv, ReencodeIdentity
<1>. QED
  BY <1>1, TypedInvariance, PTL
=============================================================================
