------------------------------ MODULE TxCodec ------------------------------
(***************************************************************************)
(* eth_tx_codec and the way a client uses it: encode a transaction's       *)
(* fields unsigned, sign the reported signing hash, encode again with the  *)
(* signature, decode, and encode what was decoded, in any order; or start  *)
(* from a raw transaction found elsewhere.                                 *)
(*                                                                         *)
(* Kept of a transaction: its type and what type inference looks at, the   *)
(* chain id, and v (the yParity of a typed one), r and s.  All its other   *)
(* fields are one `body`; `pad` says whether some leaf of it is written in *)
(* a longer form than encode would give it (a leading zero, a short `to`). *)
(* A hash is its preimage; r and s are 0 or 1, 1 for any non-zero value.   *)
(***************************************************************************)
EXTENDS Integers

CONSTANTS Bodies,     \* the other fields' values
          ChainIds,   \* chain ids a client may choose
          WildVs,     \* values of v or yParity in raw transactions from elsewhere
          None        \* an absent field

ASSUME ConstantsAssumption == /\ ChainIds \subseteq Nat
                              /\ WildVs \subseteq Nat
                              /\ None \notin Nat

Types == 0..3
\* The field names type inference looks for.
Markers == {"accessList", "maxFeePerGas", "maxPriorityFeePerGas",
            "maxFeePerBlobGas", "blobVersionedHashes"}

\* _TX_SIGNED_FIELDS: the markers among the fields of each type.
MarkersOf(type) ==
  IF type = 0 THEN {}
  ELSE IF type = 1 THEN {"accessList"}
  ELSE IF type = 2 THEN {"accessList", "maxFeePerGas", "maxPriorityFeePerGas"}
  ELSE Markers

\* Mutant (ReencodeIdentity): the access list is looked for first.
tx_infer_type_ListFirst(f) ==
  IF f.type # None THEN f.type
  ELSE IF "accessList" \in f.markers THEN 1
  ELSE IF f.markers \cap {"blobVersionedHashes", "maxFeePerBlobGas"} # {} THEN 3
  ELSE IF f.markers # {} THEN 2 ELSE 0

tx_infer_type(f) ==
  IF f.type # None THEN f.type
  ELSE IF f.markers \cap {"blobVersionedHashes", "maxFeePerBlobGas"} # {} THEN 3
  ELSE IF f.markers \cap {"maxFeePerGas", "maxPriorityFeePerGas"} # {} THEN 2
  ELSE IF "accessList" \in f.markers THEN 1
  ELSE 0

-----------------------------------------------------------------------------
(* Encoding.  A fields object has type, markers, chainId, v, r, s and body, *)
(* where None is a missing key; a raw transaction has them all as numbers.  *)

\* A missing numeric field is the integer 0.
Leaf(x) == IF x = None THEN 0 ELSE x

Refused == [type |-> None, chainId |-> 0, v |-> 0, r |-> 0, s |-> 0, body |-> None, pad |-> 0]

\* Mutant (NeverRefused): the offset of an EIP-155 v is off by one.
legacy_chain_v_Offset(f) ==
  LET isSigned == f.r = 1 \/ f.s = 1
  IN  IF f.chainId = None THEN Leaf(f.v)
      ELSE IF ~isSigned THEN f.chainId
      ELSE IF f.v = None \/ f.v < 36 \/ (f.v - 36) \div 2 # f.chainId THEN None
      ELSE f.v

\* _tx_legacy_chain_v: the v a legacy transaction is written with, or None when
\* its chainId and v contradict each other.
legacy_chain_v(f) ==
  LET isSigned == f.r = 1 \/ f.s = 1
  IN  IF f.chainId = None THEN Leaf(f.v)
      ELSE IF ~isSigned
        THEN IF f.v \in {None, f.chainId} THEN f.chainId ELSE None
      ELSE IF f.v = None \/ f.v < 35 \/ (f.v - 35) \div 2 # f.chainId THEN None
      ELSE f.v

\* _tx_encode
tx_encode(f) ==
  LET type == tx_infer_type(f)
      v    == IF type = 0 THEN legacy_chain_v(f) ELSE Leaf(f.v)
  IN  IF v = None THEN Refused
      ELSE [type |-> type, chainId |-> IF type = 0 THEN 0 ELSE Leaf(f.chainId),
            v |-> v, r |-> f.r, s |-> f.s, body |-> f.body, pad |-> 0]

-----------------------------------------------------------------------------
(* Decoding.                                                               *)

Unsigned(raw) == raw.r = 0 /\ raw.s = 0

\* Mutants: the unsigned form's v is taken for a signature's (SigningHashStable),
\* or a legacy signature's parity is read without the offset (SignerShown).
legacy_chain_NoUnsigned(raw) ==
  IF raw.v >= 35 THEN (raw.v - 35) \div 2 ELSE None
legacy_rec_id_NoOffset(raw) ==
  IF Unsigned(raw) THEN None ELSE IF raw.v >= 35 THEN raw.v % 2 ELSE raw.v - 27

\* _tx_signing_hash: the chain id a legacy transaction's v stands for.
legacy_chain(raw) ==
  IF Unsigned(raw) THEN (IF raw.v = 0 THEN None ELSE raw.v)
  ELSE IF raw.v >= 35 THEN (raw.v - 35) \div 2
  ELSE None

legacy_rec_id(raw) ==
  IF Unsigned(raw) THEN None
  ELSE IF raw.v >= 35 THEN (raw.v - 35) % 2
  ELSE IF raw.v \in {27, 28} THEN raw.v - 27
  ELSE None

\* What is hashed for signing.  With a chain id a legacy transaction adds
\* [chainId, 0, 0] to its six fields.
signing_hash(raw) ==
  [type |-> raw.type, body |-> raw.body, pad |-> raw.pad,
   chainId |-> IF raw.type = 0 THEN legacy_chain(raw) ELSE raw.chainId]

rec_id(raw) == IF raw.type = 0 THEN legacy_rec_id(raw) ELSE raw.v

\* Mutant (ChainKept): the chain id a legacy v implies is not reported.
decode_fields_NoChain(raw) ==
  [type |-> None, markers |-> MarkersOf(raw.type),
   chainId |-> IF raw.type = 0 THEN None ELSE raw.chainId,
   v |-> raw.v, r |-> raw.r, s |-> raw.s, body |-> raw.body]

\* _tx_decode: the fields it reports; rendering them drops any padding.
decode_fields(raw) ==
  [type |-> None, markers |-> MarkersOf(raw.type),
   chainId |-> IF raw.type = 0 THEN legacy_chain(raw) ELSE raw.chainId,
   v |-> raw.v, r |-> raw.r, s |-> raw.s, body |-> raw.body]

-----------------------------------------------------------------------------
VARIABLES
  intent,   \* the fields object the client starts from
  fields,   \* the fields object it has now
  raw,      \* the raw transaction it has now; Refused before there is one
  stage,    \* "new", "unsigned", "signed", "refused", or "wild"
  signature \* what was signed and how: [digest, parity], parity None before

vars == <<intent, fields, raw, stage, signature>>

NotSigned == [digest |-> signing_hash(Refused), parity |-> None]

\* A client that builds a transaction, or has a raw one from elsewhere.
Init == /\ \/ /\ intent \in [type : Types \cup {None}, markers : SUBSET Markers,
                              chainId : ChainIds \cup {None}, v : {None},
                              r : {0}, s : {0}, body : Bodies]
              /\ fields = intent /\ raw = Refused /\ stage = "new"
           \/ /\ raw \in [type : Types, chainId : ChainIds \cup {0}, v : WildVs,
                           r : {0, 1}, s : {0, 1}, body : Bodies, pad : {0, 1}]
              /\ raw.type = 0 => raw.chainId = 0
              /\ fields = decode_fields(raw) /\ intent = fields /\ stage = "wild"
        /\ signature = NotSigned

\* action=encode of the unsigned fields
EncodeUnsigned ==
  /\ stage = "new"
  /\ raw' = tx_encode(fields)
  /\ stage' = IF raw' = Refused THEN "refused" ELSE "unsigned"
  /\ UNCHANGED <<intent, fields, signature>>

\* The v the documentation tells the client to write for a parity.
SignedV(type, chainId, parity) ==
  IF type # 0 THEN parity
  ELSE IF chainId = None THEN 27 + parity ELSE chainId * 2 + 35 + parity

\* The client signs the reported hash and encodes again with r, s and v.
SignAndEncode(parity) ==
  /\ stage = "unsigned"
  /\ signature' = [digest |-> signing_hash(raw), parity |-> parity]
  /\ fields' = [fields EXCEPT !.r = 1, !.s = 1,
                  !.v = SignedV(tx_infer_type(fields), fields.chainId, parity)]
  /\ raw' = tx_encode(fields')
  /\ stage' = IF raw' = Refused THEN "refused" ELSE "signed"
  /\ UNCHANGED intent

\* action=decode; the client goes on with the decoded fields.
Decode == /\ stage \in {"unsigned", "signed", "wild"}
          /\ fields' = decode_fields(raw)
          /\ UNCHANGED <<intent, raw, stage, signature>>

\* action=encode of whatever fields it has
Reencode == /\ stage \in {"unsigned", "signed", "wild"}
            /\ fields = decode_fields(raw)
            /\ raw' = tx_encode(fields)
            /\ UNCHANGED <<intent, fields, stage, signature>>

Next == \/ EncodeUnsigned \/ Decode \/ Reencode
        \/ \E parity \in {0, 1} : SignAndEncode(parity)

Spec == Init /\ [][Next]_vars

-----------------------------------------------------------------------------
(* Properties.                                                             *)

\* The hash decode reports for the signed transaction is the hash that was
\* signed, although a legacy one's v changes meaning in between.
SigningHashStable == stage = "signed" => signing_hash(raw) = signature.digest

\* The `from` of decode: ecrecover gives the signer's address only for the digest
\* and parity that were signed, and takes no recovery id above 3.
from(t) == IF rec_id(t) \notin 0..3 \/ t.r = 0 \/ t.s = 0 THEN "nobody"
           ELSE IF signing_hash(t) = signature.digest /\ rec_id(t) = signature.parity
                THEN "signer" ELSE "somebody"

\* Decode shows the signer of every transaction signed as documented, and nobody
\* for an unsigned one.
SignerShown == /\ stage = "signed" => from(raw) = "signer"
               /\ stage = "unsigned" => from(raw) = "nobody"

\* The chain id the client chose is the one decode reports, before and after
\* signing (a typed transaction without one is for chain 0).
ChainKept ==
  stage \in {"unsigned", "signed"} =>
    decode_fields(raw).chainId = IF raw.type = 0 THEN intent.chainId
                                 ELSE Leaf(intent.chainId)

\* Encoding what decode reports gives the transaction back, for any raw input,
\* up to padding: type inference finds the type again, and the chain id decode
\* adds to a legacy transaction never contradicts its v.
ReencodeIdentity == raw # Refused => tx_encode(decode_fields(raw)) = [raw EXCEPT !.pad = 0]

\* Signing as documented is never refused.
NeverRefused == stage # "refused"
=============================================================================
