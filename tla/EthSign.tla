------------------------------ MODULE EthSign ------------------------------
(***************************************************************************)
(* eth_sign: a digest is signed with the key of a file; the client then    *)
(* converts the signature between its wire forms, respells it, asks for    *)
(* the signer and verifies it, for as long as it likes.                    *)
(*                                                                         *)
(* The nonces of RFC 6979 (HMAC-SHA256) are any numbers of W bits.  An     *)
(* address, the hash of a public key, is the key itself.  W is 256 in the  *)
(* code.                                                                   *)
(***************************************************************************)
EXTENDS Secp256k1

CONSTANTS W2,        \* 2^W: a digest, a nonce, an r, an s have W bits
          TopBit,    \* 2^(W-1): where an EIP-2098 signature keeps the parity
          Keys, Digests,   \* the keys and digests of a run
          Presented, \* wire forms a client brings from elsewhere, genuine or not
          Addresses, \* the addresses a client asks `verify` about
          Absent     \* a field that a signature object leaves out

HALF_N == Q \div 2
Signature == [r : 1..(Q - 1), s : 1..(Q - 1), parity : {0, 1}]
Nonces == 0..(W2 - 1)

\* The wire forms: 65 bytes r || s || v, 64 bytes r || vs, and an object of
\* integers, any of which may be missing.  A compact form's s is its vs.
Word == 0..(W2 - 1)
Entry == Int \cup {Absent}
Packed == [form : {"packed65"}, r : Word, s : Word, v : 0..255, yParity : {Absent}]
Compact == [form : {"eip2098"}, r : Word, s : Word, v : {Absent}, yParity : {Absent}]
Object == [form : {"rsv"}, r : Entry, s : Entry, v : Entry, yParity : Entry]
Wires == Packed \cup Compact \cup Object

ASSUME WidthAssumption == /\ TopBit \in Nat \ {0} /\ W2 = 2 * TopBit
                          /\ HALF_N < TopBit
ASSUME AbsentAssumption == Absent \notin Int
ASSUME InputsAssumption == /\ Keys \subseteq 1..(Q - 1)
                           /\ Digests \subseteq 0..(W2 - 1)
                           /\ Presented \subseteq Wires
                           /\ Addresses \subseteq Field \X Field

-----------------------------------------------------------------------------
(* Wire forms.                                                             *)

Forms == {"packed65", "eip2098", "rsv"}
NoWire == [form |-> "none", r |-> 0, s |-> 0, v |-> 0, yParity |-> Absent]
Wire(form, r, s, v, y) == [form |-> form, r |-> r, s |-> s, v |-> v, yParity |-> y]

LowS(sig) == sig.s <= HALF_N

\* Mutant (ConversionsKeepSignature): a high s is compacted too.
sig_render_AnyS(sig, form) ==
  IF form = "eip2098" THEN Wire(form, sig.r, (sig.parity * TopBit + sig.s) % W2, Absent, Absent)
  ELSE Wire(form, sig.r, sig.s, 27 + sig.parity, IF form = "rsv" THEN sig.parity ELSE Absent)

\* _sig_render; NoWire stands for the refusal to compact a high s.  The second
\* half of an eip2098 form is its vs.
sig_render(sig, form) ==
  IF form = "eip2098"
    THEN IF LowS(sig) THEN Wire(form, sig.r, sig.parity * TopBit + sig.s, Absent, Absent)
         ELSE NoWire
  ELSE Wire(form, sig.r, sig.s, 27 + sig.parity, IF form = "rsv" THEN sig.parity ELSE Absent)

\* Mutant (VerifySound): the v of an EIP-155 transaction is taken for a parity.
sig_parity_Eip155(v) ==
  IF v \in {0, 1} THEN v ELSE IF v \in {27, 28} THEN v - 27
  ELSE IF v # Absent /\ v >= 35 THEN (v - 35) % 2 ELSE Absent

\* _sig_parity: v is a parity, or 27 more; Absent stands for the refusal of any other.
sig_parity(v) == IF v \in {0, 1} THEN v ELSE IF v \in {27, 28} THEN v - 27 ELSE Absent

\* What a refused wire form holds.
NoSignature == [r |-> 0, s |-> 0, parity |-> 0]

\* _sig_parse: an r, an s or a parity that is missing or out of range is refused.
\* yParity wins over v.
sig_parse(w) ==
  LET compact == w.form = "eip2098"
      sig == [r |-> w.r,
              s |-> IF compact THEN w.s % TopBit ELSE w.s,
              parity |-> IF compact THEN w.s \div TopBit
                         ELSE IF w.yParity # Absent THEN w.yParity ELSE sig_parity(w.v)]
  IN  IF sig \in Signature THEN sig ELSE NoSignature

-----------------------------------------------------------------------------
(* Signing.                                                                *)

\* The s of one round of _secp_sign; k is a nonce in range.
ECDSA_s(d, z, k) ==
  (Inverse_mod(k, Q) * (z + (PubPoint[k][1] % Q) * d)) % Q

\* Mutant (TypeOK): s = 0 is used.
Usable_ZeroS(d, z, k) ==
  k \in 1..(Q - 1) /\ PubPoint[k][1] % Q # 0 /\ PubPoint[k][1] < Q

\* _rfc6979_nonces yields a nonce only in range; the loop then rejects these.
Usable(d, z, k) == /\ k \in 1..(Q - 1)
                   /\ PubPoint[k][1] % Q # 0
                   /\ ECDSA_s(d, z, k) # 0
                   /\ PubPoint[k][1] < Q

\* s -> n - s negates R, flipping its y parity.
Twin(sig) == [sig EXCEPT !.s = Q - @, !.parity = 1 - @]

RawSignature(d, z, k) == [r |-> PubPoint[k][1] % Q, s |-> ECDSA_s(d, z, k),
                          parity |-> PubPoint[k][2] % 2]

\* Mutants: s is negated and the parity stays (SignerRecovered); the nonce is
\* left out of the equation (SignedIsValid).
Signed_NoFlip(d, z, k) ==
  LET raw == RawSignature(d, z, k)
  IN  IF LowS(raw) THEN raw ELSE [raw EXCEPT !.s = Q - @]
Signed_NoInverse(d, z, k) ==
  LET raw == [RawSignature(d, z, k) EXCEPT !.s = (z + (PubPoint[k][1] % Q) * d) % Q]
  IN  IF LowS(raw) THEN raw ELSE Twin(raw)

Signed(d, z, k) ==
  LET raw == RawSignature(d, z, k) IN IF LowS(raw) THEN raw ELSE Twin(raw)

-----------------------------------------------------------------------------
VARIABLES
  key, digest,  \* the private key in the file, and the hash to sign
  wire,         \* the signature as the client has it; NoWire before there is one
  made,         \* the signature it had from the start: signed, or read from what it
                \* brought (NoSignature: refused)
  signed,       \* was it made by action=sign, with key?
  verdict       \* the last answer of verify, or of recover as a "valid" of the address
                \* it gave: [asked, valid]; asked = Infinity: none

vars == <<key, digest, wire, made, signed, verdict>>

NoVerdict == [asked |-> Infinity, valid |-> FALSE]
Init == /\ key \in Keys /\ digest \in Digests
        /\ wire = NoWire /\ made = NoSignature /\ signed = FALSE
        /\ verdict = NoVerdict

\* action=sign: a usable nonce; the ones the loop rejects leave no trace.
Sign == /\ wire = NoWire
        /\ \E k \in Nonces : /\ Usable(key, digest, k)
                             /\ made' = Signed(key, digest, k)
        /\ wire' = sig_render(made', "packed65")
        /\ signed' = TRUE
        /\ UNCHANGED <<key, digest, verdict>>

\* The client starts from a wire form it has from elsewhere.
Present == /\ wire = NoWire
           /\ wire' \in Presented
           /\ made' = sig_parse(wire')
           /\ UNCHANGED <<key, digest, signed, verdict>>

\* action=convert; a refusal changes nothing.
Convert(form) == /\ sig_parse(wire) # NoSignature
                 /\ LET w == sig_render(sig_parse(wire), form)
                    IN  w # NoWire /\ wire' = w
                 /\ UNCHANGED <<key, digest, made, signed, verdict>>

\* The client writes v as a parity, or leaves a yParity that v repeats out of the object.
Respell == /\ wire.form \in {"packed65", "rsv"}
           /\ \/ wire.v \in {27, 28} /\ wire' = [wire EXCEPT !.v = @ - 27]
              \/ wire.yParity # Absent /\ sig_parity(wire.v) = wire.yParity
                 /\ wire' = [wire EXCEPT !.yParity = Absent]
           /\ UNCHANGED <<key, digest, made, signed, verdict>>

\* The client takes the other s of the same signature.
Malleate == /\ wire.form = "packed65" /\ sig_parse(wire) # NoSignature
            /\ wire' = sig_render(Twin(sig_parse(wire)), "packed65")
            /\ UNCHANGED <<key, digest, made, signed, verdict>>

recovered == LET sig == sig_parse(wire)
             IN  ecrecover(digest, sig.r, sig.s, sig.parity)

\* action=recover; no recoverable key is an error, which changes nothing.
Recover == /\ recovered # Infinity
           /\ verdict' = [asked |-> recovered, valid |-> TRUE]
           /\ UNCHANGED <<key, digest, wire, made, signed>>

\* action=verify, with an expected address; a wire form that does not parse is an
\* error, which changes nothing, a signature no key is recovered from "not valid".
Verify(a) == /\ wire # NoWire
             /\ verdict' = IF sig_parse(wire) = NoSignature THEN verdict
                           ELSE [asked |-> a, valid |-> recovered = a]
             /\ UNCHANGED <<key, digest, wire, made, signed>>

Next == \/ Sign \/ Present \/ Respell \/ Malleate \/ Recover
        \/ \E form \in Forms : Convert(form)
        \/ \E a \in Addresses \cup {PubPoint[key]} : Verify(a)

Spec == Init /\ [][Next]_vars

-----------------------------------------------------------------------------
(* Properties.                                                             *)

\* Types and ranges: what eth_sign writes fits its W-bit fields, what it reads is a
\* signature or refused, and what it signs is a signature.
TypeOK == /\ key \in Keys /\ digest \in Digests /\ signed \in BOOLEAN
          /\ wire \in Wires \cup {NoWire}
          /\ {made, sig_parse(wire)} \subseteq Signature \cup {NoSignature}
          /\ signed => made \in Signature

\* Whatever the client does to a signature, in whatever order (convert, respell
\* v, swap its s), eth_sign reads from it the signature that was made or its twin;
\* and nothing makes it take what it refused.
ConversionsKeepSignature ==
  sig_parse(wire) \in IF made = NoSignature THEN {NoSignature} ELSE {made, Twin(made)}

\* Every signature action=sign makes is one the ecrecover of any Ethereum tool
\* maps back to the signer, with a v of 27 or 28, in each of its wire forms.
SignerRecovered == signed => recovered = PubPoint[key]

\* The point R of the textbook verification of (r, s) with the public key a, which
\* uses no recovery id, and whether it accepts.
TextbookR(r, s, z, a) ==
  LET w == Inverse_mod(s, Q)
  IN  ec_add(ec_mul((z * w) % Q, G), ec_mul((r * w) % Q, a))
TextbookValid(r, s, z, a) ==
  /\ r \in 1..(Q - 1) /\ s \in 1..(Q - 1)
  /\ LET R == TextbookR(r, s, z, a) IN R # Infinity /\ R[1] % Q = r

\* What action=sign makes is low-s and passes textbook ECDSA verification.
SignedIsValid ==
  signed => LowS(made) /\ TextbookValid(made.r, made.s, digest, PubPoint[key])

\* The s that a wire form holds, and the parities p it can be said to spell.
SpelledS(w) == IF w.form = "eip2098" THEN w.s % TopBit ELSE w.s
Spells(w, p) == IF w.form = "eip2098" THEN w.s \div TopBit = p
                ELSE IF w.yParity # Absent THEN w.yParity = p
                ELSE w.v \in {p, 27 + p}

\* verify says "valid" of a wire form, and recover names an address, only when the
\* form's own numbers, with the range checks of the textbook, pass textbook
\* verification for that very key, and its v or yParity spells the parity of the
\* point R found there.  The form comes from anywhere: r and s of 0, of the order or
\* more, any v, a yParity that contradicts it, missing fields.
VerifySound ==
  verdict.valid =>
    /\ TextbookValid(wire.r, SpelledS(wire), digest, verdict.asked)
    /\ \E p \in {0, 1} :
         /\ Spells(wire, p)
         /\ TextbookR(wire.r, SpelledS(wire), digest, verdict.asked)[2] % 2 = p
=============================================================================
