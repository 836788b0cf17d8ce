----------------------------- MODULE Preimages ------------------------------
(***************************************************************************)
(* What is hashed for somebody to sign, or to deploy at, when it is not    *)
(* typed data: a message, an authorization, a transaction, an address.     *)
(***************************************************************************)
EXTENDS Words

CONSTANTS Ten,       \* the base a length is written in
          Nineteen, LetterE  \* the bytes 0x19 and E

ASSUME PreimageAssumption ==
  /\ Ten \in 2..Base - 1 /\ Nineteen \in 6..Str - 1 /\ LetterE \in 2..Base - 1
  /\ Nesting > 0

\* The digits of a length; between E and the digits the text is always the same.
length_digits(n) == IF n = 0 THEN <<0>> ELSE Spelled(n, Ten)

eip191(message) == Plain(<<Nineteen, LetterE>> \o length_digits(Len(message)) \o message)

\* Typed data, once its domain and its struct are hashed.
signable(domain, struct) == Plain(<<Nineteen, 1>>) \o domain \o struct

RlpList(leaves) == rlp_encode[ListOf([i \in DOMAIN leaves |-> Leaf(leaves[i])])]

eip7702(auth) ==
  Plain(<<5>> \o RlpList(<<minimal_bytes(auth.chain), ToBytes(auth.address, AddrLen),
                           minimal_bytes(auth.nonce)>>))

\* A transaction before it is signed: its type and its fields, as items.
tx_payload(tx) ==
  Plain((IF tx.type = 0 THEN <<>> ELSE <<tx.type>>) \o rlp_encode[ListOf(tx.fields)])

create(new) == Plain(RlpList(<<ToBytes(new.deployer, AddrLen), minimal_bytes(new.nonce)>>))
create2(new) == Plain(<<Base - 1>> \o ToBytes(new.deployer, AddrLen)) \o new.salt
                  \o keccak256(Plain(new.code))

PreimageKinds == {"eip191", "eip7702", "tx", "create", "create2"}
preimage(kind, arg) == CASE kind = "eip191"  -> eip191(arg)
                         [] kind = "eip7702" -> eip7702(arg)
                         [] kind = "tx"      -> tx_payload(arg)
                         [] kind = "create"  -> create(arg)
                         [] kind = "create2" -> create2(arg)
=============================================================================
