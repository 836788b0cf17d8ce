------------------------------- MODULE Words -------------------------------
(***************************************************************************)
(* What every hash is made of.  A byte is <<n>>, n below Base; the bytes   *)
(* of a hash are <<i, preimage>>, so that a hash is known by its preimage; *)
(* a symbol of a text is one byte, <<"text", symbol, 0>>.                  *)
(***************************************************************************)
EXTENDS Rlp

CONSTANTS Word,      \* bytes of a word (32)
          AddrLen    \* bytes of an address (20)

ASSUME WordAssumption == {Word, AddrLen} \subseteq Nat \ {0} /\ AddrLen < Word

ToBytes(n, width) == Padded(n, Base, width)
Plain(bytes) == [i \in DOMAIN bytes |-> <<bytes[i]>>]
Text(symbols) == [i \in DOMAIN symbols |-> <<"text", symbols[i], 0>>]
keccak256(preimage) == [i \in 1..Word |-> <<i, preimage>>]

\* A number in a word, modulo what the word holds; an address, modulo what it holds.
encode_int(n) == Plain(ToBytes(n, Word))
encode_address(n) == Plain(Repeat(0, Word - AddrLen) \o ToBytes(n, AddrLen))
=============================================================================
