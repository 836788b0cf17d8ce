------------------------------ MODULE Mnemonic ------------------------------
(***************************************************************************)
(* bip39: entropy as words that carry their own checksum.  A word is its   *)
(* place in the wordlist; one that is not there is -1.  In the code words  *)
(* have 11 bits, a byte of checksum is taken of SHA-256, and there is one  *)
(* bit of it for every 32 of entropy.                                      *)
(***************************************************************************)
EXTENDS Bytes

CONSTANTS WordBits, CheckEvery,
          Sizes,        \* the lengths of entropy, in bytes
          HashByte(_)   \* the first byte of the entropy's hash

CheckBits(size) == (size * 8) \div CheckEvery
ASSUME MnemonicAssumption == /\ {WordBits, CheckEvery} \subseteq Nat \ {0} /\ Sizes \subseteq Nat
                             /\ \A n \in Sizes : /\ CheckBits(n) \in 1..8
                                                 /\ (n * 8 + CheckBits(n)) % WordBits = 0

check_bits(entropy) == Prefix(BitsOf(<<HashByte(entropy)>>, 8), CheckBits(Len(entropy)))

bip39_accepts(entropy) == Len(entropy) \in Sizes
bip39_encode(entropy) == Groups(BitsOf(entropy, 8) \o check_bits(entropy), WordBits)

\* The sizes of the sentences there are.
WordCounts == {(n * 8 + CheckBits(n)) \div WordBits : n \in Sizes}

\* The entropy behind a sentence that passes every check of validate.
bip39_to_entropy(words) ==
  LET bits    == BitsOf(words, WordBits)
      checked == Len(bits) \div (CheckEvery + 1)
      entropy == Groups(Prefix(bits, Len(bits) - checked), 8)
  IN  IF /\ Len(words) \in WordCounts /\ \A i \in DOMAIN words : words[i] >= 0
         /\ Without(bits, Len(bits) - checked) = check_bits(entropy)
      THEN Ok(entropy) ELSE Raise
=============================================================================
