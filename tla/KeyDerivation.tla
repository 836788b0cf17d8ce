--------------------------- MODULE KeyDerivation ---------------------------
(***************************************************************************)
(* Keys made of other keys: bip39 action=to_seed, bip32_derive, and        *)
(* derive_key.  A byte of an HMAC is its hash, its place, what it reads of *)
(* the key, and the message; a private key is the sequence of the left     *)
(* halves it is the sum of.                                                *)
(***************************************************************************)
EXTENDS Words, Mnemonic, PasswordHash

CONSTANTS Hardened,    \* the bit of a hardened step (2^31)
          MinSeed,     \* bytes of the shortest seed (16)
          SeedLen,     \* bytes of the seed of a sentence (64)
          HashLen(_),  \* bytes of the HMAC of a hash (32 for sha256)
          MaxBlocks,   \* the blocks that the counter of hkdf can count (255)
          MaxKeyLength \* bytes of the longest key that is derived (1024)

ASSUME KeyAssumption ==
  /\ {Hardened, MinSeed, SeedLen, MaxBlocks, MaxKeyLength} \subseteq Nat \ {0}
  /\ MinSeed <= SeedLen /\ MaxBlocks < Base

hmac_byte(hash, i, key, message) == <<"hmac", hash, i, hmac_key(hash, key), message>>
LeftHalf(key, message) == hmac_byte("sha512", 1, key, message)
RightHalf(key, message) == hmac_byte("sha512", 2, key, message)

-----------------------------------------------------------------------------
(* A path is what is between its slashes: the number of a step, -1 for     *)
(* what is none, and its mark; the first may be m.                         *)

Marks == {"'", "h", "H"}
Step(num, mark) == [num |-> num, mark |-> mark]

path_raises(parts) ==
  \E i \in DOMAIN parts : parts[i].num \notin 0..Hardened - 1

index_of(part) == IF part.mark \in Marks THEN part.num + Hardened ELSE part.num

\* m alone, or in front of the steps, is not one of them.
parse_path(text) ==
  LET parts == IF text # <<>> /\ text[1].mark = "m" THEN Tail(text) ELSE text
  IN  When(~path_raises(parts), [i \in DOMAIN parts |-> index_of(parts[i])])

bip32_master(seed) ==
  [key |-> <<LeftHalf(Text(<<"Bitcoin seed">>), seed)>>,
   chain |-> <<RightHalf(Text(<<"Bitcoin seed">>), seed)>>]

\* The data of a hardened step is the parent's private key, that of the others its
\* public key.
bip32_ckd_priv(parent, index) ==
  LET number == <<<<"index", index, 0>>>>
      data == IF index >= Hardened THEN Plain(<<0>>) \o <<<<"key", parent.key, 0>>>> \o number
              ELSE <<<<"public", parent.key, 0>>>> \o number
  IN  [key |-> Append(parent.key, LeftHalf(parent.chain, data)),
       chain |-> <<RightHalf(parent.chain, data)>>]

bip32_raises(seed, text) == Len(seed) < MinSeed \/ ~parse_path(text).ok
bip32_derive(seed, text) == Fold(bip32_ckd_priv, bip32_master(seed), parse_path(text).value)

-----------------------------------------------------------------------------
(* A sentence as it was typed: each word with its case; blanks are left    *)
(* out.  PBKDF2 is the pair of the sentence and the salt.                  *)

LowerWords(sentence) == [i \in DOMAIN sentence |-> sentence[i].word]
seed_raises(sentence) == ~bip39_to_entropy(LowerWords(sentence)).ok
bip39_to_seed(sentence, passphrase) ==
  [i \in 1..SeedLen |->
     <<"pbkdf2", i, LowerWords(sentence), Text(<<"mnemonic">> \o passphrase), 0>>]

-----------------------------------------------------------------------------
(* derive_key.                                                             *)

HkdfHashes == {"sha1", "sha256", "sha384", "sha512"}
KdfDefaults == [pbkdf2 |-> [iterations |-> 600000, prf |-> "sha256"],
                scrypt |-> [ln |-> 14, r |-> 8, p |-> 1],
                hkdf   |-> [hash |-> "sha256", info |-> <<>>]]

hkdf_raises(hash, length) == length > MaxBlocks * HashLen(hash)
\* The blocks that it takes, each hashed with the one before and its number.
hkdf(ikm, salt, info, hash, length) ==
  LET Hmac(key, message) == [i \in 1..HashLen(hash) |-> hmac_byte(hash, i, key, message)]
      prk == Hmac(salt, ikm)
      block[n \in Nat] == IF n = 0 THEN <<>> ELSE Hmac(prk, block[n - 1] \o info \o Plain(<<n>>))
  IN  Prefix(FlattenSeq([n \in 1..DivUp(length, HashLen(hash)) |-> block[n]]), length)

derive_raises(call) ==
  LET merged == merge_params(call.params, KdfDefaults[call.kdf])
  IN  \/ call.length \notin 1..MaxKeyLength
      \/ ~merged.ok
      \/ call.kdf = "pbkdf2" /\ merged.value.prf \notin Prfs
      \/ call.kdf = "hkdf" /\ \/ merged.value.hash \notin HkdfHashes
                              \/ hkdf_raises(merged.value.hash, call.length)

\* A salt that is left out is an empty one.
derive_key(call) ==
  LET p == merge_params(call.params, KdfDefaults[call.kdf]).value
  IN  CASE call.kdf = "pbkdf2" -> pbkdf2(call.password, call.salt, p, call.length)
        [] call.kdf = "scrypt" -> scrypt(call.password, call.salt, p, call.length)
        [] call.kdf = "hkdf"   -> hkdf(call.password, call.salt, p.info, p.hash, call.length)
=============================================================================
