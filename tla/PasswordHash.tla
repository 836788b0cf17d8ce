--------------------------- MODULE PasswordHash ---------------------------
(***************************************************************************)
(* password_hash, and the parameters that derive_key checks as it does.  A *)
(* byte is a sequence that names it, <<n>> if it is given as n, and the    *)
(* bytes of a stretched password name all that went into it.               *)
(*                                                                         *)
(* A stored string is what is between its dollar signs, the first left     *)
(* out: a name and its parts, a number, the items of a list of parameters, *)
(* <<key, value>> or <<key>>, and base64, which is of bytes or Junk.       *)
(* NoNumber is a text that int() refuses.                                  *)
(***************************************************************************)
EXTENDS Bytes

Argon2Schemes == {"argon2i", "argon2d", "argon2id"}
Prfs == {"sha1", "sha256", "sha512"}
HashDefaults ==
  [bcrypt |-> [rounds |-> 12],
   argon2 |-> [time_cost |-> 3, memory_cost |-> 65536, parallelism |-> 4, hash_len |-> 32],
   scrypt |-> [ln |-> 14, r |-> 8, p |-> 1, dklen |-> 32],
   pbkdf2 |-> [iterations |-> 600000, prf |-> "sha256", dklen |-> 32]]
CostLimits ==
  [rounds |-> 4..16, time_cost |-> 1..16, memory_cost |-> 8..1048576, parallelism |-> 1..16,
   ln |-> 1..20, r |-> 1..32, p |-> 1..16, iterations |-> 1..10000000,
   hash_len |-> 4..128, dklen |-> 4..128]
TextKeys == {"prf", "hash", "info"}

within_limits(params) == \A k \in DOMAIN params \ TextKeys : params[k] \in CostLimits[k]
merge_params(params, defaults) ==
  LET merged == params @@ defaults
  IN  When(DOMAIN params \subseteq DOMAIN defaults /\ within_limits(merged), merged)

hash_params(scheme, params) ==
  LET key == IF scheme \in Argon2Schemes THEN "argon2" ELSE scheme
      merged == merge_params(params, HashDefaults[key])
  IN  IF merged.ok /\ key = "pbkdf2" => merged.value.prf \in Prfs THEN merged ELSE Raise

-----------------------------------------------------------------------------
(* What libraries compute of what they read of a password.  In pbkdf2 and  *)
(* scrypt it is the key of an HMAC, which does not see zeros at its end,   *)
(* or hashes it first if it is longer than a block.  bcrypt reads 72 bytes *)
(* of it and the zero after it, over and over; what it does with a longer  *)
(* one is its version's choice (cuts it, or refuses it since 5.0).  The    *)
(* output of scrypt and pbkdf2 is cut to its length, that of argon2        *)
(* depends on it.                                                          *)

IsZeroByte(b) == b = <<0>>
HmacBlock(hash) == IF hash \in {"sha384", "sha512"} THEN 128 ELSE 64
hmac_key(hash, key) ==
  IF Len(key) > HmacBlock(hash) THEN <<<<"digest", hash, key>>>> ELSE StrippedEnd(key, IsZeroByte)

BcryptReads == 72
bcrypt_key(password) ==
  LET whole == Append(password, <<0>>)
  IN  [i \in 1..BcryptReads |-> whole[((i - 1) % Len(whole)) + 1]]
bcrypt_takes(password, cuts) == cuts \/ Len(password) <= BcryptReads

\* What the scheme of a stored string reads of a password.
reads(name, password) ==
  CASE name[1] = "2b"     -> bcrypt_key(password)
    [] name[1] = "scrypt" -> hmac_key("sha256", password)
    [] name[1] = "pbkdf2" -> hmac_key(name[2], password)
    [] OTHER              -> password

Stretched(how, read, salt, costs, length) ==
  [i \in 1..length |-> <<how, i, read, salt, costs>>]
scrypt(password, salt, p, length) ==
  Stretched("scrypt", reads(<<"scrypt">>, password), salt, <<p.ln, p.r, p.p>>, length)
pbkdf2(password, salt, p, length) ==
  Stretched("pbkdf2", reads(<<"pbkdf2", p.prf>>, password), salt, <<p.prf, p.iterations>>, length)
argon2(scheme, password, salt, p, length) ==
  Stretched(scheme, password, salt, <<p.memory_cost, p.time_cost, p.parallelism, length>>, length)
bcrypt(password, salt, rounds) == Stretched("bcrypt", reads(<<"2b">>, password), salt, <<rounds>>, 23)

-----------------------------------------------------------------------------
Junk == [whole |-> FALSE, raw |-> <<>>]
Base64Of(raw) == [whole |-> TRUE, raw |-> raw]
NoNumber == -1
Argon2Version == 19

hash_accepts(scheme, password, salt, params) ==
  LET merged == hash_params(scheme, params)
  IN  /\ merged.ok /\ salt # <<>>
      /\ scheme = "bcrypt" => Len(password) <= BcryptReads /\ Len(salt) = 16
      /\ scheme \in Argon2Schemes =>
           Len(salt) >= 8 /\ merged.value.memory_cost >= 8 * merged.value.parallelism

stored(scheme, password, salt, p) ==
  CASE scheme = "bcrypt" ->
         <<<<"2b">>, p.rounds, Base64Of(salt \o bcrypt(password, salt, p.rounds))>>
    [] scheme \in Argon2Schemes ->
         <<<<scheme>>, Argon2Version, <<<<"m", p.memory_cost>>, <<"t", p.time_cost>>, <<"p", p.parallelism>>>>,
           Base64Of(salt), Base64Of(argon2(scheme, password, salt, p, p.hash_len))>>
    [] scheme = "scrypt" ->
         <<<<"scrypt">>, <<<<"ln", p.ln>>, <<"r", p.r>>, <<"p", p.p>>>>, Base64Of(salt),
           Base64Of(scrypt(password, salt, p, p.dklen))>>
    [] scheme = "pbkdf2" ->
         <<<<"pbkdf2", p.prf>>, <<<<"i", p.iterations>>>>, Base64Of(salt),
           Base64Of(pbkdf2(password, salt, p, p.dklen))>>
do_hash(scheme, password, salt, params) ==
  stored(scheme, password, salt, hash_params(scheme, params).value)

-----------------------------------------------------------------------------
(* verify gives whether the password is the right one, and the parameters  *)
(* that it found.  It does not ask how long a password for bcrypt is: if   *)
(* the library refuses it, the stored string is said to be malformed.      *)

BcryptNames == {<<"2a">>, <<"2b">>, <<"2x">>, <<"2y">>}
scheme_of(fields) ==
  IF fields = <<>> THEN Raise
  ELSE IF fields[1] \in BcryptNames THEN When(Len(fields) > 1, "bcrypt")
  ELSE When(\/ fields[1][1] \in Argon2Schemes \cup {"scrypt"}
            \/ fields[1][1] = "pbkdf2" /\ Len(fields[1]) = 2, fields[1][1])

\* The last of the items with a key counts.
dict(items) == Fold(LAMBDA d, item : (item[1] :> IF Len(item) = 2 THEN item[2] ELSE NoNumber) @@ d, <<>>, items)
AllPairs(items) == \A i \in DOMAIN items : Len(items[i]) = 2
HasInts(params, keys) == keys \subseteq DOMAIN params /\ \A k \in keys : params[k] # NoNumber

Checked(raw, computed, params) == Ok([valid |-> computed = raw, params |-> params])

bcrypt_verify(fields, password, cuts) ==
  IF \/ Len(fields) # 3 \/ fields[2] \notin 4..31 \/ ~fields[3].whole
     \/ ~bcrypt_takes(password, cuts)
  THEN Raise
  ELSE LET salt == Prefix(fields[3].raw, 16)
       IN  Checked(Without(fields[3].raw, 16), bcrypt(password, salt, fields[2]), [rounds |-> fields[2]])

argon2_params(fields, raw) ==
  When(/\ Len(fields) = 5 /\ fields[2] # NoNumber /\ HasInts(raw, {"m", "t", "p"})
       /\ fields[4].whole /\ fields[5].whole,
       [memory_cost |-> raw.m, time_cost |-> raw.t, parallelism |-> raw.p, version |-> fields[2]])
\* Mutant (TypoCaught): the VerificationError of another password is caught, and forgotten.
argon2_checked_Caught(scheme, salt, tag, params, password) ==
  IF params.ok THEN Ok([valid |-> TRUE, params |-> params.value]) ELSE Raise
argon2_checked(scheme, salt, tag, params, password) ==
  IF params.ok THEN Checked(tag, argon2(scheme, password, salt, params.value, Len(tag)), params.value)
  ELSE Raise
argon2_verify(scheme, fields, password) ==
  argon2_checked(scheme, fields[4].raw, fields[5].raw, argon2_params(fields, dict(fields[3])), password)

phc_split(fields) ==
  When(Len(fields) = 4 /\ AllPairs(fields[2]) /\ fields[3].whole /\ fields[4].whole,
       [params |-> dict(fields[2]), salt |-> fields[3].raw, digest |-> fields[4].raw])

phc_ints(raw, keys) ==
  LET out == [k \in keys |-> raw[k]]
  IN  When(HasInts(raw, keys) /\ within_limits(out), out)

phc_checked(split, computed, params) ==
  IF within_limits(params) THEN Checked(split.digest, computed, params) ELSE Raise

\* Mutant (RoundTrip): the length is the default one, not that of the digest.
scrypt_params_Default(ints, digest) == ints @@ [dklen |-> HashDefaults.scrypt.dklen]
scrypt_params(ints, digest) == ints @@ [dklen |-> Len(digest)]
scrypt_checked(split, params, password) ==
  phc_checked(split, scrypt(password, split.salt, params, params.dklen), params)
scrypt_verify_split(split, ints, password) ==
  IF ints.ok THEN scrypt_checked(split, scrypt_params(ints.value, split.digest), password) ELSE Raise
scrypt_verify(fields, password) ==
  LET split == phc_split(fields)
  IN  IF split.ok
      THEN scrypt_verify_split(split.value, phc_ints(split.value.params, {"ln", "r", "p"}), password)
      ELSE Raise

pbkdf2_params(prf, split) ==
  [iterations |-> IF "i" \in DOMAIN split.params THEN split.params.i ELSE NoNumber,
   prf |-> prf, dklen |-> Len(split.digest)]
pbkdf2_checked(split, params, password) ==
  IF params.prf \in Prfs
  THEN phc_checked(split, pbkdf2(password, split.salt, params, params.dklen), params) ELSE Raise
pbkdf2_verify(fields, password) ==
  LET split == phc_split(fields)
  IN  IF split.ok THEN pbkdf2_checked(split.value, pbkdf2_params(fields[1][2], split.value), password)
      ELSE Raise

Verified(scheme, out) ==
  IF out.ok THEN Ok([valid |-> out.value.valid, scheme |-> scheme, params |-> out.value.params]) ELSE Raise
verify(fields, password, cuts) ==
  LET found == scheme_of(fields)
  IN  IF ~found.ok THEN Raise
      ELSE Verified(found.value, CASE found.value = "bcrypt" -> bcrypt_verify(fields, password, cuts)
                                   [] found.value = "scrypt" -> scrypt_verify(fields, password)
                                   [] found.value = "pbkdf2" -> pbkdf2_verify(fields, password)
                                   [] OTHER -> argon2_verify(found.value, fields, password))
=============================================================================
