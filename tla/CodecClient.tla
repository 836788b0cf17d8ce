---------------------------- MODULE CodecClient ----------------------------
(***************************************************************************)
(* A client of the codecs: rlp_codec, serialize_codec, encode and decode,  *)
(* string_escape and string_unescape, bip39, num_convert, byte_order,      *)
(* bytes_edit, data_uri, otpauth_uri, abi_inspect, password_hash and the   *)
(* checksums of hash.  It encodes a value, keeps the wire, loses a part of it, mistypes *)
(* or respells it, or has one from elsewhere, and decodes what it has.     *)
(*                                                                         *)
(* A codec is a record of its name and options; a value is what the tool   *)
(* is given once its data is parsed.  A number is what num_convert gives   *)
(* in base 10, and its wire the same in another base; the wire of a        *)
(* checksum is the bytes and, after them, the checksum, which the client   *)
(* computes again; the wire of abi_inspect is a line of Solidity, and its  *)
(* value a JSON fragment; the wire of password_hash is a stored string,    *)
(* its value a scheme with parameters, and the password is an option, with *)
(* what the installed bcrypt does with a long one (cuts): a string it does *)
(* not match does not decode.                                              *)
(***************************************************************************)
EXTENDS Ssz, UriCodecs, StringEscape, Bencode, Protobuf, Asn1, Mnemonic, Declarations, PasswordHash

CONSTANTS Codecs,
          ValuesOf(_),    \* what a client encodes with a codec
          WiresOf(_),     \* what it may have got elsewhere
          LettersOf(_),   \* what it mistypes
          RlpBase, RlpStr, RlpList, RlpShortMax, RlpNesting

R == INSTANCE Rlp WITH Base <- RlpBase, Str <- RlpStr, List <- RlpList, ShortMax <- RlpShortMax,
                      Nesting <- RlpNesting

Blank == <<>>
IsBech32(codec) == codec.name \in {"bech32", "bech32m"}
SelfDelimiting == {"rlp", "bencode", "asn1"}
IsBracket(c) == c \in {91, 123}
SumLen(spec) == Len(spec.poly) \div 8
Summed(spec, data) == data \o crc(spec, data)

\* A media type with its parameters, as build takes them.
typed_media(v) ==
  LET names == SetToSeq(DOMAIN v.params)
  IN  v.media \o FlattenSeq([i \in DOMAIN names |-> <<Semicolon>> \o names[i] \o <<EqualSign>> \o v.params[names[i]]])

\* An otpauth value with every default.  Its account is what follows the first colon of the
\* label, or the label, if it has none; but an issuer that is put in front of it with a
\* colon of its own gives the rest of itself to the account.
AfterColon(text) == Without(text, SelectInSeq(text, LAMBDA c : c = Colon))
BeforeColon(text) == Prefix(text, SelectInSeq(text, LAMBDA c : c = Colon) - 1)
otp_account(v) ==
  LET issuer == IF v.issuer = Missing THEN <<>> ELSE v.issuer[1]
  IN  IF Colon \in ToSet(v.label) THEN AfterColon(v.label)
      ELSE IF v.label # <<>> /\ Colon \in ToSet(issuer)
      THEN AfterColon(issuer) \o <<Colon>> \o v.label ELSE v.label
otp_meant(v) ==
  Otp(v.type, otp_path(v), otp_account(v),
      IF v.issuer \notin {Missing, Given(<<>>)} THEN v.issuer
      ELSE IF Colon \in ToSet(v.label) THEN Given(BeforeColon(v.label)) ELSE Missing,
      normalize_otp_secret(v.secret),
      Given(IF v.algorithm = Missing THEN <<83, 72, 65, 49>> ELSE Upper(v.algorithm[1])),
      IF v.digits = Missing THEN Given(6) ELSE v.digits, v.counter,
      IF v.type = "totp" /\ v.period = Missing THEN Given(30) ELSE v.period)

\* The parameters of a stored string: all of those that hash used, but of argon2 the length
\* of its result, which is given with the version instead.
password_meant(v) ==
  LET used == hash_params(v.scheme, v.params)
      argon == v.scheme \in Argon2Schemes
  IN  IF ~used.ok THEN v
      ELSE [v EXCEPT !.params = [k \in (DOMAIN used.value \ {"hash_len"}) \cup (IF argon THEN {"version"} ELSE {}) |->
                                   IF k = "version" THEN Argon2Version ELSE used.value[k]]]

\* The call encodes the value, rather than raise or take it for something else: a string
\* for serialize_codec that starts as JSON does is read as JSON.
Encodes(codec, v) ==
  CASE codec.name = "ssz"      -> accepts(codec.schema, v)
    [] codec.name = "bencode"  -> v.kind = "str" => v.text = <<>> \/ ~IsBracket(v.text[1])
    [] codec.name = "base62"   -> base_n_accepts(codec.alphabet)
    [] codec.name = "z85"      -> z85_accepts(v)
    [] codec.name = "bytes32"  -> Len(v) <= EvmWord
    [] IsBech32(codec)         -> bech32_accepts(v.hrp)
    [] codec.name = "bip39"    -> bip39_accepts(v)
    [] codec.name = "number"   -> num_convert(v, 10, codec.base, codec.pad).ok
    [] codec.name = "order"    -> byte_order(v, codec.from, codec.to, codec.width).ok
    [] codec.name = "pad"      -> edit_pad(v, codec.length, codec.side, codec.fill).ok
    [] codec.name = "otpauth"  -> otp_accepts(v)
    [] codec.name = "abi"      -> entry_from_json(v).ok
    [] codec.name = "password" -> hash_accepts(v.scheme, codec.password, codec.salt, v.params)
    [] OTHER                   -> TRUE

encode(codec, v) ==
  CASE codec.name = "rlp"       -> R!rlp_encode[v]
    [] codec.name = "ssz"       -> serialize(codec.schema, v)
    [] codec.name = "bencode"   -> bencode_encode(v)
    [] codec.name = "protobuf"  -> protobuf_encode(v)
    [] codec.name = "asn1"      -> asn1_encode(v)
    [] IsBech32(codec)          -> bech32_encode(v.hrp, v.raw, codec.name)
    [] codec.name = "base62"    -> base_n_encode(v, codec.alphabet)
    [] codec.name = "z85"       -> z85_encode(v)
    [] codec.name = "crockford" -> crockford_encode(v)
    [] codec.name = "rfc4648"   -> strip_padding(rfc4648_encode(v, codec.width), codec.padding)
    [] codec.name = "hexdump"   -> hexdump(v, codec.line)
    [] codec.name = "bytes32"   -> word_encode(v)
    [] codec.name = "url"       -> quote(v, {})
    [] codec.name = "url_form"  -> url_form_encode(v)
    [] codec.name = "escape"    -> escape_backslashy(codec.style, v)
    [] codec.name = "bip39"     -> bip39_encode(v)
    [] codec.name = "number"    -> num_convert(v, 10, codec.base, codec.pad).value
    [] codec.name = "order"     -> byte_order(v, codec.from, codec.to, codec.width).value
    [] codec.name = "pad"       -> edit_pad(v, codec.length, codec.side, codec.fill).value
    [] codec.name = "crc"       -> Summed(codec.spec, v)
    [] codec.name = "data_uri"  -> data_uri_build(typed_media(v), v.base64, v.raw)
    [] codec.name = "otpauth"   -> otpauth_build(v)
    [] codec.name = "abi"       -> human_of(entry_from_json(v).value)
    [] codec.name = "password"  -> do_hash(v.scheme, codec.password, codec.salt, v.params)

\* The results of an ssz decoding, of one of a line of Solidity, and of a verification.
rooted(schema, out) == IF out.ok /\ root_accepts(schema, out.value) THEN out ELSE Raise
in_json(entry) == IF entry.ok THEN Ok(json_of(entry.value)) ELSE Raise
matched(out) ==
  IF out.ok THEN When(out.value.valid, [scheme |-> out.value.scheme, params |-> out.value.params]) ELSE Raise

decode(codec, data) ==
  CASE codec.name = "rlp"       -> LET top == R!rlp_decode(data) IN When(top.ok, top.item)
    [] codec.name = "ssz"       -> rooted(codec.schema, deserialize(codec.schema, data))
    [] codec.name = "bencode"   -> bencode_decode(data)
    [] codec.name = "protobuf"  -> protobuf_decode(data)
    [] codec.name = "asn1"      -> asn1_decode(data)
    [] IsBech32(codec)          -> bech32_decode(data, codec.name)
    [] codec.name = "base62"    -> IF base_n_accepts(codec.alphabet)
                                   THEN base_n_decode(data, codec.alphabet) ELSE Raise
    [] codec.name = "z85"       -> z85_decode(data)
    [] codec.name = "crockford" -> crockford_decode(data)
    [] codec.name = "rfc4648"   -> rfc4648_decode(readd_padding(data, Block(codec.width)), codec.width)
    [] codec.name = "hexdump"   -> hexdump_decode(data)
    [] codec.name = "bytes32"   -> word_decode(data)
    [] codec.name = "url"       -> Ok(unquote(data))
    [] codec.name = "url_form"  -> Ok(url_form_decode(data))
    [] codec.name = "escape"    -> unescape_backslashy(codec.style, data)
    [] codec.name = "bip39"     -> bip39_to_entropy(data)
    [] codec.name = "number"    -> num_convert(data, codec.base, 10, None)
    [] codec.name = "order"     -> byte_order(data, codec.to, codec.from, codec.width)
    [] codec.name = "pad"       -> Ok(edit_trim(data, codec.side, codec.fill))
    [] codec.name = "crc"       -> LET kept == Prefix(data, Len(data) - SumLen(codec.spec))
                                   IN  When(data = Summed(codec.spec, kept), kept)
    [] codec.name = "data_uri"  -> data_uri_parse(data)
    [] codec.name = "otpauth"   -> otpauth_parse(data)
    [] codec.name = "abi"       -> in_json(entry_from_human(data))
    [] codec.name = "password"  -> matched(verify(data, codec.password, codec.cuts))

\* What a call reports beside its result.
root_of(codec, v) == IF codec.name = "ssz" THEN htr(codec.schema, v) ELSE Blank

\* What a call is to give back: words and fields stay filled up, trim is the inverse of pad
\* for bytes that do not start or end with its filling, a function that says it is
\* nonpayable is one that says nothing, and what a URI leaves out has its default.
Meant(codec, v) ==
  CASE codec.name = "bytes32" -> word_encode(v)
    [] codec.name = "order"   -> byte_order(v, codec.from, codec.from, codec.width).value
    [] codec.name = "pad"     -> edit_trim(v, codec.side, codec.fill)
    [] codec.name = "number"  -> Signed(PyInt(v, 10).value)
    [] codec.name = "data_uri" -> [v EXCEPT !.media = IF @ = <<>> THEN TextPlain ELSE @]
    [] codec.name = "otpauth" -> otp_meant(v)
    [] codec.name = "password" -> password_meant(v)
    [] codec.name = "abi"     -> [v EXCEPT !.stateMutability = IF @ = "nonpayable" THEN NoMutability ELSE @]
    [] OTHER                  -> v

\* The places between two digits.
Inside(text, base) == {i \in 2..Len(text) : {DigitOf(text[i - 1]), DigitOf(text[i])} \subseteq 0..base - 1}
\* The other ways to write a text that its scheme allows.
Respellings(codec, text) ==
  CASE IsBech32(codec)          -> {Upper(text)}
    [] codec.name = "crockford" -> {Lower(text), Replace(text, 48, 79), Replace(text, 49, 76)}
                                   \cup {InsertAt(text, i, 45) : i \in DOMAIN text}
    [] codec.name = "rfc4648"   -> {StrippedEnd(text, IsEquals), readd_padding(text, Block(codec.width))}
    [] codec.name = "number"    -> {Upper(text), <<32>> \o text \o <<32>>}
                                   \cup {InsertAt(text, i, 95) : i \in Inside(text, codec.base)}
    [] OTHER                    -> {}

-----------------------------------------------------------------------------
VARIABLES
  codec,
  value,   \* the value the client has, if hasValue: its own, or what was decoded
  hasValue,
  wire,    \* the wire it has
  origin,  \* where wire comes from: "none", "encoded", "cut", "extended", "typo",
           \* "respelled" or "found"
  decoded, \* the call before was a decode that did not raise
  bare,    \* it was one that did, and not a ValueError
  root     \* what was reported last

vars == <<codec, value, hasValue, wire, origin, decoded, bare, root>>

Init == /\ codec \in Codecs /\ decoded = FALSE /\ bare = FALSE /\ root = Blank
        /\ \/ value \in ValuesOf(codec) /\ hasValue = TRUE /\ wire = <<>> /\ origin = "none"
           \/ value = Blank /\ hasValue = FALSE /\ wire \in WiresOf(codec) /\ origin = "found"

\* After an error the client has what it had.
Encode == /\ hasValue
          /\ IF Encodes(codec, value)
             THEN /\ wire' = encode(codec, value) /\ origin' = "encoded"
                  /\ root' = root_of(codec, value)
             ELSE UNCHANGED <<wire, origin, root>>
          /\ decoded' = FALSE /\ bare' = FALSE
          /\ UNCHANGED <<codec, value, hasValue>>

Gets(out) == /\ decoded' = out.ok /\ bare' = (~out.ok /\ out = Bare)
             /\ IF out.ok
                THEN value' = out.value /\ hasValue' = TRUE /\ root' = root_of(codec, out.value)
                ELSE UNCHANGED <<value, hasValue, root>>
Decode == /\ origin # "none"
          /\ Gets(decode(codec, wire))
          /\ UNCHANGED <<codec, wire, origin>>

\* What becomes of a wire once it was encoded.
Becomes(new, how) == /\ origin = "encoded" /\ wire' = new /\ origin' = how
                     /\ decoded' = FALSE /\ bare' = FALSE
                     /\ UNCHANGED <<codec, value, hasValue, root>>

\* Its end is lost, or there is more after it; an otpauth URI, which is in parts, is whole.
Cut == codec.name # "otpauth" /\ \E n \in 0..Len(wire) - 1 : Becomes(Prefix(wire, n), "cut")
Extend == codec.name \in SelfDelimiting /\ \E c \in LettersOf(codec) : Becomes(Append(wire, c), "extended")

\* The pairs of places at which symbols may be wrong at once: any two of a text that people
\* type, and those side by side of bytes that were garbled, no more than the checksum has.
TypoPlaces ==
  IF IsBech32(codec) THEN {p \in (DOMAIN wire) \X (DOMAIN wire) : p[1] <= p[2]}
  ELSE IF codec.name = "crc"
  THEN {p \in (DOMAIN value) \X (DOMAIN value) : p[2] - p[1] \in 0..Min({1, SumLen(codec.spec) - 1})}
  ELSE {}
Typo == origin = "encoded" /\ \E p \in TypoPlaces : \E c, d \in LettersOf(codec) :
          LET new == [[wire EXCEPT ![p[1]] = c] EXCEPT ![p[2]] = d]
          IN  new # wire /\ Becomes(new, "typo")

Respell == \E new \in Respellings(codec, wire) : Becomes(new, "respelled")

\* A bech32 text is taken for one of the other specification, a stored string for one of
\* another password; that is another spelling of the one it was made of if the scheme reads
\* the same of both and its library takes it.
OtherPasswords == {c.password : c \in {c \in Codecs : c.name = "password"}} \ {codec.password}
Interchangeable(other) ==
  /\ reads(wire[1], other) = reads(wire[1], codec.password)
  /\ wire[1] = <<"2b">> => bcrypt_takes(other, codec.cuts)
Misread == /\ origin = "encoded"
           /\ \/ /\ IsBech32(codec) /\ origin' = "typo"
                 /\ codec' = [codec EXCEPT !.name = IF @ = "bech32" THEN "bech32m" ELSE "bech32"]
              \/ /\ codec.name = "password"
                 /\ \E other \in OtherPasswords :
                      /\ codec' = [codec EXCEPT !.password = other]
                      /\ origin' = IF Interchangeable(other) THEN "respelled" ELSE "typo"
           /\ decoded' = FALSE /\ bare' = FALSE
           /\ UNCHANGED <<value, hasValue, wire, root>>

Next == Encode \/ Decode \/ Cut \/ Extend \/ Typo \/ Respell \/ Misread
Spec == Init /\ [][Next]_vars

-----------------------------------------------------------------------------
(* Properties.                                                             *)

\* Two values are one: of a protobuf message, if they are the same bytes.
Same(v, w) == IF codec.name = "protobuf" THEN protobuf_encode(v) = protobuf_encode(w) ELSE v = w

\* A decoder gives a value back.
Returns(out, v) == out.ok /\ Same(out.value, v)

\* decode and string_unescape are the inverses of encode and string_escape, also when the
\* text is respelled as its scheme allows: whatever the length, the nesting, the bits left
\* over, or the digits that follow an escape.  What password_hash made of a password with
\* any parameters that it accepts it verifies, with the same ones, also if it is given
\* another password that the scheme cannot tell from it.
RoundTrip ==
  origin \in {"encoded", "respelled"} => Returns(decode(codec, wire), Meant(codec, value))

\* An encoding that says where it ends never decodes with its end cut off or with more
\* after it, so that a value is never taken from a part of its bytes.
TruncatedNeverDecodes ==
  origin \in {"cut", "extended"} /\ codec.name \in SelfDelimiting => ~decoded

\* Whatever wire a decoder takes, canonical or not, the value is encoded again in no more
\* bytes: each byte was read at most once, no item reached past the one it is in.
ReencodeNoLonger ==
  decoded /\ codec.name \in {"rlp", "protobuf"} => Len(encode(codec, value)) <= Len(wire)

\* Whatever wire a decoder takes, with its offsets in any order, gaps, leading zeros or
\* bytes that are missing, its value can be encoded and comes back from that; but a bencode
\* string may read as JSON, otpauth_uri parses URIs that it does not build, and verify
\* reports the version of argon2, which hash does not take.
DecodedReencodes ==
  decoded => IF Encodes(codec, value)
             THEN Returns(decode(codec, encode(codec, value)), Meant(codec, value))
             ELSE codec.name \in {"bencode", "otpauth", "password"}

\* The one text of a value is the one it is encoded in, up to the case of bech32: bits that
\* are left over, a digit too many or a group out of range are refused.
OneSpelling ==
  decoded /\ (IsBech32(codec) \/ codec.name \in {"base62", "z85", "bytes32", "bip39"}) =>
    encode(codec, value) = IF IsBech32(codec) THEN Lower(wire) ELSE wire

\* A bech32 text with two symbols wrong, in its prefix or after it, or of the other
\* specification, never decodes; bytes that were garbled in one run no longer than their
\* checksum never have it any more; and a stored string matches no password of which its
\* scheme reads something else: for bcrypt, in the first 72 bytes, for pbkdf2 and scrypt,
\* but for zeros at the end of no more than a block.
TypoCaught == origin = "typo" => ~decoded

\* Two values of an SSZ schema never have the same root, zeros at their end included.
RootsInjective ==
  origin = "encoded" /\ codec.name = "ssz" =>
    \A v \in Values(codec.schema) : htr(codec.schema, v) = root => v = value

\* What abi_inspect gives for an entry in human form it takes, and gives the entry for it:
\* of every kind of entry an ABI has, with its mutability.  (The docstring of abi_inspect
\* says so; the code does not keep to it, see the findings.)
ConvertsInEitherDirection ==
  origin = "encoded" /\ codec.name = "abi" => Returns(decode(codec, wire), Meant(codec, value))
=============================================================================
