--------------------------- MODULE MCCodecClient ---------------------------
(* SSZ with bytes of three bits and chunks of two bytes; RLP with bytes of 20 *)
(* values, 8..10 short strings, 11 a long one, 12..14 short lists, 15 a long  *)
(* one; words of four bytes; the other codecs with the sizes of the code.     *)
EXTENDS CodecClient

\* SSZ: schemas in which fixed and variable members alternate and nest.
Uint(size) == [type |-> "uint", size |-> size]
Boolean == [type |-> "boolean"]
BitList(n) == [type |-> "bitlist", limit |-> n]
BitVector(n) == [type |-> "bitvector", length |-> n]
ByteList(n) == [type |-> "bytelist", limit |-> n]
ByteVector(n) == [type |-> "bytevector", length |-> n]
List(s, n) == [type |-> "list", element |-> s, limit |-> n]
Vector(s, n) == [type |-> "vector", element |-> s, length |-> n]
Container(fields) == [type |-> "container", fields |-> fields]

MCSamples(s) == IF s.type = "boolean" THEN BOOLEAN ELSE {0, 1, Base ^ s.size - 1}

SszSchemas == {
  BitList(7), BitVector(4), ByteList(5), ByteVector(3),
  List(Uint(1), 5), Vector(Uint(2), 3), List(Boolean, 3),
  List(BitList(2), 2), List(Container(<<Uint(1), Boolean>>), 2),
  Vector(ByteList(2), 2), Vector(BitVector(4), 2),
  Container(<<Uint(1), ByteList(1), BitVector(2), BitList(2)>>),
  Container(<<List(ByteList(1), 2), Uint(2), List(Uint(1), 1)>>)}

SszWires == UNION {[1..n -> {0, 1, 2, 4, 7}] : n \in 0..4}
            \cup [1..5 -> {0, 2, 4, 7}] \cup [1..6 -> {0, 4, 6}] \cup [1..7 -> {0, 6}]

\* RLP: items of every length around the short one, nested, and every short wire.
Leaves == {R!Leaf(b) : b \in UNION {[1..n -> {0, 7, 8}] : n \in 0..4}}
ListsOf(S) == {R!ListOf(s) : s \in UNION {[1..n -> S] : n \in 0..3}}
SmallLeaves == {R!Leaf(<<>>), R!Leaf(<<8>>), R!Leaf(<<1, 1, 1>>)}
Items == Leaves \cup ListsOf(SmallLeaves) \cup ListsOf(ListsOf({R!Leaf(<<1>>)}) \cup {R!Leaf(<<8>>)})
RlpWires == UNION {[1..n -> {0, 1, 8, 9, 10, 11, 12, 13, 14, 15}] : n \in 0..4}
            \cup [1..5 -> {1, 3, 8, 9, 13, 14, 15}]

\* Bytes, as long as a scheme's groups and one more or less, with zeros at both ends.
Triples == UNION {[1..n -> {0, 97, 255}] : n \in 0..3}
ByteStrings == Triples \cup [1..4 -> {0, 255}] \cup {[i \in 1..9 |-> 28 * i]}
Printables == UNION {[1..n -> {32, 43, 46, 47, 124, 37, 200}] : n \in 0..2} \cup {[i \in 1..5 |-> 120 + i]}

\* "a", "bc1" (a separator of its own), and the text whose symbols are these.
Hrps == {<<97>>, <<98, 99, 49>>}
Bech32Values == {[hrp |-> h, raw |-> r] : h \in Hrps, r \in {<<>>, <<0>>, <<0, 255>>}}
                \cup {[hrp |-> <<65>>, raw |-> <<>>]}
Bech32Text(hrp, symbols, spec) ==
  LET sum == XorAll(bech32_polymod(hrp_expand(hrp) \o symbols \o Repeat(0, 6)), ChecksumConst(spec))
      all == symbols \o sum
  IN  hrp \o <<Separator>> \o [i \in DOMAIN all |-> Charset[all[i] + 1]]
Bech32Wires(spec) == {Bech32Text(<<97>>, s, spec) : s \in UNION {[1..n -> {0, 1, 16, 31}] : n \in 0..3}}

\* Text: what each style escapes, names, or reads as a digit.
Texts == UNION {[1..n -> {92, 49, 97, 10, 34, 8232, 7, 127, 120, 0}] : n \in 0..2} \cup [1..3 -> {92, 55, 0, 102}]
Sources == UNION {[1..n -> {92, 48, 49, 102, 120, 117, 123, 125, 56}] : n \in 0..3}
           \cup {<<92>> \o s : s \in [1..4 -> {120, 117, 123, 125, 48, 102}]}
           \cup {<<92>> \o pre \o digits \o post :
                   pre \in {<<85>>, <<120>>, <<117, 123>>, <<117, 123, 45>>}, post \in {<<>>, <<125>>},
                   digits \in {<<48, 48, 49, 48, 102, 102, 102, 102>>, <<48, 48, 49, 49, 48, 48, 48, 48>>,
                              <<48, 49, 48, 48, 48, 48, 48, 48>>, <<48, 49, 48, 48, 48, 48, 48, 49>>}}

Integers_ == {BInt(n) : n \in {0, 5, -3, 10}}
Strings_ == {BStr(s) : s \in {<<>>, <<97>>, <<91>>, <<101, 101>>, Repeat(105, 10)}}
Bencodings == Integers_ \cup Strings_
              \cup {BList(s) : s \in UNION {[1..n -> {BInt(-3), BStr(<<97>>), BList(<<>>)}] : n \in 0..2}}
              \cup {BDict(<<97>> :> x @@ <<>> :> y @@ <<97, 98>> :> BDict(<<>> :> BInt(0))) :
                      x \in {BInt(1), BStr(<<>>)}, y \in {BList(<<>>), BInt(5)}}
BencodeWires == UNION {[1..n -> {105, 48, 49, 45, 43, 101, 58, 108, 100, 200}] : n \in 0..4}
                \cup {<<105>> \o s \o <<101>> : s \in [1..3 -> {48, 49, 45, 43, 95, 32}]}

Messages == UNION {[1..n -> {Field(1, 0, 0, <<>>, <<>>), Field(2, 0, 300, <<>>, <<>>),
                             Field(3, 2, 0, <<0>>, <<>>), Field(4, 5, 0, <<1, 2, 3, 4>>, <<>>),
                             Field(5, 1, 0, Repeat(9, 8), <<>>), Field(1, 2, 0, <<>>, <<>>),
                             Field(16, 2, 0, <<>>, <<Field(1, 2, 0, <<>>, <<Field(1, 0, 1, <<>>, <<>>)>>)>>)}] :
                     n \in 0..2}
ProtobufWires == UNION {[1..n -> {0, 8, 10, 13, 128, 129, 1, 2, 5}] : n \in 0..4}

Primitives == {Node(0, 1, Primitive("boolean", 1, <<>>)), Node(0, 5, Primitive("null", 0, <<>>)),
               Node(0, 6, Primitive("oid", 0, <<1, 2, 300>>)), Node(0, 6, Primitive("oid", 0, <<2, 100>>)),
               Node(0, 12, Primitive("text", 0, <<97>>)), Node(0, 4, HexValueOf(<<>>)), Node(2, 1, HexValueOf(<<7, 8>>))}
              \cup {Node(0, 2, Primitive("integer", n, <<>>)) : n \in {0, 127, 128, -1, -128, -129, 256}}
Nodes == Primitives \cup {Tree(0, 16, s) : s \in UNION {[1..n -> Primitives] : n \in 0..2}}
         \cup {Tree(2, 0, <<Tree(0, 16, <<p>>), p>>) : p \in Primitives}
         \cup {Node(0, 4, HexValueOf(Repeat(1, n))) : n \in {127, 128, 256}}
Asn1Wires == UNION {[1..n -> {0, 1, 2, 4, 6, 48, 128, 129, 255}] : n \in 0..5}

\* Words of three bits, with one bit of checksum a byte.
MCHashByte(entropy) == (Number(entropy, 256) * 37 + 91) % 256

\* URIs: what each part of one has to quote.
Media == {<<>>, <<97, 47, 98>>}
DataUris == {[media |-> m, params |-> p, base64 |-> b, raw |-> r] :
               m \in Media, p \in {<<>>, <<107>> :> <<118>>, <<107>> :> <<61>> @@ <<106>> :> <<>>}, b \in BOOLEAN,
               r \in Triples \cup {<<44, 37>>, <<59, 61>>}}
DataUriWires == {FlattenSeq([i \in 1..n |-> segs[i] \o <<59>>]) \o last \o <<44>> \o payload :
                   n \in 0..2, segs \in [1..2 -> {<<>>, <<97, 47, 98>>, <<107>>, <<107, 61, 118>>}],
                   last \in {<<>>, <<61>>, Base64Word}, payload \in {<<>>, <<89>>, <<89, 81>>, <<89, 90>>, <<65, 65, 65, 65>>}}
                \cup {Base64Word, <<97, 47, 98>>}

Labels == {<<>>, <<97>>, <<97, 58, 98>>, <<47, 97>>, <<58, 97, 64>>, <<97, 38, 61, 37, 43, 32, 35, 63>>}
Otps == {Otp(t, l, <<>>, i, s, a, d, c, p) :
           t \in {"totp", "hotp"}, l \in Labels, i \in {Missing, Given(<<>>), Given(<<73, 32, 38>>), Given(<<47>>), Given(<<73, 58, 58, 74>>)},
           s \in {<<65, 98, 32, 50, 61>>, <<49>>}, a \in {Missing, Given(<<115, 104, 97, 53, 49, 50>>)}, d \in {Missing, Given(8)},
           c \in {Missing, Given(0)}, p \in {Missing, Given(60)}}
OtpParams == {<<"secret", <<65>>>>, <<"secret", <<49>>>>, <<"issuer", <<73, 43>>>>, <<"issuer", <<>>>>, <<"digits", <<56>>>>,
              <<"digits", <<97>>>>, <<"algorithm", <<120>>>>, <<"counter", <<43, 55>>>>, <<"period", <<37, 50, 48>>>>}
OtpWires == {[type |-> t, path |-> p, query |-> q] :
               t \in {"totp", "hotp"}, p \in {<<>>, <<47, 97>>, <<97, 37, 51, 65, 98>>, <<97, 43>>},
               q \in UNION {[1..n -> OtpParams] : n \in 0..3}}

\* Declarations: functions, events and errors, of plain types, arrays, and tuples in tuples.
Declared(type, name, indexed) == Param(type, name, indexed, <<>>)
Tuples(parts) == {Param(<<"tuple">> \o d, n, FALSE, p) :
                    d \in {<<>>, <<"[", "3", "]", "[", "]">>}, n \in {"a", NoName}, p \in parts}
Inputs == {<<>>, <<Declared(<<"uint256">>, "a", FALSE)>>, <<Declared(<<"bytes", "[", "]">>, NoName, FALSE)>>,
           <<Declared(<<"address">>, "a", TRUE), Declared(<<"uint256", "[", "3", "]">>, "b", FALSE)>>}
Inner == {<<t>> : t \in Tuples(Inputs \ {<<>>})}
Parameters == Inputs \cup Inner \cup {<<t>> : t \in Tuples({<<Declared(<<"bool">>, "b", FALSE)>> \o p : p \in Inner})}
Answers == {<<>>, <<Declared(<<"bool">>, "ok", FALSE)>>, CHOOSE t \in Inner : TRUE}
Interfaces ==
  {Record("function", "f", i, o, NoMutability, FALSE) : i \in Parameters, o \in Answers}
  \cup {Record("function", "f", i, o, m, FALSE) : i \in Inputs, o \in Answers, m \in Mutabilities}
  \cup {Record("event", "e", i, <<>>, NoMutability, a) : i \in Parameters, a \in BOOLEAN}
  \cup {Record(k, n, i, <<>>, NoMutability, FALSE) : k \in {"error", "struct"}, n \in {"e", NoName}, i \in Inputs}
  \cup {Record("constructor", NoName, i, <<>>, NoMutability, FALSE) : i \in Inputs}

AbiInputs == {<<"(", ")">>, <<"(", "uint", " ", "a", ")">>, <<"(", "(", "byte", ")", "[", "]", " ", "memory", " ", "a", ")">>,
              <<"(", "address", " ", "indexed", ",", " ", "bool", " ", "b", ")">>, <<"(", "uint">>}
AbiTails == {<<" ", "external", " ", "view", " ", "returns", " ", "(", "uint", " ", "c", ")">>,
             <<" ", "payable">>, <<" ", "returns", "(", "(", "bool", ")", ")">>}
AbiWires == {h \o i \o t : h \in {<<"f">>, <<"function", " ", "f">>}, i \in AbiInputs, t \in AbiTails}
            \cup {h \o i \o t : h \in {<<"event", " ", "e">>, <<"error", " ", "e">>, <<"struct", " ", "e">>, <<"constructor">>},
                                i \in AbiInputs, t \in {<<>>, <<" ", "anonymous">>}}

\* Passwords and salts at the limits of the schemes, parameters at theirs, and strings that
\* are not what hash writes.
Opaque(bytes) == [i \in DOMAIN bytes |-> <<bytes[i]>>]
\* Passwords that are one to some schemes: with zeros at the end, within a block or over it,
\* the same again after a zero, or more after 72 bytes.
Passwords == {<<>>, Opaque(<<1>>), Opaque(<<1, 0>>), Opaque(<<1, 0, 1>>), Opaque(Repeat(1, 64)),
              Opaque(Append(Repeat(1, 64), 0)), Opaque(Repeat(1, 72)), Opaque(Repeat(1, 73)), Opaque(Repeat(2, 73))}
Salts == {<<>>, Opaque(<<0>>), Opaque(Repeat(7, 7)), Opaque(Repeat(7, 8)), Opaque(Repeat(7, 16))}
CostsOf(scheme) ==
  CASE scheme = "bcrypt" -> {<<>>} \cup {[rounds |-> n] : n \in {3, 4, 16, 17}}
    [] scheme \in Argon2Schemes ->
         {<<>>, [hash_len |-> 4], [hash_len |-> 129], [memory_cost |-> 32], [memory_cost |-> 31],
          [memory_cost |-> 8, parallelism |-> 1, time_cost |-> 16], [version |-> 19]}
    [] scheme = "scrypt" -> {<<>>, [ln |-> 1, r |-> 32], [p |-> 16, dklen |-> 4], [dklen |-> 128], [dklen |-> 3],
                             [ln |-> 0], [n |-> 14]}
    [] scheme = "pbkdf2" -> {<<>>, [prf |-> "sha1", dklen |-> 5], [iterations |-> 1, prf |-> "sha512"], [prf |-> "md5"],
                             [iterations |-> 10000000], [iterations |-> 10000001]}
Stored == UNION {{[scheme |-> s, params |-> p] : p \in CostsOf(s)} :
                   s \in Argon2Schemes \cup {"bcrypt", "scrypt", "pbkdf2"}}
ScryptString(password) == do_hash("scrypt", password, Opaque(<<7>>), [dklen |-> 4])
Pbkdf2String(password) == do_hash("pbkdf2", password, Opaque(<<7>>), [dklen |-> 4])
Argon2String(password) == do_hash("argon2d", password, Opaque(Repeat(7, 8)), [hash_len |-> 4])
BcryptString(password) == do_hash("bcrypt", password, Opaque(Repeat(7, 16)), <<>>)
StoredWires(password) ==
  LET right == {ScryptString(password), Pbkdf2String(password), Argon2String(password)} \cup
               (IF Len(password) > 72 THEN {} ELSE {BcryptString(password)})
      Lists == {<<>>, <<<<"ln", 14>>, <<"r", 8>>, <<"p">>>>, <<<<"ln", NoNumber>>, <<"r", 8>>, <<"p", 1>>>>,
                <<<<"ln", 1>>, <<"ln", 14>>, <<"r", 8>>, <<"p", 1>>>>, <<<<"ln", 21>>, <<"r", 8>>, <<"p", 1>>>>,
                <<<<"i", 0>>>>, <<<<"i", NoNumber>>>>, <<<<"i", 600000>>, <<"x", 1>>>>}
  IN  right \cup {<<>>}
      \cup {[w EXCEPT ![1] = n] : w \in {ScryptString(password), Pbkdf2String(password)},
                                  n \in {<<"scrypt">>, <<"pbkdf2", "md5">>, <<"pbkdf2">>, <<"x">>, <<"2a">>}}
      \cup {[w EXCEPT ![2] = i] : w \in {ScryptString(password), Pbkdf2String(password)}, i \in Lists}
      \cup {[w EXCEPT ![Len(w)] = Junk] : w \in right}
      \cup {[w EXCEPT ![Len(w)] = Base64Of(Prefix(@.raw, 3))] : w \in right}
      \cup {[Argon2String(password) EXCEPT ![3] = i] : i \in {<<>>, <<<<"m">>, <<"t", 1>>, <<"p", 1>>>>}}
      \cup {[w EXCEPT ![2] = NoNumber] : w \in {Argon2String(password)} \cup {x \in right : x[1] = <<"2b">>}}

\* The checksums of the code that are computed bit by bit.
BitsFrom(hex) == BitsOf(hex, 4)
Checksum(poly, init, reflected) ==
  [poly |-> BitsFrom(poly), init |-> Repeat(init, 4 * Len(poly)), refin |-> reflected, refout |-> reflected,
   xorout |-> Repeat(init, 4 * Len(poly))]
Checksums == {Checksum(<<0, 7>>, 0, FALSE), Checksum(<<8, 0, 0, 5>>, 0, TRUE),
              Checksum(<<1, 14, 13, 12, 6, 15, 4, 1>>, 1, TRUE)}

-----------------------------------------------------------------------------
Codec(name) == [name |-> name]
Base62 == [i \in 1..62 |-> IF i <= 10 THEN 47 + i ELSE IF i <= 36 THEN 54 + i ELSE 60 + i]
MCCodecs ==
  {Codec(n) : n \in {"rlp", "bencode", "protobuf", "asn1", "bech32", "bech32m", "z85", "crockford",
                     "bytes32", "url", "url_form", "bip39", "abi", "data_uri", "otpauth"}}
  \cup {[name |-> "ssz", schema |-> s] : s \in SszSchemas}
  \cup {[name |-> "base62", alphabet |-> a] : a \in {Base62, Reverse(Base62), Append(Tail(Base62), 49)}}
  \cup {[name |-> "rfc4648", width |-> w, padding |-> p] : w \in 5..6, p \in BOOLEAN}
  \cup {[name |-> "hexdump", line |-> n] : n \in {1, 3, 16}}
  \cup {[name |-> "escape", style |-> s] : s \in {"js", "python", "c", "backslash"}}
  \cup {[name |-> "number", base |-> b, pad |-> p] : b \in {2, 8, 16}, p \in {None, 2}}
  \cup {[name |-> "order", from |-> "big", to |-> t, width |-> w] : t \in {"big", "little"}, w \in {None, 2, 3}}
  \cup {[name |-> "pad", length |-> 3, side |-> s, fill |-> f] : s \in {"left", "right"}, f \in {0, 255}}
  \cup {[name |-> "crc", spec |-> s] : s \in Checksums}
  \cup {[name |-> "password", password |-> w, salt |-> s, cuts |-> b] : w \in Passwords, s \in Salts, b \in BOOLEAN}

MCValuesOf(c) ==
  CASE c.name = "rlp"      -> Items
    [] c.name = "ssz"      -> Values(c.schema)
    [] c.name = "bencode"  -> Bencodings
    [] c.name = "protobuf" -> Messages
    [] c.name = "asn1"     -> Nodes
    [] IsBech32(c)             -> Bech32Values
    [] c.name = "escape"   -> Texts
    [] c.name = "number"   -> {Signed(n) : n \in {0, 1, 7, 8, 255, 256, 65535, 70000, -1, -16}} \cup {<<97>>}
    [] c.name = "bip39"    -> {<<>>, <<1, 2, 3>>} \cup UNION {[1..n -> {0, 1, 255}] : n \in 1..2}
    [] c.name = "abi"      -> Interfaces
    [] c.name = "data_uri" -> DataUris
    [] c.name = "otpauth"  -> Otps
    [] c.name = "password" -> Stored
    [] c.name = "crc"      -> UNION {[1..n -> {0, 255}] : n \in 1..3}
    [] c.name \in {"hexdump", "url", "url_form"} -> Printables
    [] c.name = "base62"       -> Triples
    [] OTHER                   -> ByteStrings

MCWiresOf(c) ==
  CASE c.name = "rlp"      -> RlpWires
    [] c.name = "ssz"      -> SszWires
    [] c.name = "bencode"  -> BencodeWires
    [] c.name = "protobuf" -> ProtobufWires
    [] c.name = "asn1"     -> Asn1Wires
    [] IsBech32(c)             -> Bech32Wires(c.name)
    [] c.name = "escape"   -> Sources
    [] c.name = "bip39"    -> UNION {[1..n -> {-1, 0, 3, 7}] : n \in 1..4}
    [] c.name = "number"   -> UNION {[1..n -> {43, 45, 48, 49, 56, 97, 88, 95, 32}] : n \in 0..3}
    [] c.name \in {"order", "pad"} -> ByteStrings
    [] c.name = "abi"      -> AbiWires
    [] c.name = "data_uri" -> DataUriWires
    [] c.name = "otpauth"  -> OtpWires
    [] c.name = "password" -> StoredWires(c.password)
    [] c.name = "z85"      -> UNION {[1..n -> {0, 1, 20, 40, 41}] : n \in 0..4}
    [] c.name = "base62"   -> UNION {[1..n -> {48, 49, 90, 122, 45}] : n \in 0..4}
    [] c.name = "crockford" -> UNION {[1..n -> {48, 79, 76, 122, 45, 85}] : n \in 0..4}
    [] c.name = "rfc4648"  -> UNION {[1..n -> {0, 1, 31, Equals}] : n \in 0..4}
    [] c.name \in {"url", "url_form"} -> UNION {[1..n -> {37, 50, 70, 97, 43, 32}] : n \in 0..4}
    [] OTHER                   -> {}

\* Every kind of entry, also those that never have a name.
AbiCodecs == {Codec("abi")}
AbiValuesOf(c) == Interfaces \cup {Record("receive", NoName, <<>>, <<>>, "payable", FALSE)}
                             \cup {Record("fallback", NoName, i, <<>>, "nonpayable", FALSE) : i \in Inputs}

MCLettersOf(c) ==
  CASE IsBech32(c) -> {113, 112, 97, 49}
    [] c.name \in {"rlp", "bencode", "asn1"} -> {0, 19}
    [] c.name = "crc" -> {0, 1, 128, 255}
    [] OTHER -> {}
=============================================================================
