------------------------------- MODULE MCDigests ----------------------------
(* Bytes of 20 values: 8..10 short strings, 11 a long one, 12..14 short      *)
(* lists, 15 a long one; so two bytes more than a short payload already      *)
(* need the long form.  A word is two bytes and an address one.              *)
(* Words have three bits, and entropy of one byte or two one bit of checksum  *)
(* a byte.                                                                    *)
EXTENDS Digests

Tx(type, fields) == [type |-> type, fields |-> [i \in DOMAIN fields |->
                       IF fields[i] = -1 THEN ListOf(<<>>) ELSE Leaf(minimal_bytes(fields[i]))]]
Txs == {Tx(0, <<n, 1, 0, 1, v, 0>>) : n \in 0..1, v \in {0, 8}}
       \cup {Tx(0, <<n, 1, 0, 1, v, 0, c, 0, 0>>) : n \in 0..1, v \in {0, 8}, c \in 1..2}
       \cup {Tx(1, <<c, n, 1, 0, 1, 0, 0, -1>>) : c \in 1..2, n \in 0..1}
       \cup {Tx(2, <<c, n, 1, 1, 0, 1, 0, 0, -1>>) : c \in 1..2, n \in 0..1}

\* Structs that differ in what they refer to, and in what only an array refers to.
Domain(key) == <<Member(key, Uint, 0)>>
A(key, base, dims) == <<Member(key, base, dims)>>
Typed(types, message) ==
  [types |-> types, primary |-> 2, domain |-> <<1>>, message |-> message]
TypedData ==
  {Typed(<<Domain(d), A("a", Uint, 0)>>, <<v>>) : d \in {"chainId", "salt"}, v \in 0..1}
  \cup {Typed(<<Domain("chainId"), A("a", Uint, 0), A("b", b, 0)>>, <<1>>) : b \in {Uint, 2}}
  \cup {Typed(<<Domain("chainId"), A("a", Dynamic, 0)>>, <<v>>) : v \in {<<>>, <<1>>}}
  \cup {Typed(<<Domain("chainId"), A("a", Uint, 1)>>, <<v>>) : v \in {<<>>, <<1>>, <<1, 0>>}}
  \cup {Typed(<<Domain("chainId"), A("a", Uint, 2)>>, <<v>>) : v \in {<<>>, <<<<>>>>, <<<<1>>>>}}
  \cup {Typed(<<Domain("chainId"), A("a", 3, 0), A(k, Uint, 0)>>, <<<<v>>>>) :
           k \in {"b", "c"}, v \in 0..1}
  \cup {Typed(<<Domain("chainId"), A("a", 3, 1), A(k, Uint, 0)>>, <<v>>) :
           k \in {"b", "c"}, v \in {<<>>, <<<<1>>>>}}
  \cup {Typed(<<Domain("chainId"), A("a", 2, 1)>>, <<v>>) : v \in {<<>>, <<<<<<>>>>>>}}

\* gas: verification, call, pre-verification, priority fee, fee, and the paymaster's two.
Op == [sender |-> 1, nonce |-> 1, callData |-> <<1>>, factory |-> <<>>, factoryData |-> <<>>,
       gas |-> <<1, 2, 3, 4, 5, 0, 0>>, paymaster |-> -1, paymasterData |-> <<>>,
       entry |-> 3, chain |-> 1]
Sponsored == [Op EXCEPT !.paymaster = 2, !.paymasterData = <<7>>, !.gas = <<1, 2, 3, 4, 5, 6, 7>>]
Deploying == [Op EXCEPT !.factory = <<2>>, !.factoryData = <<1>>]
Full == [Sponsored EXCEPT !.factory = <<2>>]
Stale == [Full EXCEPT !.factory = <<1>>, !.paymaster = 1, !.gas = <<5, 5, 5, 5, 5, 5, 5>>]
Ops == {Op, Sponsored, Deploying, Full,
        [Op EXCEPT !.chain = 3], [Op EXCEPT !.entry = 1], [Op EXCEPT !.entry = 2], [Op EXCEPT !.nonce = 2],
        [Op EXCEPT !.gas[1] = 2, !.gas[2] = 1], [Op EXCEPT !.gas[1] = 2, !.gas[2] = 0],
        [Sponsored EXCEPT !.gas[6] = 7, !.gas[7] = 6]}
TooMuchGas == {[Op EXCEPT !.gas[2] = Base], [Op EXCEPT !.gas[5] = Base],
               [Sponsored EXCEPT !.gas[7] = Base]}
MCEntryPoints == <<6, 8, 7>>
OpCalls ==
  {UserOpCall(op, 6, 6, Mixed(op)) : op \in Ops}
  \cup {UserOpCall(op, v, v, Packed(op)) : op \in Ops, v \in 7..8}
  \cup {UserOpCall(op, v, v, Packed(op) @@ Parts(op)) : op \in Ops, v \in 7..8}
  \cup {UserOpCall(Full, v, v, Packed(Full) @@ Parts(Stale)) : v \in 7..8}
  \cup {UserOpCall(op, v, v, Parts(op)) : op \in Ops \cup TooMuchGas, v \in 7..8}
  \cup {UserOpCall(op, MCEntryPoints[op.entry], Auto, Mixed(op)) : op \in Ops}
  \cup {UserOpCall([Op EXCEPT !.entry = 5], 7, Auto, Parts(Op))}


-----------------------------------------------------------------------------
\* Variables at declared slots, in the struct of a namespace, and the known ones, each by
\* every way to ask for its slot.
Layout(kind, slot, keys, index, size, text) ==
  [kind |-> kind, slot |-> slot, keys |-> keys, index |-> index, element_size |-> size, text |-> text]
Mapping(slot, keys) == Layout("mapping", slot, keys, 0, 1, <<>>)
Array(slot, index, size) == Layout("dynamic_array", slot, <<>>, index, size, <<>>)
Named(kind, text, index) == Layout(kind, Declared(0), <<>>, index, 1, text)
Variable(base, steps, spec) == [kind |-> "slot", arg |-> spec, means |-> <<"slot", base, steps>>]
Key(type, value) == [type |-> type, value |-> value]
KeyStep(key) == <<"key", key.type, key.value>>
Namespaces == {<<"a">>, <<"eip1967.proxy.", "admin">>}

Balances == {<<Key("address", a), Key("uint", n)>> : a \in {1, 21}, n \in {-1, 0, 1}}
Owners == {<<Key("bytesN", b)>> : b \in {<<>>, <<1>>, <<1, 2>>}} \cup {<<Key("bool", b)>> : b \in 0..1}
SlotCalls ==
  {Variable(<<"declared", 0>>, <<KeyStep([k[1] EXCEPT !.value = @ % Base]), KeyStep([k[2] EXCEPT !.value = @ % Base ^ Word])>>,
            Mapping(Declared(0), k)) : k \in Balances}
  \cup {Variable(<<"declared", 0>>, <<KeyStep([k[1] EXCEPT !.value = @ % Base]), KeyStep([k[2] EXCEPT !.value = @ % Base ^ Word])>>,
                 Mapping(eth_storage_slot(Mapping(Declared(0), <<k[1]>>)), <<k[2]>>)) : k \in Balances}
  \cup {Variable(<<"declared", 1>>, <<KeyStep(Key("string", t))>>, Mapping(Declared(1), <<Key("string", t)>>)) :
          t \in {<<>>, <<"a">>, <<"a", "a">>}}
  \cup {Variable(<<"declared", 2>>, <<KeyStep(Key("bytes", t)), <<"element", i>>>>,
                 Array(eth_storage_slot(Mapping(Declared(2), <<Key("bytes", t)>>)), i, 2)) :
          t \in {<<>>, <<0>>, <<0, 2>>}, i \in 0..1}
  \cup {Variable(<<"declared", 3>>, <<<<"element", i>>>>, [Array(Declared(3), i, 1) EXCEPT !.kind = k]) :
          k \in {"array", "dynamic_array"}, i \in 0..2}
  \cup {Variable(<<"declared", 4>>, <<KeyStep([k[1] EXCEPT !.value = IF k[1].type = "bytesN"
                                              THEN @ \o Repeat(0, Word - Len(@)) ELSE @])>>,
                 Mapping(Declared(4), k)) : k \in {<<Key("bytesN", b)>> : b \in {<<>>, <<1>>, <<1, 0>>}}}
  \cup {Variable(<<"proxy", n>>, <<>>, Named(k, <<n>>, 0)) : k \in {"eip1967", "erc1967"}, n \in ProxyNames \cup {"b"}}
  \cup {Variable(<<"proxiable">>, <<>>, Named(k, <<>>, 0)) : k \in {"eip1822", "uups"}}
  \cup {Variable(<<"erc7201", t>>, <<<<"member", n>>>>, Named(k, p \o t, n)) :
          k \in {"erc7201", "namespaced"}, p \in {<<>>, <<"erc7201:">>}, t \in Namespaces, n \in 0..1}
  \cup {Variable(<<"diamond", t>>, <<<<"member", n>>>>, Named("diamond", t, n)) : t \in Namespaces \cup {<<>>}, n \in 0..1}
  \cup {Variable(<<"erc7201", t>>, <<<<"member", n>>, KeyStep(Key("uint", 1))>>,
                 Mapping(eth_storage_slot(Named("erc7201", t, n)), <<Key("uint", 1)>>)) : t \in Namespaces, n \in 0..1}
  \cup {Variable(<<"declared", Base ^ Word>>, <<>>, Mapping(Declared(Base ^ Word), <<Key("uint", 1)>>))}

\* Names of up to two labels, one of them empty or not.
EnsNames == {<<>>, <<"a">>, <<"b">>, <<"a", "b">>, <<"a", ".", "b">>, <<"b", ".", "a">>, <<"a", ".">>,
             <<".", "a">>, <<"a", ".", ".", "b">>, <<"a", ".", "a", ".", "b">>}
EnsCalls ==
  {[kind |-> "namehash", arg |-> n, means |-> <<"name", labels_of(n)>>] : n \in EnsNames}
  \cup {[kind |-> "labelhash", arg |-> n,
         means |-> IF n = <<>> THEN <<"name", n>> ELSE <<"label", labels_of(n)[1]>>] : n \in EnsNames}

-----------------------------------------------------------------------------
\* Types as [base, dims, members], each written in several ways, blanks in and around it.
Type(base, dims) == [base |-> base, dims |-> dims, members |-> <<>>]
Tuple(types, dims) == [base |-> "tuple", dims |-> dims, members |-> types]
Types == {Type("uint256", d) : d \in {<<>>, <<"[", "]">>, <<"[", "3", "]">>, <<"[", "]", "[", "3", "]">>}}
         \cup {Type("address", <<>>), Type("bytes1", <<>>)}
ParamLists == {<<>>} \cup {<<t>> : t \in Types} \cup {<<Type("uint256", <<>>), t>> : t \in Types}
              \cup {<<Tuple(<<Type("uint256", <<>>), t>>, d)>> : t \in Types, d \in {<<>>, <<"[", "]">>}}
              \cup {<<Tuple(<<Tuple(<<Type("address", <<>>)>>, <<>>)>>, <<>>)>>}
Alias(base) == CASE base = "uint256" -> "uint" [] base = "bytes1" -> "byte" [] OTHER -> base
\* With its shortest name or not, and with what follows a type in a source file.
Styles == [alias : BOOLEAN, tail : {<<>>, <<" ", "a">>, <<" ", "memory", " ", "a">>, <<" ", "indexed">>},
           spaced : BOOLEAN]
RECURSIVE Written(_, _), WrittenList(_, _), Fragments(_)
Written(t, style) ==
  LET gap == IF style.spaced THEN <<" ">> ELSE <<>>
  IN  (IF t.base # "tuple" THEN <<IF style.alias THEN Alias(t.base) ELSE t.base>>
       ELSE gap \o <<"(">> \o WrittenList(t.members, style) \o <<")">> \o gap)
      \o t.dims \o style.tail
WrittenList(types, style) ==
  FlattenSeq([i \in DOMAIN types |->
    (IF i = 1 THEN <<>> ELSE IF style.spaced THEN <<" ", ",", " ">> ELSE <<",">>) \o Written(types[i], style)])
WrittenAs(name, types, style) ==
  (IF style.spaced THEN <<" ", name, " ">> ELSE <<name>>) \o <<"(">> \o WrittenList(types, style) \o <<")">>
  \o (IF style.tail = <<>> THEN <<>> ELSE <<" ", "returns", " ", "(", "bool", ")">>)
Fragments(types) == [i \in DOMAIN types |->
                      Param(<<types[i].base>> \o types[i].dims, "a", FALSE, Fragments(types[i].members))]
Plainly == [alias |-> FALSE, tail |-> <<>>, spaced |-> FALSE]
Signature(text) == [form |-> "signature", text |-> text]
Human(kind, text) == [form |-> "human", text |-> <<kind, " ">> \o text]
Json(kind, name, types) ==
  [form |-> "json", fragment |-> Record(kind, name, Fragments(types), <<>>, NoMutability, FALSE)]
Declares(kind, types, declaration) == [kind |-> kind, arg |-> declaration, means |-> <<kind, "f", types>>]
Malformed == {<<"f">>, <<"(", ")">>, <<"f", "(">>, <<"f", "(", ",", ")">>, <<"f", " ", "g", "(", ")">>,
              <<"f", "(", "(", ")", ")">>}
SelectorCalls ==
  UNION {{Declares(k, l, d) : d \in {Signature(WrittenAs("f", l, Plainly)), Json(k, "f", l)}} :
           k \in {"function", "event"}, l \in ParamLists}
  \cup {Declares("event", l, Signature(WrittenAs("f", l, s))) : l \in {m \in ParamLists : Len(m) = 1},
                                                              s \in {t \in Styles : t.spaced}}
  \cup {Declares("event", l, Human("event", WrittenAs("f", l, s))) :
          l \in {m \in ParamLists : Len(m) = 1}, s \in {t \in Styles : t.alias /\ ~t.spaced}}
  \cup {[kind |-> "event", arg |-> d, means |-> <<"nothing", d>>] :
          d \in {Signature(s) : s \in Malformed} \cup {Json("event", NoName, <<>>), Human("event", <<"(", ")">>)}}

-----------------------------------------------------------------------------
\* Sentences of three words or six in either case, the right ones and one that is not.
MCHashByte(entropy) == (Number(entropy, 256) * 37 + 91) % 256
Sentences == {bip39_encode(e) : e \in {<<0>>, <<255>>, <<1, 2>>}} \cup {<<0, 0, 1>>, <<0, 0, 0, 0>>, <<-1, 0, 0>>}
InCase(words, case) == [i \in DOMAIN words |-> [word |-> words[i], case |-> case]]
SeedCalls == {[kind |-> "seed", arg |-> [sentence |-> InCase(w, c), passphrase |-> p], means |-> <<"seed", w, p>>] :
                w \in Sentences, c \in {"lower", "upper"}, p \in {<<>>, <<"mnemonic">>, <<"x">>}}

Seeds == {bip39_to_seed(InCase(bip39_encode(<<0>>), "lower"), <<>>), Plain(<<1, 1>>), Plain(<<1>>)}
Routes == UNION {[1..n -> {0, 1}] : n \in 0..2}
MarksFor(steps, mark) == [i \in DOMAIN steps |-> Step(steps[i], mark)]
M == <<Step(0, "m")>>
PathCalls ==
  {[kind |-> "bip32", arg |-> [seed |-> s, path |-> m \o MarksFor(n, k)],
    means |-> <<"bip32", s, n, IF k = "" \/ n = <<>> THEN "normal" ELSE "hardened">>] :
     s \in Seeds, m \in {<<>>, M}, n \in Routes, k \in {"", "'", "h"}}
  \cup {[kind |-> "bip32", arg |-> [seed |-> Plain(<<1, 1>>), path |-> M \o <<Step(n, "")>>], means |-> <<"none", n>>] :
          n \in {-1, Hardened}}

\* Keys with parameters given and left out; the passwords and salts that an HMAC does not
\* tell apart, with a zero at their end or without, are meant as one, up to the length of
\* a block.
MCHashLen(hash) == CASE hash = "sha1" -> 1 [] hash = "sha256" -> 2 [] OTHER -> 3
KdfParams(kdf) ==
  CASE kdf = "pbkdf2" -> {<<>>, [iterations |-> 600000], [iterations |-> 1, prf |-> "sha1"], [prf |-> "sha1"],
                          [iterations |-> 0], [prf |-> "md5"], [ln |-> 14]}
    [] kdf = "scrypt" -> {<<>>, [ln |-> 14, r |-> 8], [p |-> 8], [r |-> 1], [ln |-> 21]}
    [] kdf = "hkdf"   -> {<<>>, [info |-> <<>>], [info |-> Plain(<<1>>)], [hash |-> "sha1"],
                          [hash |-> "sha256"], [hash |-> "sha512", info |-> Plain(<<1>>)], [hash |-> "md5"]}
LongKey == Repeat(1, 64)
Trim(bytes) == IF Len(bytes) > 64 THEN Plain(bytes) ELSE StrippedEnd(Plain(bytes), IsZeroByte)
DeriveCalls ==
  UNION {{[kind |-> "derive",
           arg |-> [kdf |-> k, password |-> Plain(w), salt |-> Plain(s), length |-> n, params |-> p],
           means |-> <<k, IF k = "hkdf" THEN Plain(w) ELSE Trim(w), IF k = "hkdf" THEN Trim(s) ELSE Plain(s),
                       n, p @@ KdfDefaults[k]>>] :
             w \in {<<1>>, <<1, 0>>, LongKey, Append(LongKey, 0)}, s \in {<<>>, <<0>>, <<1>>}, n \in {0, 2, 5, 8},
             p \in KdfParams(k)} : k \in {"pbkdf2", "scrypt", "hkdf"}}

MCCalls ==
  {Call("eip191", m) : m \in UNION {[1..n -> 0..1] : n \in 0..3}}
  \cup {Call("eip7702", [chain |-> c, address |-> a, nonce |-> n]) :
           c \in {0, 1, 20, 400}, a \in 1..2, n \in {0, 8, 400}}
  \cup {Call("create", [deployer |-> d, nonce |-> n]) : d \in {1, 9}, n \in {0, 1, 8, 20, 400}}
  \cup {Call("create2", [deployer |-> d, salt |-> s, code |-> c]) :
           d \in {1, 9}, s \in {encode_int(0), encode_int(9), keccak256(Plain(<<1>>))},
           c \in {<<>>, <<1>>}}
  \cup {Call("tx", t) : t \in Txs}
  \cup {Call("eip712", t) : t \in TypedData \cup {TypedOp(op) : op \in Ops}}
  \cup OpCalls \cup SlotCalls \cup EnsCalls \cup SelectorCalls \cup SeedCalls \cup PathCalls \cup DeriveCalls
=============================================================================
