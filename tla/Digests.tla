------------------------------ MODULE Digests ------------------------------
(***************************************************************************)
(* What the tools hash for somebody to sign, to deploy at, to look up or   *)
(* to hold a key by: eth_hash, eth_userop_hash, eth_contract_address, the  *)
(* signing hash of eth_tx_codec, eth_storage_slot, ens_namehash,           *)
(* eth_selector, abi_inspect, bip39 action=to_seed, bip32_derive and       *)
(* derive_key.  A client makes two calls; the properties compare what they *)
(* gave with what the client meant by them.  eth_hash kind=keccak256,      *)
(* which hashes any bytes as they are, is left out: they mean nothing.     *)
(*                                                                         *)
(* The definition of a struct in a type string is one byte, <<"struct",    *)
(* its name, its members>>.                                                *)
(***************************************************************************)
EXTENDS StorageSlot, Declarations, KeyDerivation, Preimages

CONSTANTS Half,      \* bytes of each of two values packed in a word (16)
          NonceEnd,  \* the first nonce that is none (2^64)
          SelectorLen,  \* bytes of a selector (4)
          EntryPoints,  \* the version of each canonical entry point, by its address
          Calls      \* the calls a client makes: the kind, the arguments, and what is meant

ASSUME DigestAssumption ==
  {Half, SelectorLen} \subseteq Nat \ {0} /\ Word = 2 * Half

-----------------------------------------------------------------------------
(* EIP-712.  A type is [base, dims]: what it is an array of, and how many  *)
(* times.  types gives the members of the structs, which are numbered in   *)
(* the order of their names; the first is EIP712Domain.                    *)

Uint == 0    \* any type of one word
Dynamic == -1  \* bytes and string, which are hashed
Member(name, base, dims) == [name |-> name, base |-> base, dims |-> dims]

RECURSIVE type_deps(_, _, _), type_deps_NoArrays(_, _, _)
\* Mutant (OneMeaning): an array of a struct is not looked into.
type_deps_NoArrays(type, types, found) ==
  IF type \in found \/ type \notin DOMAIN types THEN found
  ELSE FoldLeft(LAMBDA f, m : IF m.dims > 0 THEN f ELSE type_deps_NoArrays(m.base, types, f),
                found \cup {type}, types[type])

\* The structs a struct refers to, itself included.
type_deps(type, types, found) ==
  IF type \in found \/ type \notin DOMAIN types THEN found
  ELSE FoldLeft(LAMBDA f, m : type_deps(m.base, types, f), found \cup {type}, types[type])

\* The type string: the struct first, then those it refers to, in order.
encode_type(type, types) ==
  LET others == SetToSortSeq(type_deps(type, types, {}) \ {type}, <)
  IN  [i \in 1..Len(others) + 1 |->
         LET t == (<<type>> \o others)[i] IN <<"struct", t, types[t]>>]

RECURSIVE encode_value(_, _, _, _), hash_struct(_, _, _)
\* A value in one word.
encode_value(base, dims, value, types) ==
  IF dims > 0
  THEN keccak256(FlattenSeq([i \in DOMAIN value |-> encode_value(base, dims - 1, value[i], types)]))
  ELSE IF base \in DOMAIN types THEN hash_struct(base, value, types)
  ELSE IF base = Dynamic THEN keccak256(Plain(value))
  ELSE encode_int(value)
hash_struct(type, data, types) ==
  keccak256(keccak256(encode_type(type, types)) \o
    FlattenSeq([i \in DOMAIN types[type] |->
      encode_value(types[type][i].base, types[type][i].dims, data[i], types)]))

\* typed: its types, the struct that is signed, and the data of it and of the domain.
eip712(typed) ==
  signable(hash_struct(1, typed.domain, typed.types),
           hash_struct(typed.primary, typed.message, typed.types))

-----------------------------------------------------------------------------
(* ERC-4337.  A user operation is an object, a function from the keys that *)
(* are there; the members a bundler calls by two names are under both.     *)

Has(fields, key) == key \in DOMAIN fields
GetBytes(fields, key) == IF Has(fields, key) THEN fields[key] ELSE <<>>

gas_fits(high, low) == high < Base ^ Half /\ low < Base ^ Half

\* A member of one word, from the word or from its two halves.
GasWord(fields, packed, high, low) ==
  IF Has(fields, packed) THEN fields[packed] ELSE fields[high] * Base ^ Half + fields[low]
GasRefused(fields, packed, high, low) ==
  ~Has(fields, packed) /\ ~gas_fits(fields[high], fields[low])

\* Mutant (OneDigest): the parts win over what is packed.
init_code_Parts(fields) ==
  IF Has(fields, "factory") THEN fields.factory \o GetBytes(fields, "factoryData")
  ELSE GetBytes(fields, "initCode")
init_code(fields) ==
  IF GetBytes(fields, "initCode") # <<>> THEN fields.initCode
  ELSE IF Has(fields, "factory") THEN fields.factory \o GetBytes(fields, "factoryData")
  ELSE <<>>

paymaster_and_data(fields) ==
  IF GetBytes(fields, "paymasterAndData") # <<>> THEN fields.paymasterAndData
  ELSE IF Has(fields, "paymaster")
  THEN ToBytes(fields.paymaster, AddrLen)
         \o ToBytes(fields.paymasterVerificationGasLimit, Half)
         \o ToBytes(fields.paymasterPostOpGasLimit, Half) \o GetBytes(fields, "paymasterData")
  ELSE <<>>

packed_userop(fields) ==
  [initCode |-> init_code(fields),
   accountGasLimits |-> GasWord(fields, "accountGasLimits", "verificationGasLimit", "callGasLimit"),
   gasFees |-> GasWord(fields, "gasFees", "maxPriorityFeePerGas", "maxFeePerGas"),
   paymasterAndData |-> paymaster_and_data(fields)]

\* The two words say which half does not fit; to_bytes(16) of a paymaster's gas, which
\* comes after them, overflows.
gas_words_refused(fields) ==
  \/ GasRefused(fields, "accountGasLimits", "verificationGasLimit", "callGasLimit")
  \/ GasRefused(fields, "gasFees", "maxPriorityFeePerGas", "maxFeePerGas")
paymaster_gas_overflows(fields) ==
  /\ ~gas_words_refused(fields)
  /\ GetBytes(fields, "paymasterAndData") = <<>> /\ Has(fields, "paymaster")
  /\ ~gas_fits(fields.paymasterVerificationGasLimit, fields.paymasterPostOpGasLimit)
packed_userop_raises(fields) == gas_words_refused(fields) \/ paymaster_gas_overflows(fields)

UserOpMembers == <<Member("sender", Uint, 0), Member("nonce", Uint, 0),
                   Member("initCode", Dynamic, 0), Member("callData", Dynamic, 0),
                   Member("accountGasLimits", Uint, 0), Member("preVerificationGas", Uint, 0),
                   Member("gasFees", Uint, 0), Member("paymasterAndData", Dynamic, 0)>>
DomainMembers == <<Member("name", Dynamic, 0), Member("version", Dynamic, 0),
                   Member("chainId", Uint, 0), Member("verifyingContract", Uint, 0)>>
DomainData(entry, chain) == <<<<4>>, <<1>>, chain, entry>>  \* "ERC4337", "1"

\* The members of a packed operation, in words.
members(fields) ==
  LET packed == packed_userop(fields)
  IN  encode_int(fields.sender) \o encode_int(fields.nonce)
        \o keccak256(Plain(packed.initCode)) \o keccak256(Plain(GetBytes(fields, "callData")))
        \o encode_int(packed.accountGasLimits) \o encode_int(fields.preVerificationGas)
        \o encode_int(packed.gasFees) \o keccak256(Plain(packed.paymasterAndData))

\* What version 0.6 hashes.
members_0_6(fields) ==
  encode_int(fields.sender) \o encode_int(fields.nonce)
    \o keccak256(Plain(GetBytes(fields, "initCode"))) \o keccak256(Plain(GetBytes(fields, "callData")))
    \o encode_int(fields.callGasLimit) \o encode_int(fields.verificationGasLimit)
    \o encode_int(fields.preVerificationGas) \o encode_int(fields.maxFeePerGas)
    \o encode_int(fields.maxPriorityFeePerGas)
    \o keccak256(Plain(GetBytes(fields, "paymasterAndData")))

Auto == 0
resolved(op) == IF op.version = Auto THEN EntryPoints[op.entry] ELSE op.version

userop_hash(op) ==
  IF resolved(op) = 8
  THEN signable(keccak256(keccak256(<<<<"struct", 1, DomainMembers>>>>)
                  \o keccak256(Plain(<<4>>)) \o keccak256(Plain(<<1>>))
                  \o encode_int(op.chain) \o encode_int(op.entry)),
                keccak256(keccak256(<<<<"struct", 2, UserOpMembers>>>>) \o members(op.fields)))
  ELSE keccak256(IF resolved(op) = 6 THEN members_0_6(op.fields) ELSE members(op.fields))
         \o encode_int(op.entry) \o encode_int(op.chain)

-----------------------------------------------------------------------------
(* eth_selector of a signature, and abi_inspect of a line or a fragment.   *)

canonical_of(declaration) ==
  IF declaration.form = "signature" THEN canonical_signature(declaration.text)
  ELSE LET entry == IF declaration.form = "human" THEN entry_from_human(declaration.text)
                    ELSE entry_from_json(declaration.fragment)
       IN  When(entry.ok, Canonical(entry.value.name, entry.value.inputs))

\* The first bytes of the hash, of an event all of them.
selector(kind, declaration) ==
  LET digest == keccak256(Text(canonical_of(declaration).value))
  IN  IF kind = "event" THEN digest ELSE Prefix(digest, SelectorLen)

-----------------------------------------------------------------------------
(* A call: what it gives, and when it raises instead.                      *)

Digest(kind, arg) ==
  CASE kind \in PreimageKinds -> keccak256(preimage(kind, arg))
    [] kind = "eip712"    -> keccak256(eip712(arg))
    [] kind = "userop"    -> keccak256(userop_hash(arg))
    [] kind = "slot"      -> slot_word(eth_storage_slot(arg))
    [] kind = "namehash"  -> namehash(arg)
    [] kind = "labelhash" -> labelhash(arg)
    [] kind \in {"function", "event"} -> selector(kind, arg)
    [] kind = "seed"      -> bip39_to_seed(arg.sentence, arg.passphrase)
    [] kind = "bip32"     -> LET child == bip32_derive(arg.seed, arg.path)
                             IN  <<<<"key", child.key, child.chain>>>>
    [] kind = "derive"    -> derive_key(arg)

Raises(kind, arg) ==
  CASE kind = "eip7702" -> arg.chain >= Base ^ Word \/ arg.nonce >= NonceEnd
    [] kind = "create"  -> arg.nonce >= NonceEnd
    [] kind = "userop"  -> \/ arg.version = Auto /\ arg.entry \notin DOMAIN EntryPoints
                           \/ resolved(arg) # 6 /\ packed_userop_raises(arg.fields)
    [] kind = "slot"    -> slot_raises(arg)
    [] kind \in {"namehash", "labelhash"} -> namehash_raises(arg)
    [] kind \in {"function", "event"}     -> ~canonical_of(arg).ok
    [] kind = "seed"    -> seed_raises(arg.sentence)
    [] kind = "bip32"   -> bip32_raises(arg.seed, arg.path)
    [] kind = "derive"  -> derive_raises(arg)
    [] OTHER            -> FALSE

\* What the bytes are for; those of one use are never taken for those of another.
Use(kind) == CASE kind \in {"eip191", "eip712", "eip7702", "tx", "userop"} -> "signed"
               [] kind \in {"create", "create2"} -> "address"
               [] OTHER -> kind

VARIABLE made  \* the last calls that did not raise: what each meant, and what it gave

Hash(call) == /\ Len(made) < 2 /\ ~Raises(call.kind, call.arg)
              /\ made' = Append(made, [use |-> Use(call.kind), means |-> call.means,
                                       digest |-> Digest(call.kind, call.arg)])
StartOver == Len(made) = 2 /\ made' = <<>>

Init == made = <<>>
Next == StartOver \/ \E call \in Calls : Hash(call)
Spec == Init /\ [][Next]_made

-----------------------------------------------------------------------------
(* What a client may mean.  It has a user operation in mind, and writes it *)
(* packed, or in parts as a bundler does, or with both in one object.      *)

Packed(op) ==
  [sender |-> op.sender, nonce |-> op.nonce, callData |-> op.callData,
   initCode |-> op.factory \o op.factoryData, preVerificationGas |-> op.gas[3],
   accountGasLimits |-> op.gas[1] * Base ^ Half + op.gas[2],
   gasFees |-> op.gas[4] * Base ^ Half + op.gas[5],
   paymasterAndData |-> IF op.paymaster = -1 THEN <<>>
                        ELSE ToBytes(op.paymaster, AddrLen) \o ToBytes(op.gas[6], Half)
                               \o ToBytes(op.gas[7], Half) \o op.paymasterData]

Parts(op) ==
  [sender |-> op.sender, nonce |-> op.nonce, callData |-> op.callData,
   verificationGasLimit |-> op.gas[1], callGasLimit |-> op.gas[2],
   preVerificationGas |-> op.gas[3], maxPriorityFeePerGas |-> op.gas[4],
   maxFeePerGas |-> op.gas[5]]
  @@ (IF op.factory = <<>> THEN <<>>
      ELSE [factory |-> op.factory, factoryData |-> op.factoryData])
  @@ (IF op.paymaster = -1 THEN <<>>
      ELSE [paymaster |-> op.paymaster, paymasterData |-> op.paymasterData,
            paymasterVerificationGasLimit |-> op.gas[6],
            paymasterPostOpGasLimit |-> op.gas[7]])

\* Version 0.6 takes the gas in parts and the rest packed.
Mixed(op) == [sender |-> op.sender, nonce |-> op.nonce, callData |-> op.callData,
              initCode |-> op.factory \o op.factoryData,
              paymasterAndData |-> Packed(op).paymasterAndData] @@ Parts(op)

\* The EIP-712 data that an operation of version 0.8 is signed as.
TypedOp(op) ==
  LET p == Packed(op)
  IN  [types |-> <<DomainMembers, UserOpMembers>>, primary |-> 2,
       domain |-> DomainData(op.entry, op.chain),
       message |-> <<p.sender, p.nonce, p.initCode, p.callData, p.accountGasLimits,
                     p.preVerificationGas, p.gasFees, p.paymasterAndData>>]

\* What typed data means: the structs that its own or its domain's data can have.
MeaningOf(typed) ==
  LET closed(S) == \A t \in S : \A i \in DOMAIN typed.types[t] :
                     typed.types[t][i].base \in DOMAIN typed.types => typed.types[t][i].base \in S
      reached   == CHOOSE S \in SUBSET DOMAIN typed.types :
                     /\ {1, typed.primary} \subseteq S /\ closed(S)
                     /\ \A T \in SUBSET S : {1, typed.primary} \subseteq T /\ closed(T) => T = S
  IN  <<[t \in reached |-> typed.types[t]], typed.primary, typed.domain, typed.message>>

Call(kind, arg) == [kind |-> kind, arg |-> arg,
                    means |-> <<kind, IF kind = "eip712" THEN MeaningOf(arg) ELSE arg>>]
\* An operation for one version, with the version asked for or left to the address.
UserOpCall(op, version, asked, fields) ==
  [kind |-> "userop",
   arg |-> [version |-> asked, fields |-> fields, entry |-> op.entry, chain |-> op.chain],
   means |-> IF version = 8 THEN <<"eip712", MeaningOf(TypedOp(op))>>
             ELSE <<"userop", version, op>>]

-----------------------------------------------------------------------------
(* Properties.                                                             *)

\* Two calls that give the same bytes for the same use meant the same: what is signed as a
\* message, as typed data, as an authorization, as a transaction or as a user operation is
\* never another of these, nor another value, version, entry point or chain of its own
\* kind; two variables are never in one slot, two names never one node, two declarations
\* never one topic, two paths never lead to one key, and a password never derives one key
\* with two functions, salts, lengths or costs.
OneMeaning == Len(made) = 2 /\ made[1].use = made[2].use /\ made[1].digest = made[2].digest
              => made[1].means = made[2].means

\* Two calls that meant the same give the same bytes: an operation packed, in parts or
\* both, an operation of version 0.8 and its typed data, typed data with structs that
\* nothing refers to; keys given at once or one call after the other, a layout by any of
\* its names, a declaration with any names and locations, a path with any of its marks,
\* a sentence in any case, and parameters that are given or left to their defaults.
OneDigest == Len(made) = 2 /\ made[1].means = made[2].means
             => made[1].digest = made[2].digest
=============================================================================
