---------------------------- MODULE StorageSlot ----------------------------
(***************************************************************************)
(* eth_storage_slot and ens_namehash: where a contract keeps a variable,   *)
(* and what a name is known by.  A slot is a number that was declared, or  *)
(* one some way past a hash; two hashes are never near each other.         *)
(***************************************************************************)
EXTENDS Words, TLC

Declared(n) == [derived |-> FALSE, preimage |-> <<>>, aligned |-> FALSE, offset |-> n]
Hashed(preimage) == [derived |-> TRUE, preimage |-> preimage, aligned |-> FALSE, offset |-> 0]
Past(slot, n) == [slot EXCEPT !.offset = @ + n]

slot_word(slot) ==
  IF ~slot.derived THEN encode_int(slot.offset)
  ELSE IF slot = Hashed(slot.preimage) THEN keccak256(slot.preimage)
  ELSE [i \in 1..Word |-> <<i, slot.preimage, slot.aligned, slot.offset>>]

\* A key by its type: bytes and strings as they are, the others in a word.
storage_encode_key(type, value) ==
  CASE type = "string"  -> Text(value)
    [] type = "bytes"   -> Plain(value)
    [] type = "bytesN"  -> Plain(value \o Repeat(0, Word - Len(value)))
    [] type = "bool"    -> encode_int(IF value = 0 THEN 0 ELSE 1)
    [] type = "address" -> encode_address(value)
    [] type = "uint"    -> encode_int(value)

mapping_slot(slot, keys) ==
  Fold(LAMBDA cur, key : Hashed(storage_encode_key(key.type, key.value) \o slot_word(cur)),
       slot, keys)
array_slot(slot, index, element_size) == Past(Hashed(slot_word(slot)), index * element_size)

LayoutAliases == [a \in {"array", "erc1967", "erc1822", "uups", "proxiable", "eip7201",
                         "namespaced", "eip2535", "erc2535"} |->
                    CASE a = "array" -> "dynamic_array"
                      [] a = "erc1967" -> "eip1967"
                      [] a \in {"erc1822", "uups", "proxiable"} -> "eip1822"
                      [] a \in {"eip7201", "namespaced"} -> "erc7201"
                      [] a \in {"eip2535", "erc2535"} -> "diamond"]
LayoutOf(kind) == IF kind \in DOMAIN LayoutAliases THEN LayoutAliases[kind] ELSE kind
ProxyNames == {"implementation", "admin", "beacon", "rollback"}

label_slot(label) == Hashed(Text(label))
\* Its low byte is cleared.
erc7201_slot(namespace) ==
  [Hashed(slot_word(Past(label_slot(namespace), -1))) EXCEPT !.aligned = TRUE]
storage_namespace(text) == IF text[1] = "erc7201:" THEN Tail(text) ELSE text

\* spec: what the kind of layout takes of slot, keys, index, element_size and text, a
\* proxy slot's name or a namespace.
eth_storage_slot(spec) ==
  LET kind == LayoutOf(spec.kind)
  IN  CASE kind = "mapping"       -> mapping_slot(spec.slot, spec.keys)
        [] kind = "dynamic_array" -> array_slot(spec.slot, spec.index, spec.element_size)
        [] kind = "eip1967"       -> Past(label_slot(<<"eip1967.proxy.">> \o spec.text), -1)
        [] kind = "eip1822"       -> label_slot(<<"PROXIABLE">>)
        [] kind = "erc7201"       -> Past(erc7201_slot(storage_namespace(spec.text)), spec.index)
        [] kind = "diamond"       -> Past(label_slot(storage_namespace(spec.text)), spec.index)

\* A declared slot that a word does not hold, a proxy slot nobody knows, no namespace.
slot_raises(spec) ==
  LET kind == LayoutOf(spec.kind)
  IN  \/ /\ kind \in {"mapping", "dynamic_array"} /\ ~spec.slot.derived
         /\ spec.slot.offset \notin 0..Base ^ Word - 1
      \/ kind = "eip1967" /\ spec.text \notin {<<name>> : name \in ProxyNames}
      \/ kind \in {"erc7201", "diamond"} /\ spec.text = <<>>

-----------------------------------------------------------------------------
(* ens_namehash.  A name is its symbols, "." among them.                   *)

labels_of(name) == IF name = <<>> THEN <<>> ELSE SplitAt(name, ".")
namehash_raises(name) == \E i \in DOMAIN labels_of(name) : labels_of(name)[i] = <<>>

\* From the last label to the first.
namehash(name) == Fold(LAMBDA node, label : keccak256(node \o keccak256(Text(label))),
                       encode_int(0), Reverse(labels_of(name)))
labelhash(name) == IF name = <<>> THEN namehash(name) ELSE keccak256(Text(labels_of(name)[1]))
=============================================================================
