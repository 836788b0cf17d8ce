-------------------------------- MODULE Ssz --------------------------------
(***************************************************************************)
(* SSZ in serialize_codec: a value serialized and deserialized by a schema *)
(* and its hash_tree_root.                                                 *)
(*                                                                         *)
(* A byte has Bits bits, an offset Off bytes and a chunk Chunk bytes (in   *)
(* the code 8, 4 and 32).  A schema is a record with the code's field      *)
(* names, a container's value the sequence of its fields' values.  SHA-256 *)
(* is the pair of what it hashes.                                          *)
(***************************************************************************)
EXTENDS Bytes

CONSTANTS Bits, Off, Chunk,
          Samples(_)   \* the values of each basic schema that are encoded

Base == 2 ^ Bits
ASSUME SizesAssumption == {Bits, Off, Chunk} \subseteq Nat \ {0}

\* int.to_bytes and int.from_bytes, little-endian
ToBytes(n, width) == Reverse(Padded(n, Base, width))
FromBytes(bytes) == Number(Reverse(bytes), Base)

pack_bits(bits, nbytes) ==
  [j \in 1..nbytes |->
     SumTo(LAMBDA k : LET i == (j - 1) * Bits + k
                      IN  IF i <= Len(bits) /\ bits[i] THEN 2 ^ (k - 1) ELSE 0, Bits)]
all_bits(data) ==
  [i \in 1..Len(data) * Bits |->
     (data[(i - 1) \div Bits + 1] \div 2 ^ ((i - 1) % Bits)) % 2 = 1]

-----------------------------------------------------------------------------
(* Schemas.                                                                *)

is_basic(s) == s.type \in {"uint", "boolean"}
basic_size(s) == IF s.type = "uint" THEN s.size ELSE 1

RECURSIVE is_fixed(_), fixed_size(_)
is_fixed(s) == \/ is_basic(s) \/ s.type \in {"bytevector", "bitvector"}
               \/ s.type = "vector" /\ is_fixed(s.element)
               \/ s.type = "container" /\ \A i \in DOMAIN s.fields : is_fixed(s.fields[i])
fixed_size(s) ==
  IF is_basic(s) THEN basic_size(s)
  ELSE IF s.type = "bytevector" THEN s.length
  ELSE IF s.type = "bitvector" THEN DivUp(s.length, Bits)
  ELSE IF s.type = "vector" THEN s.length * fixed_size(s.element)
  ELSE SumTo(LAMBDA i : fixed_size(s.fields[i]), Len(s.fields))

\* The schemas of the members of a value of schema s.
members(s, v) == IF s.type = "container" THEN s.fields ELSE Repeat(s.element, Len(v))

\* A value of the right shape is encoded when its lengths are the schema's: exactly,
\* or up to its limit.
RECURSIVE accepts(_, _)
accepts(s, v) ==
  CASE s.type = "uint"                          -> v \in 0..Pow(Base, s.size) - 1
    [] s.type = "boolean"                       -> v \in BOOLEAN
    [] s.type \in {"bytevector", "bitvector"}   -> Len(v) = s.length
    [] s.type \in {"bytelist", "bitlist"}       -> Len(v) <= s.limit
    [] OTHER -> /\ s.type = "vector" => Len(v) = s.length
                /\ s.type = "list" => Len(v) <= s.limit
                /\ \A i \in DOMAIN v : accepts(members(s, v)[i], v[i])

-----------------------------------------------------------------------------
(* Encoding.                                                               *)

\* The fixed parts, an offset standing for each variable one, then the variable parts.
serialize_series(schemas, parts) ==
  LET fixed(i)  == is_fixed(schemas[i])
      fixed_len == SumTo(LAMBDA i : IF fixed(i) THEN Len(parts[i]) ELSE Off, Len(parts))
      before(i) == SumTo(LAMBDA j : IF fixed(j) THEN 0 ELSE Len(parts[j]), i - 1)
  IN  FlattenSeq([i \in DOMAIN parts |->
                    IF fixed(i) THEN parts[i] ELSE ToBytes(fixed_len + before(i), Off)])
      \o FlattenSeq([i \in DOMAIN parts |-> IF fixed(i) THEN <<>> ELSE parts[i]])

\* One bit more marks the end of a bitlist.
bitlist_bytes(bits) == pack_bits(Append(bits, TRUE), (Len(bits) + Bits) \div Bits)

RECURSIVE serialize(_, _)
serialize(s, v) ==
  CASE s.type = "uint"                       -> ToBytes(v, s.size)
    [] s.type = "boolean"                    -> <<IF v THEN 1 ELSE 0>>
    [] s.type \in {"bytevector", "bytelist"} -> v
    [] s.type = "bitvector"                  -> pack_bits(v, DivUp(s.length, Bits))
    [] s.type = "bitlist"                    -> bitlist_bytes(v)
    [] OTHER -> LET schemas == members(s, v)
                IN  serialize_series(schemas, [i \in DOMAIN v |-> serialize(schemas[i], v[i])])

-----------------------------------------------------------------------------
(* Decoding.  The result is a value, or not ok where the code raises.      *)

bitlist_of(data, limit) ==
  LET bits == all_bits(data)
      ones == {i \in DOMAIN bits : bits[i]}
  IN  When(ones # {} /\ Max(ones) - 1 <= limit, SubSeq(bits, 1, Max(ones) - 1))

\* The number of a list's elements, as its bytes tell; -1: not a whole number.
list_count(s, data) ==
  LET size == fixed_size(s.element)
  IN  IF is_fixed(s.element)
      THEN IF size = 0 THEN 0
           ELSE IF Len(data) % size # 0 THEN -1 ELSE Len(data) \div size
      ELSE FromBytes(Slice(data, 0, Off)) \div Off

\* Where each member's bytes are: a variable one's from its offset to the next one's.
spans(schemas, data) ==
  LET size(i) == IF is_fixed(schemas[i]) THEN fixed_size(schemas[i]) ELSE Off
      pos(i)  == SumTo(size, i - 1)
      start(i) == FromBytes(Slice(data, pos(i), pos(i) + Off))
      later(i) == {j \in DOMAIN schemas : j > i /\ ~is_fixed(schemas[j])}
  IN  [i \in DOMAIN schemas |->
         IF is_fixed(schemas[i]) THEN Slice(data, pos(i), pos(i) + size(i))
         ELSE Slice(data, start(i), IF later(i) = {} THEN Len(data) ELSE start(Min(later(i))))]

RECURSIVE deserialize(_, _)
deserialize_series(schemas, data) ==
  LET at    == spans(schemas, data)
      parts == [i \in DOMAIN schemas |-> deserialize(schemas[i], at[i])]
  IN  When(\A i \in DOMAIN parts : parts[i].ok, [i \in DOMAIN parts |-> parts[i].value])
deserialize(s, data) ==
  CASE s.type = "uint"       -> When(Len(data) = s.size, FromBytes(data))
    [] s.type = "boolean"    -> When(Len(data) = 1 /\ data[1] <= 1, data[1] = 1)
    [] s.type = "bytevector" -> When(Len(data) = s.length, data)
    [] s.type = "bytelist"   -> When(Len(data) <= s.limit, data)
    [] s.type = "bitvector"  -> Ok(Slice(all_bits(data), 0, s.length))
    [] s.type = "bitlist"    -> bitlist_of(data, s.limit)
    [] s.type = "vector"     -> deserialize_series(Repeat(s.element, s.length), data)
    [] s.type = "list"       ->
         LET count == list_count(s, data)
         IN  IF count \notin 0..s.limit THEN Raise
             ELSE deserialize_series(Repeat(s.element, count), data)
    [] s.type = "container"  -> deserialize_series(s.fields, data)

-----------------------------------------------------------------------------
(* Roots.                                                                  *)

Hash(a, b) == <<"hash", a, b>>
Leaf(bytes) == <<"chunk", bytes \o Repeat(0, Chunk - Len(bytes))>>

\* Right-padded to whole chunks.
pack(raw) == [i \in 1..DivUp(Len(raw), Chunk) |-> Leaf(Slice(raw, (i - 1) * Chunk, i * Chunk))]

RECURSIVE tree(_)
tree(nodes) ==
  IF Len(nodes) = 1 THEN nodes[1]
  ELSE tree([i \in 1..Len(nodes) \div 2 |-> Hash(nodes[2 * i - 1], nodes[2 * i])])

\* A tree as wide as the limit, rounded up to a power of two.
merkleize(chunks, limit) ==
  LET width == CHOOSE w \in {2 ^ k : k \in 0..6} : w >= limit /\ w < 2 * Max({1, limit})
  IN  tree(chunks \o Repeat(Leaf(<<>>), width - Len(chunks)))

\* Mutant (RootsInjective): a list's length is left out of its root.
mix_in_length_Not(root, length) == root

mix_in_length(root, length) == Hash(root, Leaf(ToBytes(length, Chunk)))

RECURSIVE htr(_, _)
htr_series(element, v, bound) ==
  IF is_basic(element)
  THEN merkleize(pack(FlattenSeq([i \in DOMAIN v |-> serialize(element, v[i])])),
                 DivUp(bound * basic_size(element), Chunk))
  ELSE merkleize([i \in DOMAIN v |-> htr(element, v[i])], bound)
htr(s, v) ==
  CASE is_basic(s)           -> Leaf(serialize(s, v))
    [] s.type = "bytevector" -> merkleize(pack(v), DivUp(s.length, Chunk))
    [] s.type = "bytelist"   ->
         mix_in_length(merkleize(pack(v), DivUp(s.limit, Chunk)), Len(v))
    [] s.type = "bitvector"  -> merkleize(pack(serialize(s, v)), DivUp(s.length, Bits * Chunk))
    [] s.type = "bitlist"    ->
         mix_in_length(merkleize(pack(pack_bits(v, DivUp(Len(v), Bits))),
                                 DivUp(s.limit, Bits * Chunk)), Len(v))
    [] s.type = "vector"     -> htr_series(s.element, v, s.length)
    [] s.type = "list"       -> mix_in_length(htr_series(s.element, v, s.limit), Len(v))
    [] s.type = "container"  ->
         merkleize([i \in DOMAIN v |-> htr(s.fields[i], v[i])], Len(v))

\* Mutant (DecodedReencodes): a bitvector's root is computed from the bits there are.
root_accepts_Any(s, v) == TRUE

\* htr raises for a bitvector of another length, which it serializes; what a decode
\* returns has no other fault that htr would notice.
RECURSIVE root_accepts(_, _)
root_accepts(s, v) ==
  IF s.type = "bitvector" THEN Len(v) = s.length
  ELSE s.type \in {"vector", "list", "container"} =>
         \A i \in DOMAIN v : root_accepts(members(s, v)[i], v[i])

-----------------------------------------------------------------------------
RECURSIVE Values(_), TuplesOf(_)
TuplesOf(schemas) ==
  IF schemas = <<>> THEN {<<>>}
  ELSE {<<v>> \o rest : v \in Values(Head(schemas)), rest \in TuplesOf(Tail(schemas))}
Values(s) ==
  CASE is_basic(s)           -> Samples(s)
    [] s.type = "bytevector" -> [1..s.length -> {0, Base - 1}]
    [] s.type = "bytelist"   -> UNION {[1..n -> {0, Base - 1}] : n \in 0..s.limit}
    [] s.type = "bitvector"  -> [1..s.length -> BOOLEAN]
    [] s.type = "bitlist"    -> UNION {[1..n -> BOOLEAN] : n \in 0..s.limit}
    [] s.type = "vector"     -> TuplesOf(Repeat(s.element, s.length))
    [] s.type = "list"       -> UNION {TuplesOf(Repeat(s.element, n)) : n \in 0..s.limit}
    [] s.type = "container"  -> TuplesOf(s.fields)
=============================================================================
