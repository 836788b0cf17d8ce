------------------------------ MODULE AbiCodec ------------------------------
(***************************************************************************)
(* The Solidity ABI codec of eth.py: the head/tail layout, and a decoder   *)
(* that follows the offsets and lengths it finds in the data.              *)
(*                                                                         *)
(* A byte is a number below Base and a word is Word bytes (the code has    *)
(* 256 and 32); everything is counted in bytes, as in the code, because    *)
(* data may be cut anywhere.  A type is a record: "uint", "int", "bytes1", *)
(* "bytes", "string", an "array" or a "fixed" of a type, or a "tuple".     *)
(***************************************************************************)
EXTENDS Integers, SequencesExt, FiniteSetsExt

CONSTANTS Base, Word,
          Types,      \* the types that occur, and those they are made of
          Depth(_),   \* how deep the brackets of a type are nested
          Values(_)   \* the values of a type that are encoded

ASSUME WordAssumption == Base \in Nat \ {0, 1} /\ Word \in Nat \ {0}

-----------------------------------------------------------------------------
(* Bytes.                                                                  *)

Byte == 0..(Base - 1)
Power[n \in Nat] == IF n = 0 THEN 1 ELSE Base * Power[n - 1]
WordRange == Power[Word]

\* The sum of the first n members of a sequence.
SumTo(s, n) == LET sum[i \in 0..n] == IF i = 0 THEN 0 ELSE sum[i - 1] + s[i] IN sum[n]

\* int.to_bytes and int.from_bytes, big-endian
ToBytes(n, width) == [i \in 1..width |-> (n \div Power[width - i]) % Base]
FromBytes(bytes) ==
  SumTo([i \in DOMAIN bytes |-> bytes[i] * Power[Len(bytes) - i]], Len(bytes))

\* data[from : from + n]: a Python slice stops at the end of the data, silently.
Slice(data, from, n) == SubSeq(data, from + 1, Min({from + n, Len(data)}))

ceil32(n) == ((n + Word - 1) \div Word) * Word
Zeros(n) == [i \in 1..n |-> 0]

\* UTF-8, shrunk to characters of one byte (in the lower half of the byte's range)
\* and of two, a lead in the last quarter and a continuation in the third.
Lead(b) == b >= 3 * (Base \div 4)
Continuation(b) == b >= Base \div 2 /\ ~Lead(b)
IsUtf8(bytes) ==
  \A i \in 1..Len(bytes) :
    /\ Lead(bytes[i]) => i < Len(bytes) /\ Continuation(bytes[i + 1])
    /\ Continuation(bytes[i]) => i > 1 /\ Lead(bytes[i - 1])

-----------------------------------------------------------------------------
(* Types.                                                                  *)

is_dynamic[t \in Types] ==
  \/ t.kind \in {"bytes", "string", "array"}
  \/ t.kind = "fixed" /\ is_dynamic[t.of]
  \/ t.kind = "tuple" /\ \E i \in DOMAIN t.parts : is_dynamic[t.parts[i]]

static_size[t \in Types] ==
  IF t.kind = "fixed" THEN t.size * static_size[t.of]
  ELSE IF t.kind = "tuple"
    THEN SumTo([i \in DOMAIN t.parts |-> static_size[t.parts[i]]], Len(t.parts))
  ELSE Word

\* The bytes one value of each type takes in the head of its tuple.
head_widths(types) ==
  [i \in DOMAIN types |-> IF is_dynamic[types[i]] THEN Word ELSE static_size[types[i]]]
head_size(types) == SumTo(head_widths(types), Len(types))

\* The types of n members of a value.
Repeat(t, n) == [i \in 1..n |-> t]
members(t, n) == IF t.kind = "tuple" THEN t.parts ELSE Repeat(t.of, n)

\* Solidity has no types of size 0, which no length of an array could be checked for.
ASSUME TypesAssumption ==
  \A t \in Types :
    /\ Depth(t) \in Nat
    /\ t.kind \in {"uint", "int", "bytes1", "bytes", "string", "array", "fixed", "tuple"}
    /\ t.kind \in {"array", "fixed"} => t.of \in Types /\ Depth(t.of) < Depth(t)
    /\ t.kind = "fixed" => t.size \in Nat
    /\ t.kind = "tuple" => /\ t.parts \in Seq(Types)
                           /\ \A i \in DOMAIN t.parts : Depth(t.parts[i]) < Depth(t)
    /\ t.kind = "array" => is_dynamic[t.of] \/ static_size[t.of] >= Word

\* A tuple of values, one of each type.
OfTypes(values, types) ==
  /\ values = [i \in DOMAIN types |-> values[i]]
  /\ \A i \in DOMAIN types : values[i] \in Values(types[i])

ASSUME ValuesAssumption ==
  \A t \in Types : \A v \in Values(t) :
    /\ t.kind = "uint" => v \in 0..(WordRange - 1)
    /\ t.kind = "int" => v \in -(WordRange \div 2)..(WordRange \div 2 - 1)
    /\ t.kind \in {"bytes1", "bytes", "string"} => v \in Seq(Byte)
    /\ t.kind = "bytes1" => Len(v) = 1
    /\ t.kind = "string" => IsUtf8(v)
    /\ t.kind = "array" => v \in Seq(Values(t.of))
    /\ t.kind = "fixed" => v \in Seq(Values(t.of)) /\ Len(v) = t.size
    /\ t.kind = "tuple" => OfTypes(v, t.parts)

-----------------------------------------------------------------------------
(* Encoding.                                                               *)

\* _abi_enc_scalar
enc_scalar(t, v) ==
  IF t.kind \in {"bytes", "string"}
    THEN ToBytes(Len(v), Word) \o v \o Zeros(ceil32(Len(v)) - Len(v))
  ELSE IF t.kind = "bytes1" THEN v \o Zeros(Word - Len(v))
  ELSE ToBytes(v % WordRange, Word)

\* A dynamic member of a tuple is an offset in the head, counted from the head's
\* start; encs are the encoded members.
heads(types, encs, offsets) ==
  [i \in DOMAIN types |-> IF is_dynamic[types[i]] THEN ToBytes(offsets[i], Word) ELSE encs[i]]
tails(types, encs) == [i \in DOMAIN types |-> IF is_dynamic[types[i]] THEN encs[i] ELSE <<>>]

\* Mutant (RoundTrip): the tail already written is left out of the offsets.
offsets_Stuck(types, encs) == [i \in DOMAIN types |-> head_size(types)]

offsets(types, encs) ==
  LET inline == [i \in DOMAIN types |-> IF is_dynamic[types[i]] THEN Word ELSE Len(encs[i])]
      sizes  == [i \in DOMAIN types |-> Len(tails(types, encs)[i])]
  IN  [i \in DOMAIN types |-> SumTo(inline, Len(types)) + SumTo(sizes, i - 1)]

enc_layout(types, encs) ==
  FlattenSeq(heads(types, encs, offsets(types, encs))) \o FlattenSeq(tails(types, encs))

enc[t \in Types] ==
  [v \in Values(t) |->
     LET types  == members(t, Len(v))
         layout == enc_layout(types, [i \in DOMAIN v |-> enc[types[i]][v[i]]])
     IN  IF t.kind = "array" THEN ToBytes(Len(v), Word) \o layout
         ELSE IF t.kind \in {"fixed", "tuple"} THEN layout
         ELSE enc_scalar(t, v)]

enc_tuple(types, values) ==
  enc_layout(types, [i \in DOMAIN types |-> enc[types[i]][values[i]]])

-----------------------------------------------------------------------------
(* Decoding.  The result is a value, or not ok where the code raises.      *)

Ok(v) == [ok |-> TRUE, value |-> v]
Raise == [ok |-> FALSE, value |-> <<>>]

dec_scalar(t, data, pos) ==
  LET word    == FromBytes(Slice(data, pos, Word))
      payload == Slice(data, pos + Word, word)
  IN  IF t.kind = "string" THEN IF IsUtf8(payload) THEN Ok(payload) ELSE Raise
      ELSE IF t.kind = "bytes" THEN Ok(payload)
      ELSE IF t.kind = "bytes1" THEN Ok(Slice(data, pos, 1))
      ELSE IF t.kind = "int" /\ word >= WordRange \div 2 THEN Ok(word - WordRange)
      ELSE Ok(word)

\* Mutant (ArraysWholeOrEmpty): the bytes that are left are counted, not the words.
array_fits_Bytes(length, data, pos) == length <= Max({0, Len(data) - pos - Word})

\* Every element takes a word or more: a length beyond the words that are left is
\* refused before anything is allocated for it.
array_fits(length, data, pos) ==
  length <= Max({0, Len(data) - pos - Word}) \div Word

\* Where member i of the tuple at base is found.
member_at(types, data, base, i) ==
  LET head == base + SumTo(head_widths(types), i - 1)
  IN  IF is_dynamic[types[i]] THEN base + FromBytes(Slice(data, head, Word)) ELSE head

\* The members of the tuple at base, read by dec.
dec_members(dec, types, data, base) ==
  LET parts == [i \in DOMAIN types |-> dec[types[i]][member_at(types, data, base, i)]]
  IN  IF \A i \in DOMAIN types : parts[i].ok
      THEN Ok([i \in DOMAIN types |-> parts[i].value]) ELSE Raise

\* The value of each type that is read at each position.
decoder(data) ==
  LET dec[t \in Types] ==
        [pos \in Nat |->
           LET length == FromBytes(Slice(data, pos, Word))
           IN  IF t.kind = "array"
                 THEN IF array_fits(length, data, pos)
                      THEN dec_members(dec, members(t, length), data, pos + Word) ELSE Raise
               ELSE IF t.kind = "fixed" THEN dec_members(dec, members(t, t.size), data, pos)
               ELSE IF t.kind = "tuple" THEN dec_members(dec, t.parts, data, pos)
               ELSE dec_scalar(t, data, pos)]
  IN  dec

dec_tuple(types, data, base) == dec_members(decoder(data), types, data, base)
=============================================================================
