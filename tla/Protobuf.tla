------------------------------ MODULE Protobuf ------------------------------
(***************************************************************************)
(* serialize_codec format=protobuf, which only decodes: fields without a   *)
(* schema, a field with bytes being read as a message where it can be.     *)
(* Every protobuf library writes what it reads; protobuf_encode is theirs. *)
(***************************************************************************)
EXTENDS Bytes

CONSTANTS VarintBytes,     \* the longest varint (10)
          Long, Short      \* bytes of a fixed field (8 and 4)

ASSUME ProtobufAssumption == {VarintBytes, Long, Short} \subseteq Nat \ {0}

\* A field; value is its number, its bytes, or the fields in it, by the others.
Field(field, wire, number, bytes, message) ==
  [field |-> field, wire |-> wire, number |-> number, bytes |-> bytes, message |-> message]
Fixed(width) == IF width = Long THEN 1 ELSE 5

\* Seven bits of a varint in each byte, the last byte below 128.
varint(n) == LET groups == IF n = 0 THEN <<0>> ELSE Reverse(Spelled(n, 128))
             IN  [i \in DOMAIN groups |-> IF i = Len(groups) THEN groups[i] ELSE groups[i] + 128]
RECURSIVE protobuf_encode(_)
protobuf_encode(fields) ==
  LET chunk(f) == IF f.message # <<>> THEN protobuf_encode(f.message) ELSE f.bytes
      one(f) == varint(f.field * 8 + f.wire)
                  \o (IF f.wire = 0 THEN varint(f.number)
                      ELSE IF f.wire = 2 THEN varint(Len(chunk(f))) \o chunk(f) ELSE f.bytes)
  IN  FlattenSeq([i \in DOMAIN fields |-> one(fields[i])])

Truncated == [ok |-> FALSE, value |-> 0, next |-> 0]
\* From a position: the number up to the first byte below 128, which comes in time.
read_varint(data, pos) ==
  LET rest  == Without(data, pos)
      width == LeadLen(rest, LAMBDA b : b >= 128) + 1
  IN  IF width > Len(rest) \/ width > VarintBytes THEN Truncated
      ELSE [ok |-> TRUE, next |-> pos + width,
            value |-> Number(Reverse([i \in 1..width |-> rest[i] % 128]), 128)]

is_message(chunk, inner) == chunk # <<>> /\ inner.ok

of_chunk(number, wire, chunk, inner) ==
  IF wire = 2 /\ is_message(chunk, inner) THEN Field(number, 2, 0, <<>>, inner.value)
  ELSE Field(number, wire, 0, chunk, <<>>)

RECURSIVE decode_fields(_, _, _), field_at(_, _, _, _, _, _), chunk_at(_, _, _, _, _, _)
\* The fields from a position, after those already read.
decode_fields(data, pos, fields) ==
  LET tag == read_varint(data, pos)
  IN  IF pos >= Len(data) THEN Ok(fields)
      ELSE IF ~tag.ok \/ tag.value < 8 \/ tag.value % 8 \notin {0, 1, 2, 5} THEN Raise
      ELSE field_at(data, tag.value \div 8, tag.value % 8, tag.next, read_varint(data, tag.next), fields)
\* The same, the tag being read; length is the number that follows it.
field_at(data, number, wire, pos, length, fields) ==
  CASE wire \in {0, 2} /\ ~length.ok -> Raise
    [] wire = 0 /\ length.ok ->
         decode_fields(data, length.next, Append(fields, Field(number, 0, length.value, <<>>, <<>>)))
    [] wire = 2 /\ length.ok -> chunk_at(data, number, 2, length.next, length.next + length.value, fields)
    [] wire = 1 -> chunk_at(data, number, 1, pos, pos + Long, fields)
    [] wire = 5 -> chunk_at(data, number, 5, pos, pos + Short, fields)
\* The same, the field having the bytes up to an end.
chunk_at(data, number, wire, pos, end, fields) ==
  LET chunk == Slice(data, pos, end)
  IN  IF end > Len(data) THEN Raise
      ELSE decode_fields(data, end, Append(fields, of_chunk(number, wire, chunk, decode_fields(chunk, 0, <<>>))))

protobuf_decode(data) == decode_fields(data, 0, <<>>)
=============================================================================
