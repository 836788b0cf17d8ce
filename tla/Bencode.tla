------------------------------ MODULE Bencode ------------------------------
(***************************************************************************)
(* serialize_codec format=bencode.  A value is a record of one shape: an   *)
(* integer, a string, a list of values, or a dictionary, a function from   *)
(* strings.  A string is its bytes, those below 128 being text (UTF-8) and *)
(* the others not.                                                         *)
(***************************************************************************)
EXTENDS Numbers, TLC

Empty == [kind |-> "str", num |-> 0, text |-> <<>>, items |-> <<>>, entries |-> <<>>]
BInt(n) == [Empty EXCEPT !.kind = "int", !.num = n]
BStr(text) == [Empty EXCEPT !.text = text]
BList(items) == [Empty EXCEPT !.kind = "list", !.items = items]
BDict(entries) == [Empty EXCEPT !.kind = "dict", !.entries = entries]

\* bytes are compared from their first
Before(s, t) == \/ IsStrictPrefix(s, t)
                \/ \E i \in DOMAIN s \cap DOMAIN t :
                     s[i] < t[i] /\ \A j \in 1..i - 1 : s[j] = t[j]

sized(text) == Decimal(Len(text)) \o <<58>> \o text

RECURSIVE bencode_encode(_)
bencode_encode(value) ==
  CASE value.kind = "int"  -> <<105>> \o Signed(value.num) \o <<101>>
    [] value.kind = "str"  -> sized(value.text)
    [] value.kind = "list" ->
         <<108>> \o FlattenSeq([i \in DOMAIN value.items |-> bencode_encode(value.items[i])]) \o <<101>>
    [] value.kind = "dict" ->
         LET keys == SetToSortSeq(DOMAIN value.entries, Before)
         IN  <<100>> \o FlattenSeq([i \in DOMAIN keys |->
                          sized(keys[i]) \o bencode_encode(value.entries[keys[i]])]) \o <<101>>

-----------------------------------------------------------------------------
malformed_int(token) == \/ token \in {<<>>, <<45>>}
                        \/ token[1] = 48 /\ token # <<48>>
                        \/ Prefix(token, 2) = <<45, 48>>

\* Bytes that are not text are shown as their hexadecimal digits.
bencode_string(bytes) ==
  IF \A i \in DOMAIN bytes : bytes[i] < 128 THEN bytes
  ELSE FlattenSeq([i \in DOMAIN bytes |->
                     <<CharOf(bytes[i] \div 16), CharOf(bytes[i] % 16)>>])

\* The first place of a byte at or after a position (from 0); -1 when there is none.
Find(data, byte, pos) == LET at == SelectInSubSeq(data, pos + 1, Len(data), LAMBDA c : c = byte)
                         IN  at - 1

Raised == [ok |-> FALSE, value |-> Empty, next |-> 0]
Read(value, next) == [ok |-> TRUE, value |-> value, next |-> next]

IsDigit(c) == c \in 48..57

int_of(token, end) ==
  LET n == PyInt(token, 10)
  IN  IF end >= 0 /\ ~malformed_int(token) /\ n.ok THEN Read(BInt(n.value), end + 1) ELSE Raised
decode_int(data, pos) ==
  LET end == Find(data, 101, pos) IN int_of(Slice(data, pos + 1, end), end)

str_from(data, start, length) ==
  IF length.ok /\ start + length.value <= Len(data)
  THEN Read(BStr(bencode_string(Slice(data, start, start + length.value))), start + length.value)
  ELSE Raised
decode_str(data, pos) ==
  LET colon == Find(data, 58, pos)
  IN  IF colon < 0 THEN Raised ELSE str_from(data, colon + 1, PyInt(Slice(data, pos, colon), 10))

\* Up to the e of a list or a dictionary, with what was read before: values, or each
\* key and its value.
RECURSIVE bencode_decode_item(_, _), decode_list(_, _, _), decode_dict(_, _, _)
decode_list(data, cur, items) ==
  IF cur >= Len(data) THEN Raised
  ELSE IF data[cur + 1] = 101 THEN Read(BList(items), cur + 1)
  ELSE LET one == bencode_decode_item(data, cur)
       IN  IF one.ok THEN decode_list(data, one.next, Append(items, one.value)) ELSE Raised
decode_dict(data, cur, entries) ==
  IF cur >= Len(data) THEN Raised
  ELSE IF data[cur + 1] = 101 THEN Read(BDict(entries), cur + 1)
  ELSE LET key == bencode_decode_item(data, cur)
           one == bencode_decode_item(data, key.next)
       IN  IF key.ok /\ key.value.kind = "str" /\ one.ok
           THEN decode_dict(data, one.next, (key.value.text :> one.value) @@ entries)
           ELSE Raised
bencode_decode_item(data, pos) ==
  IF pos >= Len(data) THEN Raised
  ELSE CASE data[pos + 1] = 105 -> decode_int(data, pos)
         [] data[pos + 1] = 108 -> decode_list(data, pos + 1, <<>>)
         [] data[pos + 1] = 100 -> decode_dict(data, pos + 1, <<>>)
         [] IsDigit(data[pos + 1]) -> decode_str(data, pos)
         [] OTHER -> Raised

\* action=decode: one value and nothing after it.
bencode_decode(data) ==
  LET top == bencode_decode_item(data, 0) IN When(top.ok /\ top.next = Len(data), top.value)
=============================================================================
