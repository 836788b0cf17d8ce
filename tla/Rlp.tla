-------------------------------- MODULE Rlp --------------------------------
(***************************************************************************)
(* rlp_codec: an item encoded, and a wire decoded.                         *)
(*                                                                         *)
(* A byte is a number below Base; Str and List are the first bytes of the  *)
(* empty string and the empty list (0x80 and 0xC0) and ShortMax the        *)
(* longest short payload (55).  An item is a leaf, bytes, or a list.       *)
(***************************************************************************)
EXTENDS Bytes

CONSTANTS Base, Str, List, ShortMax,
          Nesting     \* how deep the lists that are encoded are nested

ASSUME LayoutAssumption == /\ {Base, Str, List, ShortMax} \subseteq Nat \ {0} /\ Nesting \in Nat
                           /\ Str + ShortMax < List - 1 /\ List + ShortMax < Base - 1

Byte == 0..(Base - 1)
Leaf(bytes) == [leaf |-> TRUE, bytes |-> bytes, items |-> <<>>]
ListOf(items) == [leaf |-> FALSE, bytes |-> <<>>, items |-> items]

Leaves == [leaf : {TRUE}, bytes : Seq(Byte), items : {<<>>}]
ListsOf(S) == [leaf : {FALSE}, bytes : {<<>>}, items : Seq(S)]
ItemsTo[n \in Nat] == IF n = 0 THEN Leaves ELSE Leaves \cup ListsOf(ItemsTo[n - 1])
Items == ItemsTo[Nesting]

FromBytes(bytes) == Number(bytes, Base)

\* n.to_bytes of the least width that holds it: nothing for 0
minimal_bytes(n) == Spelled(n, Base)

-----------------------------------------------------------------------------
(* Encoding.                                                               *)

\* The header of a payload: its length, or the length of its length.
rlp_length(length, offset) ==
  IF length <= ShortMax THEN <<offset + length>>
  ELSE <<offset + ShortMax + Len(minimal_bytes(length))>> \o minimal_bytes(length)

rlp_encode[item \in Items] ==
  LET payload == FlattenSeq([i \in DOMAIN item.items |-> rlp_encode[item.items[i]]])
  IN  IF ~item.leaf THEN rlp_length(Len(payload), List) \o payload
      ELSE IF Len(item.bytes) = 1 /\ item.bytes[1] < Str THEN item.bytes
      ELSE rlp_length(Len(item.bytes), Str) \o item.bytes

-----------------------------------------------------------------------------
(* Decoding.  Positions count from 0, as in the code.                      *)

NoItem == [ok |-> FALSE, item |-> Leaf(<<>>), next |-> 0]
Decoded(item, next) == [ok |-> TRUE, item |-> item, next |-> next]

\* Mutant (TruncatedNeverDecodes): the span is a slice, which stops at the end.
payload_span_Clamped(data, pos, short_base) ==
  [start |-> pos + 1,
   end   |-> Min({pos + 1 + data[pos + 1] - short_base, Len(data)})]

\* The payload's first position and the one after its last.
payload_span(data, pos, short_base) ==
  LET prefix    == data[pos + 1]
      short_max == short_base + ShortMax
      ll        == prefix - short_max
  IN  IF prefix <= short_max
      THEN [start |-> pos + 1, end |-> pos + 1 + prefix - short_base]
      ELSE [start |-> pos + 1 + ll,
            end   |-> pos + 1 + ll + FromBytes(Slice(data, pos + 1, pos + 1 + ll))]

\* Mutant (ReencodeNoLonger): a list's last item may run past the list.
list_ends_Anywhere(cur, end) == cur >= end

\* The last item of a list ends where the list does.
list_ends(cur, end) == cur = end

\* The item at pos, given the items of every list inside it.
decode_item(items, data, pos) ==
  LET short_base == IF data[pos + 1] < List THEN Str ELSE List
      span       == payload_span(data, pos, short_base)
      inner      == items[span]
  IN  IF pos >= Len(data) THEN NoItem
      ELSE IF data[pos + 1] < Str THEN Decoded(Leaf(<<data[pos + 1]>>), pos + 1)
      ELSE IF span.end > Len(data) THEN NoItem
      ELSE IF short_base = Str THEN Decoded(Leaf(Slice(data, span.start, span.end)), span.end)
      ELSE IF inner.ok THEN Decoded(ListOf(inner.value), span.end) ELSE NoItem

\* The items from each position up to the end of the list they are in.
Spans == [start : Nat, end : Nat]
decode_items(data) ==
  LET items[span \in Spans] ==
        LET one  == decode_item(items, data, span.start)
            rest == items[[span EXCEPT !.start = one.next]]
        IN  IF span.start >= span.end THEN When(list_ends(span.start, span.end), <<>>)
            ELSE IF one.ok /\ rest.ok THEN Ok(<<one.item>> \o rest.value) ELSE Raise
  IN  items

\* action=decode: one item and nothing after it.
rlp_decode(data) ==
  LET top == decode_item(decode_items(data), data, 0)
  IN  IF top.next = Len(data) THEN top ELSE NoItem
=============================================================================
