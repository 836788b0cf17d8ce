-------------------------------- MODULE Asn1 --------------------------------
(***************************************************************************)
(* serialize_codec format=asn1: a tree of tags, lengths and values.  The   *)
(* framing is asn1crypto's (parse, emit); the tree and the primitive       *)
(* values are the repository's.  Tags are those of one byte.               *)
(***************************************************************************)
EXTENDS Bytes

\* A primitive value: a number, or a sequence (the bytes, or the arcs of an identifier).
Primitive(form, number, seq) == [form |-> form, number |-> number, seq |-> seq]
HexValueOf(bytes) == Primitive("hex", 0, bytes)
Node(class, tag, value) ==
  [class |-> class, tag |-> tag, constructed |-> FALSE, value |-> value, children |-> <<>>]
Tree(class, tag, children) ==
  [class |-> class, tag |-> tag, constructed |-> TRUE, value |-> HexValueOf(<<>>),
   children |-> children]

\* The forms of the universal tags; the others, and the other classes, are bytes.
Form(class, tag) ==
  CASE class # 0           -> "hex"
    [] tag = 1             -> "boolean"
    [] tag \in {2, 10}     -> "integer"
    [] tag = 5             -> "null"
    [] tag = 6             -> "oid"
    [] tag \in {12, 18, 19, 22, 23, 24, 26, 27} -> "text"   \* ASCII; other bytes stay bytes
    [] tag = 20            -> "latin"
    [] OTHER               -> "hex"

-----------------------------------------------------------------------------
(* The framing.  An indefinite length ends with two zero bytes.            *)

emit(class, method, tag, content) ==
  LET size == Spelled(Len(content), 256)
  IN  <<class * 64 + method * 32 + tag>>
      \o (IF Len(content) < 128 THEN <<Len(content)>> ELSE <<128 + Len(size)>> \o size)
      \o content

NoFrame == [ok |-> FALSE, class |-> 0, method |-> 0, tag |-> 0, content |-> <<>>, size |-> 0]
RECURSIVE parse(_), until_end(_, _)
\* The length of the values before the two zero bytes; -1: there are none.
until_end(data, pos) ==
  IF pos + 2 > Len(data) THEN -1
  ELSE IF data[pos + 1] = 0 /\ data[pos + 2] = 0 THEN pos
  ELSE LET one == parse(Without(data, pos)) IN IF one.ok THEN until_end(data, pos + one.size) ELSE -1
\* The value at the start of data; size is all that it takes up.
parse(data) ==
  LET id     == data[1]
      extra  == IF data[2] > 128 THEN data[2] - 128 ELSE 0
      header == 2 + extra
      length == IF data[2] < 128 THEN data[2]
                ELSE IF data[2] = 128 THEN until_end(Without(data, 2), 0)
                ELSE Number(Slice(data, 2, header), 256)
      size   == header + length + (IF data[2] = 128 THEN 2 ELSE 0)
  IN  IF Len(data) < 2 \/ header > Len(data) \/ length < 0 \/ size > Len(data) THEN NoFrame
      ELSE [ok |-> TRUE, class |-> id \div 64, method |-> (id \div 32) % 2, tag |-> id % 32,
            content |-> Slice(data, header, header + length), size |-> size]

-----------------------------------------------------------------------------
(* Primitive values.                                                       *)

Signed8(bytes) == IF bytes = <<>> THEN 0
                  ELSE Number(bytes, 256) - (IF bytes[1] >= 128 THEN Pow(256, Len(bytes)) ELSE 0)
\* Two's complement, with a bit for the sign.
int_encode(n) ==
  LET magnitude == IF n >= 0 THEN n ELSE -n - 1
      width     == Len(Spelled(magnitude, 2)) \div 8 + 1
  IN  Padded(IF n >= 0 THEN n ELSE n + Pow(256, width), 256, width)

base128(n) == LET groups == IF n = 0 THEN <<0>> ELSE Spelled(n, 128)
              IN  [i \in DOMAIN groups |-> IF i = Len(groups) THEN groups[i] ELSE groups[i] + 128]
oid_encode(arcs) ==
  base128(40 * arcs[1] + arcs[2]) \o FlattenSeq([i \in 1..Len(arcs) - 2 |-> base128(arcs[i + 2])])
\* A group ends with a byte below 128; the bytes after the last group are dropped.  Without
\* such a byte there is no first arc to take: an IndexError.
oid_decode(data) ==
  LET ends   == {i \in DOMAIN data : data[i] < 128}
      after(i) == LET before == {j \in ends : j < i} IN IF before = {} THEN 1 ELSE Max(before) + 1
      arc(i) == Number([j \in 1..i - after(i) + 1 |-> data[after(i) + j - 1] % 128], 128)
      places == SetToSortSeq(ends, <)
      values == [k \in DOMAIN places |-> arc(places[k])]
      head   == Head(values)
  IN  IF data = <<>> THEN Raise
      ELSE IF ends = {} THEN Bare
      ELSE Ok((IF head < 40 THEN <<0, head>> ELSE IF head < 80 THEN <<1, head - 40>>
               ELSE <<2, head - 80>>) \o Tail(values))

IsAscii(bytes) == \A i \in DOMAIN bytes : bytes[i] < 128
set_primitive(class, tag, content) ==
  LET form == Form(class, tag)
  IN  CASE form = "boolean" ->
             Ok(Primitive(form, IF \E i \in DOMAIN content : content[i] # 0 THEN 1 ELSE 0, <<>>))
        [] form = "integer" -> Ok(Primitive(form, Signed8(content), <<>>))
        [] form = "null"    -> Ok(Primitive(form, 0, <<>>))
        [] form = "oid"     -> LET arcs == oid_decode(content)
                               IN  Then(arcs, Primitive(form, 0, arcs.value))
        [] form = "latin" \/ (form = "text" /\ IsAscii(content)) -> Ok(Primitive("text", 0, content))
        [] OTHER -> Ok(HexValueOf(content))
encode_primitive(value) ==
  CASE value.form = "boolean" -> IF value.number = 1 THEN <<255>> ELSE <<0>>
    [] value.form = "integer" -> int_encode(value.number)
    [] value.form = "null"    -> <<>>
    [] value.form = "oid"     -> oid_encode(value.seq)
    [] OTHER                  -> value.seq

-----------------------------------------------------------------------------
RECURSIVE asn1_encode(_)
asn1_encode(node) ==
  IF node.constructed
  THEN emit(node.class, 1, node.tag,
            FlattenSeq([i \in DOMAIN node.children |-> asn1_encode(node.children[i])]))
  ELSE emit(node.class, 0, node.tag, encode_primitive(node.value))

RECURSIVE asn1_node(_), asn1_children(_, _)
asn1_node(frame) ==
  LET kids  == asn1_children(frame.content, <<>>)
      value == set_primitive(frame.class, frame.tag, frame.content)
  IN  IF frame.method = 1 THEN Then(kids, Tree(frame.class, frame.tag, kids.value))
      ELSE Then(value, Node(frame.class, frame.tag, value.value))
\* The values that follow each other, after those already read.
asn1_children(data, nodes) ==
  LET frame == parse(data)
      node  == asn1_node(frame)
  IN  IF data = <<>> THEN Ok(nodes)
      ELSE IF ~frame.ok THEN Raise
      ELSE IF ~node.ok THEN node
      ELSE asn1_children(Without(data, frame.size), Append(nodes, node.value))

asn1_decode(raw) ==
  LET frame == parse(raw) IN IF frame.ok /\ frame.size = Len(raw) THEN asn1_node(frame) ELSE Raise
=============================================================================
