--------------------------- MODULE MCEthAbiTools ---------------------------
(* Words of two bytes of 16 values; signatures with every kind of layout.    *)
EXTENDS EthAbiTools

T(kind) == [kind |-> kind]
Array(t) == [kind |-> "array", of |-> t]
Fixed(t, n) == [kind |-> "fixed", of |-> t, size |-> n]
Tuple(parts) == [kind |-> "tuple", parts |-> parts]

Decl(name, selector, types) ==
  [name |-> name, selector |-> selector, types |-> types, anonymous |-> FALSE,
   indexed |-> [i \in DOMAIN types |-> FALSE]]
Event(name, types, indexed, anonymous) ==
  [name |-> name, selector |-> <<0, 0>>, types |-> types, indexed |-> indexed,
   anonymous |-> anonymous]

MCSamples(kind) ==
  IF kind = "uint" THEN {0, 255}
  ELSE IF kind = "int" THEN {-1, 7}
  ELSE IF kind = "bytes1" THEN {<<7>>}
  ELSE IF kind = "string" THEN {<<>>, <<1, 13, 9>>}
  ELSE {<<>>, <<1, 2, 3>>}

RECURSIVE MCValues(_), MCTuples(_)
MCTuples(types) ==
  IF types = <<>> THEN {<<>>}
  ELSE {<<v>> \o rest : v \in MCValues(Head(types)), rest \in MCTuples(Tail(types))}
MCValues(t) ==
  IF t.kind = "array" THEN UNION {MCTuples(Repeat(t.of, n)) : n \in 0..2}
  ELSE IF t.kind = "fixed" THEN MCTuples(Repeat(t.of, t.size))
  ELSE IF t.kind = "tuple" THEN MCTuples(t.parts)
  ELSE MCSamples(t.kind)

\* A type and its components, and how deep they are nested.
RECURSIVE Within(_), MCDepth(_)
Components(t) == IF t.kind \in {"array", "fixed"} THEN {t.of}
                 ELSE IF t.kind = "tuple" THEN ToSet(t.parts) ELSE {}
Within(t) == {t} \cup UNION {Within(c) : c \in Components(t)}
MCDepth(t) == Max({0} \cup {MCDepth(c) + 1 : c \in Components(t)})

MCMethods == {
  Decl("f", <<1, 1>>, <<T("uint"), T("bytes"), T("int")>>),
  Decl("g", <<1, 2>>, <<Array(Tuple(<<T("uint"), T("bytes")>>)), T("bytes1")>>),
  Decl("h", <<1, 3>>, <<Fixed(T("uint"), 2), Tuple(<<T("int"), Fixed(T("bytes"), 1)>>)>>),
  Decl("k", <<1, 4>>, <<Array(Array(T("uint"))), T("string")>>)}

MCErrorDecl == Decl("Error", <<0, 8>>, <<T("string")>>)
MCPanicDecl == Decl("Panic", <<4, 14>>, <<T("uint")>>)
MCErrors == {MCErrorDecl, MCPanicDecl,
  Decl("e", <<2, 1>>, <<T("uint"), Array(T("uint"))>>),
  Decl("d", <<2, 2>>, <<Fixed(T("uint"), 2), T("string")>>),
  Decl("n", <<2, 3>>, <<>>)}
MCNoDecl == [Decl("", <<0, 0>>, <<>>) EXCEPT !.name = "none"]

MCEvents == {
  Event("Transfer", <<T("uint"), T("uint"), T("uint")>>, <<TRUE, TRUE, FALSE>>, FALSE),
  Event("Transfer", <<T("uint"), T("uint"), T("uint")>>, <<TRUE, TRUE, TRUE>>, FALSE),
  Event("Mixed", <<T("bytes"), T("bytes"), T("int"), T("uint")>>,
        <<FALSE, TRUE, FALSE, TRUE>>, FALSE),
  Event("Hashed", <<T("uint"), Fixed(T("uint"), 2), Array(T("uint"))>>,
        <<FALSE, TRUE, FALSE>>, TRUE)}
MCTypes == UNION {Within(Tuple(d.types)) : d \in MCMethods \cup MCErrors \cup MCEvents}
MCSuffix == <<5, 5, 5>>
=============================================================================
