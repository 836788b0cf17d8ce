---------------------------- MODULE Declarations ----------------------------
(***************************************************************************)
(* eth_selector and abi_inspect: a declaration as a line of Solidity, as a *)
(* record, and as a JSON fragment.  A text is the sequence of its symbols: *)
(* words, punctuation, lengths of arrays and single blanks; two words are  *)
(* never side by side.  A type is such a text too.                         *)
(***************************************************************************)
EXTENDS Bytes

Punctuation == {"(", ")", "[", "]", ",", " ", "3"}
Modifiers == {"calldata", "memory", "storage", "payable", "indexed"}
NoName == ""
IsIdentifier(word) == Len(word) = 1 /\ word[1] \notin Punctuation

IsOpening(c) == c = "("
Strip(text) == LET kept == {i \in DOMAIN text : text[i] # " "}
               IN  IF kept = {} THEN <<>> ELSE SubSeq(text, Min(kept), Max(kept))
\* A text up to a place, or all of it if there is no such place.
Until(text, place) == IF place = 0 THEN text ELSE Prefix(text, place - 1)
WordsOf(text) == SelectSeq(SplitAt(text, " "), LAMBDA word : word # <<>>)

\* The results of calls, when none of them raised.
AllOk(results) == \A i \in DOMAIN results : results[i].ok
ValuesIn(results) == [i \in DOMAIN results |-> results[i].value]
Joined(texts, sep) ==
  FlattenSeq([i \in DOMAIN texts |-> IF i = 1 THEN texts[i] ELSE sep \o texts[i]])

\* At commas outside of any brackets.
split_top_level(text) ==
  LET step(s, c) ==
        LET depth == s.depth + (IF c \in {"(", "["} THEN 1 ELSE IF c \in {")", "]"} THEN -1 ELSE 0)
        IN  [depth |-> depth,
             parts |-> IF c = "," /\ depth = 0 THEN Append(s.parts, <<>>)
                       ELSE [s.parts EXCEPT ![Len(s.parts)] = Append(@, c)]]
  IN  Fold(step, [depth |-> 0, parts |-> <<<<>>>>], text).parts

\* Where the parenthesis that is open at a place is closed; 0: nowhere.
closing(text, open) ==
  LET count(c, i) == Cardinality({j \in open..i : text[j] = c})
      closed == {i \in open..Len(text) : count("(", i) = count(")", i)}
  IN  IF closed = {} THEN 0 ELSE Min(closed)

canon_alias(base) == CASE base = <<"uint">> -> <<"uint256">>
                       [] base = <<"int">>  -> <<"int256">>
                       [] base = <<"byte">> -> <<"bytes1">>
                       [] OTHER             -> base

-----------------------------------------------------------------------------
(* A parameter: its type, its name, whether it is indexed, and of a tuple  *)
(* the parameters inside.                                                  *)

Param(type, name, indexed, components) ==
  [type |-> type, name |-> name, indexed |-> indexed, components |-> components]
IsTuple(param) == param.type[1] = "("
TypesOf(params) == Joined([i \in DOMAIN params |-> params[i].type], <<",">>)

\* The dimensions a text starts with, without their blanks, and what is after them.
peeled(dimension, more) ==
  When(more.ok, [suffix |-> SelectSeq(dimension, LAMBDA c : c # " ") \o more.value.suffix,
                 rest |-> more.value.rest])
RECURSIVE peel_arrays(_)
peel_arrays(text) ==
  LET rest  == Strip(text)
      close == SelectInSeq(rest, LAMBDA c : c = "]")
  IN  IF rest = <<>> \/ rest[1] # "[" THEN Ok([suffix |-> <<>>, rest |-> rest])
      ELSE IF close = 0 THEN Raise
      ELSE peeled(Prefix(rest, close), peel_arrays(Without(rest, close)))

\* The parameter that a type and the words after it declare.
declared_as(type, tail, components) ==
  Param(type,
        IF tail # <<>> /\ IsIdentifier(Last(tail)) /\ Last(tail)[1] \notin Modifiers
        THEN Last(tail)[1] ELSE NoName,
        <<"indexed">> \in ToSet(tail), components)

\* The type is the first word, whatever follows it.
elementary(words) ==
  LET first   == words[1]
      bracket == SelectInSeq(first, LAMBDA c : c = "[")
      type    == IF bracket = 0 THEN canon_alias(first)
                 ELSE canon_alias(Prefix(first, bracket - 1)) \o Without(first, bracket - 1)
  IN  declared_as(type, Tail(words), <<>>)

\* A tuple of the members, and the text after its parenthesis.
tuple_of(members, after) ==
  IF members.ok /\ after.ok
  THEN Ok(declared_as(<<"(">> \o TypesOf(members.value) \o <<")">> \o after.value.suffix,
                      WordsOf(after.value.rest), members.value))
  ELSE Raise
RECURSIVE parse_params(_), parse_param(_)
parse_params(texts) ==
  LET params == [i \in DOMAIN texts |-> parse_param(Strip(texts[i]))]
  IN  When(AllOk(params), ValuesIn(params))
parse_param(param) ==
  LET closed == closing(param, 1)
      end    == IF closed = 0 THEN Len(param) ELSE closed
  IN  IF param = <<>> THEN Raise
      ELSE IF param[1] # "(" THEN Ok(elementary(WordsOf(param)))
      ELSE tuple_of(parse_params(split_top_level(SubSeq(param, 2, end - 1))),
                    peel_arrays(Without(param, end)))

\* The name and the texts of the parameters; what comes after them is ignored.
split_between(signature, open, close) ==
  LET name == Strip(Prefix(signature, open - 1))
      body == Strip(SubSeq(signature, open + 1, close - 1))
  IN  When(open # 0 /\ IsIdentifier(name) /\ close # 0,
           [name |-> name[1], raw |-> IF body = <<>> THEN <<>> ELSE split_top_level(body)])
split_signature(signature) ==
  LET open == SelectInSeq(signature, IsOpening)
  IN  split_between(signature, open, closing(signature, open))

Canonical(name, params) == <<name, "(">> \o TypesOf(params) \o <<")">>
canonical_with(name, params) == IF params.ok THEN Ok(Canonical(name, params.value)) ELSE Raise
canonical_from(split) ==
  IF split.ok THEN canonical_with(split.value.name, parse_params(split.value.raw)) ELSE Raise
canonical_signature(signature) == canonical_from(split_signature(signature))

-----------------------------------------------------------------------------
(* abi_inspect.                                                            *)

Nameless == {"constructor", "fallback", "receive"}
AbiKinds == {"function", "event", "error"} \cup Nameless
Mutabilities == {"pure", "view", "payable", "nonpayable"}
NoMutability == ""
Record(type, name, inputs, outputs, mutability, anonymous) ==
  [type |-> type, name |-> name, inputs |-> inputs, outputs |-> outputs,
   stateMutability |-> mutability, anonymous |-> anonymous]

\* A JSON parameter is a parameter with the word tuple for the parenthesis of its type.
RECURSIVE params_from_abi(_), abi_json_params(_)
params_from_abi(entries) ==
  [i \in DOMAIN entries |->
     LET entry == entries[i]
         parts == params_from_abi(entry.components)
     IN  IF entry.type[1] = "tuple"
         THEN Param(<<"(">> \o TypesOf(parts) \o <<")">> \o Tail(entry.type),
                    entry.name, entry.indexed, parts)
         ELSE Param(canon_alias(entry.type), entry.name, entry.indexed, <<>>)]
Dimensions(param) == Without(param.type, closing(param.type, 1))
abi_json_params(params) ==
  [i \in DOMAIN params |->
     IF IsTuple(params[i])
     THEN [params[i] EXCEPT !.type = <<"tuple">> \o Dimensions(params[i]),
                            !.components = abi_json_params(@)]
     ELSE params[i]]

RECURSIVE human_params(_)
\* Parameters as they are written in Solidity.
human_params(params) ==
  LET type(p) == IF IsTuple(p) THEN <<"(">> \o human_params(p.components) \o <<")">> \o Dimensions(p)
                 ELSE p.type
      human(p) == type(p) \o (IF p.indexed THEN <<" ", "indexed">> ELSE <<>>)
                          \o (IF p.name # NoName THEN <<" ", p.name>> ELSE <<>>)
  IN  Joined([i \in DOMAIN params |-> human(params[i])], <<",", " ">>)

\* The outputs behind the word returns, if a parenthesis is next.
outputs_to(after, close) ==
  IF close = 0 THEN Raise
  ELSE parse_params(SelectSeq(split_top_level(SubSeq(after, 2, close - 1)),
                              LAMBDA part : Strip(part) # <<>>))
outputs_of(after) == IF after = <<>> \/ after[1] # "(" THEN Ok(<<>>)
                     ELSE outputs_to(after, closing(after, 1))

\* An entry whose inputs, outputs and modifiers were read.
entry_of(kind, name, inputs, outputs, words) ==
  LET mutable == SelectSeq(words, LAMBDA w : Len(w) = 1 /\ w[1] \in Mutabilities)
  IN  IF inputs.ok /\ outputs.ok
      THEN Ok(Record(kind, IF kind \in Nameless THEN NoName ELSE name, inputs.value, outputs.value,
                     IF mutable = <<>> THEN NoMutability ELSE Last(mutable)[1],
                     kind = "event" /\ <<"anonymous">> \in ToSet(words)))
      ELSE Raise
\* The tail, from the first closing parenthesis on, has the modifiers and the outputs.
entry_with(kind, split, tail, returns) ==
  IF ~split.ok THEN Raise
  ELSE entry_of(kind, split.value.name, parse_params(split.value.raw),
                outputs_of(IF returns = 0 THEN <<>> ELSE Strip(Without(tail, returns))),
                WordsOf(Until(tail, returns)))
entry_named(kind, rest) ==
  LET tail == Without(rest, SelectInSeq(rest, LAMBDA c : c = ")") - 1)
  IN  entry_with(kind, split_signature(rest), tail, SelectInSeq(tail, LAMBDA c : c = "returns"))

\* Only a constructor is given a name that the signature needs.
entry_whole(kind, whole) ==
  entry_named(kind, IF kind = "constructor" /\ Strip(Until(whole, SelectInSeq(whole, IsOpening))) = <<>>
                    THEN <<"constructor">> \o whole ELSE whole)
entry_bare(kind, bare, open) ==
  entry_whole(kind, IF kind \in Nameless /\ open = 0 THEN bare \o <<"(", ")">> ELSE bare)
\* A text that starts with a kind, and one without: a function.
entry_headed(text, open, head) ==
  IF head # <<>> /\ Len(head[1]) = 1 /\ head[1][1] \in AbiKinds
  THEN entry_bare(head[1][1], Strip(Tail(text)), open) ELSE entry_bare("function", text, open)
entry_from_human(source) ==
  LET text == Strip(source)
      open == SelectInSeq(text, IsOpening)
  IN  entry_headed(text, open, WordsOf(Until(text, open)))

entry_from_json(fragment) ==
  When(/\ fragment.type \in AbiKinds
       /\ fragment.type \in Nameless \/ fragment.name # NoName,
       [fragment EXCEPT !.inputs = params_from_abi(@), !.outputs = params_from_abi(@),
                        !.anonymous = @ /\ fragment.type = "event"])

\* Both forms of an entry.
json_of(record) == [record EXCEPT !.inputs = abi_json_params(@), !.outputs = abi_json_params(@)]
human_of(record) ==
  (IF record.type \in Nameless THEN <<record.type>> ELSE <<record.type, " ", record.name>>)
    \o <<"(">> \o human_params(record.inputs) \o <<")">>
    \o (IF record.anonymous THEN <<" ", "anonymous">> ELSE <<>>)
    \o (IF record.type = "function" /\ record.stateMutability \notin {NoMutability, "nonpayable"}
        THEN <<" ", record.stateMutability>> ELSE <<>>)
    \o (IF record.outputs = <<>> THEN <<>>
        ELSE <<" ", "returns", " ", "(">> \o human_params(record.outputs) \o <<")">>)
=============================================================================
