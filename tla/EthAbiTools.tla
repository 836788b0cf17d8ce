---------------------------- MODULE EthAbiTools ----------------------------
(***************************************************************************)
(* The three tools that read what the chain produced: eth_calldata,        *)
(* eth_revert_decode and eth_log_decode.  A caller or a contract (outside  *)
(* the server) produces calldata, revert data or a log from a declaration; *)
(* a client may hold a truncated copy, or one with bytes appended, and     *)
(* decodes it with the signature it believes in, which may be another one  *)
(* or, for a revert, none.                                                 *)
(*                                                                         *)
(* A declaration has a name, types, which arguments are indexed, whether   *)
(* it is an anonymous event, and the first SelLen bytes of its hash.       *)
(***************************************************************************)
EXTENDS AbiCodec

CONSTANTS
  SelLen,       \* bytes in a selector (4)
  Methods,      \* declarations of functions,
  Errors,       \* of errors, the two built-in ones among them,
  Events,       \* and of events
  ErrorDecl,    \* Error(string)
  PanicDecl,    \* Panic(uint256)
  NoDecl,       \* no signature given
  Suffix        \* bytes a client may find appended

\* The arguments of a declaration are a tuple.
ArgsOf(d) == [kind |-> "tuple", parts |-> d.types]

\* Solidity refuses two errors of one selector and more indexed arguments than an event
\* has topics.
ASSUME DeclarationsAssumption ==
  /\ {ErrorDecl, PanicDecl} \subseteq Errors /\ NoDecl \notin Errors
  /\ SelLen \in Nat \ {0} /\ Suffix \in Seq(Byte)
  /\ \A d \in Methods \cup Errors \cup Events :
        /\ d.types \in Seq(Types) /\ ArgsOf(d) \in Types
        /\ d.selector \in Seq(Byte) /\ Len(d.selector) = SelLen
        /\ d.indexed \in Seq(BOOLEAN) /\ Len(d.indexed) = Len(d.types)
  /\ \A d, e \in Errors : d.selector = e.selector => d = e
  /\ \A d \in Events : /\ d.anonymous \in BOOLEAN
                       /\ Cardinality({i \in DOMAIN d.types : d.indexed[i]})
                            <= (IF d.anonymous THEN 4 ELSE 3)

\* Two declarations with one canonical signature have one selector and topic0.
SameSignature(d, e) == d.name = e.name /\ d.types = e.types

Select(s, types, indexed, wanted) ==
  FlattenSeq([i \in DOMAIN types |-> IF indexed[i] = wanted THEN <<s[i]>> ELSE <<>>])
Indexed(d, s) == Select(s, d.types, d.indexed, TRUE)
Plain(d, s)   == Select(s, d.types, d.indexed, FALSE)

-----------------------------------------------------------------------------
(* Topics.  A word of 32 bytes, and what it is the hash of, if anything.   *)

\* _abi_indexed_is_hashed
is_hashed(t) == t.kind \in {"array", "fixed", "tuple", "bytes", "string"}

\* A hash, read as a value, is some word.
HashWord == [i \in 1..Word |-> Base - 1]
Topic0(d) == [hash |-> "signature", name |-> d.name, of |-> d.types, word |-> HashWord]
TopicOf(t, v) == IF is_hashed(t) THEN [hash |-> "value", name |-> "", of |-> v, word |-> HashWord]
                 ELSE [hash |-> "none", name |-> "", of |-> <<>>, word |-> enc[t][v]]

-----------------------------------------------------------------------------
(* What the tools return: what kind of answer, whether the identity checked *)
(* out, the values of the arguments (for a hashed one, the topic itself).   *)

Answer(kind, matches, values) == [kind |-> kind, matches |-> matches, values |-> values]
Raised == Answer("raised", FALSE, <<>>)

\* Mutant (HeadNeverInvented): nothing is too short.
too_short_Never(types, body) == FALSE

\* The least a tuple of these types takes: the guard of all three decoders.
too_short(types, body) == Len(body) < head_size(types)

\* The arguments, or not ok: short data, or data that does not decode.
decode_args(types, body) ==
  IF too_short(types, body) THEN Raise ELSE dec_tuple(types, body, 0)

\* eth_calldata, action=decode
eth_calldata(d, raw) ==
  LET args == decode_args(d.types, Slice(raw, SelLen, Len(raw)))
  IN  IF Len(raw) < SelLen \/ ~args.ok THEN Raised
      ELSE Answer("args", Slice(raw, 0, SelLen) = d.selector, args.value)

-----------------------------------------------------------------------------
(* eth_revert_decode                                                       *)

builtin_answer(d, kind, body) ==
  LET args == decode_args(d.types, body)
  IN  IF args.ok THEN Answer(kind, TRUE, args.value) ELSE Raised

\* What the selector alone says.
without_signature(raw) ==
  LET selector == Slice(raw, 0, SelLen)
      body     == Slice(raw, SelLen, Len(raw))
  IN  IF selector = ErrorDecl.selector THEN builtin_answer(ErrorDecl, "error", body)
      ELSE IF selector = PanicDecl.selector THEN builtin_answer(PanicDecl, "panic", body)
      ELSE Answer("unknown", FALSE, <<>>)

\* A built-in error goes before a signature that is not the data's.
guess_applies(d, selector) ==
  /\ d # NoDecl
  /\ selector = d.selector \/ selector \notin {ErrorDecl.selector, PanicDecl.selector}

\* Mutant (GuessHarmless): a guess that does not decode is not given up.
guess_fails_Raise(d, raw) == Raised

\* The guess does not decode: an error if it is the data's own signature, else it
\* is dropped.
guess_fails(d, raw) ==
  IF Slice(raw, 0, SelLen) = d.selector THEN Raised ELSE without_signature(raw)

eth_revert_decode(d, raw) ==
  LET selector == Slice(raw, 0, SelLen)
      args     == decode_args(d.types, Slice(raw, SelLen, Len(raw)))
  IN  IF raw = <<>> THEN Answer("empty", FALSE, <<>>)
      ELSE IF Len(raw) < SelLen THEN Raised
      ELSE IF ~guess_applies(d, selector) THEN without_signature(raw)
      ELSE IF args.ok THEN Answer("custom", selector = d.selector, args.value)
      ELSE guess_fails(d, raw)

-----------------------------------------------------------------------------
(* eth_log_decode                                                          *)

\* Mutant (ArityCaught): more topics than the signature implies are let through.
arity_ok_Enough(d, topics) ==
  LET n == Len(Indexed(d, d.types))
  IN  n <= (IF d.anonymous THEN 4 ELSE 3) /\ Len(topics) >= n + (IF d.anonymous THEN 0 ELSE 1)

\* The topics an event can have: at most four, one of them topic0 unless anonymous.
arity_ok(d, topics) ==
  LET n == Len(Indexed(d, d.types))
  IN  n <= (IF d.anonymous THEN 4 ELSE 3) /\ Len(topics) = n + (IF d.anonymous THEN 0 ELSE 1)

topic0_matches(d, topics) ==
  d.anonymous \/ (topics[1].hash = "signature" /\ topics[1].name = d.name /\ topics[1].of = d.types)

\* Mutant (LogReassembled): the indexed arguments come first.
args_of_IndexedFirst(d, words, plain) ==
  [i \in 1..Len(words) |->
     LET t == Indexed(d, d.types)[i]
     IN  IF is_hashed(t) THEN words[i] ELSE dec_scalar(t, words[i].word, 0).value] \o plain

\* Every argument in the order of the declaration: the indexed ones from the
\* topics, the others from the data.
args_of(d, words, plain) ==
  LET before(i) == Cardinality({j \in 1..i : d.indexed[j]})
      topic(i)  == words[before(i)]
  IN  [i \in DOMAIN d.types |->
         IF ~d.indexed[i] THEN plain[i - before(i)]
         ELSE IF is_hashed(d.types[i]) THEN topic(i)
         ELSE dec_scalar(d.types[i], topic(i).word, 0).value]

eth_log_decode(d, topics, body) ==
  LET plain == decode_args(Plain(d, d.types), body)
      words == IF d.anonymous THEN topics ELSE Tail(topics)
  IN  IF ~arity_ok(d, topics) \/ ~plain.ok THEN Raised
      ELSE Answer("args", topic0_matches(d, topics), args_of(d, words, plain.value))

-----------------------------------------------------------------------------
\* What a call, a revert or a log carries as its data.
EncodedOf(as, d, values) ==
  IF as = "log" THEN enc_tuple(Plain(d, d.types), Plain(d, values))
  ELSE d.selector \o enc_tuple(d.types, values)

Shapes == [as : {"call"}, decl : Methods] \cup [as : {"revert"}, decl : Errors]
          \cup [as : {"log"}, decl : Events]

\* Every offset and length fits in a word.
ASSUME FitsAssumption ==
  \A s \in Shapes : \A values \in Values(ArgsOf(s.decl)) :
    Len(EncodedOf(s.as, s.decl, values)) < WordRange

VARIABLES
  sent,    \* what the chain produced: [as, decl, values]
  topics,  \* the topics of a log
  data,    \* the bytes the client holds
  damage,  \* "none", "cut" or "padded", since it was produced
  guess,   \* the declaration the client decoded with
  answer   \* what the tool returned; Pending before it is asked

vars == <<sent, topics, data, damage, guess, answer>>

Pending == Answer("pending", FALSE, <<>>)

\* action=encode of eth_calldata, and the chain's own encoders.
Init == \E s \in Shapes : \E values \in Values(ArgsOf(s.decl)) :
          LET d == s.decl IN
          /\ sent = [as |-> s.as, decl |-> d, values |-> values]
          /\ topics = IF s.as # "log" THEN <<>>
                      ELSE (IF d.anonymous THEN <<>> ELSE <<Topic0(d)>>)
                           \o Indexed(d, [i \in DOMAIN values |-> TopicOf(d.types[i], values[i])])
          /\ data = EncodedOf(s.as, d, values)
          /\ damage = "none" /\ guess = NoDecl /\ answer = Pending

Cut == /\ answer = Pending /\ damage = "none"
       /\ \E n \in 0..Len(data) - 1 : data' = SubSeq(data, 1, n)
       /\ damage' = "cut"
       /\ UNCHANGED <<sent, topics, guess, answer>>

AppendSuffix == /\ answer = Pending /\ damage = "none"
                /\ data' = data \o Suffix /\ damage' = "padded"
                /\ UNCHANGED <<sent, topics, guess, answer>>

DecodeCall(d) == /\ sent.as = "call"
                 /\ guess' = d /\ answer' = eth_calldata(d, data)
                 /\ UNCHANGED <<sent, topics, data, damage>>

DecodeRevert(d) == /\ sent.as = "revert"
                   /\ guess' = d /\ answer' = eth_revert_decode(d, data)
                   /\ UNCHANGED <<sent, topics, data, damage>>

DecodeLog(d) == /\ sent.as = "log"
                /\ guess' = d /\ answer' = eth_log_decode(d, topics, data)
                /\ UNCHANGED <<sent, topics, data, damage>>

Next == \/ Cut \/ AppendSuffix
        \/ \E d \in Methods : DecodeCall(d)
        \/ \E d \in Errors \cup {NoDecl} : DecodeRevert(d)
        \/ \E d \in Events : DecodeLog(d)

Spec == Init /\ [][Next]_vars

-----------------------------------------------------------------------------
(* Properties.                                                             *)

Answered == answer # Pending

\* The client decodes with the signature the data has: its own, or a built-in one.
Builtin == sent.as = "revert" /\ sent.decl \in {ErrorDecl, PanicDecl}
OwnSignature == Answered /\ (guess = sent.decl \/ Builtin)

\* Decoding calldata or revert data with its own signature gives back every argument
\* as it was sent, whatever is appended to it: the decoder finds by offset all that
\* the head/tail encoder moved away.
RoundTrip ==
  OwnSignature /\ damage # "cut" /\ sent.as # "log" =>
    answer.matches /\ answer.values = sent.values

\* The arguments of a log come back in the order they were declared in, those from
\* the topics among those from the data; a hashed one comes back as its topic.
LogReassembled ==
  OwnSignature /\ damage # "cut" /\ sent.as = "log" =>
    answer = Answer("args", TRUE,
                    [i \in DOMAIN sent.values |->
                       IF sent.decl.indexed[i] /\ is_hashed(sent.decl.types[i])
                       THEN TopicOf(sent.decl.types[i], sent.values[i]) ELSE sent.values[i]])

\* Data cut short never decodes to a static argument that was not sent: it is refused
\* before zeros are read off its end.
HeadNeverInvented ==
  OwnSignature /\ answer.kind \in {"args", "custom", "error", "panic"} =>
    \A i \in DOMAIN sent.values :
      is_dynamic[sent.decl.types[i]] \/ (sent.decl.indexed[i] /\ is_hashed(sent.decl.types[i]))
      \/ answer.values[i] = sent.values[i]

\* No guess of the client's makes eth_revert_decode fail on revert data that is whole,
\* or report Error(string) and Panic(uint256) as anything else.
GuessHarmless ==
  Answered /\ sent.as = "revert" /\ damage # "cut" =>
    /\ answer # Raised
    /\ Builtin /\ guess # sent.decl =>
         answer = Answer(IF sent.decl = ErrorDecl THEN "error" ELSE "panic", TRUE, sent.values)

\* Two events with one topic0 that differ in how many arguments are indexed (ERC-20
\* and ERC-721 Transfer) are never read as each other.
ArityCaught ==
  sent.as = "log" /\ answer.kind = "args" /\ SameSignature(guess, sent.decl)
  /\ guess.anonymous = sent.decl.anonymous =>
    Len(Indexed(guess, guess.types)) = Len(Indexed(sent.decl, sent.decl.types))

\* An array of elements of one word never comes back with some of them missing and read
\* as zeros: cut data gives it whole, gives it empty, or is refused.  (The check of its
\* length counts one word an element, so this is not so of uint256[2][].)
ArraysWholeOrEmpty ==
  OwnSignature /\ sent.as # "log" /\ answer.kind \in {"args", "custom"} =>
    \A i \in DOMAIN sent.values :
      LET t == sent.decl.types[i]
      IN  t.kind = "array" /\ ~is_dynamic[t.of] /\ static_size[t.of] = Word =>
           answer.values[i] \in {sent.values[i], <<>>}

\* What the comment on the argument decoder of eth_revert_decode says, "refusing to
\* read past its end": revert data cut short is refused or decodes to what was sent.
RefusesPastItsEnd ==
  OwnSignature /\ sent.as = "revert" /\ answer.kind \in {"custom", "error", "panic"} =>
    answer.values = sent.values
=============================================================================
