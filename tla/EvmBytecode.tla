---------------------------- MODULE EvmBytecode ----------------------------
(***************************************************************************)
(* eth_bytecode: a compiler (outside the server) assembles a program and   *)
(* may append solc's metadata; the client pages through the disassembly    *)
(* and asks for the selectors and the metadata.  Bytes are the real ones.  *)
(***************************************************************************)
EXTENDS Integers, SequencesExt, FiniteSetsExt

CONSTANTS Instructions,  \* what programs are made of: opcode byte and immediate
          MaxProgram,    \* instructions in a program
          Trailers,      \* CBOR maps a compiler appends; <<>>: it appends none
          Nesting,       \* CBOR items in one another that Python's stack has room for
          Limits         \* the page sizes a client asks for; 0 is no limit

-----------------------------------------------------------------------------
(* Opcodes.                                                                *)

\* _EVM_OPCODES
Assigned == (0..11) \cup (16..29) \cup {32} \cup (48..74) \cup (80..164)
            \cup (240..245) \cup {250, 253, 254, 255}
Comparisons == {20, 17, 16, 24, 3}   \* EQ, GT, LT, XOR, SUB
PUSH4 == 99

immediate_width(op) == IF op \in 96..127 THEN op - 95 ELSE 0

Byte == 0..255

ASSUME InstructionsAssumption ==
  /\ \A ins \in Instructions : /\ ins.op \in Byte /\ ins.data \in Seq(Byte)
                               /\ Len(ins.data) = immediate_width(ins.op)
  /\ MaxProgram \in Nat /\ Nesting \in Nat /\ Limits \subseteq Nat

Slice(data, from, to) == SubSeq(data, from + 1, Min({to, Len(data)}))

\* The instruction at pc: its data is shorter than its width at the end of the code.
instruction(code, pc) ==
  [pc |-> pc, op |-> code[pc + 1],
   data |-> Slice(code, pc + 1, pc + 1 + immediate_width(code[pc + 1]))]

\* Mutant (SelectorsReal): immediates are not skipped.
next_pc_NoSkip(code, pc) == pc + 1

next_pc(code, pc) == pc + 1 + immediate_width(code[pc + 1])

disassemble(code) ==
  LET from[pc \in Nat] == IF pc >= Len(code) THEN <<>>
                          ELSE <<instruction(code, pc)>> \o from[next_pc(code, pc)]
  IN  from[0]

-----------------------------------------------------------------------------
(* The metadata: a CBOR map before a length of two bytes.                  *)

\* Numbers beyond any code's length are all alike.
Big == 65536
FromBytes(bytes) == FoldLeft(LAMBDA n, b : Min({n * 256 + b, Big}), 0, bytes)

\* The bytes of one character in UTF-8: no longer than it needs, and no surrogate.
IsUtf8Char(c) ==
  /\ CASE Len(c) = 1 -> c[1] < 128
       [] Len(c) = 2 -> c[1] \in 194..223
       [] Len(c) = 3 -> /\ c[1] \in 224..239
                        /\ c[1] = 224 => c[2] >= 160
                        /\ c[1] = 237 => c[2] < 160
       [] Len(c) = 4 -> /\ c[1] \in 240..244
                        /\ c[1] = 240 => c[2] >= 144
                        /\ c[1] = 244 => c[2] < 144
  /\ \A i \in 2..Len(c) : c[i] \in 128..191
IsText(bytes) ==
  LET text[s \in Seq(Byte)] == \/ s = <<>>
                               \/ \E n \in 1..Min({4, Len(s)}) :
                                    IsUtf8Char(Slice(s, 0, n)) /\ text[Slice(s, n, Len(s))]
  IN  text[bytes]

Read(kind, size) == [kind |-> kind, size |-> size, members |-> 0]
Raise == Read("raise", 0)

\* What the first bytes of an item say: its kind, the bytes it takes up to its members,
\* and how many of these there are.
cbor_kind(bytes, major, value, size) ==
  CASE major \in {0, 1} -> Read("int", size)
    [] major \in {2, 3} -> IF size + value > Len(bytes) THEN Raise
                           ELSE IF major = 2 THEN Read("bytes", size + value)
                           ELSE IF IsText(Slice(bytes, size, size + value))
                           THEN Read("text", size + value) ELSE Raise
    [] major = 4 -> [Read("array", size) EXCEPT !.members = value]
    [] major = 5 -> [Read("map", size) EXCEPT !.members = 2 * value]
    [] major = 7 /\ value \in {20, 21, 22} -> Read("simple", size)
    [] OTHER -> Raise

cbor_argument(bytes, major, width) ==
  IF 1 + width > Len(bytes) THEN Raise
  ELSE cbor_kind(bytes, major, FromBytes(Slice(bytes, 1, 1 + width)), 1 + width)

cbor_head(bytes) ==
  LET info == bytes[1] % 32
  IN  IF bytes = <<>> \/ info >= 28 THEN Raise
      ELSE IF info < 24 THEN cbor_kind(bytes, bytes[1] \div 32, info, 1)
      ELSE cbor_argument(bytes, bytes[1] \div 32, 2 ^ (info - 24))

\* What is left of bytes after count items, each of which may hold others as deep as this;
\* of the members of a map every second one, from the first, is a text.  "raise" is a
\* ValueError, "deep" a RecursionError.
Left(bytes) == [end |-> "left", bytes |-> bytes]
Stuck == [end |-> "raise", bytes |-> <<>>]
TooDeep == [end |-> "deep", bytes |-> <<>>]
cbor_items(bytes, count, keyed) ==
  LET left[x \in Seq(Byte) \X Nat \X BOOLEAN \X Nat] ==
        LET head == cbor_head(x[1])
            one  == left[<<Slice(x[1], head.size, Len(x[1])), head.members, head.kind = "map", x[4] - 1>>]
        IN  IF x[2] = 0 THEN Left(x[1])
            ELSE IF x[4] = 0 THEN TooDeep
            ELSE IF head.kind = "raise" THEN Stuck
            ELSE IF one.end # "left" THEN one
            ELSE IF x[3] /\ x[2] % 2 = 0 /\ head.kind # "text" THEN Stuck
            ELSE left[<<one.bytes, x[2] - 1, x[3], x[4]>>]
  IN  left[<<bytes, count, keyed, Nesting>>]

\* _cbor_read: the item that is read from pos on.
cbor_read(data, pos) ==
  LET bytes == Slice(data, pos, Len(data))
      rest  == cbor_items(bytes, 1, FALSE)
  IN  IF rest.end = "left" THEN Read(cbor_head(bytes).kind, Len(bytes) - Len(rest.bytes))
      ELSE Read(rest.end, 0)

\* Mutant (MetadataPeeled): the two bytes of the length are not counted.
metadata_start_NoLength(code) == Len(code) - (code[Len(code) - 1] * 256 + code[Len(code)])

\* Where the metadata is, if the last two bytes are its length.
metadata_start(code) == Len(code) - 2 - (code[Len(code) - 1] * 256 + code[Len(code)])

\* Does the code end in metadata?  Whatever the reader refuses is none, but it does not
\* refuse what is nested too deep: the exception ends the call.
metadata_fits(code) ==
  Len(code) >= 3 /\ metadata_start(code) >= 0 /\ metadata_start(code) < Len(code) - 2
has_metadata(code) ==
  /\ metadata_fits(code)
  /\ cbor_read(code, metadata_start(code)) = Read("map", Len(code) - 2 - metadata_start(code))
too_deep(code) == metadata_fits(code) /\ cbor_read(code, metadata_start(code)).kind = "deep"

\* What a compiler appends is a map, by the reader of the code, whose length fits.
WithLength(map) == map \o <<Len(map) \div 256, Len(map) % 256>>
ASSUME TrailersAssumption ==
  \A t \in Trailers \ {<<>>} :
     /\ t \in Seq(Byte) /\ Len(t) < 256 * 256
     /\ cbor_read(WithLength(t), 0) = Read("map", Len(t))

\* The code without its metadata.
body(code) == IF has_metadata(code) THEN Slice(code, 0, metadata_start(code)) ELSE code

-----------------------------------------------------------------------------
(* The selectors: constants of four bytes that one of the next two         *)
(* instructions compares, except the two that are no selectors.            *)

Sentinels == {<<0, 0, 0, 0>>, <<255, 255, 255, 255>>}

compared(instructions, i) ==
  \E j \in i + 1..Min({i + 2, Len(instructions)}) : instructions[j].op \in Comparisons

compared_in(all) ==
  {all[i].data : i \in {k \in DOMAIN all : /\ all[k].op = PUSH4 /\ Len(all[k].data) = 4
                                           /\ all[k].data \notin Sentinels
                                           /\ compared(all, k)}}
selectors(code) == compared_in(disassemble(body(code)))

-----------------------------------------------------------------------------
VARIABLES
  program,  \* what was compiled: its instructions
  cut,      \* bytes missing at the end of its last immediate
  trailer,  \* the metadata appended, or <<>>
  offset,   \* the instruction the next page starts at; -1 after the last page
  pages,    \* the instructions of the pages read so far
  found     \* the selectors reported; {<<>>} before they were asked for

vars == <<program, cut, trailer, offset, pages, found>>

bytes_of(ins) == <<ins.op>> \o ins.data
assembled == LET all == FlattenSeq([i \in DOMAIN program |-> bytes_of(program[i])])
             IN  SubSeq(all, 1, Len(all) - cut)
code == assembled \o IF trailer = <<>> THEN <<>> ELSE WithLength(trailer)

Init == /\ program \in SeqOf(Instructions, MaxProgram)
        /\ cut \in {0, 1}
        /\ cut = 1 => program # <<>> /\ Last(program).data # <<>>
        /\ trailer \in Trailers
        /\ offset = 0 /\ pages = <<>> /\ found = {<<>>}

\* Mutant (PagesComplete): the last instruction is not worth a page of its own.
more_OffByOne(all, from, window) == from + Len(window) < Len(all) - 1

more(all, from, window) == from + Len(window) < Len(all)

\* action=disassemble from next_offset on.
Page(limit) ==
  /\ offset >= 0 /\ ~too_deep(code)
  /\ LET all    == disassemble(body(code))
         window == SubSeq(all, offset + 1,
                          IF limit = 0 THEN Len(all) ELSE Min({offset + limit, Len(all)}))
     IN  /\ pages' = pages \o window
         /\ offset' = IF more(all, offset, window) THEN offset + Len(window) ELSE -1
  /\ UNCHANGED <<program, cut, trailer, found>>

\* action=selectors
Selectors == /\ ~too_deep(code)
             /\ found' = selectors(code)
             /\ UNCHANGED <<program, cut, trailer, offset, pages>>

\* Either of them raises, and says nothing.
Fail == too_deep(code) /\ UNCHANGED vars

Next == Selectors \/ Fail \/ \E limit \in Limits : Page(limit)
Spec == Init /\ [][Next]_vars

-----------------------------------------------------------------------------
(* Properties.                                                             *)

\* The program's own last bytes happen to end in metadata's form.
Coincidence == trailer = <<>> /\ has_metadata(assembled)

\* The instructions of the program, each at its place.
Listing ==
  [i \in DOMAIN program |->
     LET at == Len(FlattenSeq([j \in 1..i - 1 |-> bytes_of(program[j])]))
     IN  [pc |-> at, op |-> program[i].op,
          data |-> Slice(program[i].data, 0, Len(assembled) - at - 1)]]

\* A client that follows next_offset until there is none has read the program that was
\* compiled, every instruction once and none of the metadata, whatever its page sizes.
PagesComplete == offset = -1 /\ ~Coincidence => pages = Listing

\* The selectors reported are the constants the program itself compares: none out of
\* an immediate, of the metadata or of a constant cut short.
SelectorsReal ==
  found # {<<>>} /\ ~Coincidence =>
    found = {program[i].data : i \in {k \in DOMAIN program :
               /\ program[k].op = PUSH4 /\ program[k].data \notin Sentinels
               /\ k < Len(program) \/ cut = 0
               /\ \E j \in {k + 1, k + 2} \cap DOMAIN program : program[j].op \in Comparisons}}

\* Metadata that was appended is found, whole, whatever the code before it.
MetadataPeeled == trailer # <<>> => body(code) = assembled
=============================================================================
