--------------------------- MODULE MCEvmBytecode ---------------------------
(* A dispatcher's instructions, with immediates that look like code; LOG0,   *)
(* STOP, ADD happens to have the form of metadata, and arrays in one another *)
(* are too deep for its reader; two maps solc writes, shortened, a nested    *)
(* one, and one with a name that is not ASCII.                               *)
EXTENDS EvmBytecode

Ins(op, data) == [op |-> op, data |-> data]
MCInstructions == {
  Ins(99, <<169, 5, 156, 187>>),            \* PUSH4, a selector
  Ins(99, <<255, 255, 255, 255>>),          \* PUSH4, the mask
  Ins(101, <<99, 1, 2, 3, 4, 20>>),         \* PUSH6 of PUSH4 .. EQ
  Ins(103, <<129, 129, 129, 129, 129, 96, 0, 6>>),   \* PUSH8 of arrays, and their length
  Ins(96, <<99>>), Ins(20, <<>>), Ins(17, <<>>), Ins(128, <<>>),
  Ins(12, <<>>), Ins(160, <<>>), Ins(0, <<>>), Ins(1, <<>>)}

MCTrailers == {<<>>,
  <<161, 100, 115, 111, 108, 99, 67, 0, 8, 33>>,                    \* {solc: 3 bytes}
  <<162, 97, 97, 245, 97, 98, 24, 99>>,                             \* {a: true, b: 99}
  <<161, 97, 99, 130, 32, 161, 97, 100, 66, 99, 20>>,               \* {c: [-1, {d: 2 bytes}]}
  <<161, 98, 195, 169, 1>>}                                         \* {"e" with an accent: 1}
MCLimits == {0, 1, 2}
=============================================================================
