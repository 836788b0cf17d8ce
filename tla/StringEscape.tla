---------------------------- MODULE StringEscape ----------------------------
(***************************************************************************)
(* string_escape and string_unescape, the styles with backslashes.  Text   *)
(* is a sequence of code points.  The other styles call the standard       *)
(* library both ways.                                                      *)
(***************************************************************************)
EXTENDS Numbers, TLC

CONSTANT CInt  \* where the numbers of a C int end (2^31)

Backslash == 92
MaxChar == 1114111
ASSUME CIntAssumption == CInt \in Nat /\ CInt > MaxChar

\* What follows the backslash, by the character: n r t b f v, and a for C.
Named(style) ==
  LET shared == [c \in {10, 13, 9, 8, 12, 11} |->
                   CASE c = 10 -> 110 [] c = 13 -> 114 [] c = 9 -> 116
                     [] c = 8 -> 98 [] c = 12 -> 102 [] c = 11 -> 118]
  IN  IF style = "c" THEN (7 :> 97) @@ shared ELSE shared
\* The named sequences a style reads: one or two more than it writes.
ReadNamed(style) ==
  LET written == Named(style)
      shared  == [e \in {written[c] : c \in DOMAIN written} |->
                    CHOOSE c \in DOMAIN written : written[c] = e]
  IN  CASE style = "js"     -> (48 :> 0) @@ shared
        [] style = "python" -> (97 :> 7) @@ shared
        [] OTHER            -> shared

Quotes(style) == CASE style = "js" -> {34, 39, 96} [] style = "python" -> {34, 39}
                   [] style = "c" -> {34} [] OTHER -> {}

Digits(n, base, width) ==
  LET spelled == Padded(n, base, width) IN [i \in 1..width |-> CharOf(spelled[i])]
IsHexDigit(c) == c \in (48..57) \cup (65..70) \cup (97..102)
IsOctDigit(c) == c \in 48..55

\* Mutant (RoundTrip): no more octal digits than the character needs.
octal_digits_Short(c) == LET spelled == Spelled(c, 8)
                         IN  IF c = 0 THEN <<48>> ELSE [i \in DOMAIN spelled |-> 48 + spelled[i]]
octal_digits(c) == Digits(c, 8, 3)

\* How a style writes a character.
escaped(style, c) ==
  IF c = Backslash THEN <<Backslash, Backslash>>
  ELSE IF c \in DOMAIN Named(style) THEN <<Backslash, Named(style)[c]>>
  ELSE IF c \in Quotes(style) THEN <<Backslash, c>>
  ELSE IF style = "js" /\ c \in {8232, 8233} THEN <<Backslash, 117>> \o Digits(c, 16, 4)
  ELSE IF c < 32 \/ c = 127
  THEN IF style = "c" THEN <<Backslash>> \o octal_digits(c)
       ELSE <<Backslash, 120>> \o Digits(c, 16, 2)
  ELSE <<c>>
escape_backslashy(style, text) == FlattenSeq([i \in DOMAIN text |-> escaped(style, text[i])])

\* chr() takes a C int: a number that is none overflows, and is not refused.
chr(n) == IF n \notin -CInt..CInt - 1 THEN Bare ELSE When(n \in 0..MaxChar, n)
\* A character, if it is one, and the position after it.
One(char, next) == [char |-> char, next |-> next]
OneChar(n, next) == One(IF n.ok THEN chr(n.value) ELSE n, next)
\* The character that so many hexadecimal digits from a position give.
fixed_hex(text, from, width) ==
  LET digits == SubSeq(text, from, Min({from + width - 1, Len(text)}))
      known  == Len(digits) = width /\ \A i \in DOMAIN digits : IsHexDigit(digits[i])
  IN  OneChar(When(known, IF known THEN ValueOf(digits, 16) ELSE 0), from + width)
\* The same of the digits up to a position, one at least.
some_hex(text, from, end) ==
  IF from > end THEN One(Raise, end + 1) ELSE fixed_hex(text, from, end - from + 1)

\* The sequence whose backslash is at i: the characters, and the position after it.
sequence_at(style, text, i) ==
  LET e      == IF i = Len(text) THEN Backslash ELSE text[i + 1]
      rest   == Without(text, i + 1)
      brace  == SelectInSeq(rest, LAMBDA c : c = 125)
      octals == Min({3, LeadLen(Without(text, i), IsOctDigit)})
      Gives(c, width) == One(Ok(c), i + width)
  IN  CASE i = Len(text)  -> Gives(Backslash, 1)
        [] e = Backslash  -> Gives(Backslash, 2)
        [] e \in DOMAIN ReadNamed(style) -> Gives(ReadNamed(style)[e], 2)
        [] e = 120 /\ style = "c" -> some_hex(text, i + 2, i + 1 + LeadLen(rest, IsHexDigit))
        [] e = 120 /\ style # "c" -> fixed_hex(text, i + 2, 2)
        [] e = 117 /\ style = "js" /\ rest # <<>> /\ Head(rest) = 123 ->
             OneChar(IF brace = 0 THEN Raise ELSE PyInt(SubSeq(text, i + 3, i + brace), 16), i + 2 + brace)
        [] e = 117 /\ style \in {"js", "python"} -> fixed_hex(text, i + 2, 4)
        [] e = 85 /\ style = "python" -> fixed_hex(text, i + 2, 8)
        [] style \in {"c", "python"} /\ IsOctDigit(e) ->
             Gives(ValueOf(SubSeq(text, i + 1, i + octals), 8), 1 + octals)
        [] OTHER -> Gives(e, 2)

followed_by(out, one) == [text |-> Then(one.char, Append(out.text.value, one.char.value)), next |-> one.next]
unescape_backslashy(style, text) ==
  LET step(out, i) ==
        IF ~out.text.ok \/ i < out.next THEN out
        ELSE followed_by(out, IF text[i] # Backslash THEN One(Ok(text[i]), i + 1)
                              ELSE sequence_at(style, text, i))
  IN  Fold(step, [text |-> Ok(<<>>), next |-> 1], [i \in DOMAIN text |-> i]).text
=============================================================================
