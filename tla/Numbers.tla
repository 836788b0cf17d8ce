------------------------------ MODULE Numbers ------------------------------
(***************************************************************************)
(* num_convert, byte_order, bytes_edit and the checksums that hash         *)
(* computes itself; and the numbers of Python's text, which other codecs   *)
(* share.  Text is a sequence of character codes.                          *)
(***************************************************************************)
EXTENDS Bytes

CharOf(digit) == IF digit < 10 THEN 48 + digit ELSE 87 + digit
DigitOf(c) == CASE c \in 48..57 -> c - 48 [] c \in 65..90 -> c - 55 [] c \in 97..122 -> c - 87
                [] OTHER -> 99
NumeralIn(n, base) == LET digits == IF n = 0 THEN <<0>> ELSE Spelled(n, base)
                      IN  [i \in DOMAIN digits |-> CharOf(digits[i])]
Decimal(n) == NumeralIn(n, 10)
Signed(n) == IF n < 0 THEN <<45>> \o Decimal(-n) ELSE Decimal(n)

PrefixLetter == [base \in {2, 8, 16} |-> CASE base = 2 -> 98 [] base = 8 -> 111 [] base = 16 -> 120]
RadixPrefix(base) == IF base = 10 THEN <<>> ELSE <<48, PrefixLetter[base]>>

ValueOf(digits, base) == Number([i \in DOMAIN digits |-> DigitOf(digits[i])], base)

\* Python's int(): blanks around, a sign, the prefix of the base, and single underscores
\* before and between digits, before the first only after a prefix.
IsBlankChar(c) == c = 32
Placed(digits, base) ==
  \A i \in DOMAIN digits :
    \/ digits[i] # 95 /\ DigitOf(digits[i]) < base
    \/ digits[i] = 95 /\ i - 1 \in DOMAIN digits /\ i + 1 \in DOMAIN digits /\ digits[i + 1] # 95
DigitsInt(digits, base) ==
  When(digits # <<>> /\ Placed(digits, base), ValueOf(SelectSeq(digits, LAMBDA c : c # 95), base))
HasPrefix(text, base) == /\ base # 10 /\ Len(text) >= 2 /\ text[1] = 48
                         /\ text[2] \in {PrefixLetter[base], PrefixLetter[base] - 32}
AfterPrefix(rest) == IF rest # <<>> /\ rest[1] = 95 THEN Tail(rest) ELSE rest
UnsignedInt(text, base) ==
  DigitsInt(IF HasPrefix(text, base) THEN AfterPrefix(Without(text, 2)) ELSE text, base)
SignedInt(text, base) ==
  IF text = <<>> \/ Head(text) \notin {43, 45} THEN UnsignedInt(text, base)
  ELSE LET n == UnsignedInt(Tail(text), base)
       IN  IF Head(text) = 45 /\ n.ok THEN Ok(-n.value) ELSE n
PyInt(token, base) == SignedInt(Stripped(StrippedEnd(token, IsBlankChar), IsBlankChar), base)

-----------------------------------------------------------------------------
None == -1
BitsPerDigit == [base \in {2, 8, 16} |-> CASE base = 2 -> 1 [] base = 8 -> 3 [] base = 16 -> 4]

\* The digits are widened to a number of bytes, behind the sign and the prefix.
DigitsIn(n, base) == NumeralIn(IF n < 0 THEN -n ELSE n, base)
Widened(digits, width) == Repeat(48, width - Len(digits)) \o digits
spelt_in(n, base, pad_bytes) ==
  IF base = 10 THEN Signed(n)
  ELSE (IF n < 0 THEN <<45>> ELSE <<>>) \o RadixPrefix(base)
         \o Widened(DigitsIn(n, base),
                    IF pad_bytes = None THEN 0 ELSE DivUp(pad_bytes * 8, BitsPerDigit[base]))

num_convert(value, from_base, to_base, pad_bytes) ==
  LET n == PyInt(value, from_base)
  IN  IF ~n.ok \/ (pad_bytes # None /\ (to_base = 10 \/ pad_bytes <= 0)) THEN Raise
      ELSE Ok(spelt_in(n.value, to_base, pad_bytes))

\* width = None: the buffer is one field.  A short buffer is filled up on its left
\* whatever its order is.
byte_order(raw, from_order, to_order, width) ==
  LET size   == IF width = None THEN Len(raw) ELSE width
      padded == Repeat(0, size - Len(raw)) \o raw
      field(i) == (i - 1) \div size
      swapped  == [i \in DOMAIN padded |-> padded[2 * field(i) * size + size + 1 - i]]
  IN  IF \/ width # None /\ width <= 0
         \/ size # 0 /\ Len(padded) % size # 0 THEN Raise
      ELSE Ok(IF size = 0 \/ from_order = to_order THEN padded ELSE swapped)

\* action=pad and action=trim.
edit_pad(raw, length, side, fill) ==
  LET more == Repeat(fill, length - Len(raw))
  IN  When(length >= 0, IF side = "left" THEN more \o raw ELSE raw \o more)
edit_trim(raw, side, fill) ==
  LET IsFill(b) == b = fill
  IN  IF side = "left" THEN Stripped(raw, IsFill) ELSE StrippedEnd(raw, IsFill)

-----------------------------------------------------------------------------
(* A checksum, as its bits: a register that shifts the message in by its   *)
(* top and folds the polynomial back whenever a bit falls out.             *)

XorBits(s, t) == [i \in DOMAIN s |-> (s[i] + t[i]) % 2]

crc(spec, data) ==
  LET width == Len(spec.poly)
      shift(reg) == XorBits(Append(Tail(reg), 0), IF reg[1] = 1 THEN spec.poly ELSE Repeat(0, width))
      \* eight shifts of a register that has the byte in its top
      fold(reg, byte) ==
        LET bits == IF spec.refin THEN Reverse(BitsOf(<<byte>>, 8)) ELSE BitsOf(<<byte>>, 8)
        IN  Fold(LAMBDA r, i : shift(r), XorBits(reg, bits \o Repeat(0, width - 8)), Repeat(0, 8))
      last  == Fold(fold, spec.init, data)
  IN  Groups(XorBits(IF spec.refout THEN Reverse(last) ELSE last, spec.xorout), 8)
=============================================================================
