----------------------------- MODULE BaseCodecs -----------------------------
(***************************************************************************)
(* encode and decode: the schemes the repository implements itself, over   *)
(* bytes of eight bits.  Text is a sequence of character codes (ASCII),    *)
(* except where only the place in an alphabet matters (base32, base64,     *)
(* z85: the symbol itself) and in a hexdump (its tokens).                  *)
(***************************************************************************)
EXTENDS Bytes

CONSTANTS EvmWord,                        \* bytes of a word (32)
          Z85Bytes, Z85Chars, Z85Radix    \* a group of z85 (4 bytes, 5 characters of 85)

ASSUME BaseCodecsAssumption ==
  /\ {EvmWord, Z85Bytes, Z85Chars, Z85Radix} \subseteq Nat \ {0}
  /\ Pow(Z85Radix, Z85Chars - 1) < Pow(256, Z85Bytes)
  /\ Pow(256, Z85Bytes) < Pow(Z85Radix, Z85Chars)

Lower(text) == [i \in DOMAIN text |-> IF text[i] \in 65..90 THEN text[i] + 32 ELSE text[i]]
Upper(text) == [i \in DOMAIN text |-> IF text[i] \in 97..122 THEN text[i] - 32 ELSE text[i]]
IndexOf(alphabet, c) == SelectInSeq(alphabet, LAMBDA a : a = c) - 1
Indices(alphabet, text) == [i \in DOMAIN text |-> IndexOf(alphabet, text[i])]
AllIn(text, alphabet) == \A i \in DOMAIN text : IndexOf(alphabet, text[i]) >= 0

-----------------------------------------------------------------------------
(* Bech32 and bech32m.  The checksum, a number of 30 bits in the code, is  *)
(* its six symbols of five bits.                                           *)

Charset == <<113, 112, 122, 114, 121, 57, 120, 56, 103, 102, 50, 116, 118, 100, 119, 48,
             115, 51, 106, 110, 53, 52, 107, 104, 99, 101, 54, 109, 117, 97, 55, 108>>
Separator == 49
Gen == <<<<29, 22, 20, 21, 29, 18>>, <<19, 5, 1, 3, 19, 13>>, <<15, 10, 2, 6, 15, 26>>,
         <<30, 20, 4, 12, 30, 29>>, <<21, 1, 8, 24, 21, 19>>>>
ChecksumConst(spec) == IF spec = "bech32" THEN <<0, 0, 0, 0, 0, 1>> ELSE <<21, 28, 16, 12, 5, 3>>

Xor == [a \in 0..31 |-> [b \in 0..31 |->
          Number([i \in 1..5 |-> (Bit(a, 5 - i) + Bit(b, 5 - i)) % 2], 2)]]
XorAll(s, t) == [i \in DOMAIN s |-> Xor[s[i]][t[i]]]

\* The symbols that leave the checksum at its top each fold a generator back in.
Folded == [top \in 0..31 |->
             Fold(LAMBDA s, i : IF Bit(top, i - 1) = 1 THEN XorAll(s, Gen[i]) ELSE s,
                      Repeat(0, 6), <<1, 2, 3, 4, 5>>)]
bech32_polymod(values) ==
  Fold(LAMBDA chk, v : XorAll(Append(Tail(chk), v), Folded[Head(chk)]),
           <<0, 0, 0, 0, 0, 1>>, values)

\* Mutant (TypoCaught): the human-readable part is left out of the checksum.
hrp_expand_Not(hrp) == <<0>>
hrp_expand(hrp) == [i \in DOMAIN hrp |-> hrp[i] \div 32] \o <<0>>
                     \o [i \in DOMAIN hrp |-> hrp[i] % 32]

\* Mutant (OneSpelling): whatever bits are left over are dropped.
convertbits_Loose(data, frombits, tobits, pad) ==
  LET bits == BitsOf(data, frombits)
  IN  Ok(Groups(IF pad THEN Filled(bits, tobits) ELSE bits, tobits))

\* Regrouped with zeros at the end, or with none to spare but fewer zeros than a symbol.
convertbits(data, frombits, tobits, pad) ==
  LET bits == BitsOf(data, frombits)
      rest == Without(bits, Len(bits) - (Len(bits) % tobits))
  IN  IF pad THEN Ok(Groups(Filled(bits, tobits), tobits))
      ELSE When(Len(rest) < frombits /\ \A i \in DOMAIN rest : rest[i] = 0, Groups(bits, tobits))

bech32_accepts(hrp) == hrp # <<>> /\ hrp = Lower(hrp) /\ \A i \in DOMAIN hrp : hrp[i] \in 33..126
bech32_encode(hrp, raw, spec) ==
  LET data     == convertbits(raw, 8, 5, TRUE).value
      checksum == XorAll(bech32_polymod(hrp_expand(hrp) \o data \o Repeat(0, 6)),
                         ChecksumConst(spec))
      symbols  == data \o checksum
  IN  hrp \o <<Separator>> \o [i \in DOMAIN symbols |-> Charset[symbols[i] + 1]]

bech32_decode(text, spec) ==
  LET low  == Lower(text)
      pos  == SelectLastInSeq(low, LAMBDA c : c = Separator) - 1
      hrp  == Prefix(low, pos)
      data == Indices(Charset, Without(low, pos + 1))
      raw  == convertbits(Prefix(data, Len(data) - 6), 5, 8, FALSE)
  IN  IF /\ text \in {low, Upper(text)}
         /\ pos >= 1 /\ pos + 7 <= Len(text)
         /\ AllIn(Without(low, pos + 1), Charset)
         /\ bech32_polymod(hrp_expand(hrp) \o data) = ChecksumConst(spec)
         /\ raw.ok
      THEN Ok([hrp |-> hrp, raw |-> raw.value]) ELSE Raise

-----------------------------------------------------------------------------
(* Numbers in a base, and symbols of a few bits.                           *)

IsZero(b) == b = 0
\* base62, by an alphabet: leading zero bytes are leading first symbols.
base_n_accepts(alphabet) == Cardinality(ToSet(alphabet)) = 62
base_n_encode(raw, alphabet) ==
  LET digits == Spelled(Number(raw, 256), Len(alphabet))
  IN  Repeat(alphabet[1], LeadLen(raw, IsZero)) \o [i \in DOMAIN digits |-> alphabet[digits[i] + 1]]
\* A character that an alphabet has twice counts where it is last.
base_n_decode(text, alphabet) ==
  LET pad   == LeadLen(text, LAMBDA c : c = alphabet[1])
      place == [i \in DOMAIN text |-> SelectLastInSeq(alphabet, LAMBDA c : c = text[i]) - 1]
  IN  When(AllIn(text, alphabet), Repeat(0, pad) \o Spelled(Number(place, Len(alphabet)), 256))

z85_accepts(raw) == Len(raw) % Z85Bytes = 0
InGroups(seq, size) == [g \in 1..Len(seq) \div size |-> SubSeq(seq, (g - 1) * size + 1, g * size)]
z85_encode(raw) ==
  LET groups == InGroups(raw, Z85Bytes)
  IN  FlattenSeq([g \in DOMAIN groups |-> Padded(Number(groups[g], 256), Z85Radix, Z85Chars)])
z85_decode(text) ==
  LET groups == InGroups(text, Z85Chars)
      number(g) == Number(groups[g], Z85Radix)
  IN  When(/\ Len(text) % Z85Chars = 0 /\ ToSet(text) \subseteq 0..Z85Radix - 1
           /\ \A g \in DOMAIN groups : number(g) < Pow(256, Z85Bytes),
           FlattenSeq([g \in DOMAIN groups |-> Padded(number(g), 256, Z85Bytes)]))

\* Digits and capital letters, without I, L, O and U; hyphens are ignored.
Crockford == SelectSeq([i \in 1..36 |-> IF i <= 10 THEN 47 + i ELSE 54 + i],
                       LAMBDA c : c \notin {73, 76, 79, 85})
Unalias(c) == CASE c \in {73, 76} -> 49 [] c = 79 -> 48 [] OTHER -> c
crockford_encode(raw) ==
  LET symbols == Groups(Filled(BitsOf(raw, 8), 5), 5)
  IN  [i \in DOMAIN symbols |-> Crockford[symbols[i] + 1]]
crockford_decode(text) ==
  LET kept    == SelectSeq(Upper(text), LAMBDA c : c # 45)
      symbols == [i \in DOMAIN kept |-> Unalias(kept[i])]
  IN  When(AllIn(symbols, Crockford), Groups(BitsOf(Indices(Crockford, symbols), 5), 8))

\* base32 and base64: symbols of so many bits, filled up to a block with Equals.
Equals == -1
IsEquals(c) == c = Equals
Block(width) == IF width = 5 THEN 8 ELSE 4
readd_padding(text, block) ==
  LET body == StrippedEnd(text, IsEquals)
  IN  body \o Repeat(Equals, (block - (Len(body) % block)) % block)
strip_padding(text, padding) == IF padding THEN text ELSE StrippedEnd(text, IsEquals)
rfc4648_encode(raw, width) == readd_padding(Groups(Filled(BitsOf(raw, 8), width), width), Block(width))
\* The library's decoder: whole blocks, and no symbol more than the bytes need.
rfc4648_decode(text, width) ==
  LET body == StrippedEnd(text, IsEquals)
  IN  When(/\ Len(text) % Block(width) = 0 /\ ToSet(body) \subseteq 0..Pow(2, width) - 1
           /\ (Len(body) * width) % 8 < width,
           Groups(BitsOf(body, width), 8))

-----------------------------------------------------------------------------
(* Listings, words and percent-encoding.                                   *)

Hex(b) == <<"hex", b>>
Char(c) == <<"char", c>>
Bar == Char(124)
IsBar(token) == token = Bar
\* A line: its offset, its bytes, and between bars those that are printable.  The last
\* line is an offset alone.
hexdump(raw, width) ==
  LET line(n) == LET chunk == Slice(raw, (n - 1) * width, n * width)
                 IN  <<<<"offset", (n - 1) * width>>>> \o [i \in DOMAIN chunk |-> Hex(chunk[i])]
                     \o <<Bar>> \o [i \in DOMAIN chunk |->
                                      Char(IF chunk[i] \in 32..126 THEN chunk[i] ELSE 46)]
                     \o <<Bar>>
  IN  [n \in 1..DivUp(Len(raw), width) + 1 |->
         IF n <= DivUp(Len(raw), width) THEN line(n) ELSE <<<<"offset", Len(raw)>>>>]
\* What comes before the first bar of a line, without the offset.
hexdump_decode(lines) ==
  LET barred == SelectSeq(lines, LAMBDA line : SelectInSeq(line, IsBar) > 0)
      cells(line) == Slice(line, 1, SelectInSeq(line, IsBar) - 1)
      found == FlattenSeq([n \in DOMAIN barred |-> cells(barred[n])])
  IN  When(\A i \in DOMAIN found : found[i][1] = "hex", [i \in DOMAIN found |-> found[i][2]])

\* bytes32: a word, filled up with zero bytes that stay when it is decoded.
word_encode(raw) == raw \o Repeat(0, EvmWord - Len(raw))
word_decode(raw) == When(Len(raw) = EvmWord, raw)

HexDigit(n) == IF n < 10 THEN 48 + n ELSE 55 + n
HexValue(c) == IF c \in 48..57 THEN c - 48 ELSE Upper(<<c>>)[1] - 55
IsHex(c) == c \in (48..57) \cup (65..70) \cup (97..102)
Unreserved == (48..57) \cup (65..90) \cup (97..122) \cup {45, 46, 95, 126}
\* urllib's quote, with some characters safe, and unquote: a percent sign that two hex
\* digits do not follow stays.
quote(raw, safe) ==
  FlattenSeq([i \in DOMAIN raw |->
    IF raw[i] \in Unreserved \cup safe THEN <<raw[i]>>
    ELSE <<37, HexDigit(raw[i] \div 16), HexDigit(raw[i] % 16)>>])
unquote(text) ==
  LET coded(i) == i + 2 <= Len(text) /\ text[i] = 37 /\ IsHex(text[i + 1]) /\ IsHex(text[i + 2])
      step(out, i) ==
        IF i < out.next THEN out
        ELSE IF coded(i)
        THEN [next |-> i + 3,
              raw |-> Append(out.raw, 16 * HexValue(text[i + 1]) + HexValue(text[i + 2]))]
        ELSE [next |-> i + 1, raw |-> Append(out.raw, text[i])]
  IN  Fold(step, [next |-> 1, raw |-> <<>>], [i \in DOMAIN text |-> i]).raw

Replace(text, old, new) == [i \in DOMAIN text |-> IF text[i] = old THEN new ELSE text[i]]
\* A space is a plus sign, and a plus sign is percent-encoded.
url_form_encode(raw) == Replace(quote(raw, {32}), 32, 43)
url_form_decode(text) == unquote(Replace(text, 43, 32))
=============================================================================
