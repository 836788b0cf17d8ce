------------------------------- MODULE Bytes -------------------------------
(***************************************************************************)
(* What the codecs are written with: the result of a call that may raise,  *)
(* Python's slices, and symbols of some width regrouped by their bits.     *)
(* Raise is a ValueError, whose reason reaches the client; Bare is any     *)
(* other exception, of which it learns nothing (see StdioServer).          *)
(***************************************************************************)
EXTENDS Integers, SequencesExt, FiniteSetsExt

Ok(v) == [ok |-> TRUE, value |-> v]
Raise == [ok |-> FALSE, value |-> <<>>]
Bare == [ok |-> FALSE, value |-> <<"bare">>]
When(cond, v) == IF cond THEN Ok(v) ELSE Raise
\* What is made of a result, if there is one.
Then(out, v) == IF out.ok THEN Ok(v) ELSE out

\* FoldLeft by a function on positions, which TLC evaluates in as many steps.
Fold(op(_, _), base, seq) ==
  LET upto[i \in 0..Len(seq)] == IF i = 0 THEN base ELSE op(upto[i - 1], seq[i])
  IN  upto[Len(seq)]

Repeat(x, n) == [i \in 1..n |-> x]
SumTo(f(_), n) == Fold(LAMBDA a, i : a + f(i), 0, [i \in 1..n |-> i])
DivUp(n, m) == (n + m - 1) \div m
Slice(data, from, to) == SubSeq(data, from + 1, Min({to, Len(data)}))
Prefix(data, n) == Slice(data, 0, n)
Without(data, n) == SubSeq(data, n + 1, Len(data))

\* base ^ n, in a form that can be reasoned about.
Pow(base, n) ==
  LET power[i \in Nat] == IF i = 0 THEN 1 ELSE base * power[i - 1]
  IN  power[n]

\* The number that digits spell in a base, and the least digits that spell it.
Number(digits, base) == Fold(LAMBDA n, d : n * base + d, 0, digits)
Spelled(n, base) ==
  LET digits[m \in Nat] == IF m = 0 THEN <<>> ELSE Append(digits[m \div base], m % base)
  IN  digits[n]
Padded(n, base, width) == [i \in 1..width |-> (n \div Pow(base, width - i)) % base]

\* The length of what a sequence starts with, of elements that pass a test.
LeadLen(seq, Test(_)) ==
  LET stops == {i \in DOMAIN seq : ~Test(seq[i])}
  IN  IF stops = {} THEN Len(seq) ELSE Min(stops) - 1
Stripped(seq, Test(_)) == Without(seq, LeadLen(seq, Test))
StrippedEnd(seq, Test(_)) == Prefix(seq, Len(seq) - LeadLen(Reverse(seq), Test))

\* The parts between the places of a separator, as str.split gives them.
SplitAt(seq, sep) ==
  Fold(LAMBDA parts, x : IF x = sep THEN Append(parts, <<>>)
                         ELSE [parts EXCEPT ![Len(parts)] = Append(@, x)],
       <<<<>>>>, seq)

Bit(n, i) == (n \div Pow(2, i)) % 2
BitsOf(symbols, width) ==
  [i \in 1..Len(symbols) * width |->
     Bit(symbols[((i - 1) \div width) + 1], width - 1 - ((i - 1) % width))]
\* The whole groups of so many bits; what is left over is dropped.
Groups(bits, width) ==
  [j \in 1..Len(bits) \div width |->
     Number(SubSeq(bits, (j - 1) * width + 1, j * width), 2)]
\* As many zero bits as it takes to fill the last group.
Filled(bits, width) == bits \o Repeat(0, (width - (Len(bits) % width)) % width)
=============================================================================
