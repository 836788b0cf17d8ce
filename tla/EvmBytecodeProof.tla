-------------------------- MODULE EvmBytecodeProof --------------------------
(***************************************************************************)
(* Proofs about EvmBytecode, for programs of any length, any page sizes    *)
(* and any metadata: the listing is the program, page by page.             *)
(***************************************************************************)
EXTENDS EvmBytecode, CommonLemmas

-----------------------------------------------------------------------------
(* The metadata.                                                           *)

\* A slice to the end.
LEMMA SliceToEnd ==
  ASSUME NEW T, NEW s \in Seq(T), NEW from \in 0..Len(s)
  PROVE  Slice(s, from, Len(s)) = SubSeq(s, from + 1, Len(s))
<1>1. Len(s) \in Int
  OBVIOUS
<1>2. Min({Len(s), Len(s)}) = Len(s)
  BY <1>1, MinTwo
<1>. QED
  BY <1>2 DEF Slice

LEMMA WithLengthIs ==
  ASSUME NEW t \in Seq(Byte), Len(t) < 256 * 256
  PROVE  /\ WithLength(t) \in Seq(Byte) /\ Len(WithLength(t)) = Len(t) + 2
         /\ \A i \in 1..Len(t) : WithLength(t)[i] = t[i]
         /\ WithLength(t)[Len(t) + 1] * 256 + WithLength(t)[Len(t) + 2] = Len(t)
<1>1. PICK n \in Nat : n = Len(t)
  OBVIOUS
<1>2. PICK h \in Nat, l \in Nat : h = n \div 256 /\ l = n % 256
  OBVIOUS
<1>3. h \in Byte /\ l \in Byte /\ h * 256 + l = n
  <2>1. l \in 0..255 /\ n = 256 * h + l
    BY <1>2
  <2>2. n < 65536
    BY <1>1
  <2>3. h < 256
    BY <2>1, <2>2
  <2>. QED
    BY <2>1, <2>3 DEF Byte
<1>4. WithLength(t) = t \o <<h, l>>
  BY <1>1, <1>2 DEF WithLength
<1>5. <<h, l>> \in Seq(Byte) /\ Len(<<h, l>>) = 2 /\ <<h, l>>[1] = h /\ <<h, l>>[2] = l
  BY <1>3
<1>6. /\ t \o <<h, l>> \in Seq(Byte) /\ Len(t \o <<h, l>>) = n + 2
      /\ \A i \in 1..n : (t \o <<h, l>>)[i] = t[i]
      /\ (t \o <<h, l>>)[n + 1] = h /\ (t \o <<h, l>>)[n + 2] = l
  BY <1>1, <1>5, Concats
<1>. QED
  BY <1>1, <1>3, <1>4, <1>6

\* Metadata after any code is found where it starts, and peeled off again.
LEMMA AppendedIsFound ==
  ASSUME NEW a \in Seq(Byte), NEW t \in Trailers \ {<<>>}
  PROVE  body(a \o WithLength(t)) = a
<1>. DEFINE w == WithLength(t)
            c == a \o w
<1>1. t \in Seq(Byte) /\ Len(t) < 256 * 256 /\ cbor_read(w, 0) = Read("map", Len(t)) /\ t # <<>>
  BY TrailersAssumption
<1>2. /\ w \in Seq(Byte) /\ Len(w) = Len(t) + 2
      /\ w[Len(t) + 1] * 256 + w[Len(t) + 2] = Len(t)
  BY <1>1, WithLengthIs
<1>3. PICK n \in Nat, m \in Nat : n = Len(t) /\ m = Len(a) /\ n > 0
  BY <1>1
<1>. HIDE DEF w
<1>4. /\ c \in Seq(Byte) /\ Len(c) = m + n + 2
      /\ \A i \in 1..m : c[i] = a[i]
      /\ \A i \in 1..(n + 2) : c[m + i] = w[i]
  BY <1>2, <1>3, Concats
<1>. HIDE DEF c
<1>5. c[Len(c) - 1] * 256 + c[Len(c)] = n
  <2>1. n + 1 \in 1..(n + 2) /\ n + 2 \in 1..(n + 2)
        /\ Len(c) - 1 = m + (n + 1) /\ Len(c) = m + (n + 2)
    BY <1>4
  <2>. QED
    BY <1>2, <1>3, <1>4, <2>1
<1>6. metadata_start(c) = m
  BY <1>4, <1>5 DEF metadata_start
<1>7. SubSeq(c, m + 1, Len(c)) = w
  <2>. DEFINE r == SubSeq(c, m + 1, Len(c))
  <2>1. r \in Seq(Byte) /\ Len(r) = n + 2 /\ \A i \in 1..(n + 2) : r[i] = c[m + 1 + i - 1]
    <3>1. /\ m + 1 \in Int /\ Len(c) \in Int /\ 1 <= m + 1 /\ m + 1 <= Len(c) + 1
          /\ Len(c) <= Len(c) /\ Len(c) - (m + 1) + 1 = n + 2
      BY <1>4
    <3>. QED
      BY <1>4, <3>1, PartIs
  <2>. HIDE DEF r
  <2>2. \A i \in 1..(n + 2) : r[i] = w[i]
    <3>1. \A i \in 1..(n + 2) : m + 1 + i - 1 = m + i
      OBVIOUS
    <3>. QED
      BY <1>4, <2>1, <3>1
  <2>3. Len(w) = n + 2
    BY <1>2, <1>3
  <2>4. r = w
    BY <1>2, <2>1, <2>2, <2>3, SeqEqual
  <2>. QED
    BY <2>4 DEF r
<1>8. cbor_read(c, m) = Read("map", n)
  <2>1. Slice(c, m, Len(c)) = w
    <3>1. m \in 0..Len(c)
      BY <1>4
    <3>. QED
      BY <1>4, <1>7, <3>1, SliceToEnd
  <2>2. Slice(w, 0, Len(w)) = w
    <3>1. 0 \in 0..Len(w) /\ SubSeq(w, 0 + 1, Len(w)) = w
      BY <1>2
    <3>2. Slice(w, 0, Len(w)) = SubSeq(w, 0 + 1, Len(w))
      BY <1>2, <3>1, SliceToEnd
    <3>. QED
      BY <3>1, <3>2
  <2>. QED
    BY <1>1, <1>3, <2>1, <2>2 DEF cbor_read
<1>9. has_metadata(c)
  <2>1. Len(c) >= 3 /\ m >= 0 /\ m < Len(c) - 2 /\ n = Len(c) - 2 - m
    BY <1>3, <1>4
  <2>. QED
    BY <1>6, <1>8, <2>1 DEF has_metadata, metadata_fits
<1>10. Slice(c, 0, m) = a
  <2>1. Min({m, Len(c)}) = m
    BY <1>4, MinTwo
  <2>. DEFINE r == SubSeq(c, 1, m)
  <2>2. r \in Seq(Byte) /\ Len(r) = m /\ \A i \in 1..m : r[i] = c[i]
    BY <1>4
  <2>. HIDE DEF r
  <2>3. r = a
    BY <1>3, <1>4, <2>2, SeqEqual
  <2>4. Slice(c, 0, m) = SubSeq(c, 0 + 1, m)
    BY <2>1 DEF Slice
  <2>. QED
    BY <2>3, <2>4 DEF r
<1>11. body(c) = a
  BY <1>6, <1>9, <1>10 DEF body
<1>. QED
  BY <1>11 DEF c, w

-----------------------------------------------------------------------------
(* The disassembly.                                                        *)

Insts == [pc : Nat, op : Byte, data : Seq(Byte)]

LEMMA SliceIs ==
  ASSUME NEW T, NEW s \in Seq(T), NEW from \in Nat, NEW to \in Int
  PROVE  /\ Slice(s, from, to) = SubSeq(s, from + 1, IF to <= Len(s) THEN to ELSE Len(s))
         /\ Slice(s, from, to) \in Seq(T)
<1>. DEFINE up == IF to <= Len(s) THEN to ELSE Len(s)
<1>1. Len(s) \in Int
  OBVIOUS
<1>2. Min({to, Len(s)}) = up
  BY <1>1, MinTwo
<1>3. up \in Int /\ up <= Len(s) /\ from + 1 \in Int /\ 1 <= from + 1
  BY <1>1
<1>. HIDE DEF up
<1>4. SubSeq(s, from + 1, up) \in Seq(T)
  <2>1. \A i \in (from + 1)..up : s[i] \in T
    BY <1>1, <1>3
  <2>. QED
    BY <1>3, <2>1, SubSeqProperties
<1>5. Slice(s, from, to) = SubSeq(s, from + 1, up)
  BY <1>2 DEF Slice
<1>. QED
  BY <1>4, <1>5 DEF up

LEMMA InstructionIs ==
  ASSUME NEW c \in Seq(Byte), NEW pc \in Nat, pc < Len(c)
  PROVE  /\ instruction(c, pc) \in Insts
         /\ next_pc(c, pc) \in Nat /\ pc < next_pc(c, pc)
<1>1. Len(c) \in Nat /\ pc + 1 \in 1..Len(c) /\ pc + 1 \in Nat
  OBVIOUS
<1>2. c[pc + 1] \in Byte
  BY <1>1, ElementOfSeq
<1>3. immediate_width(c[pc + 1]) \in Nat
  <2>1. PICK b : b = c[pc + 1]
    OBVIOUS
  <2>2. b \in 0..255
    BY <1>2, <2>1 DEF Byte
  <2>3. immediate_width(b) = IF b \in 96..127 THEN b - 95 ELSE 0
    BY DEF immediate_width
  <2>4. immediate_width(b) \in Nat
    BY <2>2, <2>3
  <2>. QED
    BY <2>1, <2>4
<1>4. pc + 1 + immediate_width(c[pc + 1]) \in Nat
      /\ pc < pc + 1 + immediate_width(c[pc + 1])
  BY <1>3
<1>5. Slice(c, pc + 1, pc + 1 + immediate_width(c[pc + 1])) \in Seq(Byte)
  BY <1>1, <1>4, SliceIs
<1>. QED
  BY <1>2, <1>4, <1>5 DEF instruction, next_pc, Insts

Unfolding(from, c) ==
  \A pc \in Nat :
    from[pc] = IF pc >= Len(c) THEN <<>>
               ELSE <<instruction(c, pc)>> \o from[next_pc(c, pc)]

\* The recursion on the rest of the code is well-founded: every instruction takes a byte.
LEMMA UnfoldingExists ==
  ASSUME NEW c \in Seq(Byte)
  PROVE  \E from : from \in [Nat -> Seq(Insts)] /\ Unfolding(from, c)
<1>. DEFINE S == Seq(Insts)
            L == Len(c)
            at(n) == L - n
            after(n) == next_pc(c, at(n))
            rest(n, f) == IF after(n) >= L THEN <<>> ELSE f[L - after(n)]
            step(n, f) == IF n \in 1..L THEN <<instruction(c, at(n))>> \o rest(n, f)
                          ELSE <<>>
            H == [n \in Nat |-> [f \in [Nat -> S] |-> step(n, f)]]
<1>0. L \in Nat /\ S # {} /\ <<>> \in S
  <2>1. <<>> \in S
    BY EmptySeq
  <2>2. L \in Nat
    OBVIOUS
  <2>. QED
    BY <2>1, <2>2
<1>1. ASSUME NEW n \in 1..L
      PROVE  /\ at(n) \in Nat /\ at(n) < L /\ after(n) \in Nat
             /\ ~(after(n) >= L) => L - after(n) \in Nat /\ L - after(n) < n
             /\ instruction(c, at(n)) \in Insts
  <2>1. at(n) \in Nat /\ at(n) < L
    BY <1>0
  <2>. HIDE DEF at
  <2>2. after(n) \in Nat /\ at(n) < after(n) /\ instruction(c, at(n)) \in Insts
    BY <2>1, InstructionIs
  <2>. HIDE DEF after, L
  <2>3. ~(after(n) >= L) => L - after(n) \in Nat /\ L - after(n) < n
    BY <1>0, <2>1, <2>2 DEF at
  <2>. QED
    BY <2>1, <2>2, <2>3
<1>. HIDE DEF L, at, after
<1>2. ASSUME NEW n \in Nat, NEW f \in [Nat -> S]
      PROVE  step(n, f) \in S
  <2>1. CASE n \in 1..L
    <3>1. rest(n, f) \in S
      <4>. HIDE DEF S
      <4>. QED
        BY <1>0, <1>1, <2>1
    <3>2. <<instruction(c, at(n))>> \in S
      BY <1>1, <2>1
    <3>. HIDE DEF rest
    <3>. QED
      BY <2>1, <3>1, <3>2
  <2>2. CASE n \notin 1..L
    BY <1>0, <2>2
  <2>. QED
    BY <2>1, <2>2
<1>3. ASSUME NEW n \in Nat, NEW f \in [Nat -> S], NEW g \in [Nat -> S],
             \A m \in Nat : m < n => f[m] = g[m]
      PROVE  step(n, f) = step(n, g)
  <2>1. n \in 1..L => rest(n, f) = rest(n, g)
    <3>. HIDE DEF S
    <3>. QED
      BY <1>1, <1>3
  <2>. HIDE DEF rest
  <2>. QED
    BY <2>1
<1>. HIDE DEF step, S
<1>4. H \in [Nat -> [[Nat -> S] -> S]]
  BY <1>2
<1>5. \A n \in Nat : \A f \in [Nat -> S] : H[n][f] = step(n, f)
  OBVIOUS
<1>6. \A n \in Nat : \A f, g \in [Nat -> S] :
        (\A m \in Nat : m < n => f[m] = g[m]) => H[n][f] = H[n][g]
  BY <1>3, <1>5
<1>. HIDE DEF H
<1>7. Computes(H, S)
  BY <1>4, <1>6 DEF Computes
<1>8. PICK f \in [Nat -> S] : Unfolds(f, H)
  BY <1>0, <1>7, Recursion
<1>9. \A n \in Nat : f[n] = step(n, f)
  BY <1>5, <1>8 DEF Unfolds
<1>. DEFINE from == [pc \in Nat |-> IF pc >= L THEN <<>> ELSE f[L - pc]]
<1>10. from \in [Nat -> S]
  <2>1. ASSUME NEW pc \in Nat PROVE (IF pc >= L THEN <<>> ELSE f[L - pc]) \in S
    <3>1. ~(pc >= L) => L - pc \in Nat
      BY <1>0
    <3>. QED
      BY <1>0, <3>1
  <2>. QED
    BY <2>1
<1>11. \A pc \in Nat : from[pc] = IF pc >= L THEN <<>> ELSE f[L - pc]
  OBVIOUS
<1>. HIDE DEF from
<1>12. ASSUME NEW pc \in Nat
       PROVE  from[pc] = IF pc >= L THEN <<>>
                         ELSE <<instruction(c, pc)>> \o from[next_pc(c, pc)]
  <2>1. CASE pc >= L
    BY <1>11, <2>1
  <2>2. CASE ~(pc >= L)
    <3>1. L - pc \in Nat /\ L - pc \in 1..L /\ L - (L - pc) = pc
      BY <1>0, <2>2
    <3>2. at(L - pc) = pc /\ after(L - pc) = next_pc(c, pc)
      BY <3>1 DEF at, after
    <3>3. from[pc] = <<instruction(c, pc)>> \o rest(L - pc, f)
      BY <1>9, <1>11, <2>2, <3>1, <3>2 DEF step
    <3>4. rest(L - pc, f) = from[next_pc(c, pc)]
      <4>1. next_pc(c, pc) \in Nat
        BY <1>1, <3>1, <3>2
      <4>. QED
        BY <1>11, <3>2, <4>1
    <3>. QED
      BY <2>2, <3>3, <3>4
  <2>. QED
    BY <2>1, <2>2
<1>13. Unfolding(from, c)
  BY <1>12 DEF Unfolding, L
<1>. QED
  BY <1>10, <1>13 DEF S

LEMMA DisassemblyUnfolds ==
  ASSUME NEW c \in Seq(Byte)
  PROVE  \E from : Unfolding(from, c) /\ disassemble(c) = from[0]
<1>. DEFINE Eq(from) == from = [pc \in Nat |-> IF pc >= Len(c) THEN <<>>
                                  ELSE <<instruction(c, pc)>> \o from[next_pc(c, pc)]]
            from == CHOOSE from : Eq(from)
<1>1. PICK g : g \in [Nat -> Seq(Insts)] /\ Unfolding(g, c)
  BY UnfoldingExists
<1>2. Eq(g)
  <2>1. g = [pc \in Nat |-> g[pc]]
    BY <1>1
  <2>2. \A pc \in Nat : g[pc] = IF pc >= Len(c) THEN <<>>
                                ELSE <<instruction(c, pc)>> \o g[next_pc(c, pc)]
    BY <1>1 DEF Unfolding
  <2>. QED
    BY <2>1, <2>2
<1>3. Eq(from)
  <2>. HIDE DEF Eq
  <2>. QED
    BY <1>2
<1>4. Unfolding(from, c)
  <2>. HIDE DEF from
  <2>. QED
    BY <1>3 DEF Unfolding
<1>5. disassemble(c) = from[0]
  BY DEF disassemble
<1>. QED
  BY <1>4, <1>5

-----------------------------------------------------------------------------
(* The assembled program.                                                  *)

\* What Init chooses and no action changes.
Compiled == /\ program \in Seq(Instructions) /\ trailer \in Trailers
            /\ cut \in {0, 1}
            /\ cut = 1 => program # <<>> /\ Last(program).data # <<>>

Parts == [i \in DOMAIN program |-> bytes_of(program[i])]

LEMMA PartsIs ==
  ASSUME Compiled
  PROVE  /\ Parts \in Seq(Seq(Byte)) /\ Len(Parts) = Len(program) /\ Len(program) \in Nat
         /\ \A i \in 1..Len(program) :
              /\ program[i].op \in Byte /\ program[i].data \in Seq(Byte)
              /\ Len(program[i].data) = immediate_width(program[i].op)
              /\ Parts[i] \in Seq(Byte) /\ Len(Parts[i]) = 1 + Len(program[i].data)
              /\ Parts[i][1] = program[i].op
              /\ \A j \in 1..Len(program[i].data) : Parts[i][1 + j] = program[i].data[j]
<1>1. program \in Seq(Instructions) /\ DOMAIN program = 1..Len(program) /\ Len(program) \in Nat
  BY DEF Compiled
<1>2. ASSUME NEW i \in 1..Len(program)
      PROVE  /\ program[i].op \in Byte /\ program[i].data \in Seq(Byte)
             /\ Len(program[i].data) = immediate_width(program[i].op)
             /\ Parts[i] \in Seq(Byte) /\ Len(Parts[i]) = 1 + Len(program[i].data)
             /\ Parts[i][1] = program[i].op
             /\ \A j \in 1..Len(program[i].data) : Parts[i][1 + j] = program[i].data[j]
  <2>1. program[i] \in Instructions
    BY <1>1, ElementOfSeq
  <2>2. PICK op, data : op = program[i].op /\ data = program[i].data
    OBVIOUS
  <2>3. op \in Byte /\ data \in Seq(Byte) /\ Len(data) = immediate_width(op)
    BY <2>1, <2>2, InstructionsAssumption
  <2>4. Parts[i] = <<op>> \o data
    BY <1>1, <2>2 DEF Parts, bytes_of
  <2>5. <<op>> \in Seq(Byte) /\ Len(<<op>>) = 1 /\ <<op>>[1] = op
    BY <2>3
  <2>6. /\ <<op>> \o data \in Seq(Byte) /\ Len(<<op>> \o data) = 1 + Len(data)
        /\ (<<op>> \o data)[1] = op
        /\ \A j \in 1..Len(data) : (<<op>> \o data)[1 + j] = data[j]
    BY <2>3, <2>5, Concats
  <2>. QED
    BY <2>2, <2>3, <2>4, <2>6
<1>3. Parts \in Seq(Seq(Byte)) /\ Len(Parts) = Len(program)
  <2>1. Parts \in [1..Len(program) -> Seq(Byte)]
    <3>1. DOMAIN Parts = 1..Len(program) /\ Parts = [i \in 1..Len(program) |-> Parts[i]]
      BY <1>1 DEF Parts
    <3>. QED
      BY <1>2, <3>1
  <2>. QED
    BY <1>1, <2>1
<1>. QED
  BY <1>1, <1>2, <1>3

LEMMA AssembledIs ==
  ASSUME Compiled, NEW f, Grows(f, Parts, Byte)
  PROVE  /\ f[Len(program)] \in Seq(Byte) /\ assembled \in Seq(Byte)
         /\ Len(assembled) = Len(f[Len(program)]) - cut
         /\ \A j \in 1..Len(assembled) : assembled[j] = f[Len(program)][j]
<1>1. Parts \in Seq(Seq(Byte)) /\ Len(Parts) = Len(program) /\ Len(program) \in Nat
  BY PartsIs
<1>2. PICK all : all = f[Len(program)]
  OBVIOUS
<1>3. all \in Seq(Byte)
  BY <1>1, <1>2 DEF Grows
<1>4. FlattenSeq(Parts) = all
  BY <1>1, <1>2, FlattenIs
<1>5. assembled = SubSeq(all, 1, Len(all) - cut)
  BY <1>4 DEF assembled, Parts
<1>6. cut \in {0, 1} /\ cut <= Len(all)
  <2>1. CASE cut = 0
    BY <1>3, <2>1
  <2>2. CASE cut = 1
    <3>1. Len(program) \in 1..Len(program)
      BY <1>1, <2>2 DEF Compiled
    <3>2. Len(all) = Len(f[Len(program) - 1]) + Len(Parts[Len(program)])
      <4>1. Adds(f, Parts, Byte, Len(program))
        BY <1>1, <3>1, GrowsBy
      <4>. QED
        BY <1>2, <4>1 DEF Adds
    <3>3. Len(f[Len(program) - 1]) \in Nat
      BY <1>1, <3>1, GrowsAt
    <3>4. Len(Parts[Len(program)]) = 1 + Len(program[Len(program)].data)
          /\ Len(program[Len(program)].data) \in Nat
      BY <3>1, PartsIs
    <3>5. PICK x, y, z : /\ x = Len(f[Len(program) - 1]) /\ y = Len(program[Len(program)].data)
                         /\ z = Len(all)
      OBVIOUS
    <3>6. x \in Nat /\ y \in Nat /\ z = x + (1 + y)
      BY <3>2, <3>3, <3>4, <3>5
    <3>7. cut <= z
      BY <2>2, <3>6
    <3>. QED
      BY <2>2, <3>5, <3>7
  <2>. QED
    BY <2>1, <2>2 DEF Compiled
<1>7. /\ SubSeq(all, 1, Len(all) - cut) \in Seq(Byte)
      /\ Len(SubSeq(all, 1, Len(all) - cut)) = Len(all) - cut
      /\ \A i \in 1..(Len(all) - cut) : SubSeq(all, 1, Len(all) - cut)[i] = all[i]
  <2>1. Len(all) \in Nat
    BY <1>3
  <2>2. 1 \in Int /\ Len(all) - cut \in Int /\ 1 <= 1 /\ 1 <= Len(all) - cut + 1
        /\ Len(all) - cut <= Len(all) /\ Len(all) - cut - 1 + 1 = Len(all) - cut
    BY <1>6, <2>1
  <2>3. \A i \in 1..(Len(all) - cut) : 1 + i - 1 = i
    BY <2>2
  <2>. QED
    BY <1>3, <2>2, <2>3, PartIs
<1>. QED
  BY <1>2, <1>3, <1>5, <1>7

\* Instruction i is whole and at its place, but for the byte that is cut off the last one.
LEMMA PlaceOf ==
  ASSUME Compiled, NEW f, Grows(f, Parts, Byte), NEW i \in 1..Len(program)
  PROVE  /\ Len(f[i - 1]) \in Nat
         /\ Len(f[i]) = Len(f[i - 1]) + 1 + Len(program[i].data)
         /\ IF i = Len(program) THEN Len(f[i]) = Len(assembled) + cut
            ELSE Len(f[i]) < Len(assembled)
         /\ Len(f[i - 1]) < Len(assembled)
         /\ assembled[Len(f[i - 1]) + 1] = program[i].op
         /\ \A j \in 1..Len(program[i].data) :
              Len(f[i - 1]) + 1 + j <= Len(assembled) =>
                assembled[Len(f[i - 1]) + 1 + j] = program[i].data[j]
<1>. DEFINE n == Len(program)
<1>1. /\ Parts \in Seq(Seq(Byte)) /\ Len(Parts) = n /\ n \in Nat
      /\ \A k \in 1..n : Len(Parts[k]) = 1 + Len(program[k].data)
                         /\ Len(program[k].data) \in Nat
  BY PartsIs
<1>2. PICK all, o, w, L : all = f[n] /\ o = Len(f[i - 1]) /\ w = Len(program[i].data)
                          /\ L = Len(assembled)
  OBVIOUS
<1>3. all \in Seq(Byte) /\ Len(all) \in Nat /\ L = Len(all) - cut /\ L \in Nat
      /\ \A j \in 1..L : assembled[j] = all[j]
  <2>1. all \in Seq(Byte) /\ assembled \in Seq(Byte) /\ L = Len(all) - cut
        /\ \A j \in 1..L : assembled[j] = all[j]
    BY <1>2, AssembledIs
  <2>2. Len(assembled) \in Nat
    BY <2>1
  <2>3. Len(all) \in Nat
    BY <2>1
  <2>. QED
    BY <1>2, <2>1, <2>2, <2>3
<1>4. w \in Nat /\ Len(Parts[i]) = 1 + w
  BY <1>1, <1>2
<1>5. i \in 1..Len(Parts) /\ i \in Nat /\ i <= n
  BY <1>1
<1>6. o \in Nat /\ f[i] \in Seq(Byte) /\ Len(f[i]) \in Nat
  <2>1. f[i - 1] \in Seq(Byte) /\ f[i] \in Seq(Byte)
    BY <1>1, <1>5, GrowsAt
  <2>. QED
    BY <1>2, <2>1
<1>7. Len(f[i]) = o + (1 + w) /\ \A j \in 1..(1 + w) : f[i][o + j] = Parts[i][j]
  <2>1. Len(f[i]) = Len(f[i - 1]) + Len(Parts[i])
        /\ \A j \in 1..Len(Parts[i]) : f[i][Len(f[i - 1]) + j] = Parts[i][j]
    <3>1. Adds(f, Parts, Byte, i)
      BY <1>1, <1>5, GrowsBy
    <3>. QED
      BY <3>1 DEF Adds
  <2>. QED
    BY <1>2, <1>4, <2>1
<1>8. Len(f[i]) <= Len(all) /\ \A j \in 1..Len(f[i]) : all[j] = f[i][j]
  <2>1. n \in 0..Len(Parts) /\ i \in 0..n
    BY <1>1
  <2>2. Keeps(f, Parts, Byte, i, n)
    BY <1>1, <2>1, GrowthKeeps
  <2>. QED
    BY <1>2, <2>2 DEF Keeps
<1>9. IF i = n THEN Len(f[i]) = L + cut ELSE Len(f[i]) < L
  <2>1. CASE i = n
    BY <1>2, <1>3, <2>1, <1>6 DEF Compiled
  <2>2. CASE i # n
    <3>1. n \in 1..n /\ n - 1 \in 0..Len(Parts) /\ i \in 0..(n - 1) /\ n \in 1..Len(Parts)
      BY <1>1, <1>5, <2>2
    <3>2. Len(f[i]) <= Len(f[n - 1])
      <4>1. Keeps(f, Parts, Byte, i, n - 1)
        BY <1>1, <3>1, GrowthKeeps
      <4>. QED
        BY <4>1 DEF Keeps
    <3>3. Len(f[n]) = Len(f[n - 1]) + Len(Parts[n])
      <4>1. Adds(f, Parts, Byte, n)
        BY <1>1, <3>1, GrowsBy
      <4>. QED
        BY <4>1 DEF Adds
    <3>4. f[n - 1] \in Seq(Byte)
      BY <1>1, <3>1, GrowsAt
    <3>5. Len(f[n - 1]) \in Nat
      BY <3>4
    <3>6. Len(Parts[n]) = 1 + Len(program[n].data) /\ Len(program[n].data) \in Nat
      BY <1>1, <3>1
    <3>7. cut = 1 => Len(program[n].data) # 0
      <4>1. cut = 1 => program[n].data # <<>>
        BY DEF Compiled, Last
      <4>2. program[n].data \in Seq(Byte)
        BY <3>1, PartsIs
      <4>. QED
        BY <4>1, <4>2
    <3>8. PICK x, y : x = Len(f[n - 1]) /\ y = Len(program[n].data)
      OBVIOUS
    <3>9. cut \in {0, 1}
      BY DEF Compiled
    <3>10. x \in Nat /\ y \in Nat /\ Len(f[i]) <= x /\ Len(all) = x + (1 + y)
           /\ (cut = 1 => y # 0)
      BY <1>2, <3>2, <3>3, <3>5, <3>6, <3>7, <3>8
    <3>. QED
      BY <1>3, <1>6, <2>2, <3>9, <3>10
  <2>. QED
    BY <2>1, <2>2
<1>10. o < L
  <2>1. CASE i = n
    <3>1. cut = 1 => w # 0
      <4>1. cut = 1 => program[i].data # <<>>
        BY <2>1 DEF Compiled, Last
      <4>2. program[i].data \in Seq(Byte)
        BY PartsIs
      <4>. QED
        BY <1>2, <4>1, <4>2
    <3>2. cut \in {0, 1}
      BY DEF Compiled
    <3>. QED
      BY <1>3, <1>4, <1>6, <1>7, <1>9, <2>1, <3>1, <3>2
  <2>2. CASE i # n
    BY <1>3, <1>4, <1>6, <1>7, <1>9, <2>2
  <2>. QED
    BY <2>1, <2>2
<1>11. assembled[o + 1] = program[i].op
  <2>1. o + 1 \in 1..L /\ o + 1 \in 1..Len(f[i]) /\ 1 \in 1..(1 + w)
    BY <1>3, <1>4, <1>6, <1>7, <1>10
  <2>2. assembled[o + 1] = Parts[i][1]
    BY <1>3, <1>7, <1>8, <2>1
  <2>. QED
    BY <2>2, PartsIs
<1>12. ASSUME NEW j \in 1..w, o + 1 + j <= L
       PROVE  assembled[o + 1 + j] = program[i].data[j]
  <2>1. o + 1 + j \in 1..L /\ o + (1 + j) \in 1..Len(f[i]) /\ 1 + j \in 1..(1 + w)
        /\ o + 1 + j = o + (1 + j)
    BY <1>3, <1>4, <1>6, <1>7, <1>12
  <2>2. assembled[o + 1 + j] = Parts[i][1 + j]
    BY <1>3, <1>7, <1>8, <2>1
  <2>. QED
    BY <1>2, <2>2, PartsIs
<1>13. /\ Len(f[i - 1]) \in Nat /\ Len(f[i - 1]) < Len(assembled)
       /\ Len(f[i]) = Len(f[i - 1]) + 1 + Len(program[i].data)
  <2>1. o + (1 + w) = o + 1 + w
    BY <1>4, <1>6
  <2>. QED
    BY <1>2, <1>6, <1>7, <1>10, <2>1
<1>. QED
  BY <1>2, <1>9, <1>11, <1>12, <1>13

LEMMA PlaceIsListed ==
  ASSUME Compiled, NEW f, Grows(f, Parts, Byte), NEW i \in 1..Len(program)
  PROVE  Len(FlattenSeq([j \in 1..i - 1 |-> bytes_of(program[j])])) = Len(f[i - 1])
<1>. DEFINE some == [j \in 1..(i - 1) |-> bytes_of(program[j])]
<1>1. /\ Parts \in Seq(Seq(Byte)) /\ Len(Parts) = Len(program) /\ Len(program) \in Nat
      /\ \A k \in 1..Len(program) : Parts[k] \in Seq(Byte)
  BY PartsIs
<1>2. DOMAIN program = 1..Len(program)
  BY DEF Compiled
<1>3. i - 1 \in Nat /\ 1..(i - 1) \subseteq 1..Len(program)
  BY <1>1
<1>4. \A j \in 1..(i - 1) : some[j] = Parts[j]
  BY <1>2, <1>3 DEF Parts
<1>5. some \in [1..(i - 1) -> Seq(Byte)]
  <2>1. some = [j \in 1..(i - 1) |-> some[j]]
    OBVIOUS
  <2>. HIDE DEF some
  <2>. QED
    BY <1>1, <1>3, <1>4, <2>1
<1>. HIDE DEF some
<1>6. some \in Seq(Seq(Byte)) /\ Len(some) = i - 1
  BY <1>3, <1>5
<1>7. Grows(f, some, Byte)
  <2>1. \A j \in 1..(i - 1) : f[j] = f[j - 1] \o some[j]
    BY <1>1, <1>3, <1>4 DEF Grows
  <2>. QED
    BY <1>6, <2>1 DEF Grows
<1>8. FlattenSeq(some) = f[i - 1]
  BY <1>6, <1>7, FlattenIs
<1>. QED
  BY <1>8 DEF some

\* What the disassembler reads at the place of instruction i.
LEMMA ReadAsListed ==
  ASSUME Compiled, NEW f, Grows(f, Parts, Byte), NEW i \in 1..Len(program)
  PROVE  /\ instruction(assembled, Len(f[i - 1])) = Listing[i]
         /\ next_pc(assembled, Len(f[i - 1])) = Len(f[i])
<1>1. PICK c, o, w, L, d, op : /\ c = assembled /\ o = Len(f[i - 1]) /\ w = Len(d)
                               /\ L = Len(c) /\ d = program[i].data /\ op = program[i].op
  OBVIOUS
<1>2. d \in Seq(Byte) /\ w \in Nat /\ w = immediate_width(op) /\ DOMAIN program = 1..Len(program)
  <2>1. DOMAIN program = 1..Len(program)
    BY DEF Compiled
  <2>2. /\ program[i].data \in Seq(Byte)
        /\ Len(program[i].data) = immediate_width(program[i].op)
    BY PartsIs
  <2>. QED
    BY <1>1, <2>1, <2>2
<1>3. c \in Seq(Byte) /\ L \in Nat
  BY <1>1, AssembledIs
<1>4. /\ o \in Nat /\ Len(f[i]) = o + 1 + w /\ o < L
      /\ c[o + 1] = op
      /\ \A j \in 1..w : o + 1 + j <= L => c[o + 1 + j] = d[j]
  <2>1. /\ Len(f[i - 1]) \in Nat
        /\ Len(f[i]) = Len(f[i - 1]) + 1 + Len(program[i].data)
        /\ Len(f[i - 1]) < Len(assembled)
        /\ assembled[Len(f[i - 1]) + 1] = program[i].op
        /\ \A j \in 1..Len(program[i].data) :
             Len(f[i - 1]) + 1 + j <= Len(assembled) =>
               assembled[Len(f[i - 1]) + 1 + j] = program[i].data[j]
    BY PlaceOf
  <2>. QED
    BY <1>1, <2>1
<1>5. next_pc(c, o) = o + 1 + w
  BY <1>2, <1>4 DEF next_pc
<1>6. Slice(c, o + 1, o + 1 + w) = Slice(d, 0, L - o - 1)
  <2>. DEFINE k == IF o + 1 + w <= L THEN w ELSE L - o - 1
              x == SubSeq(c, o + 1 + 1, o + 1 + k)
              y == SubSeq(d, 0 + 1, k)
  <2>1. k \in Nat /\ k <= w /\ o + 1 + k <= L
    BY <1>2, <1>3, <1>4
  <2>2. Slice(c, o + 1, o + 1 + w) = x
    <3>1. PICK a, b : a = o + 1 /\ b = o + 1 + w
      OBVIOUS
    <3>2. a \in Nat /\ b \in Int
      BY <1>2, <1>4, <3>1
    <3>3. (IF b <= L THEN b ELSE L) = o + 1 + k
      BY <1>2, <1>3, <1>4, <3>1
    <3>. HIDE DEF k
    <3>4. Slice(c, a, b) = SubSeq(c, a + 1, IF b <= Len(c) THEN b ELSE Len(c))
      BY <1>3, <3>2, SliceIs
    <3>. QED
      BY <1>1, <3>1, <3>3, <3>4
  <2>3. Slice(d, 0, L - o - 1) = y
    <3>1. PICK b : b = L - o - 1
      OBVIOUS
    <3>2. b \in Int /\ 0 \in Nat
      BY <1>3, <1>4, <3>1
    <3>3. (IF b <= w THEN b ELSE w) = k
      BY <1>2, <1>3, <1>4, <3>1
    <3>. HIDE DEF k
    <3>4. Slice(d, 0, b) = SubSeq(d, 0 + 1, IF b <= Len(d) THEN b ELSE Len(d))
      BY <1>2, <3>2, SliceIs
    <3>. QED
      BY <1>1, <3>1, <3>3, <3>4
  <2>. HIDE DEF k
  <2>4. x \in Seq(Byte) /\ Len(x) = k /\ \A j \in 1..k : x[j] = c[o + 1 + j]
    <3>1. PICK a, b : a = o + 1 + 1 /\ b = o + 1 + k
      OBVIOUS
    <3>2. /\ a \in Int /\ b \in Int /\ 1 <= a /\ a <= b + 1 /\ b <= L /\ b - a + 1 = k
          /\ \A j \in 1..k : a + j - 1 = o + 1 + j
      BY <1>4, <2>1, <3>1
    <3>3. /\ SubSeq(c, a, b) \in Seq(Byte) /\ Len(SubSeq(c, a, b)) = b - a + 1
          /\ \A j \in 1..(b - a + 1) : SubSeq(c, a, b)[j] = c[a + j - 1]
      BY <1>1, <1>3, <3>2, PartIs
    <3>. QED
      BY <3>1, <3>2, <3>3
  <2>5. y \in Seq(Byte) /\ Len(y) = k /\ \A j \in 1..k : y[j] = d[j]
    <3>1. /\ 0 + 1 \in Int /\ k \in Int /\ 1 <= 0 + 1 /\ 0 + 1 <= k + 1
          /\ k - (0 + 1) + 1 = k /\ \A j \in 1..k : 0 + 1 + j - 1 = j
      BY <2>1
    <3>. QED
      BY <1>1, <1>2, <2>1, <3>1, PartIs
  <2>. HIDE DEF x, y
  <2>6. ASSUME NEW j \in 1..k PROVE x[j] = y[j]
    <3>1. j \in 1..w /\ o + 1 + j <= L
      BY <1>2, <1>3, <1>4, <2>1
    <3>. QED
      BY <1>4, <2>4, <2>5, <3>1
  <2>7. x = y
    BY <2>4, <2>5, <2>6, SeqEqual
  <2>. QED
    BY <2>2, <2>3, <2>7
<1>7. instruction(c, o) = [pc |-> o, op |-> op, data |-> Slice(d, 0, L - o - 1)]
  BY <1>2, <1>4, <1>6 DEF instruction
<1>8. Listing[i] = [pc |-> o, op |-> op, data |-> Slice(d, 0, L - o - 1)]
  BY <1>1, <1>2, PlaceIsListed DEF Listing
<1>. QED
  BY <1>1, <1>4, <1>5, <1>7, <1>8

LEMMA ListingTyped ==
  ASSUME Compiled
  PROVE  Listing \in Seq(Insts) /\ Len(Listing) = Len(program)
<1>1. PICK f : Grows(f, Parts, Byte)
  BY PartsIs, GrowthExists
<1>2. DOMAIN program = 1..Len(program) /\ Len(program) \in Nat
  BY DEF Compiled
<1>3. \A i \in 1..Len(program) : Listing[i] \in Insts
  <2>1. TAKE i \in 1..Len(program)
  <2>2. assembled \in Seq(Byte)
    BY <1>1, AssembledIs
  <2>3. /\ Len(f[i - 1]) \in Nat /\ Len(f[i - 1]) < Len(assembled)
        /\ instruction(assembled, Len(f[i - 1])) = Listing[i]
    BY <1>1, PlaceOf, ReadAsListed
  <2>4. instruction(assembled, Len(f[i - 1])) \in Insts
    BY <2>2, <2>3, InstructionIs
  <2>. QED
    BY <2>3, <2>4
<1>4. Listing = [i \in 1..Len(program) |-> Listing[i]]
  BY <1>2 DEF Listing
<1>. QED
  BY <1>2, <1>3, <1>4

\* The disassembler reads back, from every byte sequence a program assembles to, the program.
LEMMA DisassemblyIsListing ==
  ASSUME Compiled
  PROVE  disassemble(assembled) = Listing
<1>1. PICK f : Grows(f, Parts, Byte)
  BY PartsIs, GrowthExists
<1>2. assembled \in Seq(Byte)
  BY <1>1, AssembledIs
<1>3. PICK from : Unfolding(from, assembled) /\ disassemble(assembled) = from[0]
  BY <1>2, DisassemblyUnfolds
<1>4. PICK n \in Nat : n = Len(program)
  BY PartsIs
<1>. DEFINE rest(i) == SubSeq(Listing, i, n)
            X == {k \in Nat : k <= n => from[Len(f[n - k])] = rest(n - k + 1)}
<1>5. Listing \in Seq(Insts) /\ Len(Listing) = n
  BY <1>4, ListingTyped
<1>6. \A k \in 0..n : Len(f[k]) \in Nat
  <2>1. \A k \in 0..n : f[k] \in Seq(Byte)
    BY <1>1 DEF Grows
  <2>. QED
    BY <2>1
<1>7. ASSUME NEW k \in Nat, \A m \in Nat : m < k => m \in X
      PROVE  k \in X
  <2>. SUFFICES ASSUME k <= n
                PROVE  from[Len(f[n - k])] = rest(n - k + 1)
    OBVIOUS
  <2>1. CASE k = 0
    <3>1. Len(f[n]) = Len(assembled) + cut /\ Len(assembled) \in Nat /\ cut \in Nat
      <4>1. Len(assembled) = Len(f[n]) - cut /\ f[n] \in Seq(Byte)
        BY <1>1, <1>4, AssembledIs
      <4>2. cut \in {0, 1}
        BY DEF Compiled
      <4>. QED
        BY <1>2, <4>1, <4>2
    <3>2. from[Len(f[n])] = <<>>
      <4>1. Len(f[n]) \in Nat /\ Len(f[n]) >= Len(assembled)
        BY <3>1
      <4>. QED
        BY <1>3, <4>1 DEF Unfolding
    <3>3. rest(n + 1) = <<>>
      BY <1>5
    <3>4. n - k = n /\ n - k + 1 = n + 1
      BY <2>1
    <3>. QED
      BY <3>2, <3>3, <3>4
  <2>2. CASE k # 0
    <3>1. PICK i : i = n - k + 1
      OBVIOUS
    <3>2. /\ i \in 1..n /\ i - 1 = n - k /\ k - 1 \in Nat /\ k - 1 < k /\ k - 1 <= n
          /\ n - (k - 1) = i /\ n - (k - 1) + 1 = i + 1 /\ i - 1 \in 0..n
      BY <2>2, <3>1
    <3>3. from[Len(f[i])] = rest(i + 1)
      <4>. HIDE DEF rest
      <4>1. k - 1 \in X
        BY <1>7, <3>2
      <4>. QED
        BY <3>2, <4>1
    <3>4. /\ Len(f[i - 1]) \in Nat /\ Len(f[i - 1]) < Len(assembled)
          /\ instruction(assembled, Len(f[i - 1])) = Listing[i]
          /\ next_pc(assembled, Len(f[i - 1])) = Len(f[i])
      BY <1>1, <1>4, <3>2, PlaceOf, ReadAsListed
    <3>5. Len(assembled) \in Nat
      BY <1>2
    <3>6. from[Len(f[i - 1])] = <<Listing[i]>> \o rest(i + 1)
      <4>. HIDE DEF rest
      <4>1. ~(Len(f[i - 1]) >= Len(assembled))
        BY <3>4, <3>5
      <4>. QED
        BY <1>3, <3>3, <3>4, <4>1 DEF Unfolding
    <3>7. <<Listing[i]>> \o rest(i + 1) = rest(i)
      BY <1>5, <3>2
    <3>. QED
      BY <3>1, <3>2, <3>6, <3>7
  <2>. QED
    BY <2>1, <2>2
<1>. HIDE DEF X
<1>8. Nat \subseteq X
  BY <1>7, Induction
<1>9. from[Len(f[0])] = rest(1)
  <2>1. n \in X /\ n <= n /\ n - n = 0 /\ n - n + 1 = 1
    BY <1>8
  <2>. HIDE DEF rest
  <2>. QED
    BY <2>1 DEF X
<1>10. Len(f[0]) = 0
  BY <1>1 DEF Grows
<1>11. rest(1) = Listing
  BY <1>5
<1>. QED
  BY <1>3, <1>9, <1>10, <1>11

-----------------------------------------------------------------------------
(* The properties.                                                         *)

LEMMA BodyIs ==
  ASSUME Compiled
  PROVE  /\ trailer # <<>> => body(code) = assembled
         /\ ~Coincidence => body(code) = assembled
<1>1. assembled \in Seq(Byte)
  BY PartsIs, GrowthExists, AssembledIs
<1>2. CASE trailer = <<>>
  <2>1. code = assembled
    BY <1>1, <1>2 DEF code
  <2>. QED
    BY <1>2, <2>1 DEF body, Coincidence
<1>3. CASE trailer # <<>>
  <2>1. trailer \in Trailers \ {<<>>}
    BY <1>3 DEF Compiled
  <2>2. code = assembled \o WithLength(trailer)
    BY <1>3 DEF code
  <2>. QED
    BY <1>1, <2>1, <2>2, AppendedIsFound
<1>. QED
  BY <1>2, <1>3

\* The listing cuts a constant of four bytes short only at the end of the program.
LEMMA ConstantIsListed ==
  ASSUME Compiled, NEW k \in 1..Len(program), program[k].op = PUSH4
  PROVE  /\ Len(Listing[k].data) = 4 <=> k < Len(program) \/ cut = 0
         /\ k < Len(program) \/ cut = 0 => Listing[k].data = program[k].data
<1>1. PICK f : Grows(f, Parts, Byte)
  BY PartsIs, GrowthExists
<1>2. PICK o, L, d : o = Len(f[k - 1]) /\ L = Len(assembled) /\ d = program[k].data
  OBVIOUS
<1>3. d \in Seq(Byte) /\ Len(d) = 4
  <2>1. d \in Seq(Byte) /\ Len(d) = immediate_width(PUSH4)
    BY <1>2, PartsIs
  <2>. QED
    BY <2>1 DEF immediate_width, PUSH4
<1>4. L \in Nat
  BY <1>1, <1>2, AssembledIs
<1>5. /\ o \in Nat
      /\ IF k = Len(program) THEN o + 5 = L + cut ELSE o + 5 < L
  <2>1. /\ Len(f[k - 1]) \in Nat /\ Len(f[k]) = Len(f[k - 1]) + 1 + Len(program[k].data)
        /\ IF k = Len(program) THEN Len(f[k]) = Len(assembled) + cut
           ELSE Len(f[k]) < Len(assembled)
    BY <1>1, PlaceOf
  <2>2. Len(f[k]) = o + 1 + 4 /\ o \in Nat
    BY <1>2, <1>3, <2>1
  <2>3. o + 1 + 4 = o + 5
    BY <2>2
  <2>. QED
    BY <1>2, <2>1, <2>2, <2>3
<1>6. Listing[k].data = Slice(d, 0, L - o - 1)
  <2>1. DOMAIN program = 1..Len(program)
    BY DEF Compiled
  <2>. QED
    BY <1>1, <1>2, <2>1, PlaceIsListed DEF Listing
<1>7. PICK to : to = L - o - 1
  OBVIOUS
<1>8. to \in Int /\ 0 \in Nat
  BY <1>4, <1>5, <1>7
<1>9. Listing[k].data = SubSeq(d, 0 + 1, IF to <= Len(d) THEN to ELSE Len(d))
  BY <1>3, <1>6, <1>7, <1>8, SliceIs
<1>10. cut \in {0, 1} /\ Len(program) \in Nat
  BY DEF Compiled
<1>11. CASE k < Len(program) \/ cut = 0
  <2>1. to >= 4
    BY <1>4, <1>5, <1>7, <1>10, <1>11
  <2>2. (IF to <= Len(d) THEN to ELSE Len(d)) = 4
    BY <1>3, <1>8, <2>1
  <2>3. SubSeq(d, 0 + 1, 4) = d
    BY <1>3
  <2>. QED
    BY <1>2, <1>3, <1>9, <1>11, <2>2, <2>3
<1>12. CASE ~(k < Len(program) \/ cut = 0)
  <2>1. to = 3
    BY <1>4, <1>5, <1>7, <1>10, <1>12
  <2>2. (IF to <= Len(d) THEN to ELSE Len(d)) = 3
    BY <1>3, <2>1
  <2>3. Len(SubSeq(d, 0 + 1, 3)) = 3
    BY <1>3
  <2>4. Len(Listing[k].data) = 3
    BY <1>9, <2>2, <2>3
  <2>. QED
    BY <1>12, <2>4
<1>. QED
  BY <1>11, <1>12

\* What the action reports is what the program compares.
Real == {program[i].data : i \in {k \in DOMAIN program :
           /\ program[k].op = PUSH4 /\ program[k].data \notin Sentinels
           /\ k < Len(program) \/ cut = 0
           /\ \E j \in {k + 1, k + 2} \cap DOMAIN program : program[j].op \in Comparisons}}

LEMMA ReportIsReal ==
  ASSUME Compiled, ~Coincidence
  PROVE  selectors(code) = Real
<1>. DEFINE n == Len(program)
            Chosen(k) == /\ Listing[k].op = PUSH4 /\ Len(Listing[k].data) = 4
                         /\ Listing[k].data \notin Sentinels /\ compared(Listing, k)
            Meant(k) == /\ program[k].op = PUSH4 /\ program[k].data \notin Sentinels
                        /\ k < n \/ cut = 0
                        /\ \E j \in {k + 1, k + 2} \cap DOMAIN program :
                             program[j].op \in Comparisons
<1>1. disassemble(body(code)) = Listing
  BY BodyIs, DisassemblyIsListing
<1>2. DOMAIN program = 1..n /\ n \in Nat
  BY DEF Compiled
<1>3. DOMAIN Listing = 1..n /\ Len(Listing) = n
  BY <1>2, ListingTyped DEF Listing
<1>4. \A k \in 1..n : Listing[k].op = program[k].op
  BY <1>2 DEF Listing
<1>5. ASSUME NEW k \in 1..n
      PROVE  compared(Listing, k) <=> \E j \in {k + 1, k + 2} \cap (1..n) :
                                        program[j].op \in Comparisons
  <2>1. Min({k + 2, n}) = IF k + 2 <= n THEN k + 2 ELSE n
    BY <1>2, MinTwo
  <2>2. k + 1..Min({k + 2, n}) = {k + 1, k + 2} \cap (1..n)
    BY <1>2, <2>1
  <2>3. compared(Listing, k) <=> \E j \in {k + 1, k + 2} \cap (1..n) :
                                   Listing[j].op \in Comparisons
    BY <1>3, <2>2 DEF compared
  <2>. QED
    BY <1>4, <2>3
<1>6. ASSUME NEW k \in 1..n
      PROVE  /\ Chosen(k) <=> Meant(k)
             /\ Meant(k) => Listing[k].data = program[k].data
  <2>1. program[k].op = PUSH4 =>
          /\ Len(Listing[k].data) = 4 <=> k < n \/ cut = 0
          /\ k < n \/ cut = 0 => Listing[k].data = program[k].data
    BY ConstantIsListed
  <2>. QED
    BY <1>2, <1>4, <1>5, <2>1
<1>7. selectors(code) = {Listing[i].data : i \in {k \in 1..n : Chosen(k)}}
  BY <1>1, <1>3 DEF selectors, compared_in
<1>8. Real = {program[i].data : i \in {k \in 1..n : Meant(k)}}
  BY <1>2 DEF Real
<1>. HIDE DEF Chosen, Meant
<1>. QED
  BY <1>6, <1>7, <1>8

\* The pages read so far are the listing's first instructions, up to the next page's.
Paging == ~Coincidence =>
  IF offset = -1 THEN pages = Listing
  ELSE offset \in 0..Len(Listing) /\ pages = SubSeq(Listing, 1, offset)
Report == ~Coincidence => found = {<<>>} \/ found = Real
BInv == Compiled /\ Paging /\ Report

LEMMA InitHolds == Init => BInv
<1>. SUFFICES ASSUME Init PROVE BInv
  OBVIOUS
<1>1. Compiled
  <2>1. program \in Seq(Instructions)
    BY InstructionsAssumption DEF Init, SeqOf
  <2>. QED
    BY <2>1 DEF Init, Compiled
<1>2. Paging
  <2>1. Listing \in Seq(Insts)
    BY <1>1, ListingTyped
  <2>2. SubSeq(Listing, 1, 0) = <<>> /\ 0 \in 0..Len(Listing)
    BY <2>1
  <2>. QED
    BY <2>2 DEF Init, Paging
<1>3. Report
  BY DEF Init, Report
<1>. QED
  BY <1>1, <1>2, <1>3 DEF BInv

LEMMA SameProgram ==
  ASSUME UNCHANGED <<program, cut, trailer>>
  PROVE  /\ (Compiled <=> Compiled') /\ (Coincidence <=> Coincidence')
         /\ Listing' = Listing /\ Real' = Real /\ code' = code
<1>1. assembled' = assembled
  BY DEF assembled
<1>2. Listing' = Listing
  BY <1>1 DEF Listing
<1>3. (Compiled <=> Compiled') /\ Real' = Real
  BY DEF Compiled, Real
<1>. QED
  BY <1>1, <1>2, <1>3 DEF Coincidence, code

LEMMA PageKeeps ==
  ASSUME BInv, NEW limit \in Limits, Page(limit)
  PROVE  BInv'
<1>1. UNCHANGED <<program, cut, trailer, found>>
  BY DEF Page
<1>2. Compiled'
  BY <1>1, SameProgram DEF BInv
<1>3. Report'
  BY <1>1, SameProgram DEF BInv, Report
<1>4. Paging'
  <2>. SUFFICES ASSUME ~Coincidence
                PROVE  IF offset' = -1 THEN pages' = Listing
                       ELSE offset' \in 0..Len(Listing) /\ pages' = SubSeq(Listing, 1, offset')
    BY <1>1, SameProgram DEF Paging
  <2>1. disassemble(body(code)) = Listing
    BY BodyIs, DisassemblyIsListing DEF BInv
  <2>2. PICK all, n : all = Listing /\ n = Len(Listing)
    OBVIOUS
  <2>3. all \in Seq(Insts) /\ Len(all) = n /\ n \in Nat
    BY <2>2, ListingTyped DEF BInv
  <2>4. offset \in 0..n /\ pages = SubSeq(all, 1, offset)
    BY <2>2 DEF BInv, Paging, Page
  <2>5. PICK to : to = IF limit = 0 THEN n ELSE Min({offset + limit, n})
    OBVIOUS
  <2>6. to \in offset..n
    <3>1. limit \in Nat
      BY InstructionsAssumption
    <3>2. offset + limit \in Int /\ n \in Int
      BY <2>3, <2>4, <3>1
    <3>3. Min({offset + limit, n}) = IF offset + limit <= n THEN offset + limit ELSE n
      BY <3>2, MinTwo
    <3>. QED
      BY <2>3, <2>4, <2>5, <3>1, <3>3
  <2>7. PICK window : window = SubSeq(all, offset + 1, to)
    OBVIOUS
  <2>8. /\ pages' = pages \o window
        /\ offset' = IF offset + Len(window) < n THEN offset + Len(window) ELSE -1
    BY <2>1, <2>2, <2>5, <2>7 DEF Page, more
  <2>9. Len(window) = to - offset /\ pages \o window = SubSeq(all, 1, to)
    BY <2>3, <2>4, <2>6, <2>7, PartsMeet
  <2>10. offset + Len(window) = to /\ to \in 0..n
    BY <2>3, <2>4, <2>6, <2>9
  <2>11. CASE to < n
    BY <2>2, <2>8, <2>9, <2>10, <2>11
  <2>12. CASE ~(to < n)
    <3>1. to = n
      BY <2>3, <2>10, <2>12
    <3>2. SubSeq(all, 1, n) = all
      BY <2>3
    <3>. QED
      BY <2>2, <2>8, <2>9, <2>10, <2>12, <3>1, <3>2
  <2>. QED
    BY <2>11, <2>12
<1>. QED
  BY <1>2, <1>3, <1>4 DEF BInv

LEMMA SelectorsKeeps ==
  ASSUME BInv, Selectors
  PROVE  BInv'
<1>1. UNCHANGED <<program, cut, trailer, offset, pages>> /\ found' = selectors(code)
  BY DEF Selectors
<1>2. Compiled'
  BY <1>1, SameProgram DEF BInv
<1>3. Paging'
  BY <1>1, SameProgram DEF BInv, Paging
<1>4. ~Coincidence => found' = Real
  BY <1>1, ReportIsReal DEF BInv
<1>5. Report'
  BY <1>1, <1>4, SameProgram DEF Report
<1>. QED
  BY <1>2, <1>3, <1>5 DEF BInv

LEMMA BInvHolds == Spec => []BInv
<1>1. Init => BInv
  BY InitHolds
<1>2. BInv /\ [Next]_vars => BInv'
  <2>. SUFFICES ASSUME BInv, [Next]_vars PROVE BInv'
    OBVIOUS
  <2>1. CASE Selectors
    BY <2>1, SelectorsKeeps
  <2>2. CASE \E limit \in Limits : Page(limit)
    BY <2>2, PageKeeps
  <2>4. CASE Fail
    <3>1. UNCHANGED vars
      BY <2>4 DEF Fail
    <3>2. UNCHANGED <<program, cut, trailer>>
      BY <3>1 DEF vars
    <3>. QED
      BY <3>1, <3>2, SameProgram DEF BInv, Paging, Report, vars
  <2>3. CASE UNCHANGED vars
    <3>1. UNCHANGED <<program, cut, trailer>> /\ UNCHANGED <<offset, pages, found>>
      BY <2>3 DEF vars
    <3>. QED
      BY <3>1, SameProgram DEF BInv, Paging, Report
  <2>. QED
    BY <2>1, <2>2, <2>3, <2>4 DEF Next
<1>. QED
  BY <1>1, <1>2, PTL DEF Spec

\* A client that follows next_offset to its end has read the program that was compiled,
\* every instruction once and nothing of the metadata: disassemble and its pages.
THEOREM PagingIsComplete == Spec => []PagesComplete
<1>1. BInv => PagesComplete
  BY DEF BInv, Paging, PagesComplete
<1>. QED
  BY <1>1, BInvHolds, PTL

\* The selectors reported are the constants the program compares, and all of them,
\* whatever immediates, metadata or truncated constants look like: selectors.
THEOREM SelectorsAreReal == Spec => []SelectorsReal
<1>1. BInv => SelectorsReal
  BY DEF BInv, Report, Real, SelectorsReal
<1>. QED
  BY <1>1, BInvHolds, PTL

\* Metadata a compiler appended is peeled off whole, after any program: metadata_start.
THEOREM MetadataIsPeeled == Spec => []MetadataPeeled
<1>1. BInv => MetadataPeeled
  BY BodyIs DEF BInv, MetadataPeeled
<1>. QED
  BY <1>1, BInvHolds, PTL
=============================================================================
