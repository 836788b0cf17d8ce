---------------------------- MODULE HostFileProof ----------------------------
(***************************************************************************)
(* The properties of HostFile for any number of files, any lengths of key  *)
(* file and chunk, and any number of writes by the other process.          *)
(*                                                                         *)
(* A file enters the path once (used), so what was true of a file when it  *)
(* was opened or statted can only be undone by the two writes; a renamed   *)
(* file has had neither.                                                   *)
(***************************************************************************)
EXTENDS HostFile, SequenceTheorems, TLAPS

-----------------------------------------------------------------------------
(* The inductive invariant.                                                *)

\* Whatever the server or the path refers to has been at the path.
UsedInv == {path, statted, fd} \cap Files \subseteq used

\* A file that was never at the path is untouched; a renamed one is whole.
FileInv == \A i \in Files :
             /\ i \notin used => gen[i] = 0
             /\ i \in renamed => gen[i] = 0 /\ len[i] = WholeLen(form[i])

\* Until it is opened, a file not overwritten has not shrunk since stat.
SizeInv == pc = "open" /\ statted \in Files /\ gen[statted] = 0 => size <= len[statted]

\* What was read is a prefix of the open file, unless that was overwritten.
Prefix == gen[fd] = opened.gen =>
            /\ got = Bytes(fd, opened.gen, Len(got))
            /\ opened.len <= len[fd] /\ Len(got) <= len[fd]
            /\ pc = "read" => len[fd] <= Len(got)
ReadInv == /\ pc \in {"exists", "is_file", "stat", "open"} => got = << >>
           /\ pc \in {"reading", "read"} =>
                /\ opened.gen <= gen[fd]
                /\ statted = fd /\ opened.gen = 0 => size <= opened.len
                /\ Prefix

\* With the path left alone, what each check found is still so.
RaceInv == ~touched => /\ pc = "is_file" => path # Missing
                       /\ pc \in {"stat", "open"} => path \in Files
                       /\ pc = "OSError" => path \in Files \ readable

IInv == TypeOK /\ UsedInv /\ FileInv /\ SizeInv /\ ReadInv /\ RaceInv

-----------------------------------------------------------------------------
(* Lemmas about the bytes of a file.                                       *)

\* The lengths of a key file, and of the key in it.
LEMMA WholeLenNat ==
  ASSUME NEW f \in Forms
  PROVE  /\ WholeLen(f) \in Nat \ {0} /\ KeyEnd(f) \in Nat /\ KeyEnd(f) <= WholeLen(f)
         /\ f = "raw" => KeyEnd(f) = WholeLen(f) /\ WholeLen(f) = KeyLen
BY HostAssumption, SMT DEF WholeLen, KeyEnd, Forms

\* The first bytes of a file's bytes are the bytes up to there.
LEMMA FirstBytes ==
  ASSUME NEW i \in Files, NEW m \in Nat, NEW n \in Nat, m <= n
  PROVE  SubSeq(Bytes(i, 0, n), 1, m) = Bytes(i, 0, m)
BY SMT DEF Bytes

\* A byte, and the n bytes of file i that follow the m-th.
Byte == Files \X Nat \X Nat

Run(i, g, m, n) == [k \in 1..n |-> <<i, g, m + k>>]

\* A run of bytes of one file is a sequence of bytes.
LEMMA RunOfBytes ==
  ASSUME NEW i \in Files, NEW g \in Nat, NEW m \in Nat, NEW n \in Nat
  PROVE  /\ Run(i, g, m, n) \in Seq(Byte) /\ Len(Run(i, g, m, n)) = n
         /\ Bytes(i, g, n) \in Seq(Byte) /\ Len(Bytes(i, g, n)) = n
<1>1. \A k \in 1..n : <<i, g, m + k>> \in Byte /\ <<i, g, k>> \in Byte
  BY SMT DEF Byte
<1>2. /\ Run(i, g, m, n) \in [1..n -> Byte]
      /\ Bytes(i, g, n) \in [1..n -> Byte]
  BY <1>1 DEF Bytes, Run
<1>3. ASSUME NEW f \in [1..n -> Byte] PROVE f \in Seq(Byte) /\ Len(f) = n
  BY SMT
<1> QED BY <1>2, <1>3

\* The bytes read next, after a prefix, give a longer prefix.
LEMMA LongerPrefix ==
  ASSUME NEW i \in Files, NEW g \in Nat, NEW m \in Nat, NEW n \in Nat
  PROVE  Bytes(i, g, m) \o Run(i, g, m, n) = Bytes(i, g, m + n)
<1> DEFINE a == Bytes(i, g, m)
<1> DEFINE b == Run(i, g, m, n)
<1> DEFINE c == Bytes(i, g, m + n)
<1>1. m + n \in Nat BY SMT
<1>2. /\ a \in Seq(Byte) /\ Len(a) = m
      /\ b \in Seq(Byte) /\ Len(b) = n
      /\ c \in Seq(Byte) /\ Len(c) = m + n
  BY <1>1, RunOfBytes
<1>3. /\ \A k \in 1..m : a[k] = <<i, g, k>>
      /\ \A k \in 1..n : b[k] = <<i, g, m + k>>
      /\ \A k \in 1..(m + n) : c[k] = <<i, g, k>>
  BY DEF Bytes, Run
<1> HIDE DEF a, b, c
<1>4. /\ a \o b \in Seq(Byte) /\ Len(a \o b) = m + n
      /\ \A k \in 1..(m + n) : (a \o b)[k] = IF k <= m THEN a[k] ELSE b[k - m]
  BY <1>2, ConcatProperties
<1>5. ASSUME NEW k \in 1..(m + n) PROVE (a \o b)[k] = c[k]
  <2>1. CASE k <= m
    <3>1. k \in 1..m BY <2>1, SMT
    <3> QED BY <2>1, <3>1, <1>3, <1>4
  <2>2. CASE ~(k <= m)
    <3>1. k - m \in 1..n /\ m + (k - m) = k BY <2>2, SMT
    <3>2. (a \o b)[k] = b[k - m] BY <2>2, <1>4
    <3>3. b[k - m] = <<i, g, m + (k - m)>> BY <3>1, <1>3
    <3> QED BY <3>1, <3>2, <3>3, <1>3
  <2> QED BY <2>1, <2>2
<1>6. a \o b = c BY <1>2, <1>4, <1>5, SeqEqual
<1> QED BY <1>6 DEF a, b, c

\* One read takes what there is, up to a chunk, and nothing only at the end.
LEMMA TakenBound ==
  ASSUME TypeOK, NEW n \in Nat
  PROVE  /\ Taken(n) \in Nat
         /\ Len(got) <= n => Len(got) + Taken(n) <= n
         /\ Taken(n) = 0 => n <= Len(got)
<1>1. Len(got) \in Nat BY SMT DEF TypeOK
<1> QED BY <1>1, HostAssumption, SMT DEF Taken, Rest

-----------------------------------------------------------------------------
(* The invariant holds initially.                                          *)

LEMMA InitInv == Init => IInv
<1> SUFFICES ASSUME Init PROVE IInv OBVIOUS
<1>1. TypeOK
  <2>1. len \in [Files -> Nat] BY HostAssumption, SMT DEF Init
  <2>2. got \in Seq(Files \X Nat \X Nat) BY EmptySeq DEF Init
  <2>3. gen \in [Files -> Nat] /\ opened \in [len : Nat, gen : Nat] BY SMT DEF Init
  <2>4. used \in SUBSET Files /\ renamed \in SUBSET used BY DEF Init
  <2> QED BY <2>1, <2>2, <2>3, <2>4, HostAssumption DEF Init, TypeOK, Ends
<1>2. UsedInv BY HostAssumption, SMT DEF Init, UsedInv
<1>3. FileInv
  <2>1. \A i \in Files : gen[i] = 0 BY DEF Init
  <2>2. \A i \in renamed : len[i] = WholeLen(form[i]) BY DEF Init
  <2> QED BY <2>1, <2>2 DEF FileInv
<1>4. SizeInv /\ ReadInv /\ RaceInv
  BY SMT DEF Init, SizeInv, ReadInv, RaceInv
<1> QED BY <1>1, <1>2, <1>3, <1>4 DEF IInv

-----------------------------------------------------------------------------
(* Every step of the other process keeps it.                               *)

LEMMA OtherKeeps == ASSUME IInv, Other PROVE IInv'
<1> USE HostAssumption DEF IInv, host, call
<1>1. ASSUME NEW i \in Files, NEW n \in Nat, NewFile(i, n),
             \/ renamed' = renamed \cup {i} /\ n = WholeLen(form[i])
             \/ renamed' = renamed
      PROVE  IInv'
  <2>1. TypeOK' BY <1>1, SMT DEF NewFile, TypeOK
  <2>2. UsedInv' BY <1>1, SMT DEF NewFile, UsedInv, TypeOK
  <2>3. FileInv' BY <1>1, SMT DEF NewFile, FileInv, TypeOK
  <2>4. SizeInv' BY <1>1, SMT DEF NewFile, SizeInv, UsedInv, TypeOK
  <2>5. ReadInv' BY <1>1, SMT DEF NewFile, ReadInv, Prefix, UsedInv, TypeOK
  <2>6. RaceInv' BY <1>1, SMT DEF NewFile, RaceInv
  <2> QED BY <2>1, <2>2, <2>3, <2>4, <2>5, <2>6
<1>2. ASSUME NEW i \in Files, Replace(i) PROVE IInv'
  <2>1. WholeLen(form[i]) \in Nat BY WholeLenNat, SMT DEF TypeOK
  <2> QED BY <1>1, <1>2, <2>1 DEF Replace
<1>3. ASSUME NEW i \in Files, Create(i) PROVE IInv'
  BY <1>1, <1>3 DEF Create
<1>4. ASSUME Unlink PROVE IInv'
  <2>1. TypeOK' BY <1>4, SMT DEF Unlink, TypeOK
  <2>2. UsedInv' BY <1>4, SMT DEF Unlink, UsedInv
  <2>3. FileInv' /\ SizeInv' /\ RaceInv'
    BY <1>4, SMT DEF Unlink, FileInv, SizeInv, RaceInv
  <2>4. ReadInv' BY <1>4, SMT DEF Unlink, ReadInv, Prefix
  <2> QED BY <2>1, <2>2, <2>3, <2>4
<1>5. ASSUME NEW i \in Files, AppendByte(i) PROVE IInv'
  <2>1. TypeOK' BY <1>5, SMT DEF AppendByte, TypeOK
  <2>2. UsedInv' BY <1>5, SMT DEF AppendByte, UsedInv
  <2>3. FileInv' BY <1>5, SMT DEF AppendByte, FileInv, TypeOK
  <2>4. SizeInv' BY <1>5, SMT DEF AppendByte, SizeInv, TypeOK
  <2>5. ReadInv'
    BY <1>5, SMT DEF AppendByte, Ongoing, Ends, ReadInv, Prefix, TypeOK
  <2>6. RaceInv' BY <1>5, SMT DEF AppendByte, RaceInv
  <2> QED BY <2>1, <2>2, <2>3, <2>4, <2>5, <2>6
<1>6. ASSUME NEW i \in Files, Overwrite(i) PROVE IInv'
  <2>1. TypeOK' BY <1>6, SMT DEF Overwrite, TypeOK
  <2>2. UsedInv' BY <1>6, SMT DEF Overwrite, UsedInv
  <2>3. FileInv' BY <1>6, SMT DEF Overwrite, FileInv, UsedInv, TypeOK
  <2>4. SizeInv' BY <1>6, SMT DEF Overwrite, SizeInv, TypeOK
  <2>5. ReadInv'
    BY <1>6, SMT DEF Overwrite, Ongoing, Ends, ReadInv, Prefix, TypeOK
  <2>6. RaceInv' BY <1>6, SMT DEF Overwrite, RaceInv
  <2> QED BY <2>1, <2>2, <2>3, <2>4, <2>5, <2>6
<1> QED BY <1>2, <1>3, <1>4, <1>5, <1>6 DEF Other

-----------------------------------------------------------------------------
(* Every step of the call keeps it.                                        *)

LEMMA ToolKeeps == ASSUME IInv, Tool PROVE IInv'
<1> USE HostAssumption DEF IInv, host, Step, NothingRead
<1>1. ASSUME Exists PROVE IInv'
  <2>1. TypeOK' BY <1>1, SMT DEF Exists, TypeOK, Ends
  <2>2. UsedInv' /\ FileInv' BY <1>1, SMT DEF Exists, UsedInv, FileInv
  <2>3. SizeInv' /\ ReadInv' /\ RaceInv'
    BY <1>1, SMT DEF Exists, SizeInv, ReadInv, RaceInv
  <2> QED BY <2>1, <2>2, <2>3
<1>2. ASSUME IsFile PROVE IInv'
  <2>1. TypeOK' BY <1>2, SMT DEF IsFile, TypeOK, Ends
  <2>2. UsedInv' /\ FileInv' BY <1>2, SMT DEF IsFile, UsedInv, FileInv
  <2>3. SizeInv' /\ ReadInv' /\ RaceInv'
    BY <1>2, SMT DEF IsFile, SizeInv, ReadInv, RaceInv
  <2> QED BY <2>1, <2>2, <2>3
<1>3. ASSUME Stat PROVE IInv'
  <2>1. TypeOK' BY <1>3, SMT DEF Stat, TypeOK, Ends
  <2>2. UsedInv' /\ FileInv' BY <1>3, SMT DEF Stat, UsedInv, FileInv
  <2>3. SizeInv' BY <1>3, SMT DEF Stat, SizeInv, TypeOK
  <2>4. ReadInv' BY <1>3, SMT DEF Stat, ReadInv
  <2>5. RaceInv' BY <1>3, SMT DEF Stat, RaceInv
  <2> QED BY <2>1, <2>2, <2>3, <2>4, <2>5
<1>4. ASSUME Open PROVE IInv'
  <2>1. TypeOK' BY <1>4, SMT DEF Open, TypeOK, Ends
  <2>2. UsedInv' /\ FileInv' BY <1>4, SMT DEF Open, UsedInv, FileInv
  <2>3. SizeInv' /\ RaceInv' BY <1>4, SMT DEF Open, SizeInv, RaceInv
  <2>4. ReadInv'
    <3>1. got = << >> /\ got' = << >> BY <1>4, SMT DEF Open, ReadInv
    <3>2. Bytes(fd', opened'.gen, 0) = << >> BY SMT DEF Bytes
    <3>3. CASE pc' = "OSError" BY <3>3, <3>1, SMT DEF ReadInv
    <3>4. CASE pc' = "reading"
      <4>1. /\ path \in Files /\ fd' = path /\ statted' = statted /\ size' = size
            /\ opened' = [len |-> len[path], gen |-> gen[path]]
            /\ len' = len /\ gen' = gen /\ pc = "open"
        BY <1>4, <3>4, SMT DEF Open
      <4>2. opened'.gen = gen[path] /\ opened'.len = len[path]
        BY <4>1
      <4>3. statted = path /\ gen[path] = 0 => size <= len[path]
        BY <4>1 DEF SizeInv
      <4>4. Prefix'
        BY <4>1, <4>2, <3>1, <3>2, <3>4, SMT DEF Prefix, TypeOK
      <4> QED BY <4>1, <4>2, <4>3, <4>4, <3>1, <3>4, SMT DEF ReadInv, TypeOK
    <3> QED BY <1>4, <3>3, <3>4, SMT DEF Open
  <2> QED BY <2>1, <2>2, <2>3, <2>4
<1>5. ASSUME Read PROVE IInv'
  <2> DEFINE took == Taken(len[fd])
  <2>1. /\ pc = "reading" /\ pc' = IF took = 0 THEN "read" ELSE "reading"
        /\ got' = got \o Run(fd, gen[fd], Len(got), took)
        /\ UNCHANGED <<host, tool, touched, statted, size, fd, opened>>
    BY <1>5 DEF Read, Run
  <2>2. fd \in Files /\ len[fd] \in Nat /\ gen[fd] \in Nat /\ Len(got) \in Nat
        /\ opened.gen \in Nat
    BY <2>1, SMT DEF TypeOK
  <2>3. /\ took \in Nat
        /\ Len(got) <= len[fd] => Len(got) + took <= len[fd]
        /\ took = 0 => len[fd] <= Len(got)
    BY <2>2, TakenBound
  <2> HIDE DEF took
  <2>4. Run(fd, gen[fd], Len(got), took) \in Seq(Byte)
    BY <2>2, <2>3, RunOfBytes
  <2>5. Len(Run(fd, gen[fd], Len(got), took)) = took
    BY ONLY <2>2, <2>3, RunOfBytes
  <2>6. got' \in Seq(Byte) /\ Len(got') = Len(got) + took
    BY <2>1, <2>4, <2>5, ConcatProperties DEF TypeOK, Byte
  <2>7. TypeOK'
    <3>1. pc' \in {"read", "reading"} /\ fd' \in Files BY <2>1, <2>2
    <3> QED BY <2>1, <2>6, <3>1 DEF TypeOK, Ends, Byte
  <2>8. UsedInv' /\ FileInv' /\ SizeInv' /\ RaceInv'
    BY <2>1, SMT DEF UsedInv, FileInv, SizeInv, RaceInv
  <2>9. ReadInv'
    <3>1. pc' \in {"read", "reading"} /\ (pc' = "read" => took = 0) BY <2>1
    <3>2. opened.gen <= gen[fd] /\ (statted = fd /\ opened.gen = 0 => size <= opened.len)
      BY <2>1 DEF ReadInv
    <3>3. ASSUME gen[fd] = opened.gen
          PROVE  /\ got' = Bytes(fd, opened.gen, Len(got'))
                 /\ opened.len <= len[fd] /\ Len(got') <= len[fd]
                 /\ pc' = "read" => len[fd] <= Len(got')
      <4>1. got = Bytes(fd, opened.gen, Len(got)) /\ opened.len <= len[fd]
            /\ Len(got) <= len[fd]
        BY <2>1, <3>3 DEF ReadInv, Prefix
      <4>2. Bytes(fd, opened.gen, Len(got)) \o Run(fd, gen[fd], Len(got), took)
              = Bytes(fd, opened.gen, Len(got) + took)
        <5>1. Run(fd, gen[fd], Len(got), took)
               = Run(fd, opened.gen, Len(got), took)
          BY <3>3
        <5>2. Bytes(fd, opened.gen, Len(got)) \o Run(fd, opened.gen, Len(got), took)
                = Bytes(fd, opened.gen, Len(got) + took)
          BY ONLY <2>2, <2>3, LongerPrefix
        <5> QED BY <5>1, <5>2
      <4>3. got' = Bytes(fd, opened.gen, Len(got')) BY <4>1, <4>2, <2>1, <2>6
      <4>4. Len(got') <= len[fd] BY <4>1, <2>3, <2>6
      <4>5. pc' = "read" => len[fd] <= Len(got') BY <3>1, <2>2, <2>3, <2>6, SMT
      <4> QED BY <4>1, <4>3, <4>4, <4>5
    <3>4. Prefix' BY <2>1, <3>3 DEF Prefix
    <3> QED BY <2>1, <3>1, <3>2, <3>4 DEF ReadInv
  <2> QED BY <2>7, <2>8, <2>9
<1> QED BY <1>1, <1>2, <1>3, <1>4, <1>5 DEF Tool

\* The invariant holds in every reachable state.
THEOREM Invariance == Spec => []IInv
<1>1. ASSUME IInv, [Next]_vars PROVE IInv'
  <2>1. ASSUME UNCHANGED vars PROVE IInv'
    BY <1>1, <2>1 DEF vars, host, call, IInv, TypeOK, UsedInv, FileInv, SizeInv,
                      ReadInv, Prefix, RaceInv
  <2> QED BY <1>1, <2>1, OtherKeeps, ToolKeeps DEF Next, Stopped
<1> QED BY InitInv, <1>1, PTL DEF Spec

-----------------------------------------------------------------------------
(* What follows from it.                                                   *)

\* Every variable keeps its type, whatever the other process does.
THEOREM TypeCorrect == Spec => []TypeOK
<1>1. IInv => TypeOK BY DEF IInv
<1> QED BY Invariance, <1>1, PTL

\* What hash_file digests and _private_key_from_file reads is one version of one
\* file, and the size reported is not more than was read.
THEOREM ReadsOneVersion == Spec => []OneVersion
<1>1. IInv => OneVersion
  <2> SUFFICES ASSUME IInv, pc = "read", gen[fd] = opened.gen
               PROVE  /\ got = Bytes(fd, opened.gen, Len(got))
                      /\ opened.len <= Len(got) /\ Len(got) <= len[fd]
                      /\ statted = fd /\ opened.gen = 0 => size <= Len(got)
    BY DEF OneVersion
  <2>1. /\ got = Bytes(fd, opened.gen, Len(got))
        /\ opened.len <= len[fd] /\ Len(got) <= len[fd] /\ len[fd] <= Len(got)
        /\ statted = fd /\ opened.gen = 0 => size <= opened.len
    BY DEF IInv, ReadInv, Prefix
  <2>2. /\ Len(got) \in Nat /\ len[fd] \in Nat /\ size \in Nat
        /\ opened.len \in Nat
    BY SMT DEF IInv, TypeOK
  <2> QED BY <2>1, <2>2, SMT
<1> QED BY Invariance, <1>1, PTL

\* _private_key_from_file takes from a file replaced by rename its own whole key.
THEOREM KeyIsWhole == Spec => []KeyOfItsFile
<1>1. IInv => KeyOfItsFile
  <2> SUFFICES ASSUME IInv, pc = "read", fd \in renamed
               PROVE  key_of(got, form[fd]) \in {NoKey, Bytes(fd, 0, KeyEnd(form[fd]))}
    BY DEF KeyOfItsFile
  <2>1. fd \in Files /\ gen[fd] = 0 /\ len[fd] = WholeLen(form[fd])
        /\ opened.gen \in Nat /\ len[fd] \in Nat /\ Len(got) \in Nat
    BY SMT DEF IInv, TypeOK, FileInv
  <2>2. opened.gen = 0 BY <2>1, SMT DEF IInv, ReadInv
  <2>3. /\ got = Bytes(fd, 0, Len(got)) /\ Len(got) <= len[fd] /\ len[fd] <= Len(got)
    BY <2>1, <2>2 DEF IInv, ReadInv, Prefix
  <2>4. Len(got) = WholeLen(form[fd]) BY <2>1, <2>3, SMT
  <2>5. got = Bytes(fd, 0, WholeLen(form[fd])) BY <2>3, <2>4
  <2>6. /\ WholeLen(form[fd]) \in Nat /\ KeyEnd(form[fd]) \in Nat
        /\ KeyEnd(form[fd]) <= WholeLen(form[fd])
        /\ form[fd] = "raw" => KeyEnd(form[fd]) = WholeLen(form[fd])
    BY <2>1, WholeLenNat DEF IInv, TypeOK
  <2>7. CASE form[fd] # "raw"
    <3>1. Len(got) \in KeyEnd(form[fd])..WholeLen(form[fd]) BY <2>4, <2>6, SMT
    <3>2. SubSeq(got, 1, KeyEnd(form[fd])) = Bytes(fd, 0, KeyEnd(form[fd]))
      BY <2>1, <2>5, <2>6, FirstBytes
    <3> QED BY <2>7, <3>1, <3>2 DEF key_of
  <2>8. CASE form[fd] = "raw" BY <2>5, <2>6, <2>8 DEF key_of
  <2> QED BY <2>7, <2>8
<1> QED BY Invariance, <1>1, PTL

\* hash_file and _private_key_from_file raise an OSError only when the file is not
\* readable or the path changed under the call.
THEOREM BareErrorsAreRaces == Spec => []BareOnlyIfRaced
<1>1. IInv => BareOnlyIfRaced BY DEF IInv, RaceInv, BareOnlyIfRaced
<1> QED BY Invariance, <1>1, PTL
=============================================================================
