------------------------------ MODULE HostFile ------------------------------
(***************************************************************************)
(* The two tools that read a file of the host, hash_file and eth_sign or   *)
(* eth_eoa_address with private_key_file, while another process works on   *)
(* the same path: it appends, overwrites in place, replaces by rename,     *)
(* unlinks.  Every system call of the tool is a step.                      *)
(*                                                                         *)
(* A byte is <<file, generation, position>>: where it comes from is all    *)
(* that tells it apart.  Overwriting a file in place starts a generation.  *)
(***************************************************************************)
EXTENDS Naturals, Sequences

CONSTANTS Files,      \* the files the other process may put at the path
          Missing,    \* nothing is at the path
          Directory,  \* something that is not a regular file is
          MaxLen,     \* bytes it ever puts in a file
          MaxGen,     \* times it overwrites one in place
          Chunk,      \* _FILE_CHUNK, bytes of one read
          KeyLen,     \* bytes of a private key (32)
          KeyFileMax  \* _KEY_FILE_MAX, bytes of a key file worth reading

ASSUME HostAssumption == /\ Missing \notin Files /\ Directory \notin Files
                         /\ Missing # Directory
                         /\ MaxLen \in Nat /\ MaxGen \in Nat
                         /\ Chunk \in Nat \ {0} /\ KeyLen \in Nat \ {0}
                         /\ KeyFileMax \in Nat

\* What a key file is meant to hold: hex digits, the same after 0x or with an end of line,
\* or raw bytes.
Forms == {"hex", "0xhex", "hexline", "raw"}
WholeLen(f) == IF f = "raw" THEN KeyLen ELSE IF f = "0xhex" THEN 2 * KeyLen + 2
               ELSE IF f = "hexline" THEN 2 * KeyLen + 1 ELSE 2 * KeyLen
\* Where its key ends.
KeyEnd(f) == IF f = "hexline" THEN 2 * KeyLen ELSE WholeLen(f)

\* The bytes of file i in generation g, up to the n-th.
Bytes(i, g, n) == [k \in 1..n |-> <<i, g, k>>]

\* How a call ends: with what it read, or with the exception it raises.
Ends == {"read", "ValueError", "OSError"}

VARIABLES
  path,      \* what is at the path
  used,      \* the files that have been at it
  len, gen,  \* of each file: how long it is, how often it was overwritten
  renamed,   \* the files put at the path by rename, whole, and not changed since
  form,      \* what each holds, if it is a key file
  readable,  \* the files whose permissions let the server open them
  tool,      \* the tool that was called
  pc,        \* where the call is
  statted, size,  \* the file it called stat on, and the size it was told
  fd,        \* the file it has open
  opened,    \* that file's length and generation when it was opened
  got,       \* the bytes read
  touched    \* has the path been renamed to or unlinked during the call?

host == <<path, used, len, gen, renamed, form, readable>>
call == <<tool, pc, statted, size, fd, opened, got>>
vars == <<host, call, touched>>

-----------------------------------------------------------------------------
(* The other process, during the call; what it did before is in Init, and  *)
(* what it does afterwards changes nothing.                                *)

Ongoing == pc \notin Ends \cup {"exists"}

NewFile(i, n) == /\ Ongoing /\ i \in Files \ used
                 /\ path' = i /\ used' = used \cup {i}
                 /\ len' = [len EXCEPT ![i] = n]
                 /\ touched' = TRUE
                 /\ UNCHANGED <<gen, form, readable, call>>

\* A file written elsewhere is renamed to the path.
Replace(i) == NewFile(i, WholeLen(form[i])) /\ renamed' = renamed \cup {i}
\* A file is created at the path, empty.
Create(i) == path = Missing /\ NewFile(i, 0) /\ UNCHANGED renamed

Unlink == /\ Ongoing /\ path # Missing
          /\ path' = Missing /\ touched' = TRUE
          /\ UNCHANGED <<used, len, gen, renamed, form, readable, call>>

\* The other process may still write to a file that is no longer at the path: to the
\* one the server has open, for instance.
AppendByte(i) == /\ Ongoing /\ i \in {path, fd} \cap used /\ len[i] < MaxLen
                 /\ len' = [len EXCEPT ![i] = @ + 1]
                 /\ renamed' = renamed \ {i}
                 /\ UNCHANGED <<path, used, gen, form, readable, call, touched>>

Overwrite(i) == /\ Ongoing /\ i \in {path, fd} \cap used /\ gen[i] < MaxGen
                /\ len' = [len EXCEPT ![i] = 0] /\ gen' = [gen EXCEPT ![i] = @ + 1]
                /\ renamed' = renamed \ {i}
                /\ UNCHANGED <<path, used, form, readable, call, touched>>

Other == \/ \E i \in Files : Replace(i) \/ Create(i) \/ AppendByte(i) \/ Overwrite(i)
         \/ Unlink

-----------------------------------------------------------------------------
(* The call.                                                               *)

Step(from, to) == /\ pc = from /\ pc' = to
                  /\ UNCHANGED <<host, tool, touched>>

NothingRead == UNCHANGED <<fd, opened, got>>

\* p.exists()
Exists == /\ Step("exists", IF path = Missing THEN "ValueError" ELSE "is_file")
          /\ UNCHANGED <<statted, size>> /\ NothingRead

\* Mutant (BareOnlyIfRaced): anything that exists is taken for a file.
IsFile_Unchecked == Step("is_file", "stat") /\ UNCHANGED <<statted, size>> /\ NothingRead

\* p.is_file(), which is also false for a file that has vanished
IsFile == /\ Step("is_file", IF path \in Files THEN "stat" ELSE "ValueError")
          /\ UNCHANGED <<statted, size>> /\ NothingRead

\* p.stat().st_size, and the cap on a key file
Stat == /\ Step("stat", IF path = Missing THEN "OSError"
                        ELSE IF tool = "key_file" /\ path \in Files /\ len[path] > KeyFileMax
                        THEN "ValueError" ELSE "open")
        /\ statted' = path /\ size' = IF path \in Files THEN len[path] ELSE 0
        /\ NothingRead

\* p.open("rb"), alone or in p.read_bytes()
Open == LET opens == path \in Files /\ path \in readable
        IN  /\ Step("open", IF opens THEN "reading" ELSE "OSError")
            /\ fd' = path
            /\ opened' = IF opens THEN [len |-> len[path], gen |-> gen[path]] ELSE opened
            /\ UNCHANGED <<got, statted, size>>

Rest(n) == IF n > Len(got) THEN n - Len(got) ELSE 0
Taken(n) == IF Rest(n) < Chunk THEN Rest(n) ELSE Chunk

\* Mutant (OneVersion): the path is opened again for each chunk.
Read_ByPath == LET n == IF path \in Files THEN Taken(len[path]) ELSE 0
               IN  /\ Step("reading", IF n = 0 THEN "read" ELSE "reading")
                   /\ got' = got \o [k \in 1..n |-> <<path, gen[path], Len(got) + k>>]
                   /\ UNCHANGED <<statted, size, fd, opened>>

\* fh.read: what is there now, up to a chunk; nothing ends the loop.
Read == LET n == Taken(len[fd])
        IN  /\ Step("reading", IF n = 0 THEN "read" ELSE "reading")
            /\ got' = got \o [k \in 1..n |-> <<fd, gen[fd], Len(got) + k>>]
            /\ UNCHANGED <<statted, size, fd, opened>>

Tool == Exists \/ IsFile \/ Stat \/ Open \/ Read

-----------------------------------------------------------------------------
(* The key a key file yields.                                              *)

NoKey == << >>

\* Mutant (KeyOfItsFile): a longer text is cut to a key's length.
key_of_Prefix(bytes, f) ==
  IF Len(bytes) >= KeyLen THEN SubSeq(bytes, 1, KeyLen) ELSE NoKey

\* The bytes the key is made of, by what was read of a file of form f: all its hex
\* digits, with the end of their line or before it was written; or what happens to be as
\* long as a raw key.  (Of these a number out of the range of keys is refused too, which
\* leaves fewer keys: the model does not say which numbers the bytes are.)
key_of(bytes, f) ==
  IF f # "raw" /\ Len(bytes) \in KeyEnd(f)..WholeLen(f) THEN SubSeq(bytes, 1, KeyEnd(f))
  ELSE IF Len(bytes) = KeyLen THEN bytes
  ELSE NoKey

-----------------------------------------------------------------------------
Init == /\ path \in Files \cup {Missing, Directory}
        /\ used = {path} \cap Files
        /\ form \in [Files -> Forms] /\ readable \in SUBSET Files
        /\ len \in [Files -> 0..(2 * KeyLen + 2)]
        /\ \A i \in Files : len[i] <= IF i = path THEN WholeLen(form[i]) ELSE 0
        /\ gen = [i \in Files |-> 0]
        /\ renamed = {i \in used : len[i] = WholeLen(form[i])}
        /\ tool \in {"hash_file", "key_file"}
        /\ pc = "exists" /\ statted = Missing /\ size = 0
        /\ fd = Missing /\ opened = [len |-> 0, gen |-> 0] /\ got = << >>
        /\ touched = FALSE

Stopped == pc \in Ends /\ UNCHANGED vars

Next == Other \/ Tool \/ Stopped

Spec == Init /\ [][Next]_vars

-----------------------------------------------------------------------------
(* Properties.                                                             *)

\* Types, and what was read is never longer than what was written.
TypeOK == /\ path \in Files \cup {Missing, Directory}
          /\ used \in SUBSET Files /\ renamed \in SUBSET used
          /\ len \in [Files -> Nat] /\ gen \in [Files -> Nat]
          /\ form \in [Files -> Forms] /\ readable \in SUBSET Files
          /\ tool \in {"hash_file", "key_file"}
          /\ pc \in {"exists", "is_file", "stat", "open", "reading"} \cup Ends
          /\ statted \in Files \cup {Missing, Directory} /\ size \in Nat
          /\ fd \in Files \cup {Missing, Directory}
          /\ pc \in {"reading", "read"} => fd \in Files
          /\ opened \in [len : Nat, gen : Nat]
          /\ got \in Seq(Files \X Nat \X Nat)
          /\ touched \in BOOLEAN

\* What hash_file digests is one file as it stood at a moment of the call, never a
\* mixture of two, whatever is renamed over the path or appended meanwhile (only a
\* file overwritten in place gives one).  And the size it reports, if the path did
\* not change hands before the open, is never more than what it digests.
OneVersion ==
  pc = "read" /\ gen[fd] = opened.gen =>
    /\ got = Bytes(fd, opened.gen, Len(got))
    /\ opened.len <= Len(got) /\ Len(got) <= len[fd]
    /\ statted = fd /\ opened.gen = 0 => size <= Len(got)

\* A key file that is only ever replaced by rename yields its own key, all of it, or
\* none: never digits of two keys, nor a part of one.
KeyOfItsFile ==
  pc = "read" /\ tool = "key_file" /\ fd \in renamed =>
    key_of(got, form[fd]) \in
      {NoKey, Bytes(fd, 0, KeyEnd(form[fd]))}

\* An OSError, of which the client learns nothing but the tool's name, comes only of
\* a file the server may not open or of a path that changed during the call: for a
\* path that was wrong from the start the ValueError says what is wrong.
BareOnlyIfRaced == pc = "OSError" => touched \/ path \in Files \ readable
=============================================================================
