-------------------------- MODULE RequestContract --------------------------
(***************************************************************************)
(* What the server promises to a client on the other end of its two pipes, *)
(* whatever goes on between them: while the process is up, a message that  *)
(* was sent and that asks for an answer may be answered, once, with an     *)
(* outcome its body deserves.  StdioServer implements this specification   *)
(* (StdioServer!Contract).                                                 *)
(***************************************************************************)
EXTENDS Naturals, Sequences

CONSTANTS N,          \* number of messages the client will ever send
          Outcomes    \* ways to answer one

VARIABLES permitted,  \* the outcomes message i may be answered with; {}: none
          asked,      \* how many messages the client has sent
          answers,    \* the responses the client can see, in order
          up          \* is the server process running?

vars == <<permitted, asked, answers, up>>

Init == /\ permitted \in [1..N -> SUBSET Outcomes]
        /\ asked = 0
        /\ answers = << >>
        /\ up = TRUE

Ask == /\ asked < N
       /\ asked' = asked + 1
       /\ UNCHANGED <<permitted, answers, up>>

\* One answer to a message already sent and not yet answered.
Answer(i, o) == /\ up
                /\ i \in 1..asked
                /\ o \in permitted[i]
                /\ \A k \in DOMAIN answers : answers[k].id # i
                /\ answers' = Append(answers, [id |-> i, outcome |-> o])
                /\ UNCHANGED <<permitted, asked, up>>

Stop == up /\ up' = FALSE /\ UNCHANGED <<permitted, asked, answers>>

Next == \/ Ask
        \/ \E i \in 1..asked : \E o \in permitted[i] : Answer(i, o)
        \/ Stop

Spec == Init /\ [][Next]_vars
=============================================================================
