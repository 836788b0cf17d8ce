---------------------------- MODULE StdioServer ----------------------------
(***************************************************************************)
(* The stdio server process: the client's two pipes, the argument-repair   *)
(* pump that __main__.py puts between the SDK's read stream and its        *)
(* session, the session's request handlers, and the one writer that every  *)
(* answer goes through, whether a handler or the pump produced it.         *)
(*                                                                         *)
(* Both memory streams have no buffer: a send completes only when the      *)
(* receiver takes the item, and blocked senders are served in FIFO order.  *)
(* The SDK's own parts (stdio_server, the session, MCPServer.call_tool)    *)
(* are external; they are modelled from how __main__.py and server.py use  *)
(* them.                                                                   *)
(***************************************************************************)
EXTENDS Naturals, Sequences, FiniteSets, SequencesExt

CONSTANTS N,        \* the client sends messages 1..N; a message's id is its index
          Scripts,  \* what it may send, message by message
          InCap,    \* messages the stdin pipe holds before the client blocks
          OutCap,   \* responses the stdout pipe holds before the writer blocks
          Faults    \* may the process be interrupted, or its stdout break?

Ids == 1..N

-----------------------------------------------------------------------------
(* Message bodies.  Of a tools/call only what the code looks at is kept:   *)
(* whether `arguments` is an object, a string or something else; for a     *)
(* string, what json.loads and json_repair.loads make of it; and how the   *)
(* call would end once it reaches the tool.                                *)

ParseResults == {"dict", "nondict", "ValueError", "RecursionError"}
ToolEnds == {"returns", "BadArguments", "ToolError",
             "ValueError", "ValidationError", "KeyError"}

Plain == [kind : {"garbage", "notification", "request"}, form : {"-"},
          strict : {"-"}, lenient : {"-"}, ends : {"returns"}]
ObjectCalls == [kind : {"call"}, form : {"dict", "other"},
                strict : {"-"}, lenient : {"-"}, ends : ToolEnds]
StringCalls == [kind : {"call"}, form : {"string"},
                strict : ParseResults, lenient : ParseResults, ends : ToolEnds]
AllBodies == Plain \cup ObjectCalls \cup StringCalls

ASSUME SizesAssumption ==
          /\ N \in Nat
          /\ InCap \in Nat \ {0}
          /\ OutCap \in Nat \ {0}
          /\ Faults \in BOOLEAN
ASSUME ScriptsAssumption == Scripts \subseteq [Ids -> AllBodies]

\* json_repair is tried only when strict json.loads raises ValueError.
Parsed(b) == IF b.strict = "ValueError" THEN b.lenient ELSE b.strict

\* The form of the arguments after repair, or the exception that escapes:
\* only ValueError is caught, and only a dict replaces the string.
repair_arguments(b) ==
  IF b.form # "string" THEN b.form
  ELSE IF Parsed(b) \in {"dict", "RecursionError"} THEN Parsed(b)
  ELSE "string"

\* Mutants: what would break the properties named.
\* a broken string is handed to the session as it is (InArrivalOrder)
process_incoming_ForwardBroken(b) ==
  IF b.form = "string" /\ repair_arguments(b) = "dict"
    THEN [to |-> "forward", form |-> "dict"]
    ELSE [to |-> "forward", form |-> b.form]
\* every string is rejected, repairable or not (StdinKeepsMoving)
process_incoming_RejectStrings(b) ==
  [to |-> IF b.form = "string" THEN "reply" ELSE "forward", form |-> b.form]

\* What the pump does with one message: hand it on (with which arguments),
\* answer it itself, or die of the exception.
process_incoming(b) ==
  LET args == repair_arguments(b)
  IN  [to   |-> IF b.kind # "call" \/ b.form # "string" \/ args = "dict" THEN "forward"
                ELSE IF args = "string" THEN "reply" ELSE "raise",
       form |-> args]

-----------------------------------------------------------------------------
(* How a call that reaches the tool manager is answered.                   *)

\* UnexpectedToolError is a ToolError; pydantic's ValidationError, a ValueError.
IsA(e, class) == \/ e = class
                 \/ e = "UnexpectedToolError" /\ class = "ToolError"
                 \/ e = "ValidationError" /\ class = "ValueError"

\* MCPServer.call_tool: a ToolError from the tool passes, a rejected argument
\* becomes a ToolError caused by the ValidationError, anything else the tool
\* raises becomes an UnexpectedToolError.
SuperCallTool(ends) ==
  [raised |-> IF ends = "returns" THEN "nothing"
              ELSE IF ends \in {"BadArguments", "ToolError"} THEN "ToolError"
              ELSE "UnexpectedToolError",
   cause  |-> IF ends = "BadArguments" THEN "ValidationError"
              ELSE IF ends = "ToolError" THEN "nothing" ELSE ends]

\* Mutant (Contract): `except ToolError` stands first and hides the other clause.
call_tool_ToolErrorFirst(ends) ==
  LET e == SuperCallTool(ends)
  IN  IF e.raised = "nothing" THEN "result"
      ELSE IF e.cause = "ValidationError" THEN "named_fields"
      ELSE IF e.raised = "ToolError" THEN "tool_text" ELSE "bare"

\* Mutant (TypeOK): the last clause ends without its `raise`, and the call with
\* nothing.
call_tool_NoRaise(ends) ==
  LET e == SuperCallTool(ends)
  IN  IF e.raised = "nothing" THEN "result"
      ELSE IF IsA(e.raised, "UnexpectedToolError")
        THEN IF IsA(e.cause, "ValueError") THEN "tool_text" ELSE "bare"
      ELSE IF IsA(e.cause, "ValidationError") THEN "named_fields" ELSE "nothing"

\* _BytesmithMCPServer.call_tool: the except clauses, in their order.
call_tool(ends) ==
  LET e == SuperCallTool(ends)
  IN  IF e.raised = "nothing" THEN "result"
      ELSE IF IsA(e.raised, "UnexpectedToolError")
        THEN IF IsA(e.cause, "ValueError") THEN "tool_text" ELSE "bare"
      ELSE IF IsA(e.cause, "ValidationError") THEN "named_fields" ELSE "tool_text"

\* The answer to a message the session received: the SDK runs a call only when
\* the arguments the pump handed on are an object.
SessionOutcome(b) ==
  IF b.kind = "request" THEN "result"
  ELSE IF process_incoming(b).form = "dict" THEN call_tool(b.ends)
  ELSE "invalid_params"

Outcomes == {"result", "tool_text", "bare", "named_fields",
             "invalid_params", "parse_error"}
Responses == [id : Ids, outcome : Outcomes]
Nobody == [id |-> 0, outcome |-> "none"]

-----------------------------------------------------------------------------
VARIABLES
  script,    \* what the client sends, fixed from the start
  sent,      \* how many of its messages are in the stdin pipe or beyond it
  eof,       \* has the client closed stdin?
  drained,   \* how many responses the client has read from the stdout pipe
  pump,      \* where _pump is: "read", "reply", "forward" or "closed"
  readN,     \* messages _pump has read; it holds message readN unless at "read"
  received,  \* the messages the session received, in order
  session,   \* "up" until its stream ends, then "ended"
  handler,   \* the request handler of each message
  wq,        \* senders blocked on write_stream, first come first served
  writing,   \* the response the writer is putting on stdout, or Nobody
  out,       \* the responses written to stdout, in order
  proc       \* the process: "running", then "clean" or "fatal"

client == <<script, sent, eof, drained>>
vars == <<client, pump, readN, received, session, handler, wq, writing, out, proc>>

HandlerStates == {"none", "running", "sending", "sent", "cancelled"}

Init == /\ script \in Scripts
        /\ sent = 0 /\ eof = FALSE /\ drained = 0
        /\ pump = "read" /\ readN = 0
        /\ received = << >> /\ session = "up"
        /\ handler = [i \in Ids |-> "none"]
        /\ wq = << >> /\ writing = Nobody /\ out = << >>
        /\ proc = "running"

-----------------------------------------------------------------------------
(* The client.                                                             *)

Send == /\ ~eof /\ sent < N
        /\ sent - readN < InCap
        /\ sent' = sent + 1
        /\ UNCHANGED <<script, eof, drained, pump, readN, received, session,
                       handler, wq, writing, out, proc>>

CloseStdin == /\ ~eof
              /\ eof' = TRUE
              /\ UNCHANGED <<script, sent, drained, pump, readN, received, session,
                             handler, wq, writing, out, proc>>

Drain == /\ drained < Len(out)
         /\ drained' = drained + 1
         /\ UNCHANGED <<script, sent, eof, pump, readN, received, session,
                        handler, wq, writing, out, proc>>

-----------------------------------------------------------------------------
(* The pump.  process_incoming runs between two awaits, so taking a message *)
(* and deciding its fate is one step.                                       *)

\* Mutants of the pump's step, by what the code around the reply gets wrong.
ReplyStep(next, queued) ==
  /\ proc = "running" /\ pump = "read" /\ readN < sent
  /\ readN' = readN + 1
  /\ LET fate == process_incoming(script[readN + 1])
     IN  /\ pump' = CASE fate.to = "raise" -> "closed"
                      [] fate.to = "reply" -> next
                      [] OTHER             -> "forward"
         /\ proc' = IF fate.to = "raise" THEN "fatal" ELSE proc
         /\ wq' = IF fate.to = "reply" /\ queued
                    THEN Append(wq, [id |-> readN + 1, outcome |-> "parse_error"])
                    ELSE wq
  /\ UNCHANGED <<client, received, session, handler, writing, out>>
PumpRead_NoContinue == ReplyStep("forward", TRUE)  \* AnsweredAtMostOnce
PumpRead_NoSend == ReplyStep("read", FALSE)        \* NothingLost
PumpRead_NoAwait == ReplyStep("read", TRUE)        \* RejectionHoldsTheLine
PumpRead_NeverSent == ReplyStep("reply", FALSE)    \* EventuallyAnswered

PumpRead ==
  /\ proc = "running" /\ pump = "read" /\ readN < sent
  /\ readN' = readN + 1
  /\ LET fate == process_incoming(script[readN + 1])
     IN  /\ pump' = IF fate.to = "raise" THEN "closed" ELSE fate.to
         /\ proc' = IF fate.to = "raise" THEN "fatal" ELSE proc
         /\ wq' = IF fate.to = "reply"
                    THEN Append(wq, [id |-> readN + 1, outcome |-> "parse_error"])
                    ELSE wq
  /\ UNCHANGED <<client, received, session, handler, writing, out>>

\* Mutant (StopsAfterEof): the loop ends and the session's stream stays open.
PumpClose_StreamLeft == /\ proc = "running" /\ pump = "read" /\ readN = sent /\ eof
                        /\ UNCHANGED vars

\* End of stdin: the pump's loop ends, and its end of the session's stream closes.
PumpClose == /\ proc = "running" /\ pump = "read" /\ readN = sent /\ eof
             /\ pump' = "closed"
             /\ UNCHANGED <<client, readN, received, session, handler, wq,
                            writing, out, proc>>

-----------------------------------------------------------------------------
(* The session: it takes what the pump forwards and starts a task for each *)
(* request.  A parse failure of a whole line and a notification get none.   *)

IsRequest(b) == b.kind \in {"request", "call"}

SessionReceive ==
  /\ proc = "running" /\ session = "up" /\ pump = "forward"
  /\ received' = Append(received, readN)
  /\ handler' = IF IsRequest(script[readN])
                  THEN [handler EXCEPT ![readN] = "running"] ELSE handler
  /\ pump' = "read"
  /\ UNCHANGED <<client, readN, session, wq, writing, out, proc>>

\* A handler has its answer and blocks on write_stream.send.
HandlerFinish(i) ==
  /\ proc = "running" /\ handler[i] = "running"
  /\ handler' = [handler EXCEPT ![i] = "sending"]
  /\ wq' = Append(wq, [id |-> i, outcome |-> SessionOutcome(script[i])])
  /\ UNCHANGED <<client, pump, readN, received, session, writing, out, proc>>

SessionEnd == /\ proc = "running" /\ session = "up" /\ pump = "closed"
              /\ session' = "ended"
              /\ UNCHANGED <<client, pump, readN, received, handler, wq,
                             writing, out, proc>>

\* Once its stream has ended the session may let a handler finish or cancel it;
\* a cancelled sender leaves the queue.
HandlerCancel(i) ==
  /\ proc = "running" /\ session = "ended"
  /\ handler[i] = "running"
  /\ handler' = [handler EXCEPT ![i] = "cancelled"]
  /\ UNCHANGED <<client, pump, readN, received, session, wq, writing, out, proc>>

SenderCancel(k) ==
  /\ proc = "running" /\ session = "ended"
  /\ handler' = [handler EXCEPT ![wq[k].id] = "cancelled"]
  /\ wq' = RemoveAt(wq, k)
  /\ UNCHANGED <<client, pump, readN, received, session, writing, out, proc>>

-----------------------------------------------------------------------------
(* The writer: one response at a time, in the order the senders blocked.   *)

WriterTake ==
  /\ proc = "running" /\ writing = Nobody /\ wq # << >>
  /\ writing' = Head(wq)
  /\ wq' = Tail(wq)
  /\ IF handler[Head(wq).id] = "sending"
       THEN /\ handler' = [handler EXCEPT ![Head(wq).id] = "sent"]
            /\ UNCHANGED pump
       ELSE /\ pump' = "read"
            /\ UNCHANGED handler
  /\ UNCHANGED <<client, readN, received, session, out, proc>>

Written == /\ proc = "running" /\ writing # Nobody
           /\ Len(out) - drained < OutCap
           /\ out' = Append(out, writing)
           /\ writing' = Nobody
           /\ UNCHANGED <<client, pump, readN, received, session, handler, wq, proc>>

-----------------------------------------------------------------------------
(* The process.                                                            *)

\* `run` returned: the task group is cancelled and main returns.
Exit == /\ proc = "running" /\ session = "ended"
        /\ \A i \in Ids : handler[i] \notin {"running", "sending"}
        /\ wq = << >> /\ writing = Nobody
        /\ proc' = "clean"
        /\ UNCHANGED <<client, pump, readN, received, session, handler, wq,
                       writing, out>>

\* KeyboardInterrupt is a clean exit.
Interrupt == /\ Faults /\ proc = "running"
             /\ proc' = "clean"
             /\ UNCHANGED <<client, pump, readN, received, session, handler, wq,
                            writing, out>>

\* The client closed the stdout pipe: the write raises, and the exception
\* takes the whole task group down.
StdoutBroken == /\ Faults /\ proc = "running" /\ writing # Nobody
                /\ proc' = "fatal"
                /\ UNCHANGED <<client, pump, readN, received, session, handler, wq,
                               writing, out>>

Stopped == proc # "running" /\ UNCHANGED vars

Next == \/ Send \/ CloseStdin \/ Drain
        \/ PumpRead \/ PumpClose
        \/ SessionReceive \/ SessionEnd
        \/ \E i \in Ids : HandlerFinish(i) \/ HandlerCancel(i)
        \/ \E k \in 1..Len(wq) : SenderCancel(k)
        \/ WriterTake \/ Written
        \/ Exit \/ Interrupt \/ StdoutBroken \/ Stopped

Spec == Init /\ [][Next]_vars

\* The event loop runs every task that can run, and a tool is a pure function
\* that returns; nothing is assumed of the client.
ServerFairness == /\ WF_vars(PumpRead) /\ WF_vars(PumpClose)
                  /\ WF_vars(SessionReceive) /\ WF_vars(SessionEnd)
                  /\ \A i \in Ids : WF_vars(HandlerFinish(i))
                  /\ WF_vars(WriterTake) /\ WF_vars(Written) /\ WF_vars(Exit)

\* Only the server is fair: the client may stop sending, or stop reading.
FairSpec == Spec /\ ServerFairness

-----------------------------------------------------------------------------
(* Properties.                                                             *)

ids(s) == {s[k].id : k \in DOMAIN s}

\* Every variable has its type, the pump is never ahead of the client, nor
\* the client's reading ahead of stdout.
TypeOK == /\ script \in Scripts
          /\ sent \in 0..N /\ readN \in 0..sent
          /\ eof \in BOOLEAN
          /\ pump \in {"read", "reply", "forward", "closed"}
          /\ received \in Seq(Ids)
          /\ session \in {"up", "ended"}
          /\ handler \in [Ids -> HandlerStates]
          /\ wq \in Seq(Responses)
          /\ writing \in Responses \cup {Nobody}
          /\ out \in Seq(Responses) /\ drained \in 0..Len(out)
          /\ proc \in {"running", "clean", "fatal"}

\* A call whose string arguments neither parser turns into an object.
Broken(b) == b.form = "string" /\ Parsed(b) \in {"nondict", "ValueError"}
\* A call whose string arguments make a parser raise what nobody catches.
Fatal(b) == b.form = "string" /\ Parsed(b) = "RecursionError"

\* No request is answered twice, although two tasks write answers: the pump's
\* rejection and the session's answer exclude each other.
AnsweredAtMostOnce ==
  \A j, k \in DOMAIN out : out[j].id = out[k].id => j = k

\* Unless the process has crashed, a request the pump has read is in exactly one
\* place: held by the pump, at a handler, blocked on the write stream, at the
\* writer, written, or dropped by a cancellation.
NothingLost ==
  proc # "fatal" =>
    \A i \in 1..readN : IsRequest(script[i]) =>
       Cardinality({p \in {<<"pump",    pump = "forward" /\ readN = i>>,
                           <<"handler", handler[i] = "running">>,
                           <<"blocked", i \in ids(wq)>>,
                           <<"writer",  writing.id = i>>,
                           <<"stdout",  i \in ids(out)>>,
                           <<"dropped", handler[i] = "cancelled">>} : p[2]}) = 1

\* What jsonfix.py and __main__.py say of every string that cannot be parsed into
\* an object: its call is answered with a parse error, from the step that reads it.
UnparseableIsAnswered ==
  \A i \in 1..readN :
     LET b == script[i]
     IN  b.kind = "call" /\ b.form = "string" /\ Parsed(b) # "dict" =>
           [id |-> i, outcome |-> "parse_error"] \in Range(wq) \cup Range(out) \cup {writing}

\* The session sees what the client sent, in the order it was sent, without
\* gaps or repetitions, except for the calls with broken arguments.
InArrivalOrder ==
  /\ \A j, k \in DOMAIN received : j < k => received[j] < received[k]
  /\ Range(received) = {i \in 1..readN : /\ ~(pump = "forward" /\ i = readN)
                                        /\ ~Broken(script[i]) /\ ~Fatal(script[i])}

\* The pump awaits its own reply: when the session sees a message, every broken
\* call sent before it has already been taken by the writer.
RejectionHoldsTheLine ==
  \A k \in DOMAIN received : \A i \in 1..received[k] :
     Broken(script[i]) => i \in ids(out) \/ i = writing.id

\* The outcomes a client may see for a message.
ToolPermits(ends) == CASE ends = "returns"      -> "result"
                       [] ends = "BadArguments" -> "named_fields"
                       [] ends = "KeyError"     -> "bare"
                       [] OTHER                 -> "tool_text"
PermittedFor(b) ==
  {o \in Outcomes :
     \/ b.kind = "request" /\ o = "result"
     \/ b.kind = "call" /\ Broken(b) /\ o = "parse_error"
     \/ b.kind = "call" /\ b.form = "other" /\ o = "invalid_params"
     \/ b.kind = "call" /\ (b.form = "dict" \/ (b.form = "string" /\ Parsed(b) = "dict"))
          /\ o = ToolPermits(b.ends)}

C == INSTANCE RequestContract
       WITH permitted <- [i \in Ids |-> PermittedFor(script[i])],
            asked <- sent, answers <- out, up <- (proc = "running")

\* The server implements the request contract: each answer on stdout is to a
\* message sent and not answered before, with an outcome that message deserves:
\* in particular, deliberate errors (ValueError, rejected arguments) keep their
\* text, and only a crash of the tool is answered with a bare message.
Contract == C!Spec

\* The client goes on reading until it has read everything, for ever.
ClientReads == []<>(drained = Len(out))

\* Every request the pump has read is answered, if the client reads its answers
\* and neither closes stdin nor sends what kills the process.
EventuallyAnswered ==
  ClientReads => \A i \in Ids :
    (readN >= i /\ IsRequest(script[i])) ~> (i \in ids(out) \/ eof \/ proc # "running")

\* When the client closes stdin and reads its answers, the process ends.
StopsAfterEof == ClientReads => (eof ~> proc # "running")

\* A client that writes all its requests before it reads an answer is not
\* blocked: the server goes on reading stdin whatever happens to stdout, as
\* long as no call so far had broken arguments (those the pump answers itself,
\* and it waits for the writer).
StdinKeepsMoving ==
  \A n \in Ids : (sent >= n /\ \A i \in 1..n : ~Broken(script[i]))
                   ~> (readN >= n \/ proc # "running")
=============================================================================
