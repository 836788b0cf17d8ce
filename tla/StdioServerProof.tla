-------------------------- MODULE StdioServerProof --------------------------
(***************************************************************************)
(* Proofs about StdioServer for any number of messages, any bodies and any *)
(* pipe sizes: types, the contract, that nobody is answered twice, that    *)
(* nothing is lost, and order.                                             *)
(***************************************************************************)
EXTENDS StdioServer, SequenceTheorems, TLAPS, FiniteSetTheorems

(* Every queued response belongs to somebody who is still waiting, and every *)
(* response the writer has taken to somebody who no longer is.              *)

Fate(i) == process_incoming(script[i]).to
Waiting(i) == handler[i] = "sending" \/ (pump = "reply" /\ i = readN)
Gone(i) == \/ handler[i] = "sent"
           \/ Fate(i) = "reply" /\ i <= readN /\ ~(pump = "reply" /\ i = readN)
Deserved(r) == r.outcome \in PermittedFor(script[r.id])

PumpInv == /\ pump \in {"reply", "forward"} => readN >= 1 /\ Fate(readN) = pump
           /\ session = "ended" => pump = "closed"
HandlerInv == \A i \in Ids : handler[i] # "none" =>
                 /\ i <= readN /\ Fate(i) = "forward" /\ IsRequest(script[i])
                 /\ pump = "forward" => i # readN
QueueInv == /\ \A k \in DOMAIN wq : Waiting(wq[k].id) /\ Deserved(wq[k])
            /\ \A j, k \in DOMAIN wq : wq[j].id = wq[k].id => j = k
WriterInv == writing # Nobody =>
                /\ Gone(writing.id) /\ Deserved(writing)
                /\ \A k \in DOMAIN out : out[k].id # writing.id
OutInv == /\ \A k \in DOMAIN out : Gone(out[k].id) /\ Deserved(out[k])
          /\ AnsweredAtMostOnce

IInv == TypeOK /\ PumpInv /\ HandlerInv /\ QueueInv /\ WriterInv /\ OutInv

-----------------------------------------------------------------------------
(* Lemmas about the operators.                                             *)

\* The except clauses answer every way a call can end as its client may expect.
LEMMA CallToolPermitted ==
  ASSUME NEW e \in ToolEnds
  PROVE  call_tool(e) = ToolPermits(e) /\ call_tool(e) \in Outcomes
<1>1. CASE e = "returns"
  BY <1>1 DEF call_tool, SuperCallTool, ToolPermits, Outcomes
<1>2. CASE e = "BadArguments"
  BY <1>2 DEF call_tool, SuperCallTool, ToolPermits, Outcomes, IsA
<1>3. CASE e = "KeyError"
  BY <1>3 DEF call_tool, SuperCallTool, ToolPermits, Outcomes, IsA
<1>4. CASE e \in {"ToolError", "ValueError", "ValidationError"}
  <2>1. ToolPermits(e) = "tool_text"
    BY <1>4 DEF ToolPermits
  <2>. QED
    BY <1>4, <2>1 DEF call_tool, SuperCallTool, Outcomes, IsA
<1>. QED
  BY <1>1, <1>2, <1>3, <1>4 DEF ToolEnds

\* What the pump decides and what the session answers is what the client may
\* see, for every body.
LEMMA Fates ==
  ASSUME NEW b \in AllBodies
  PROVE  /\ process_incoming(b).to \in {"forward", "reply", "raise"}
         /\ process_incoming(b).to = "reply" => "parse_error" \in PermittedFor(b)
         /\ process_incoming(b).to = "forward" /\ IsRequest(b) =>
              SessionOutcome(b) \in Outcomes /\ SessionOutcome(b) \in PermittedFor(b)
<1>1. CASE b \in Plain
  BY <1>1 DEF Plain, process_incoming, PermittedFor, SessionOutcome, IsRequest, Outcomes
<1>2. CASE b \in ObjectCalls
  <2>1. b.kind = "call" /\ b.form \in {"dict", "other"} /\ b.ends \in ToolEnds
    BY <1>2 DEF ObjectCalls
  <2>2. process_incoming(b).to = "forward" /\ process_incoming(b).form = b.form
    BY <2>1 DEF process_incoming, repair_arguments
  <2>. QED
    BY <2>1, <2>2, CallToolPermitted DEF PermittedFor, SessionOutcome, Outcomes
<1>3. CASE b \in StringCalls
  <2>1. /\ b.kind = "call" /\ b.form = "string" /\ b.ends \in ToolEnds
        /\ Parsed(b) \in ParseResults
    BY <1>3 DEF StringCalls, Parsed
  <2>2. CASE Parsed(b) = "dict"
    <3>1. process_incoming(b).to = "forward" /\ process_incoming(b).form = "dict"
      BY <2>1, <2>2 DEF process_incoming, repair_arguments
    <3>. QED
      BY <2>1, <2>2, <3>1, CallToolPermitted DEF PermittedFor, SessionOutcome, Outcomes
  <2>3. CASE Parsed(b) = "RecursionError"
    BY <2>1, <2>3 DEF process_incoming, repair_arguments
  <2>4. CASE Parsed(b) \in {"nondict", "ValueError"}
    BY <2>1, <2>4 DEF process_incoming, repair_arguments, PermittedFor, Broken, Outcomes
  <2>. QED
    BY <2>1, <2>2, <2>3, <2>4 DEF ParseResults
<1>. QED
  BY <1>1, <1>2, <1>3 DEF AllBodies

\* Removing an element shifts those behind it.
LEMMA RemoveAtProperties ==
  ASSUME NEW S, NEW s \in Seq(S), NEW k \in 1..Len(s)
  PROVE  /\ RemoveAt(s, k) \in Seq(S)
         /\ Len(RemoveAt(s, k)) = Len(s) - 1
         /\ \A j \in 1..(Len(s) - 1) :
               RemoveAt(s, k)[j] = IF j < k THEN s[j] ELSE s[j + 1]
<1>. DEFINE before == SubSeq(s, 1, k - 1)
            behind == SubSeq(s, k + 1, Len(s))
<1>1. /\ before \in Seq(S) /\ Len(before) = k - 1
      /\ \A j \in 1..(k - 1) : before[j] = s[j]
  BY SubSeqProperties, ElementOfSeq
<1>2. /\ behind \in Seq(S) /\ Len(behind) = Len(s) - k
      /\ \A j \in 1..(Len(s) - k) : behind[j] = s[k + j]
  BY SubSeqProperties, ElementOfSeq
<1>3. RemoveAt(s, k) = before \o behind
  BY DEF RemoveAt
<1>4. Len(s) \in Nat
  OBVIOUS
<1>. HIDE DEF before, behind
<1>5. /\ before \o behind \in Seq(S)
      /\ Len(before \o behind) = Len(before) + Len(behind)
      /\ \A j \in 1..(Len(before) + Len(behind)) :
            (before \o behind)[j] = IF j <= Len(before) THEN before[j]
                                    ELSE behind[j - Len(before)]
  BY <1>1, <1>2, ConcatProperties
<1>6. ASSUME NEW j \in 1..(Len(s) - 1)
      PROVE  (before \o behind)[j] = IF j < k THEN s[j] ELSE s[j + 1]
  <2>1. CASE j < k
    BY <1>1, <1>2, <1>4, <1>5, <2>1
  <2>2. CASE ~(j < k)
    <3>1. j - Len(before) \in 1..(Len(s) - k) /\ k + (j - Len(before)) = j + 1
      BY <1>1, <1>4, <2>2
    <3>2. behind[j - Len(before)] = s[j + 1]
      BY <1>2, <3>1
    <3>3. j \in 1..(Len(before) + Len(behind)) /\ ~(j <= Len(before))
      BY <1>1, <1>2, <1>4, <2>2
    <3>4. (before \o behind)[j] = behind[j - Len(before)]
      BY <1>5, <3>3
    <3>. QED
      BY <2>2, <3>2, <3>4
  <2>. QED
    BY <2>1, <2>2
<1>. QED
  BY <1>1, <1>2, <1>3, <1>4, <1>5, <1>6

-----------------------------------------------------------------------------
(* The inductive invariant.                                                *)

LEMMA InitIInv == Init => IInv
<1>. SUFFICES ASSUME Init
              PROVE  IInv
  OBVIOUS
<1>1. TypeOK
  <2>1. << >> \in Seq(Ids) /\ << >> \in Seq(Responses) /\ Len(<< >>) = 0
    BY EmptySeq
  <2>2. received \in Seq(Ids) /\ wq \in Seq(Responses) /\ out \in Seq(Responses)
    BY <2>1 DEF Init
  <2>3. sent \in 0..N /\ readN \in 0..sent /\ drained \in 0..Len(out)
    BY <2>1, SizesAssumption DEF Init
  <2>4. handler \in [Ids -> HandlerStates]
    BY DEF Init, HandlerStates
  <2>. QED
    BY <2>2, <2>3, <2>4 DEF Init, TypeOK
<1>2. DOMAIN wq = {} /\ DOMAIN out = {}
  BY DEF Init
<1>. QED
  BY <1>1, <1>2 DEF Init, IInv, PumpInv, HandlerInv, QueueInv, WriterInv, OutInv,
       AnsweredAtMostOnce

\* A response appended to the queue keeps it well formed if its owner was not
\* waiting before and is now, and everybody else waits as before.
LEMMA EnqueueOne ==
  ASSUME NEW s \in Seq(Responses), NEW r \in Responses,
         \A j, k \in DOMAIN s : s[j].id = s[k].id => j = k,
         \A k \in DOMAIN s : s[k].id # r.id
  PROVE  /\ Append(s, r) \in Seq(Responses)
         /\ \A j, k \in DOMAIN Append(s, r) :
               Append(s, r)[j].id = Append(s, r)[k].id => j = k
         /\ \A k \in DOMAIN Append(s, r) :
               (k \in DOMAIN s /\ Append(s, r)[k] = s[k]) \/ Append(s, r)[k] = r
<1>1. /\ Append(s, r) \in Seq(Responses)
      /\ Len(Append(s, r)) = Len(s) + 1
      /\ \A i \in 1..Len(s) : Append(s, r)[i] = s[i]
      /\ Append(s, r)[Len(s) + 1] = r
  BY AppendProperties
<1>2. Len(s) \in Nat /\ DOMAIN s = 1..Len(s) /\ DOMAIN Append(s, r) = 1..(Len(s) + 1)
  BY <1>1, LenProperties
<1>. QED
  BY <1>1, <1>2

LEMMA NextIInv == IInv /\ [Next]_vars => IInv'
<1>. SUFFICES ASSUME IInv, [Next]_vars
              PROVE  IInv'
  OBVIOUS
<1>. USE SizesAssumption
<1>t. TypeOK /\ PumpInv /\ HandlerInv /\ QueueInv /\ WriterInv /\ OutInv
  BY DEF IInv
<1>b. \A i \in Ids : script[i] \in AllBodies
  BY <1>t, ScriptsAssumption DEF TypeOK
<1>i. /\ \A k \in DOMAIN wq : wq[k] \in Responses /\ wq[k].id \in Ids
      /\ \A k \in DOMAIN out : out[k].id \in Ids
      /\ writing # Nobody => writing.id \in Ids
  <2>1. wq \in [1..Len(wq) -> Responses] /\ DOMAIN wq = 1..Len(wq)
    BY <1>t, LenProperties DEF TypeOK
  <2>2. out \in [1..Len(out) -> Responses] /\ DOMAIN out = 1..Len(out)
    BY <1>t, LenProperties DEF TypeOK
  <2>3. writing # Nobody => writing \in Responses
    BY <1>t DEF TypeOK
  <2>. QED
    BY <2>1, <2>2, <2>3 DEF Responses
\* What a step that leaves a queue alone must keep of it.
<1>w. ASSUME UNCHANGED <<script, wq>>, \A i \in Ids : Waiting(i) => Waiting(i)'
      PROVE  QueueInv'
  BY <1>t, <1>i, <1>w DEF QueueInv, Deserved
<1>o. ASSUME UNCHANGED <<script, writing, out>>, \A i \in Ids : Gone(i) => Gone(i)'
      PROVE  WriterInv' /\ OutInv'
  <2>1. WriterInv'
    BY <1>t, <1>i, <1>o DEF WriterInv, Deserved
  <2>2. OutInv'
    BY <1>t, <1>i, <1>o DEF OutInv, Deserved, AnsweredAtMostOnce
  <2>. QED
    BY <2>1, <2>2
<1>1. CASE Send
  BY <1>t, <1>1 DEF Send, IInv, TypeOK, PumpInv, HandlerInv, QueueInv, WriterInv, OutInv,
       AnsweredAtMostOnce, Ids, Waiting, Gone, Fate, Deserved
<1>2. CASE CloseStdin
  BY <1>t, <1>2 DEF CloseStdin, IInv, TypeOK, PumpInv, HandlerInv, QueueInv, WriterInv, OutInv,
       AnsweredAtMostOnce, Waiting, Gone, Fate, Deserved
<1>3. CASE Drain
  BY <1>t, <1>3 DEF Drain, IInv, TypeOK, PumpInv, HandlerInv, QueueInv, WriterInv, OutInv,
       AnsweredAtMostOnce, Waiting, Gone, Fate, Deserved
<1>5. CASE PumpClose
  BY <1>t, <1>5 DEF PumpClose, client, IInv, TypeOK, PumpInv, HandlerInv, QueueInv, WriterInv,
       OutInv, AnsweredAtMostOnce, Waiting, Gone, Fate, Deserved
<1>7. CASE SessionEnd
  BY <1>t, <1>7 DEF SessionEnd, client, IInv, TypeOK, PumpInv, HandlerInv, QueueInv, WriterInv,
       OutInv, AnsweredAtMostOnce, Waiting, Gone, Fate, Deserved
<1>13. CASE Exit \/ Interrupt \/ StdoutBroken
  BY <1>t, <1>13 DEF Exit, Interrupt, StdoutBroken, client, IInv, TypeOK, PumpInv, HandlerInv,
       QueueInv, WriterInv, OutInv, AnsweredAtMostOnce, Waiting, Gone, Fate, Deserved
<1>14. CASE Stopped \/ UNCHANGED vars
  BY <1>t, <1>14 DEF Stopped, vars, client, IInv, TypeOK, PumpInv, HandlerInv, QueueInv,
       WriterInv, OutInv, AnsweredAtMostOnce, Waiting, Gone, Fate, Deserved
<1>9. ASSUME NEW i \in Ids, HandlerCancel(i)
      PROVE  IInv'
  BY <1>t, <1>9 DEF HandlerCancel, client, IInv, TypeOK, PumpInv, HandlerInv, QueueInv,
       WriterInv, OutInv, AnsweredAtMostOnce, Waiting, Gone, Fate, Deserved, HandlerStates
<1>4. CASE PumpRead
  <2>1. /\ pump = "read" /\ readN < sent /\ readN' = readN + 1 /\ readN' \in Ids
        /\ UNCHANGED <<script, sent, eof, drained, received, session, handler, writing, out>>
    BY <1>t, <1>4 DEF PumpRead, client, TypeOK, Ids
  <2>2. handler[readN'] = "none" /\ session = "up"
    BY <1>t, <2>1 DEF HandlerInv, PumpInv, TypeOK
  <2>3. CASE Fate(readN') = "reply"
    <3>. DEFINE r == [id |-> readN', outcome |-> "parse_error"]
    <3>1. pump' = "reply" /\ proc' = proc /\ wq' = Append(wq, r)
      BY <1>4, <2>1, <2>3 DEF PumpRead, Fate
    <3>2. r \in Responses /\ r.outcome \in PermittedFor(script[readN'])
      BY <1>b, <2>1, <2>3, Fates DEF Responses, Outcomes, Fate
    <3>3. \A k \in DOMAIN wq : wq[k].id # r.id
      BY <1>t, <2>1, <2>2 DEF QueueInv, Waiting, TypeOK
    <3>. HIDE DEF r
    <3>4. /\ wq' \in Seq(Responses)
          /\ \A j, k \in DOMAIN wq' : wq'[j].id = wq'[k].id => j = k
          /\ \A k \in DOMAIN wq' : (k \in DOMAIN wq /\ wq'[k] = wq[k]) \/ wq'[k] = r
      BY <1>t, <3>1, <3>2, <3>3, EnqueueOne DEF TypeOK, QueueInv
    <3>5. TypeOK'
      BY <1>t, <2>1, <3>1, <3>4 DEF TypeOK
    <3>6. PumpInv' /\ HandlerInv'
      BY <1>t, <2>1, <2>2, <2>3, <3>1 DEF TypeOK, PumpInv, HandlerInv, Fate
    <3>7. QueueInv'
      BY <1>t, <2>1, <3>1, <3>2, <3>4 DEF TypeOK, QueueInv, Waiting, Deserved, r
    <3>8. \A i \in Ids : Gone(i) => i # readN' /\ Gone(i)'
      BY <1>t, <2>1, <2>2, <3>1 DEF Gone, Fate, TypeOK, Ids
    <3>9. WriterInv' /\ OutInv'
      BY <2>1, <3>8, <1>o
    <3>. QED
      BY <3>5, <3>6, <3>7, <3>9 DEF IInv
  <2>4. CASE Fate(readN') # "reply"
    <3>1. /\ wq' = wq /\ pump' \in {"forward", "closed"} /\ proc' \in {proc, "fatal"}
          /\ pump' = "forward" => Fate(readN') = "forward"
      BY <1>4, <1>b, <2>1, <2>4, Fates DEF PumpRead, Fate
    <3>2. TypeOK' /\ PumpInv' /\ HandlerInv'
      BY <1>t, <2>1, <2>2, <3>1 DEF TypeOK, PumpInv, HandlerInv, Fate
    <3>3. \A i \in Ids : (Waiting(i) => Waiting(i)') /\ (Gone(i) => Gone(i)')
      BY <1>t, <2>1, <2>4, <3>1 DEF Waiting, Gone, Fate, TypeOK, Ids
    <3>4. QueueInv' /\ WriterInv' /\ OutInv'
      BY <2>1, <3>1, <3>3, <1>w, <1>o
    <3>. QED
      BY <3>2, <3>4 DEF IInv
  <2>. QED
    BY <2>3, <2>4
<1>6. CASE SessionReceive
  <2>1. /\ pump = "forward" /\ pump' = "read" /\ readN \in Ids /\ received' \in Seq(Ids)
        /\ session = "up" /\ Fate(readN) = "forward"
        /\ UNCHANGED <<script, sent, eof, drained, readN, session, wq, writing, out, proc>>
    BY <1>t, <1>6, AppendProperties DEF SessionReceive, client, TypeOK, PumpInv, Ids
  <2>2. handler[readN] = "none"
    BY <1>t, <2>1 DEF HandlerInv
  <2>3. /\ handler' \in [Ids -> HandlerStates]
        /\ \A i \in Ids : handler'[i] = handler[i]
                          \/ (i = readN /\ handler'[i] = "running" /\ IsRequest(script[i]))
    BY <1>t, <1>6, <2>1 DEF SessionReceive, TypeOK, HandlerStates
  <2>4. TypeOK'
    BY <1>t, <2>1, <2>3 DEF TypeOK
  <2>5. PumpInv' /\ HandlerInv'
    BY <1>t, <2>1, <2>2, <2>3 DEF TypeOK, PumpInv, HandlerInv, Fate, Ids
  <2>6. \A i \in Ids : (Waiting(i) => Waiting(i)') /\ (Gone(i) => Gone(i)')
    BY <1>t, <2>1, <2>2, <2>3 DEF Waiting, Gone, Fate, TypeOK, Ids
  <2>7. QueueInv' /\ WriterInv' /\ OutInv'
    BY <2>1, <2>6, <1>w, <1>o
  <2>. QED
    BY <2>4, <2>5, <2>7 DEF IInv
<1>8. ASSUME NEW i \in Ids, HandlerFinish(i)
      PROVE  IInv'
  <2>. DEFINE r == [id |-> i, outcome |-> SessionOutcome(script[i])]
  <2>1. /\ handler[i] = "running" /\ handler' = [handler EXCEPT ![i] = "sending"]
        /\ wq' = Append(wq, r)
        /\ UNCHANGED <<script, sent, eof, drained, pump, readN, received, session,
                       writing, out, proc>>
    BY <1>8 DEF HandlerFinish, client
  <2>2. i <= readN /\ Fate(i) = "forward" /\ IsRequest(script[i])
        /\ (pump = "forward" => i # readN) /\ ~(pump = "reply" /\ i = readN)
    BY <1>t, <2>1 DEF HandlerInv, PumpInv
  <2>3. r \in Responses /\ r.outcome \in PermittedFor(script[i])
    BY <1>b, <2>2, Fates DEF Responses, Fate
  <2>4. \A k \in DOMAIN wq : wq[k].id # r.id
    BY <1>t, <2>1, <2>2 DEF QueueInv, Waiting
  <2>. HIDE DEF r
  <2>5. /\ wq' \in Seq(Responses)
        /\ \A j, k \in DOMAIN wq' : wq'[j].id = wq'[k].id => j = k
        /\ \A k \in DOMAIN wq' : (k \in DOMAIN wq /\ wq'[k] = wq[k]) \/ wq'[k] = r
    BY <1>t, <2>1, <2>3, <2>4, EnqueueOne DEF TypeOK, QueueInv
  <2>6. handler' \in [Ids -> HandlerStates] /\ handler'[i] = "sending"
        /\ \A j \in Ids : j # i => handler'[j] = handler[j]
    BY <1>t, <2>1 DEF TypeOK, HandlerStates
  <2>7. TypeOK' /\ PumpInv' /\ HandlerInv'
    BY <1>t, <2>1, <2>2, <2>5, <2>6 DEF TypeOK, PumpInv, HandlerInv, Fate
  <2>8. \A j \in Ids : (Waiting(j) => Waiting(j)') /\ (Gone(j) => Gone(j)') /\ Waiting(i)'
    BY <1>t, <2>1, <2>6 DEF Waiting, Gone, Fate
  <2>9. QueueInv'
    <3>1. r.id = i
      BY DEF r
    <3>2. ASSUME NEW k \in DOMAIN wq'
          PROVE  (Waiting(wq[k].id) /\ Deserved(wq[k]))'
      <4>1. CASE wq'[k] = r
        BY <2>1, <2>3, <2>8, <3>1, <4>1 DEF Waiting, Deserved
      <4>2. CASE k \in DOMAIN wq /\ wq'[k] = wq[k]
        BY <1>t, <1>i, <2>1, <2>8, <4>2 DEF QueueInv, Waiting, Deserved
      <4>. QED
        BY <2>5, <4>1, <4>2
    <3>. QED
      BY <2>5, <3>2 DEF QueueInv
  <2>10. WriterInv' /\ OutInv'
    BY <2>1, <2>8, <1>o
  <2>. QED
    BY <2>7, <2>9, <2>10 DEF IInv
<1>10. ASSUME NEW k \in 1..Len(wq), SenderCancel(k)
       PROVE  IInv'
  <2>. DEFINE i == wq[k].id
  <2>1. /\ handler' = [handler EXCEPT ![i] = "cancelled"] /\ wq' = RemoveAt(wq, k)
        /\ pump = "closed" /\ i \in Ids /\ k \in DOMAIN wq
        /\ UNCHANGED <<script, sent, eof, drained, pump, readN, received, session,
                       writing, out, proc>>
    BY <1>t, <1>i, <1>10, LenProperties DEF SenderCancel, client, PumpInv, TypeOK
  <2>2. handler[i] = "sending"
    BY <1>t, <2>1 DEF QueueInv, Waiting
  <2>3. handler' \in [Ids -> HandlerStates] /\ handler'[i] = "cancelled"
        /\ \A j \in Ids : j # i => handler'[j] = handler[j]
    BY <1>t, <2>1 DEF TypeOK, HandlerStates
  <2>4. /\ wq' \in Seq(Responses) /\ Len(wq') = Len(wq) - 1
        /\ \A j \in 1..(Len(wq) - 1) : wq'[j] = IF j < k THEN wq[j] ELSE wq[j + 1]
    BY <1>t, <2>1, RemoveAtProperties DEF TypeOK
  <2>5. Len(wq) \in Nat /\ DOMAIN wq = 1..Len(wq) /\ DOMAIN wq' = 1..(Len(wq) - 1)
    BY <1>t, <2>4, LenProperties DEF TypeOK
  <2>. HIDE DEF i
  <2>6. TypeOK' /\ PumpInv' /\ HandlerInv'
    BY <1>t, <2>1, <2>2, <2>3, <2>4 DEF TypeOK, PumpInv, HandlerInv, Fate
  <2>7. \A j \in Ids : (Waiting(j) /\ j # i => Waiting(j)') /\ (Gone(j) => Gone(j)')
    BY <1>t, <2>1, <2>2, <2>3 DEF Waiting, Gone, Fate, HandlerInv
  <2>8. ASSUME NEW j \in DOMAIN wq'
        PROVE  \E m \in DOMAIN wq : /\ m # k /\ m = (IF j < k THEN j ELSE j + 1)
                                    /\ wq'[j] = wq[m]
    BY <2>4, <2>5
  <2>9. QueueInv'
    <3>1. ASSUME NEW j \in DOMAIN wq'
          PROVE  (Waiting(wq[j].id) /\ Deserved(wq[j]))'
      <4>1. PICK m \in DOMAIN wq : m # k /\ wq'[j] = wq[m]
        BY <2>8
      <4>2. wq[m].id \in Ids /\ wq[m].id # i
        BY <1>t, <1>i, <2>1, <4>1 DEF QueueInv, i
      <4>. QED
        BY <1>t, <2>1, <2>7, <4>1, <4>2 DEF QueueInv, Waiting, Deserved
    <3>2. ASSUME NEW j \in DOMAIN wq', NEW l \in DOMAIN wq', wq'[j].id = wq'[l].id
          PROVE  j = l
      <4>1. PICK m \in DOMAIN wq : m = (IF j < k THEN j ELSE j + 1) /\ wq'[j] = wq[m]
        BY <2>8
      <4>2. PICK n \in DOMAIN wq : n = (IF l < k THEN l ELSE l + 1) /\ wq'[l] = wq[n]
        BY <2>8
      <4>3. m = n
        BY <1>t, <3>2, <4>1, <4>2 DEF QueueInv
      <4>. QED
        BY <2>5, <4>1, <4>2, <4>3
    <3>. QED
      BY <3>1, <3>2 DEF QueueInv
  <2>10. WriterInv' /\ OutInv'
    BY <2>1, <2>7, <1>o
  <2>. QED
    BY <2>6, <2>9, <2>10 DEF IInv
<1>11. CASE WriterTake
  <2>1. /\ writing = Nobody /\ wq # << >> /\ writing' = Head(wq) /\ wq' = Tail(wq)
        /\ UNCHANGED <<script, sent, eof, drained, readN, received, session, out, proc>>
    BY <1>11 DEF WriterTake, client
  <2>0. PICK i \in Ids : i = Head(wq).id
    <3>1. Head(wq) \in Responses
      BY <1>t, <2>1, HeadTailProperties DEF TypeOK
    <3>. QED
      BY <3>1 DEF Responses
  <2>2. /\ Head(wq) = wq[1] /\ 1 \in DOMAIN wq /\ Head(wq) \in Responses
        /\ Tail(wq) \in Seq(Responses) /\ Len(wq) \in Nat
        /\ DOMAIN wq = 1..Len(wq) /\ DOMAIN Tail(wq) = 1..(Len(wq) - 1)
        /\ \A j \in 1..(Len(wq) - 1) : Tail(wq)[j] = wq[j + 1]
    BY <1>t, <1>i, <2>1, HeadTailProperties, LenProperties DEF TypeOK
  <2>3. /\ handler' \in [Ids -> HandlerStates]
        /\ \A j \in Ids : j # i => handler'[j] = handler[j]
        /\ \/ handler[i] = "sending" /\ handler'[i] = "sent" /\ pump' = pump
           \/ /\ handler[i] # "sending" /\ handler' = handler
              /\ pump = "reply" /\ i = readN /\ pump' = "read"
    BY <1>t, <1>11, <2>0, <2>2 DEF WriterTake, TypeOK, HandlerStates, QueueInv, Waiting
  <2>4. TypeOK' /\ PumpInv' /\ HandlerInv'
    BY <1>t, <2>1, <2>2, <2>3 DEF TypeOK, PumpInv, HandlerInv, Fate
  <2>5. Gone(i)'
    BY <1>t, <2>1, <2>2, <2>3 DEF Gone, Fate, PumpInv, TypeOK
  <2>6. \A j \in Ids : (Waiting(j) /\ j # i => Waiting(j)') /\ (Gone(j) => Gone(j)')
    BY <1>t, <2>1, <2>2, <2>3 DEF Waiting, Gone, Fate, HandlerInv
  <2>7. ASSUME NEW j \in DOMAIN wq'
        PROVE  j + 1 \in DOMAIN wq /\ wq'[j] = wq[j + 1] /\ j + 1 # 1
    BY <2>1, <2>2
  <2>8. QueueInv'
    <3>1. ASSUME NEW j \in DOMAIN wq'
          PROVE  (Waiting(wq[j].id) /\ Deserved(wq[j]))'
      <4>1. wq[j + 1].id \in Ids /\ wq[j + 1].id # i
        BY <1>t, <1>i, <2>0, <2>2, <2>7 DEF QueueInv
      <4>. QED
        BY <1>t, <2>1, <2>6, <2>7, <4>1 DEF QueueInv, Waiting, Deserved
    <3>2. ASSUME NEW j \in DOMAIN wq', NEW l \in DOMAIN wq', wq'[j].id = wq'[l].id
          PROVE  j = l
      <4>1. j + 1 = l + 1
        BY <1>t, <2>7, <3>2 DEF QueueInv
      <4>. QED
        BY <2>1, <2>2, <4>1
    <3>. QED
      BY <3>1, <3>2 DEF QueueInv
  <2>9. WriterInv'
    <3>1. Deserved(writing)'
      BY <1>t, <2>1, <2>2 DEF Deserved, QueueInv
    <3>2. Gone(writing.id)'
      BY <2>0, <2>1, <2>5 DEF Gone, Fate
    <3>3. ASSUME NEW k \in DOMAIN out, out[k].id = i
          PROVE  FALSE
      <4>1. Waiting(i) /\ Gone(i)
        BY <1>t, <2>0, <2>2, <3>3 DEF QueueInv, OutInv, Waiting, Gone
      <4>. QED
        BY <1>t, <4>1 DEF Waiting, Gone, HandlerInv, PumpInv
    <3>. QED
      BY <2>0, <2>1, <3>1, <3>2, <3>3 DEF WriterInv
  <2>10. OutInv'
    BY <1>t, <1>i, <2>1, <2>6 DEF OutInv, Deserved, AnsweredAtMostOnce, Gone
  <2>. QED
    BY <2>4, <2>8, <2>9, <2>10 DEF IInv
<1>12. CASE Written
  <2>1. /\ writing # Nobody /\ writing' = Nobody /\ out' = Append(out, writing)
        /\ UNCHANGED <<script, sent, eof, drained, pump, readN, received, session,
                       handler, wq, proc>>
    BY <1>12 DEF Written, client
  <2>2. writing \in Responses /\ writing.id \in Ids
    BY <1>t, <1>i, <2>1 DEF TypeOK
  <2>3. Gone(writing.id) /\ Deserved(writing) /\ \A k \in DOMAIN out : out[k].id # writing.id
    BY <1>t, <2>1 DEF WriterInv
  <2>4. /\ out' \in Seq(Responses)
        /\ \A j, k \in DOMAIN out' : out'[j].id = out'[k].id => j = k
        /\ \A k \in DOMAIN out' : (k \in DOMAIN out /\ out'[k] = out[k]) \/ out'[k] = writing
    BY <1>t, <2>1, <2>2, <2>3, EnqueueOne DEF TypeOK, OutInv, AnsweredAtMostOnce
  <2>5. Len(out') = Len(out) + 1 /\ Len(out) \in Nat
    BY <1>t, <2>1, <2>2, AppendProperties, LenProperties DEF TypeOK
  <2>6. TypeOK' /\ PumpInv' /\ HandlerInv'
    BY <1>t, <2>1, <2>4, <2>5 DEF TypeOK, PumpInv, HandlerInv, Fate
  <2>7. \A i \in Ids : (Waiting(i) => Waiting(i)') /\ (Gone(i) => Gone(i)')
    BY <2>1 DEF Waiting, Gone, Fate
  <2>8. QueueInv'
    BY <2>1, <2>7, <1>w
  <2>9. WriterInv'
    BY <2>1 DEF WriterInv
  <2>10. OutInv'
    <3>1. ASSUME NEW k \in DOMAIN out'
          PROVE  (Gone(out[k].id) /\ Deserved(out[k]))'
      <4>1. CASE out'[k] = writing
        BY <2>1, <2>2, <2>3, <2>7, <4>1 DEF Gone, Fate, Deserved
      <4>2. CASE k \in DOMAIN out /\ out'[k] = out[k]
        BY <1>t, <1>i, <2>1, <2>7, <4>2 DEF OutInv, Gone, Fate, Deserved
      <4>. QED
        BY <2>4, <4>1, <4>2
    <3>. QED
      BY <2>4, <3>1 DEF OutInv, AnsweredAtMostOnce
  <2>. QED
    BY <2>6, <2>8, <2>9, <2>10 DEF IInv
<1>. QED
  BY <1>1, <1>2, <1>3, <1>4, <1>5, <1>6, <1>7, <1>8, <1>9, <1>10, <1>11, <1>12, <1>13,
     <1>14 DEF Next

-----------------------------------------------------------------------------
(* The theorems.                                                           *)

LEMMA Invariance == Spec => []IInv
  BY InitIInv, NextIInv, PTL DEF Spec

\* The pump, the session, its handlers and the writer keep every variable in its
\* type, and never run ahead of what the client has sent.
THEOREM TypeCorrect == Spec => []TypeOK
  BY Invariance, PTL DEF IInv

\* No request is ever answered twice, whatever the messages and their order.
THEOREM AtMostOneAnswer == Spec => []AnsweredAtMostOnce
  BY Invariance, PTL DEF IInv, OutInv

\* The server, with its pump, queue, writer and crashes, is an implementation of
\* the request contract.
THEOREM ImplementsContract == Spec => Contract
<1>1. Init => C!Init
  <2>1. ASSUME NEW i \in Ids
        PROVE  PermittedFor(script[i]) \in SUBSET Outcomes
    BY DEF PermittedFor
  <2>. QED
    BY <2>1 DEF Init, C!Init, Ids
<1>2. IInv /\ [Next]_vars => [C!Next]_C!vars
  <2>. SUFFICES ASSUME IInv, [Next]_vars
                PROVE  [C!Next]_C!vars
    OBVIOUS
  <2>. USE DEF C!vars
  <2>1. CASE Send
    BY <2>1, SizesAssumption DEF Send, C!Next, C!Ask, IInv, TypeOK
  <2>2. CASE PumpRead
    BY <2>2 DEF PumpRead, client, C!Next, C!Stop
  <2>3. CASE Written
    <3>1. /\ writing \in Responses /\ Gone(writing.id) /\ Deserved(writing)
          /\ \A k \in DOMAIN out : out[k].id # writing.id
      BY <2>3 DEF Written, IInv, TypeOK, WriterInv
    <3>2. writing.id \in 1..sent
      BY <3>1 DEF IInv, TypeOK, HandlerInv, Gone, Responses, Ids
    <3>3. C!Answer(writing.id, writing.outcome)
      <4>1. writing = [id |-> writing.id, outcome |-> writing.outcome]
        BY <3>1 DEF Responses
      <4>. QED
        BY <2>3, <3>1, <3>2, <4>1 DEF Written, client, C!Answer, Deserved, Responses
    <3>. QED
      BY <3>1, <3>2, <3>3 DEF C!Next, Deserved, Responses
  <2>4. CASE Exit \/ Interrupt \/ StdoutBroken
    BY <2>4 DEF Exit, Interrupt, StdoutBroken, client, C!Next, C!Stop
  <2>5. CASE CloseStdin \/ Drain \/ PumpClose \/ SessionReceive \/ SessionEnd \/ WriterTake
    BY <2>5 DEF CloseStdin, Drain, PumpClose, SessionReceive, SessionEnd, WriterTake, client
  <2>6. ASSUME NEW i \in Ids, HandlerFinish(i) \/ HandlerCancel(i)
        PROVE  UNCHANGED C!vars
    BY <2>6 DEF HandlerFinish, HandlerCancel, client
  <2>7. ASSUME NEW k \in 1..Len(wq), SenderCancel(k)
        PROVE  UNCHANGED C!vars
    BY <2>7 DEF SenderCancel, client
  <2>8. CASE Stopped \/ UNCHANGED vars
    BY <2>8 DEF Stopped, vars, client
  <2>. QED
    BY <2>1, <2>2, <2>3, <2>4, <2>5, <2>6, <2>7, <2>8 DEF Next
<1>. QED
  BY <1>1, <1>2, Invariance, PTL DEF Spec, Contract, C!Spec

-----------------------------------------------------------------------------
(* Delivery: nothing is lost and the client's order is kept.  IInv says    *)
(* that whoever has a response in the queue is waiting for it; what is     *)
(* proved here needs the converse: whoever waits has a response in the     *)
(* queue, and whoever is done with waiting has one at the writer or on     *)
(* stdout.                                                                 *)

Passed(i) == i <= readN /\ ~(pump = "forward" /\ i = readN)

WaitingInv == \A i \in Ids : Waiting(i) => i \in ids(wq)
GoneInv == \A i \in Ids : Gone(i) => i \in ids(out) \/ i = writing.id
HandledInv == \A i \in Ids : /\ Passed(i) /\ Fate(i) = "forward" /\ IsRequest(script[i])
                             => handler[i] # "none"
ReceivedInv ==
  /\ \A j, k \in DOMAIN received : j < k => received[j] < received[k]
  /\ \A k \in DOMAIN received : Passed(received[k]) /\ Fate(received[k]) = "forward"
  /\ \A i \in Ids : Passed(i) /\ Fate(i) = "forward" => i \in Range(received)

DInv == WaitingInv /\ GoneInv /\ HandledInv /\ ReceivedInv

-----------------------------------------------------------------------------
(* Lemmas about the operators.                                             *)

\* The three fates of a message, by what the parsers make of its arguments.
LEMMA FateOf ==
  ASSUME NEW b \in AllBodies
  PROVE  /\ process_incoming(b).to = "reply" <=> Broken(b)
         /\ process_incoming(b).to = "raise" <=> Fatal(b)
         /\ process_incoming(b).to = "forward" <=> ~Broken(b) /\ ~Fatal(b)
<1>1. CASE b \in Plain
  BY <1>1 DEF Plain, process_incoming, Broken, Fatal
<1>2. CASE b \in ObjectCalls
  BY <1>2 DEF ObjectCalls, process_incoming, Broken, Fatal
<1>3. CASE b \in StringCalls
  <2>1. b.kind = "call" /\ b.form = "string" /\ Parsed(b) \in ParseResults
    BY <1>3 DEF StringCalls, Parsed
  <2>2. CASE Parsed(b) = "dict"
    BY <2>1, <2>2 DEF process_incoming, repair_arguments, Broken, Fatal
  <2>3. CASE Parsed(b) = "RecursionError"
    BY <2>1, <2>3 DEF process_incoming, repair_arguments, Broken, Fatal
  <2>4. CASE Parsed(b) \in {"nondict", "ValueError"}
    BY <2>1, <2>4 DEF process_incoming, repair_arguments, Broken, Fatal
  <2>. QED
    BY <2>1, <2>2, <2>3, <2>4 DEF ParseResults
<1>. QED
  BY <1>1, <1>2, <1>3 DEF AllBodies

\* What appending, taking the first and removing one response keep of the ids.
LEMMA IdsAppend ==
  ASSUME NEW s \in Seq(Responses), NEW r \in Responses
  PROVE  ids(s) \subseteq ids(Append(s, r)) /\ r.id \in ids(Append(s, r))
<1>1. /\ Len(Append(s, r)) = Len(s) + 1
      /\ \A i \in 1..Len(s) : Append(s, r)[i] = s[i]
      /\ Append(s, r)[Len(s) + 1] = r
      /\ Append(s, r) \in Seq(Responses)
  BY AppendProperties
<1>2. Len(s) \in Nat /\ DOMAIN s = 1..Len(s) /\ DOMAIN Append(s, r) = 1..(Len(s) + 1)
  BY <1>1, LenProperties
<1>3. ASSUME NEW k \in DOMAIN s
      PROVE  k \in DOMAIN Append(s, r) /\ Append(s, r)[k].id = s[k].id
  BY <1>1, <1>2
<1>4. Len(s) + 1 \in DOMAIN Append(s, r) /\ Append(s, r)[Len(s) + 1].id = r.id
  BY <1>1, <1>2
<1>. QED
  BY <1>3, <1>4 DEF ids

LEMMA IdsTail ==
  ASSUME NEW s \in Seq(Responses), s # << >>, NEW x \in ids(s), x # Head(s).id
  PROVE  x \in ids(Tail(s))
<1>1. /\ Head(s) = s[1] /\ Tail(s) \in Seq(Responses) /\ Len(s) \in Nat
      /\ DOMAIN s = 1..Len(s) /\ Len(Tail(s)) = Len(s) - 1
      /\ DOMAIN Tail(s) = 1..(Len(s) - 1)
      /\ \A j \in 1..(Len(s) - 1) : Tail(s)[j] = s[j + 1]
  BY HeadTailProperties, LenProperties
<1>2. PICK k \in DOMAIN s : s[k].id = x
  BY DEF ids
<1>3. k # 1
  BY <1>1, <1>2
<1>4. k - 1 \in DOMAIN Tail(s) /\ Tail(s)[k - 1] = s[k]
  BY <1>1, <1>2, <1>3
<1>. QED
  BY <1>2, <1>4 DEF ids

LEMMA IdsRemoveAt ==
  ASSUME NEW s \in Seq(Responses), NEW n \in 1..Len(s), NEW x \in ids(s), x # s[n].id
  PROVE  x \in ids(RemoveAt(s, n))
<1>. DEFINE t == RemoveAt(s, n)
<1>1. /\ t \in Seq(Responses) /\ Len(t) = Len(s) - 1
      /\ \A j \in 1..(Len(s) - 1) : t[j] = IF j < n THEN s[j] ELSE s[j + 1]
  BY RemoveAtProperties
<1>2. DOMAIN s = 1..Len(s) /\ Len(s) \in Nat /\ DOMAIN t = 1..(Len(s) - 1)
  BY <1>1, LenProperties
<1>3. PICK k \in DOMAIN s : s[k].id = x
  BY DEF ids
<1>4. k # n
  BY <1>3
<1>. HIDE DEF t
<1>5. \E j \in DOMAIN t : t[j] = s[k]
  <2>1. CASE k < n
    BY <1>1, <1>2, <1>3, <2>1
  <2>2. CASE k > n
    <3>1. k - 1 \in DOMAIN t /\ ~(k - 1 < n) /\ (k - 1) + 1 = k
      BY <1>2, <1>3, <2>2
    <3>. QED
      BY <1>1, <1>2, <3>1
  <2>. QED
    BY <1>2, <1>3, <1>4, <2>1, <2>2
<1>. QED
  BY <1>3, <1>5 DEF ids, t

-----------------------------------------------------------------------------
(* The inductive invariant.                                                *)

LEMMA InitDInv == Init => DInv
<1>. SUFFICES ASSUME Init
              PROVE  DInv
  OBVIOUS
<1>1. DOMAIN received = {}
  BY DEF Init
<1>2. \A i \in Ids : ~Passed(i) /\ ~Waiting(i) /\ ~Gone(i)
  BY DEF Init, Passed, Waiting, Gone, Ids
<1>. QED
  BY <1>1, <1>2 DEF DInv, WaitingInv, GoneInv, HandledInv, ReceivedInv

LEMMA NextDInv == IInv /\ DInv /\ [Next]_vars => DInv'
<1>. SUFFICES ASSUME IInv, DInv, [Next]_vars
              PROVE  DInv'
  OBVIOUS
<1>. USE SizesAssumption
<1>t. TypeOK /\ PumpInv /\ HandlerInv /\ QueueInv
  BY DEF IInv
<1>d. WaitingInv /\ GoneInv /\ HandledInv /\ ReceivedInv
  BY DEF DInv
<1>b. \A i \in Ids : script[i] \in AllBodies /\ Fate(i) \in {"forward", "reply", "raise"}
  BY <1>t, ScriptsAssumption, Fates DEF TypeOK, Fate
<1>r. \A k \in DOMAIN received : received[k] \in Ids
  BY <1>t, ElementOfSeq, LenProperties DEF TypeOK
\* What a step that changes neither the pump nor the handlers leaves alone.
<1>s. ASSUME UNCHANGED <<script, readN, pump, handler, received>>
      PROVE  /\ \A i \in Ids : Waiting(i)' = Waiting(i) /\ Gone(i)' = Gone(i)
             /\ HandledInv' /\ ReceivedInv'
  BY <1>d, <1>s DEF Waiting, Gone, Fate, HandledInv, ReceivedInv, Passed
\* The answers a step leaves alone, and the messages received.
<1>g. ASSUME UNCHANGED <<writing, out>>, \A i \in Ids : Gone(i)' => Gone(i)
      PROVE  GoneInv'
  BY <1>d, <1>g DEF GoneInv, ids
<1>c. ASSUME UNCHANGED <<script, received>>, \A i \in Ids : Passed(i) => Passed(i)',
             \A i \in Ids : Passed(i)' /\ Fate(i) = "forward" => Passed(i)
      PROVE  ReceivedInv'
  BY <1>d, <1>r, <1>c DEF ReceivedInv, Fate
<1>1. CASE Send \/ CloseStdin \/ Drain \/ SessionEnd \/ Exit \/ Interrupt
           \/ StdoutBroken \/ Stopped \/ UNCHANGED vars
  <2>1. UNCHANGED <<script, readN, pump, handler, received, wq, writing, out>>
    BY <1>1 DEF Send, CloseStdin, Drain, SessionEnd, Exit, Interrupt, StdoutBroken,
         Stopped, vars, client
  <2>. QED
    BY <1>d, <1>s, <1>g, <2>1 DEF DInv, WaitingInv, ids
<1>2. CASE PumpClose
  <2>1. /\ pump = "read" /\ pump' = "closed"
        /\ UNCHANGED <<script, readN, handler, received, wq, writing, out>>
    BY <1>2 DEF PumpClose, client
  <2>2. \A i \in Ids : /\ Waiting(i)' = Waiting(i) /\ Gone(i)' = Gone(i)
                       /\ Passed(i)' = Passed(i)
    BY <2>1 DEF Waiting, Gone, Passed, Fate
  <2>. QED
    BY <1>d, <1>g, <1>c, <2>1, <2>2 DEF DInv, WaitingInv, HandledInv, Fate, ids
<1>3. CASE PumpRead
  <2>. DEFINE r == [id |-> readN', outcome |-> "parse_error"]
  <2>1. /\ pump = "read" /\ readN < sent /\ readN' = readN + 1 /\ readN' \in Ids
        /\ Fate(readN') = "reply" => pump' = "reply" /\ wq' = Append(wq, r)
        /\ Fate(readN') # "reply" => wq' = wq
        /\ Fate(readN') = "forward" => pump' = "forward"
        /\ Fate(readN') = "raise" => pump' = "closed"
        /\ UNCHANGED <<script, received, handler, writing, out>>
    BY <1>t, <1>3 DEF PumpRead, client, TypeOK, Ids, Fate
  <2>2. readN \in Nat
    BY <1>t DEF TypeOK
  <2>3. handler[readN'] = "none"
    BY <1>t, <2>1, <2>2 DEF HandlerInv
  <2>4. \A i \in Ids : /\ Passed(i) => Passed(i)'
                       /\ Passed(i)' /\ Fate(i) = "forward" => Passed(i)
    BY <2>1, <2>2 DEF Passed, Ids
  <2>5. \A i \in Ids : Gone(i)' => Gone(i)
    BY <2>1, <2>2 DEF Gone, Fate, Ids
  <2>6. WaitingInv'
    <3>1. CASE Fate(readN') = "reply"
      <4>1. r \in Responses /\ r.id = readN'
        BY <2>1 DEF Responses, Outcomes
      <4>. HIDE DEF r
      <4>2. ids(wq) \subseteq ids(wq') /\ readN' \in ids(wq')
        BY <1>t, <2>1, <3>1, <4>1, IdsAppend DEF TypeOK
      <4>3. ids(wq)' = ids(wq')
        BY DEF ids
      <4>4. \A i \in Ids : Waiting(i)' => Waiting(i) \/ i = readN'
        BY <2>1 DEF Waiting
      <4>. QED
        BY <1>d, <4>2, <4>3, <4>4 DEF WaitingInv
    <3>2. CASE Fate(readN') # "reply"
      <4>1. pump' # "reply" /\ wq' = wq
        BY <1>b, <2>1, <3>2
      <4>. QED
        BY <1>d, <2>1, <4>1 DEF WaitingInv, Waiting, ids
    <3>. QED
      BY <3>1, <3>2
  <2>7. HandledInv'
    BY <1>d, <2>1, <2>4 DEF HandledInv, Fate
  <2>. QED
    BY <1>g, <1>c, <2>1, <2>4, <2>5, <2>6, <2>7 DEF DInv
<1>4. CASE SessionReceive
  <2>1. /\ pump = "forward" /\ pump' = "read" /\ readN \in Ids
        /\ received \in Seq(Ids) /\ received' = Append(received, readN)
        /\ Fate(readN) = "forward"
        /\ IsRequest(script[readN]) => handler'[readN] = "running"
        /\ \A i \in Ids : i # readN => handler'[i] = handler[i]
        /\ handler'[readN] \in {"running", handler[readN]}
        /\ UNCHANGED <<script, readN, wq, writing, out>>
    BY <1>t, <1>4 DEF SessionReceive, client, TypeOK, PumpInv, Ids
  <2>2. \A i \in Ids : Passed(i)' <=> Passed(i) \/ i = readN
    BY <1>t, <2>1 DEF Passed, TypeOK, Ids
  <2>3. WaitingInv'
    BY <1>d, <2>1 DEF WaitingInv, Waiting, ids
  <2>4. GoneInv'
    <3>1. \A i \in Ids : Gone(i)' => Gone(i)
      BY <2>1 DEF Gone, Fate
    <3>. QED
      BY <1>g, <2>1, <3>1
  <2>5. HandledInv'
    BY <1>d, <2>1, <2>2 DEF HandledInv, Fate
  <2>6. ReceivedInv'
    <3>1. /\ Len(received) \in Nat /\ DOMAIN received = 1..Len(received)
          /\ DOMAIN received' = 1..(Len(received) + 1)
          /\ \A k \in 1..Len(received) : received'[k] = received[k]
          /\ received'[Len(received) + 1] = readN
      BY <2>1, AppendProperties, LenProperties
    <3>2. \A k \in DOMAIN received : received[k] < readN
      BY <1>t, <1>d, <1>r, <2>1 DEF ReceivedInv, Passed, TypeOK, Ids
    <3>3. ASSUME NEW j \in DOMAIN received', NEW k \in DOMAIN received', j < k
          PROVE  received'[j] < received'[k]
      <4>1. CASE k \in DOMAIN received
        BY <1>d, <3>1, <3>3, <4>1 DEF ReceivedInv
      <4>2. CASE k = Len(received) + 1
        BY <3>1, <3>2, <3>3, <4>2
      <4>. QED
        BY <3>1, <4>1, <4>2
    <3>4. ASSUME NEW k \in DOMAIN received'
          PROVE  Passed(received[k])' /\ (Fate(received[k]) = "forward")'
      <4>1. CASE k \in DOMAIN received
        <5>1. received'[k] = received[k] /\ received[k] \in Ids
          BY <1>r, <3>1, <4>1
        <5>2. Passed(received[k]) /\ Fate(received[k]) = "forward"
          BY <1>d, <4>1 DEF ReceivedInv
        <5>3. Passed(received[k])' = (received'[k] <= readN' /\ ~(pump' = "forward" /\ received'[k] = readN'))
          BY DEF Passed
        <5>. QED
          BY <2>1, <5>1, <5>2, <5>3 DEF Passed, Fate
      <4>2. CASE k = Len(received) + 1
        <5>1. received'[k] = readN
          BY <3>1, <4>2
        <5>. QED
          BY <1>t, <2>1, <5>1 DEF Passed, Fate, TypeOK
      <4>. QED
        BY <3>1, <4>1, <4>2
    <3>5. ASSUME NEW i \in Ids, Passed(i)', Fate(i) = "forward"
          PROVE  i \in Range(received')
      <4>1. CASE i = readN
        BY <3>1, <4>1 DEF Range
      <4>2. CASE i # readN
        <5>1. PICK k \in DOMAIN received : received[k] = i
          BY <1>d, <2>2, <3>5, <4>2 DEF ReceivedInv, Range
        <5>. QED
          BY <3>1, <5>1 DEF Range
      <4>. QED
        BY <4>1, <4>2
    <3>. QED
      BY <2>1, <3>3, <3>4, <3>5 DEF ReceivedInv, Fate, Range
  <2>. QED
    BY <2>3, <2>4, <2>5, <2>6 DEF DInv
\* What the steps after a message was received change.
<1>p. ASSUME UNCHANGED <<script, readN, pump, received>>
      PROVE  ReceivedInv' /\ \A i \in Ids : Passed(i)' = Passed(i)
  BY <1>d, <1>p DEF ReceivedInv, Passed, Fate
<1>5. ASSUME NEW i \in Ids, HandlerFinish(i)
      PROVE  DInv'
  <2>. DEFINE r == [id |-> i, outcome |-> SessionOutcome(script[i])]
  <2>1. /\ handler[i] = "running" /\ handler'[i] = "sending"
        /\ \A j \in Ids : j # i => handler'[j] = handler[j]
        /\ wq' = Append(wq, r)
        /\ UNCHANGED <<script, readN, pump, received, writing, out>>
    BY <1>t, <1>5 DEF HandlerFinish, client, TypeOK
  <2>2. r \in Responses /\ r.id = i
    <3>1. Fate(i) = "forward" /\ IsRequest(script[i])
      BY <1>t, <2>1 DEF HandlerInv
    <3>. QED
      BY <1>b, <3>1, Fates DEF Responses, Fate
  <2>. HIDE DEF r
  <2>3. ids(wq) \subseteq ids(wq') /\ i \in ids(wq') /\ ids(wq)' = ids(wq')
    <3>1. ids(wq) \subseteq ids(wq') /\ i \in ids(wq')
      BY <1>t, <2>1, <2>2, IdsAppend DEF TypeOK
    <3>. QED
      BY <3>1 DEF ids
  <2>4. /\ \A j \in Ids : Waiting(j)' => Waiting(j) \/ j = i
        /\ \A j \in Ids : Gone(j)' => Gone(j)
    BY <2>1 DEF Waiting, Gone, Fate
  <2>5. WaitingInv'
    BY <1>d, <2>3, <2>4 DEF WaitingInv
  <2>6. HandledInv'
    BY <1>d, <1>p, <2>1 DEF HandledInv, Fate
  <2>. QED
    BY <1>g, <1>p, <2>1, <2>4, <2>5, <2>6 DEF DInv
<1>6. ASSUME NEW i \in Ids, HandlerCancel(i)
      PROVE  DInv'
  <2>1. /\ handler[i] = "running" /\ handler'[i] = "cancelled"
        /\ \A j \in Ids : j # i => handler'[j] = handler[j]
        /\ UNCHANGED <<script, readN, pump, received, wq, writing, out>>
    BY <1>t, <1>6 DEF HandlerCancel, client, TypeOK
  <2>2. \A j \in Ids : (Waiting(j)' => Waiting(j)) /\ (Gone(j)' => Gone(j))
    BY <2>1 DEF Waiting, Gone, Fate
  <2>3. WaitingInv' /\ HandledInv'
    BY <1>d, <1>p, <2>1, <2>2 DEF WaitingInv, HandledInv, Fate, ids
  <2>. QED
    BY <1>g, <1>p, <2>1, <2>2, <2>3 DEF DInv
<1>7. ASSUME NEW n \in 1..Len(wq), SenderCancel(n)
      PROVE  DInv'
  <2>1. wq[n].id \in Ids
    <3>1. wq[n] \in Responses
      BY <1>t, ElementOfSeq DEF TypeOK
    <3>. QED
      BY <3>1 DEF Responses
  <2>2. /\ handler'[wq[n].id] = "cancelled" /\ wq' = RemoveAt(wq, n)
        /\ \A j \in Ids : j # wq[n].id => handler'[j] = handler[j]
        /\ pump = "closed"
        /\ UNCHANGED <<script, readN, pump, received, writing, out>>
    BY <1>t, <1>7, <2>1 DEF SenderCancel, client, TypeOK, PumpInv
  <2>3. /\ \A j \in Ids : Waiting(j)' => Waiting(j) /\ j # wq[n].id
        /\ \A j \in Ids : Gone(j)' => Gone(j)
    BY <2>1, <2>2 DEF Waiting, Gone, Fate
  <2>4. WaitingInv'
    <3>1. ASSUME NEW j \in Ids, Waiting(j)'
          PROVE  j \in ids(wq')
      BY <1>t, <1>d, <2>2, <2>3, <3>1, IdsRemoveAt DEF WaitingInv, TypeOK
    <3>. QED
      BY <3>1 DEF WaitingInv, ids
  <2>5. HandledInv'
    BY <1>d, <1>p, <2>1, <2>2 DEF HandledInv, Fate
  <2>. QED
    BY <1>g, <1>p, <2>2, <2>3, <2>4, <2>5 DEF DInv
<1>8. CASE WriterTake
  <2>1. /\ writing = Nobody /\ wq # << >> /\ writing' = Head(wq) /\ wq' = Tail(wq)
        /\ UNCHANGED <<script, readN, received, out>>
    BY <1>8 DEF WriterTake, client
  <2>2. Head(wq).id \in Ids /\ Waiting(Head(wq).id)
    <3>1. Head(wq) = wq[1] /\ 1 \in DOMAIN wq /\ Head(wq) \in Responses
      BY <1>t, <2>1, HeadTailProperties, LenProperties DEF TypeOK
    <3>. QED
      BY <1>t, <3>1 DEF QueueInv, Responses
  <2>3. PICK i \in Ids : i = Head(wq).id
    BY <2>2
  <2>4. /\ \A j \in Ids : j # i => handler'[j] = handler[j]
        /\ \/ handler[i] = "sending" /\ handler'[i] = "sent" /\ pump' = pump
           \/ /\ handler[i] # "sending" /\ handler' = handler
              /\ pump = "reply" /\ i = readN /\ pump' = "read"
    BY <1>t, <1>8, <2>2, <2>3 DEF WriterTake, TypeOK, Waiting
  <2>5. \A j \in Ids : Waiting(j)' => Waiting(j) /\ j # i
    BY <1>t, <2>1, <2>4 DEF Waiting, HandlerInv, PumpInv
  <2>6. \A j \in Ids : Gone(j)' => Gone(j) \/ j = i
    BY <2>1, <2>4 DEF Gone, Fate
  <2>7. WaitingInv'
    <3>1. ASSUME NEW j \in Ids, Waiting(j)'
          PROVE  j \in ids(wq')
      BY <1>t, <1>d, <2>1, <2>3, <2>5, <3>1, IdsTail DEF WaitingInv, TypeOK
    <3>. QED
      BY <3>1 DEF WaitingInv, ids
  <2>8. GoneInv'
    <3>1. \A j \in Ids : j # writing.id
      BY <2>1 DEF Nobody, Ids
    <3>2. writing'.id = i
      BY <2>1, <2>3
    <3>. QED
      BY <1>d, <2>1, <2>6, <3>1, <3>2 DEF GoneInv, ids
  <2>9. \A j \in Ids : Passed(j)' = Passed(j)
    BY <2>1, <2>4 DEF Passed
  <2>10. HandledInv' /\ ReceivedInv'
    BY <1>d, <1>c, <2>1, <2>4, <2>9 DEF HandledInv, Fate
  <2>. QED
    BY <2>7, <2>8, <2>10 DEF DInv
<1>9. CASE Written
  <2>1. /\ writing # Nobody /\ writing' = Nobody /\ out' = Append(out, writing)
        /\ UNCHANGED <<script, readN, pump, received, handler, wq>>
    BY <1>9 DEF Written, client
  <2>2. writing \in Responses
    BY <1>t, <2>1 DEF TypeOK
  <2>3. ids(out) \subseteq ids(out') /\ writing.id \in ids(out') /\ ids(out)' = ids(out')
    <3>1. ids(out) \subseteq ids(out') /\ writing.id \in ids(out')
      BY <1>t, <2>1, <2>2, IdsAppend DEF TypeOK
    <3>. QED
      BY <3>1 DEF ids
  <2>4. GoneInv'
    BY <1>d, <1>s, <2>1, <2>3 DEF GoneInv
  <2>. QED
    BY <1>d, <1>s, <2>1, <2>4 DEF DInv, WaitingInv, ids
<1>. QED
  BY <1>1, <1>2, <1>3, <1>4, <1>5, <1>6, <1>7, <1>8, <1>9 DEF Next

LEMMA Delivery == Spec => [](IInv /\ DInv)
  BY InitIInv, NextIInv, InitDInv, NextDInv, PTL DEF Spec

-----------------------------------------------------------------------------
(* The theorems.                                                           *)

\* If of six pairs exactly one holds, the set of those that hold has one element.
LEMMA OnePlace ==
  ASSUME NEW a, NEW b, NEW c, NEW d, NEW e, NEW f,
         \/ a[2] /\ ~b[2] /\ ~c[2] /\ ~d[2] /\ ~e[2] /\ ~f[2]
         \/ ~a[2] /\ b[2] /\ ~c[2] /\ ~d[2] /\ ~e[2] /\ ~f[2]
         \/ ~a[2] /\ ~b[2] /\ c[2] /\ ~d[2] /\ ~e[2] /\ ~f[2]
         \/ ~a[2] /\ ~b[2] /\ ~c[2] /\ d[2] /\ ~e[2] /\ ~f[2]
         \/ ~a[2] /\ ~b[2] /\ ~c[2] /\ ~d[2] /\ e[2] /\ ~f[2]
         \/ ~a[2] /\ ~b[2] /\ ~c[2] /\ ~d[2] /\ ~e[2] /\ f[2]
  PROVE  Cardinality({p \in {a, b, c, d, e, f} : p[2]}) = 1
<1>. DEFINE S == {p \in {a, b, c, d, e, f} : p[2]}
<1>1. a[2] /\ ~b[2] /\ ~c[2] /\ ~d[2] /\ ~e[2] /\ ~f[2] => S = {a}
  OBVIOUS
<1>2. b[2] /\ ~a[2] /\ ~c[2] /\ ~d[2] /\ ~e[2] /\ ~f[2] => S = {b}
  OBVIOUS
<1>3. c[2] /\ ~a[2] /\ ~b[2] /\ ~d[2] /\ ~e[2] /\ ~f[2] => S = {c}
  OBVIOUS
<1>4. d[2] /\ ~a[2] /\ ~b[2] /\ ~c[2] /\ ~e[2] /\ ~f[2] => S = {d}
  OBVIOUS
<1>5. e[2] /\ ~a[2] /\ ~b[2] /\ ~c[2] /\ ~d[2] /\ ~f[2] => S = {e}
  OBVIOUS
<1>6. f[2] /\ ~a[2] /\ ~b[2] /\ ~c[2] /\ ~d[2] /\ ~e[2] => S = {f}
  OBVIOUS
<1>7. \E x : S = {x}
  BY <1>1, <1>2, <1>3, <1>4, <1>5, <1>6
<1>. QED
  BY <1>7, FS_Singleton

\* A message that raises in the pump takes the process down.
CrashInv == proc # "fatal" => \A i \in Ids : i <= readN => Fate(i) # "raise"

LEMMA CrashInvariance == Spec => [](IInv /\ DInv /\ CrashInv)
<1>1. Init => CrashInv
  BY DEF Init, CrashInv, Ids
<1>2. IInv /\ CrashInv /\ [Next]_vars => CrashInv'
  <2>. SUFFICES ASSUME IInv, CrashInv, [Next]_vars
                PROVE  CrashInv'
    OBVIOUS
  <2>1. CASE PumpRead
    <3>1. /\ readN' = readN + 1 /\ script' = script /\ proc = "running"
          /\ Fate(readN') = "raise" => proc' = "fatal"
      BY <2>1 DEF PumpRead, client, Fate
    <3>2. \A i \in Ids : i <= readN' => i <= readN \/ i = readN'
      BY <3>1, SizesAssumption DEF IInv, TypeOK, Ids
    <3>. QED
      BY <3>1, <3>2 DEF CrashInv, Fate
  <2>2. CASE ~PumpRead
    <3>1. UNCHANGED <<script, readN>> /\ (proc' = proc \/ proc = "running")
      BY <2>2 DEF Next, Send, CloseStdin, Drain, PumpClose, SessionReceive, SessionEnd,
           HandlerFinish, HandlerCancel, SenderCancel, WriterTake, Written, Exit,
           Interrupt, StdoutBroken, Stopped, vars, client
    <3>. QED
      BY <3>1 DEF CrashInv, Fate
  <2>. QED
    BY <2>1, <2>2
<1>. QED
  BY <1>1, <1>2, Delivery, PTL DEF Spec

\* Every request the pump has read is in exactly one place, through every
\* interleaving of the pump, the handlers, the writer and a shutdown: short of a
\* crash none is lost and none is in two hands.
THEOREM NothingIsLost == Spec => []NothingLost
<1>1. IInv /\ DInv /\ CrashInv => NothingLost
  <2>. SUFFICES ASSUME IInv, DInv, CrashInv, proc # "fatal", NEW i \in 1..readN, IsRequest(script[i])
                PROVE  Cardinality({p \in {<<"pump", pump = "forward" /\ readN = i>>,
                                           <<"handler", handler[i] = "running">>,
                                           <<"blocked", i \in ids(wq)>>,
                                           <<"writer", writing.id = i>>,
                                           <<"stdout", i \in ids(out)>>,
                                           <<"dropped", handler[i] = "cancelled">>} :
                                     p[2]}) = 1
    BY DEF NothingLost
  <2>t. TypeOK /\ PumpInv /\ HandlerInv /\ QueueInv /\ WriterInv /\ OutInv
    BY DEF IInv
  <2>d. WaitingInv /\ GoneInv /\ HandledInv
    BY DEF DInv
  <2>1. i \in Ids /\ i <= readN /\ script[i] \in AllBodies
    BY <2>t, SizesAssumption, ScriptsAssumption DEF TypeOK, Ids
  <2>2. i \in ids(wq) <=> Waiting(i)
    BY <2>t, <2>d, <2>1 DEF WaitingInv, QueueInv, ids
  <2>3. i = writing.id => writing # Nobody
    BY <2>1 DEF Nobody, Ids
  <2>4. /\ i \in ids(out) \/ i = writing.id <=> Gone(i)
        /\ ~(i \in ids(out) /\ i = writing.id)
    BY <2>t, <2>d, <2>1, <2>3 DEF GoneInv, WriterInv, OutInv, ids
  <2>5. handler[i] \in HandlerStates
    BY <2>t, <2>1 DEF TypeOK
  <2>6. Fate(i) \in {"forward", "reply"}
    BY <2>1, Fates DEF Fate, CrashInv
  <2>. DEFINE atPump == pump = "forward" /\ readN = i
              a == <<"pump", pump = "forward" /\ readN = i>>
              b == <<"handler", handler[i] = "running">>
              c == <<"blocked", i \in ids(wq)>>
              d == <<"writer", writing.id = i>>
              e == <<"stdout", i \in ids(out)>>
              f == <<"dropped", handler[i] = "cancelled">>
  <2>0.  /\ a[2] <=> pump = "forward" /\ readN = i
         /\ b[2] <=> handler[i] = "running"
         /\ c[2] <=> i \in ids(wq)
         /\ d[2] <=> writing.id = i
         /\ e[2] <=> i \in ids(out)
         /\ f[2] <=> handler[i] = "cancelled"
    OBVIOUS
  <2>. HIDE DEF a, b, c, d, e, f
  <2>. SUFFICES \/ a[2] /\ ~b[2] /\ ~c[2] /\ ~d[2] /\ ~e[2] /\ ~f[2]
                \/ ~a[2] /\ b[2] /\ ~c[2] /\ ~d[2] /\ ~e[2] /\ ~f[2]
                \/ ~a[2] /\ ~b[2] /\ c[2] /\ ~d[2] /\ ~e[2] /\ ~f[2]
                \/ ~a[2] /\ ~b[2] /\ ~c[2] /\ d[2] /\ ~e[2] /\ ~f[2]
                \/ ~a[2] /\ ~b[2] /\ ~c[2] /\ ~d[2] /\ e[2] /\ ~f[2]
                \/ ~a[2] /\ ~b[2] /\ ~c[2] /\ ~d[2] /\ ~e[2] /\ f[2]
    BY OnePlace DEF a, b, c, d, e, f
  <2>7. CASE Fate(i) = "reply"
    <3>1. handler[i] = "none" /\ ~atPump /\ (Waiting(i) \/ Gone(i)) /\ ~(Waiting(i) /\ Gone(i))
      BY <2>t, <2>1, <2>7 DEF HandlerInv, PumpInv, HandlerStates, Waiting, Gone
    <3>. QED
      BY <2>2, <2>4, <2>5, <2>7, <2>0, <3>1
  <2>8. CASE Fate(i) = "forward"
    <3>1. CASE atPump
      <4>1. handler[i] = "none" /\ ~Waiting(i) /\ ~Gone(i)
        BY <2>t, <2>1, <2>8, <3>1 DEF HandlerInv, HandlerStates, Waiting, Gone
      <4>. QED
        BY <2>2, <2>4, <2>5, <2>8, <2>0, <3>1, <4>1
    <3>2. CASE ~atPump
      <4>1. handler[i] \in {"running", "sending", "sent", "cancelled"}
        BY <2>d, <2>1, <2>5, <2>8, <3>2 DEF HandledInv, Passed, HandlerStates
      <4>2. (Waiting(i) <=> handler[i] = "sending") /\ (Gone(i) <=> handler[i] = "sent")
        BY <2>t, <2>1, <2>8 DEF Waiting, Gone, PumpInv
      <4>. QED
        BY <2>2, <2>4, <2>5, <2>8, <2>0, <3>2, <4>1, <4>2
    <3>. QED
      BY <3>1, <3>2
  <2>. QED
    BY <2>6, <2>7, <2>8
<1>. QED
  BY <1>1, CrashInvariance, PTL

\* The session is given the client's messages in the order they were sent, each
\* once, and all but those the pump answers itself or dies of.
THEOREM ArrivalOrder == Spec => []InArrivalOrder
<1>1. IInv /\ DInv => InArrivalOrder
  <2>. SUFFICES ASSUME IInv, DInv
                PROVE  InArrivalOrder
    OBVIOUS
  <2>1. TypeOK /\ ReceivedInv
    BY DEF IInv, DInv
  <2>2. \A i \in Ids : Fate(i) = "forward" <=> ~Broken(script[i]) /\ ~Fatal(script[i])
    BY <2>1, FateOf, ScriptsAssumption DEF TypeOK, Fate
  <2>3. \A k \in DOMAIN received : received[k] \in Ids
    BY <2>1, ElementOfSeq, LenProperties DEF TypeOK
  <2>4. 1..readN \subseteq Ids /\ readN \in Nat /\ \A i \in Ids : Passed(i) => i \in 1..readN
    BY <2>1, SizesAssumption DEF TypeOK, Ids, Passed
  <2>5. ASSUME NEW i \in Range(received)
        PROVE  i \in 1..readN /\ Passed(i) /\ ~Broken(script[i]) /\ ~Fatal(script[i])
    BY <2>1, <2>2, <2>3, <2>4 DEF ReceivedInv, Range
  <2>6. ASSUME NEW i \in 1..readN, Passed(i), ~Broken(script[i]), ~Fatal(script[i])
        PROVE  i \in Range(received)
    BY <2>1, <2>2, <2>4, <2>6 DEF ReceivedInv
  <2>7. \A i \in 1..readN : Passed(i) <=> ~(pump = "forward" /\ i = readN)
    BY <2>4 DEF Passed
  <2>. QED
    BY <2>1, <2>5, <2>6, <2>7 DEF InArrivalOrder, ReceivedInv
<1>. QED
  BY <1>1, Delivery, PTL

\* No message overtakes the rejection of a broken call sent before it.
THEOREM RejectionsInOrder == Spec => []RejectionHoldsTheLine
<1>1. IInv /\ DInv => RejectionHoldsTheLine
  <2>. SUFFICES ASSUME IInv, DInv, NEW k \in DOMAIN received, NEW i \in 1..received[k],
                       Broken(script[i])
                PROVE  i \in ids(out) \/ i = writing.id
    BY DEF RejectionHoldsTheLine
  <2>1. TypeOK /\ PumpInv /\ ReceivedInv /\ GoneInv
    BY DEF IInv, DInv
  <2>2. received[k] \in Ids /\ Passed(received[k]) /\ Fate(received[k]) = "forward"
    BY <2>1, ElementOfSeq, LenProperties DEF TypeOK, ReceivedInv
  <2>3. i \in Ids /\ i <= received[k] /\ i <= readN
    BY <2>1, <2>2, SizesAssumption DEF TypeOK, Ids, Passed
  <2>4. Fate(i) = "reply"
    BY <2>1, <2>3, FateOf, ScriptsAssumption DEF TypeOK, Fate
  <2>5. ~(pump = "reply" /\ i = readN)
    BY <2>1, <2>2, <2>3, <2>4 DEF Passed, TypeOK, Ids
  <2>. QED
    BY <2>1, <2>3, <2>4, <2>5 DEF Gone, GoneInv
<1>. QED
  BY <1>1, Delivery, PTL
=============================================================================
