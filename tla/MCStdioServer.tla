--------------------------- MODULE MCStdioServer ---------------------------
(* Message bodies for TLC's instances of StdioServer.                      *)
EXTENDS StdioServer

Msg(k) == [kind |-> k, form |-> "-", strict |-> "-", lenient |-> "-", ends |-> "returns"]
Call(f, e) == [kind |-> "call", form |-> f, strict |-> "-", lenient |-> "-", ends |-> e]
Str(s, l, e) == [kind |-> "call", form |-> "string", strict |-> s, lenient |-> l, ends |-> e]

\* Every kind of message, every way repair can go and every way a call can end.
MCAllKinds == {Msg("garbage"), Msg("notification"), Msg("request"), Call("other", "returns")}
  \cup {Call("dict", e) : e \in ToolEnds}
  \cup {Str("dict", "dict", "returns"), Str("nondict", "dict", "returns"),
        Str("ValueError", "dict", "ValueError"), Str("ValueError", "nondict", "returns"),
        Str("ValueError", "ValueError", "returns"),
        Str("RecursionError", "dict", "returns")}

\* One of each fate the pump can give a message.
MCFates == {Msg("request"), Str("ValueError", "dict", "ValueError"),
            Str("ValueError", "nondict", "returns"), Str("RecursionError", "dict", "returns"),
            Call("dict", "KeyError")}

\* A repairable call and a broken one: what the order of the tasks turns on.
MCTwo == {Str("ValueError", "dict", "returns"), Str("ValueError", "ValueError", "returns")}

\* Every message before and after one of each fate, with notifications to follow;
\* and every script of repairable and broken calls.
MCScripts == LET n == Msg("notification")
             IN  [Ids -> MCTwo] \cup {<<a, b, n, n>> : a \in MCAllKinds, b \in MCFates}
                                \cup {<<a, b, n, n>> : a \in MCFates, b \in MCAllKinds}

\* Two messages of any kind.
MCPairs == [Ids -> MCAllKinds]
=============================================================================
