-------------------------- MODULE MCStreamRestore --------------------------
(* Instances of StreamRestore for TLC.                                     *)
EXTENDS StreamRestore

Stream(framing, crlf, blank, script) ==
    [framing |-> framing, crlf |-> crlf, blank |-> blank, script |-> script]

Field(p, i, n) == [proto |-> p, idx |-> i, name |-> n]

Braced == <<"p1", "p2", "p3", "a">>
Bare == <<"b1", "b2">>
Broken == <<"a", "p1", "p2">>

\* Each protocol with two fields, of one unit or of two, over LF and CRLF.
MCStreams ==
    {Stream("sse", FALSE, TRUE, Field("chat", 0, "reasoning_content") :> Braced
                             @@ Field("chat", 0, "tool_calls") :> Bare),
     Stream("sse", FALSE, FALSE, Field("chat", 0, "content") :> Broken
                              @@ Field("chat", 1, "tool_input") :> Bare),
     Stream("sse", TRUE, FALSE, Field("anthropic", 0, "thinking") :> Bare
                             @@ Field("anthropic", 1, "partial_json") :> Bare),
     Stream("sse", FALSE, FALSE, Field("responses", 0, "output_text") :> Braced
                              @@ Field("responses", 0, "function_call_arguments") :> Bare),
     Stream("ndjson", TRUE, FALSE, Field("ollama", 0, "message_content") :> Braced
                                @@ Field("ollama", 0, "message_thinking") :> Bare)}
=============================================================================
