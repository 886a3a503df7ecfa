--------------------------- MODULE StreamRestore ---------------------------
(***************************************************************************)
(* The streamed response: upstream bytes are decoded, cut into events,     *)
(* each event's text fields ("slots") are restored channel by channel, and *)
(* the half of a placeholder at the end of a channel's text is held back   *)
(* until the rest arrives (stream/sse.rs, stream/slots.rs).                *)
(*                                                                         *)
(* Text is a sequence of pieces.  "p1" "p2" "p3" are the pieces of a       *)
(* braced placeholder, cut inside the suffix and before the closing        *)
(* braces; "b1" "b2" those of a bare one, cut inside the suffix; "a" is    *)
(* any other text.  "V" is the original value, "E" the same value escaped  *)
(* for a JSON string.  The session outlives the stream: AlwaysRestored of  *)
(* RequestPipeline.                                                        *)
(***************************************************************************)
EXTENDS Integers, Sequences, FiniteSets, FiniteSetsExt, SequencesExt, Picks

CONSTANTS
    Streams,        \* [framing, crlf, blank, script]: what upstream may stream,
                    \* script giving each field the text it will carry
    PartialMax,     \* longest tail that is held back, in pieces
    BufMax,         \* longest undelimited text kept, in units of the wire
    CanBlock,       \* the command blocker may stop the stream
    MaxEvents       \* bound: events upstream sends

Pieces == {"a", "p1", "p2", "p3", "b1", "b2"}

Values == {"V", "E"}

\* The longest half placeholder can be held, and the longest line buffered.
ASSUME StreamAssumption ==
    /\ PartialMax \in Nat /\ PartialMax >= 2
    /\ BufMax \in Nat /\ BufMax >= 3
    /\ MaxEvents \in Nat
    /\ CanBlock \in BOOLEAN

ASSUME ScriptAssumption ==
    \A s \in Streams :
        /\ s.framing \in {"sse", "ndjson"} /\ s.crlf \in BOOLEAN /\ s.blank \in BOOLEAN
        /\ DOMAIN s.script # {}
        /\ \A f \in DOMAIN s.script :
            /\ f \in [proto : {"chat", "anthropic", "responses", "ollama"}, idx : Nat, name : STRING]
            /\ s.script[f] \in Seq(Pieces)

VARIABLES
    stream,         \* the stream upstream chose
    sent,           \* how much of it is sent
    stopped,        \* fields upstream has finished
    events,         \* number of events sent
    wire,           \* sent, not yet received
    utf8Tail,       \* bytes of a character whose rest is still to come
    buf,            \* received, not yet delimited
    pending,        \* per channel: the half placeholder held back
    tmpl,           \* channels with an event to model a late one on
    given,          \* per field: the text of the events handled so far
    shown,          \* per field: the text the client has read
    stray,          \* text put out in frames that belong to no field
    closed,         \* fields whose end the client has seen
    excused,        \* fields the promise no longer covers, see Excused
    blocked,        \* the command blocker stopped the response
    ended           \* the stream is over

upstream == <<stream, sent, stopped, events>>
received == <<utf8Tail, buf>>
session == <<pending, tmpl>>
client == <<given, shown, stray, closed, excused>>
vars == <<upstream, wire, received, session, client, blocked, ended>>

----------------------------------------------------------------------------
(* Slots (slots.rs).  A field is [proto, idx, name]; its channel           *)
(* [proto, idx, x, slot], where x marks the channels of unlisted fields.   *)

\* The channel names of the listed fields, as text_slots makes them up.
SlotNames ==
    [chat |-> [content |-> "content", reasoning_content |-> "reason",
               reasoning |-> "reason2", reasoning_details |-> "rd",
               tool_calls |-> "tool", function_call |-> "fcall", text |-> "text"],
     anthropic |-> [text |-> "text", thinking |-> "think", partial_json |-> "pj"],
     responses |-> [output_text |-> "text", reasoning_text |-> "reason",
                    function_call_arguments |-> "args"],
     ollama |-> [message_content |-> "message.content",
                 message_thinking |-> "message.thinking",
                 response |-> "response", thinking |-> "thinking"]]

TextSlot(f) ==
    LET known == f.name \in DOMAIN SlotNames[f.proto]
    IN [proto |-> f.proto, idx |-> f.idx, x |-> ~known,
        slot |-> IF known THEN SlotNames[f.proto][f.name] ELSE f.name]

\* The field set_slot writes a channel's text to.
FieldNames ==
    [chat |-> [content |-> "content", reason |-> "reasoning_content",
               reason2 |-> "reasoning", rd |-> "reasoning_details",
               tool |-> "tool_calls", fcall |-> "function_call", text |-> "text"],
     anthropic |-> [text |-> "text", think |-> "thinking", pj |-> "partial_json"],
     responses |-> [text |-> "output_text", reason |-> "reasoning_text",
                    args |-> "function_call_arguments"]]

ListedName(ch) ==
    IF ch.proto = "ollama"
    THEN CHOOSE n \in DOMAIN SlotNames.ollama : SlotNames.ollama[n] = ch.slot
    ELSE FieldNames[ch.proto][ch.slot]

SetSlot(ch) ==
    [proto |-> ch.proto, idx |-> ch.idx, name |-> IF ch.x THEN ch.slot ELSE ListedName(ch)]

\* Fields that are JSON inside a JSON string.
Escaped(f) ==
    f.name \in {"tool_calls", "function_call", "partial_json", "function_call_arguments"}

Fields == DOMAIN stream.script

Channels == {TextSlot(f) : f \in Fields}

\* The channels an event ends (terminal_prefixes).  e.kind is "delta" for an
\* event that ends nothing, "blank" for a chat event whose finish_reason is
\* the empty string, "stop" for one that ends what field e.of belongs to (a
\* choice, a content block, a part), "all" and "done" for the end of all.
TerminalPrefixes(e) ==
    CASE e.kind \in {"delta", "blank"} -> {}
      [] e.kind = "all" -> Channels
      [] e.kind = "done" -> Channels
      [] e.kind = "stop" ->
           IF e.of.proto = "responses" THEN {TextSlot(e.of)}
           ELSE {ch \in Channels : ch.proto = e.of.proto /\ ch.idx = e.of.idx}

----------------------------------------------------------------------------
(* Restoring a text (engine.rs restore_final): a placeholder with or       *)
(* without its closing braces is replaced, the rest is kept.               *)

At(t, i, piece) == i \in 1 .. Len(t) /\ t[i] = piece

PlaceholderAt(t, i) ==
    \/ At(t, i, "p1") /\ At(t, i + 1, "p2")
    \/ At(t, i, "b1") /\ At(t, i + 1, "b2")

InsidePlaceholder(t, i) ==
    \/ i > 1 /\ PlaceholderAt(t, i - 1)
    \/ i > 2 /\ At(t, i - 2, "p1") /\ At(t, i - 1, "p2") /\ At(t, i, "p3")

RestoreFinal(t, escape) ==
    LET value == IF escape THEN "E" ELSE "V"
        image == [i \in 1 .. Len(t) |-> IF PlaceholderAt(t, i) THEN value ELSE t[i]]
    IN Picked(image, {i \in 1 .. Len(t) : ~InsidePlaceholder(t, i)})

Restored(f, t) == RestoreFinal(t, Escaped(f))

\* A slip: bare placeholders are not looked for.
PartialLenBraced(t) ==
    IF At(t, Len(t) - 1, "p1") /\ At(t, Len(t), "p2") THEN 2 ELSE IF At(t, Len(t), "p1") THEN 1 ELSE 0

\* A slip: the hold begins at the last piece, not at the placeholder.
PartialLenLast(t) == IF t # <<>> /\ Last(t) \in {"p1", "p2", "b1"} THEN 1 ELSE 0

\* Length of the half placeholder a text ends in (placeholder.rs partial_rx).
PartialLen(t) ==
    LET n == Len(t)
        len == IF At(t, n - 1, "p1") /\ At(t, n, "p2") THEN 2
               ELSE IF At(t, n, "p1") \/ At(t, n, "b1") THEN 1
               ELSE 0
    IN IF len <= PartialMax THEN len ELSE 0

----------------------------------------------------------------------------
(* Handling one event.  s is a record of the session's and the client's    *)
(* variables; each operator returns it changed.                            *)

State == [pending |-> pending, tmpl |-> tmpl, given |-> given, shown |-> shown,
          stray |-> stray, closed |-> closed, excused |-> excused]

\* The client reads a text of a field unless it has seen the field's end.
Show(s, text) ==
    [s EXCEPT !.shown = [f \in DOMAIN s.shown |->
        IF f \in s.closed \/ f \notin DOMAIN text THEN s.shown[f] ELSE s.shown[f] \o text[f]]]

\* flush_pending_matching: the held text of the given channels goes out, in
\* an event like the last one of its channel, or in a bare frame.
FlushPending(s, chs) ==
    LET hits == {ch \in chs : s.pending[ch] # <<>>}
        framed == hits \cap s.tmpl
        text(ch) == RestoreFinal(s.pending[ch], ch \in s.tmpl /\ Escaped(SetSlot(ch)))
        cleared == IF blocked /\ hits # {} THEN DOMAIN s.pending ELSE hits
        rest == [s EXCEPT !.pending = [ch \in DOMAIN @ |-> IF ch \in cleared THEN <<>> ELSE @[ch]],
                          !.tmpl = @ \ cleared]
    IN IF blocked THEN rest
       ELSE [Show(rest, [f \in {SetSlot(ch) : ch \in framed} |->
                               text(CHOOSE ch \in framed : SetSlot(ch) = f)])
                EXCEPT !.stray = @ \cup {text(ch) : ch \in hits \ framed}]

\* restore_channel for every slot of an event: what is put out, what is kept.
Buffered(s, e, f) == s.pending[TextSlot(f)] \o e.texts[f]

KeepLen(s, e, f, final) == IF final THEN 0 ELSE PartialLen(Buffered(s, e, f))

RestoreSlots(s, e, finals) ==
    LET keep(f) == KeepLen(s, e, f, TextSlot(f) \in finals)
        released(f) == SubSeq(Buffered(s, e, f), 1, Len(Buffered(s, e, f)) - keep(f))
        slots == {TextSlot(f) : f \in DOMAIN e.texts}
        held(f) == SubSeq(Buffered(s, e, f), Len(released(f)) + 1, Len(Buffered(s, e, f)))
        writes == [ch \in slots |-> CHOOSE f \in DOMAIN e.texts : TextSlot(f) = ch]
    IN [state |-> [s EXCEPT !.pending = [ch \in DOMAIN @ |->
                        IF ch \in slots THEN held(writes[ch]) ELSE @[ch]]],
        text |-> [f \in DOMAIN e.texts |->
            IF \E ch \in slots : SetSlot(ch) = f
            THEN LET ch == CHOOSE c \in slots : SetSlot(c) = f
                 IN Restored(writes[ch], released(writes[ch]))
            ELSE Restored(f, e.texts[f])]]

\* A slip: templates are not kept.
TemplatesNone(s, e) == s

\* An event whose channels still hold text becomes their template.
Templates(s, e) ==
    [s EXCEPT !.tmpl = @ \cup {TextSlot(f) : f \in {g \in DOMAIN e.texts :
                                                    s.pending[TextSlot(g)] # <<>>}}]

\* The event itself reaches the client.
Deliver(s, e, text) ==
    [Show(s, text) EXCEPT
        !.given = [f \in DOMAIN @ |-> IF f \in DOMAIN e.texts THEN @[f] \o e.texts[f] ELSE @[f]],
        !.closed = @ \cup {f \in Fields : TextSlot(f) \in TerminalPrefixes(e)}]

\* When a field is excused although nothing forced its text apart.  SSE: its
\* last event carries the rest of its held placeholder, or comes without the
\* empty line after it.  NDJSON: its last line ends in half a placeholder, or
\* has no slot at all while text is held.
Excused(s, e, final) ==
    LET held(f) == s.pending[TextSlot(f)] # <<>>
        carries(f) == f \in DOMAIN e.texts /\ e.texts[f] # <<>>
    IN {f \in Fields \ s.closed :
        /\ TextSlot(f) \in TerminalPrefixes(e)
        /\ IF stream.framing = "sse"
           THEN held(f) /\ e.kind # "done" /\ (carries(f) <=> ~final)
           ELSE \/ carries(f) /\ KeepLen(s, e, f, final) > 0
                \/ held(f) /\ DOMAIN e.texts = {}}

Excuse(s, e, final) == [s EXCEPT !.excused = @ \cup Excused(s, e, final)]

\* Before an event that ends channels, and before [DONE], what they hold goes
\* out (flush_on_terminal); the last frame of a stream skips this.
FlushOnTerminal(s, e, final) ==
    IF final /\ e.kind # "done" THEN s ELSE FlushPending(s, TerminalPrefixes(e))

RestoreSseEvent(s, e, final) ==
    LET ends == TerminalPrefixes(e)
        flushed == FlushOnTerminal(s, e, final)
        r == RestoreSlots(flushed, e, IF final THEN Channels ELSE ends)
    IN Deliver(Templates(r.state, e), e, r.text)

RestoreNdjsonLine(s, e, final) ==
    LET r == RestoreSlots(s, e, IF final THEN Channels ELSE {})
        flushed == FlushPending(r.state, TerminalPrefixes(e))
    IN IF DOMAIN e.texts = {} THEN Deliver(s, e, <<>>)
       ELSE Deliver(Templates(flushed, e), e, r.text)

RestoreEvent(s, e, final) ==
    LET x == Excuse(s, e, final)
    IN IF stream.framing = "sse" THEN RestoreSseEvent(x, e, final)
       ELSE RestoreNdjsonLine(x, e, final)

----------------------------------------------------------------------------
(* Framing (StreamState).  The wire carries <<"head", e>>, <<"rest", e>>,  *)
(* cut inside a character of event e, and the line ends.                   *)

LF == <<"LF">>
CR == <<"CR">>

LineEnd == IF stream.crlf THEN <<CR, LF>> ELSE <<LF>>

Encode(e) ==
    <<<<"head", e>>, <<"rest", e>>>>
        \o (IF stream.framing = "sse" THEN LineEnd \o LineEnd ELSE LineEnd)

\* decode_chunk: a character that is not complete waits for the next chunk.
Incomplete(bytes) == bytes # <<>> /\ Last(bytes)[1] = "head"

Decoded(bytes) == IF Incomplete(bytes) THEN Front(bytes) ELSE bytes

Kept(bytes) == IF Incomplete(bytes) THEN <<Last(bytes)>> ELSE <<>>

\* CRLF becomes LF, within one chunk.
Normalised(t) == Picked(t, {i \in 1 .. Len(t) : ~(t[i] = CR /\ i < Len(t) /\ t[i + 1] = LF)})

DelimLen == IF stream.framing = "sse" THEN 2 ELSE 1

Delimiters(t) ==
    {i \in 1 .. Len(t) : \A k \in 0 .. DelimLen - 1 : i + k <= Len(t) /\ t[i + k] = LF}

\* Where the last frame ends, its delimiter included.
FramesEnd(t) ==
    IF Delimiters(t) = {} THEN 0
    ELSE CHOOSE i \in 1 .. Len(t) : /\ i - (DelimLen - 1) \in Delimiters(t)
                                    /\ \A j \in Delimiters(t) : j + (DelimLen - 1) <= i

\* The events of a frame; one whose bytes were damaged is none.
EventsOf(frame) ==
    LET whole == Picked(frame, {i \in 1 .. Len(frame) : /\ frame[i][1] = "head"
                                                       /\ i < Len(frame)
                                                       /\ frame[i + 1][1] = "rest"})
    IN [k \in 1 .. Len(whole) |-> whole[k][2]]

\* The events of a frame, or of several frames, one after the other.
RestoreFrame(s, frame, final) ==
    LET es == EventsOf(frame)
        After[k \in 0 .. Len(es)] ==
            IF k = 0 THEN s ELSE RestoreEvent(After[k - 1], es[k], final)
    IN After[Len(es)]

\* A frame handled as the last one although more of the stream follows: the
\* open fields are excused.
ForcedFrame(s, frame) ==
    RestoreFrame([s EXCEPT !.excused = @ \cup (Fields \ s.closed)], frame, TRUE)

\* A slip: the buffer is cut at its first line end.
CutAtFirst(t) ==
    IF \E i \in 1 .. Len(t) : t[i] = LF
    THEN CHOOSE i \in 1 .. Len(t) : t[i] = LF /\ \A j \in 1 .. i - 1 : t[j] # LF
    ELSE Len(t) + 1

\* A buffer over the limit is cut at its last line end, or taken whole.
CutAt(t) ==
    IF \E i \in 1 .. Len(t) : t[i] = LF
    THEN CHOOSE i \in 1 .. Len(t) : t[i] = LF /\ \A j \in i + 1 .. Len(t) : t[j] # LF
    ELSE Len(t) + 1

\* StreamState::push.  hit says that the command blocker, which reads what
\* push returns, stops the response with it.
Install(s, hit) ==
    /\ pending' = s.pending
    /\ tmpl' = s.tmpl
    /\ given' = s.given
    /\ closed' = s.closed
    /\ blocked' = (blocked \/ hit)
    /\ IF blocked'
       THEN shown' = shown /\ stray' = stray /\ excused' = Fields
       ELSE shown' = s.shown /\ stray' = s.stray /\ excused' = s.excused

Push(n, hit) ==
    LET bytes == utf8Tail \o SubSeq(wire, 1, n)
        text == buf \o Normalised(Decoded(bytes))
        end == FramesEnd(text)
        framed == RestoreFrame(State, SubSeq(text, 1, end), FALSE)
        rest == SubSeq(text, end + 1, Len(text))
        over == Len(rest) > BufMax
        cut == CutAt(rest)
    IN /\ ~ended
       /\ wire' = SubSeq(wire, n + 1, Len(wire))
       /\ utf8Tail' = Kept(bytes)
       /\ buf' = IF over THEN SubSeq(rest, cut + 1, Len(rest)) ELSE rest
       /\ Install(IF over THEN ForcedFrame(framed, SubSeq(rest, 1, cut - 1)) ELSE framed, hit)
       /\ UNCHANGED <<upstream, ended>>

\* The end of the upstream body, or a failure to read on.  Bytes of an
\* incomplete character are damaged; what is buffered and held goes out.
Finish ==
    LET frame == buf \o [i \in 1 .. Len(utf8Tail) |-> <<"damaged">>]
        last == IF Len(EventsOf(frame)) > 1 THEN ForcedFrame(State, frame)
                ELSE RestoreFrame(State, frame, TRUE)
        s == FlushPending(last, Channels)
    IN /\ ~ended
       /\ ended' = TRUE
       /\ wire' = <<>>
       /\ utf8Tail' = <<>>
       /\ buf' = <<>>
       /\ Install([s EXCEPT !.closed = Fields], FALSE)
       /\ UNCHANGED upstream

----------------------------------------------------------------------------
(* Upstream.  An event carries the next pieces of some fields; a protocol  *)
(* with one delta per event carries one field.  The next event is sent     *)
(* once the last one has begun to arrive; its line ends may still be out.  *)

Remaining(f) == Len(stream.script[f]) - sent[f]

Takes ==
    {take \in [Fields -> UNION {0 .. Remaining(f) : f \in Fields}] :
        \A f \in Fields : take[f] <= Remaining(f) /\ (f \in stopped => take[f] = 0)}

Taken(take) == {f \in Fields : take[f] > 0}

Proto == (CHOOSE f \in Fields : TRUE).proto

\* Slots an event has: those it takes text for, and possibly empty ones.
Slots(take, bare) ==
    IF bare THEN {{}}
    ELSE {fs \in SUBSET Fields : Taken(take) \subseteq fs}

Emit(kind, of, take, fs) ==
    LET e == [kind |-> kind, of |-> of,
              texts |-> [f \in fs |-> SubSeq(stream.script[f], sent[f] + 1, sent[f] + take[f])]]
    IN /\ ~ended
       /\ events < MaxEvents
       /\ \A i \in 1 .. Len(wire) : wire[i][1] # "head"
       /\ events' = events + 1
       /\ wire' = wire \o Encode(e)
       /\ sent' = [f \in Fields |-> sent[f] + take[f]]
       /\ stopped' = stopped \cup {f \in Fields : TextSlot(f) \in TerminalPrefixes(e)}
       /\ UNCHANGED <<stream, received, session, client, blocked, ended>>

AField == CHOOSE f \in Fields : TRUE

SendDelta ==
    \E take \in Takes :
        /\ Taken(take) # {}
        /\ Proto \in {"anthropic", "responses"} => Cardinality(Taken(take)) = 1
        /\ Emit(IF stream.blank THEN "blank" ELSE "delta", AField, take, Taken(take))

\* A finish_reason comes with text or without; content_block_stop and the
\* .done events of the Responses API have no text slots.
SendStop ==
    /\ Proto # "ollama"
    /\ \E f \in Fields \ stopped, take \in Takes :
        /\ Proto # "chat" => Taken(take) = {}
        /\ \E fs \in Slots(take, Proto # "chat") : Emit("stop", f, take, fs)

\* message_stop, response.completed; the done line of Ollama with its text.
SendAll ==
    /\ Proto # "chat"
    /\ stopped # Fields
    /\ \E take \in Takes :
        /\ Proto # "ollama" => Taken(take) = {}
        /\ \E fs \in Slots(take, Proto # "ollama") : Emit("all", AField, take, fs)

\* data: [DONE]
SendDone ==
    /\ Proto = "chat"
    /\ \E take \in Takes : Taken(take) = {} /\ Emit("done", AField, take, {})

Receive == \E n \in 1 .. Len(wire), hit \in {FALSE, CanBlock} : Push(n, hit)

Init ==
    /\ stream \in Streams
    /\ sent = [f \in Fields |-> 0]
    /\ stopped = {}
    /\ events = 0
    /\ wire = <<>>
    /\ utf8Tail = <<>>
    /\ buf = <<>>
    /\ pending = [ch \in Channels |-> <<>>]
    /\ tmpl = {}
    /\ given = [f \in Fields |-> <<>>]
    /\ shown = [f \in Fields |-> <<>>]
    /\ stray = {}
    /\ closed = {}
    /\ excused = {}
    /\ blocked = FALSE
    /\ ended = FALSE

Next == SendDelta \/ SendStop \/ SendAll \/ SendDone \/ Receive \/ Finish

Spec == Init /\ [][Next]_vars

----------------------------------------------------------------------------
(* Properties.                                                             *)

Halves == {<<>>, <<"p1">>, <<"p1", "p2">>, <<"b1">>}

\* The variables have their types, and only half placeholders are held.
TypeOK ==
    /\ stream \in Streams
    /\ sent \in [Fields -> Nat] /\ \A f \in Fields : sent[f] <= Len(stream.script[f])
    /\ events \in 0 .. MaxEvents
    /\ pending \in [Channels -> Halves]
    /\ tmpl \subseteq Channels
    /\ given \in [Fields -> Seq(Pieces)]
    /\ shown \in [Fields -> Seq(Pieces \cup Values)]
    /\ stray \subseteq Seq(Pieces \cup Values)
    /\ stopped \cup closed \cup excused \subseteq Fields
    /\ blocked \in BOOLEAN /\ ended \in BOOLEAN

\* The restorer implements what RestoredText promises: field by field the
\* client reads a growing prefix of the restored answer, never half a
\* placeholder and never the text of another field, and has read all of it
\* when it sees the field's end (restore_channel, flush_on_terminal, set_slot).
Promise == INSTANCE RestoredText WITH
    given <- given, shown <- shown, closed <- closed, excused <- excused, Restored <- Restored

KeepsPromise == Promise!Spec

\* Text that is held can always be put out in its own field: between two events
\* every channel that holds text has a template to model the event on; and no
\* text leaves in a frame of no field (wrap_bare_flush) unless one is excused.
NothingStray ==
    /\ \A ch \in Channels : pending[ch] # <<>> => ch \in tmpl
    /\ stray # {} => excused # {}

\* The buffer stays within its limit (SSE_BUF_MAX) however the stream is cut
\* and whatever delimiters are torn, as long as no single line is longer than
\* the limit (push cuts at the last line end and keeps what follows it); over
\* LF at most one event waits in it.
BufferBounded ==
    /\ Len(buf) <= BufMax
    /\ ~stream.crlf => Len(EventsOf(buf)) <= 1
=============================================================================
