------------------------------ MODULE CmdBlock ------------------------------
(***************************************************************************)
(* The command blocker on the way of one response (cmdblock/mod.rs), fed   *)
(* by stream_response chunk by chunk, with the last HoldMax bytes held     *)
(* back, or by process_tree string by string, each of them final.          *)
(*                                                                         *)
(* A text is a sequence of bytes.  "w1" "w2" are the bytes of one          *)
(* character; a command is a short sequence, a rule a set of commands, and *)
(* Notice the one unit that stands for the text a command is replaced by.  *)
(***************************************************************************)
EXTENDS Integers, Sequences, FiniteSets, FiniteSetsExt, SequencesExt

CONSTANTS
    Patterns,       \* the rules in order: [id, commands]
    Settings,       \* [mode, channels, disabled, allow] of the engine
    Scripts,        \* what an answer may say
    HoldMax,        \* CMD_HOLD_MAX
    ScanMax         \* CMD_SCAN_MAX

Notice == "notice"

Bytes == STRING \ {Notice}

Rules == 1 .. Len(Patterns)

ASSUME CmdAssumption ==
    /\ HoldMax \in Nat /\ ScanMax \in Nat
    /\ Patterns # <<>>                 \* an engine without rules passes all
    /\ Len(Patterns) \in Nat
    /\ \A k \in Rules : \A c \in Patterns[k].commands : c \in Seq(Bytes) /\ c # <<>>
    /\ \A s \in Settings : s.mode \in {"observe", "rewrite", "block"}
    /\ \A t \in Scripts : t \in Seq(Bytes)

\* Texts are strings: the second byte of a character follows its first.
ASSUME CharAssumption ==
    \A t \in Scripts : \A i \in 1 .. Len(t) : t[i] = "w2" => i > 1 /\ t[i - 1] = "w1"

VARIABLES
    engine,         \* the engine's settings; a response keeps the engine it began with
    path,           \* "stream" or "tree"
    script,         \* the answer
    fed,            \* how much of it was handed to the blocker
    cmd_pend,       \* held back: cmd_pend["c0.content"], the only channel streams use
    cmd_blocked,
    cmd_hits,       \* [id, snippet, kind, blocked]
    cmd_reason,     \* cmd_reason_snippets
    out,            \* put out to the client
    seams,          \* where the texts put out by single calls meet in out
    ended,          \* the response is over
    panicked        \* the task died slicing a character

answer == <<engine, path, script>>
session == <<cmd_pend, cmd_blocked, cmd_hits, cmd_reason>>
vars == <<answer, fed, session, out, seams, ended, panicked>>

Fed == SubSeq(script, 1, fed)

----------------------------------------------------------------------------
(* Finding and replacing commands.                                         *)

\* The channels texts are handed over under, and their kinds (channel_kind).
ChannelKind == [content |-> "text", arguments |-> "tool", thinking |-> "reason"]

Boundary(t, n) == n >= Len(t) \/ t[n + 1] # "w2"

Occurs(t, i, c) == i + Len(c) - 1 <= Len(t) /\ SubSeq(t, i, i + Len(c) - 1) = c

\* Where the rule matches in the text: <<position, command>>.
Matches(t, rule) == {ic \in (1 .. Len(t)) \X rule.commands : Occurs(t, ic[1], ic[2])}

FirstMatch(t, rule) ==
    (CHOOSE ic \in Matches(t, rule) : \A jd \in Matches(t, rule) : ic[1] <= jd[1])[2]

Window(t) == SubSeq(t, 1, IF Len(t) > ScanMax THEN ScanMax ELSE Len(t))

\* &text[..CMD_SCAN_MAX] dies when it cuts a character.
FindPanics(t) == Len(t) > ScanMax /\ ~Boundary(t, ScanMax)

Enabled == {k \in Rules : Patterns[k].id \notin engine.disabled}

\* The enabled rules whose first match is not allowed.
Hitting(t) ==
    {k \in Enabled : /\ Matches(Window(t), Patterns[k]) # {}
                     /\ FirstMatch(Window(t), Patterns[k]) \notin engine.allow}

HitOf(t, k) == [id |-> Patterns[k].id, snippet |-> FirstMatch(Window(t), Patterns[k])]

\* A slip: only the first enabled rule is tried.
FindFirstOnly(t) == {HitOf(t, k) : k \in {h \in Hitting(t) : \A j \in Enabled : h <= j}}

\* find: what the first of them found, as a set.
Find(t) == {HitOf(t, k) : k \in {h \in Hitting(t) : \A j \in Hitting(t) : h <= j}}

\* One position of the search: s.text is what was written, s.next where the
\* search goes on.
ReplaceNext(t, rule, s, i) ==
    LET here == {c \in rule.commands : Occurs(t, i, c)}
    IN IF i < s.next THEN s
       ELSE IF here # {}
            THEN [text |-> Append(s.text, Notice), next |-> i + Len(CHOOSE c \in here : TRUE)]
            ELSE [text |-> Append(s.text, t[i]), next |-> i + 1]

\* replace_all_literal: the matches of one rule, from the left.
ReplaceLiteral(t, rule) ==
    LET After[i \in 0 .. Len(t)] ==
            IF i = 0 THEN [text |-> <<>>, next |-> 1] ELSE ReplaceNext(t, rule, After[i - 1], i)
    IN After[Len(t)].text

\* rewrite: every match of every enabled rule, allowed ones too.
Rewrite(t) ==
    LET After[k \in 0 .. Len(Patterns)] ==
            IF k = 0 THEN t
            ELSE IF k \in Enabled THEN ReplaceLiteral(After[k - 1], Patterns[k])
            ELSE After[k - 1]
    IN After[Len(Patterns)]

\* The commands of the request, which are not acted on when the answer
\* repeats them.  remember_request_window, which would fill it, has no caller.
RequestSnippets == {}

IsEcho(hit) == hit.snippet \in RequestSnippets

\* What is acted on in a text.
Acted(t) == {h \in Find(t) : ~IsEcho(h)}

----------------------------------------------------------------------------
(* process: one text of one channel.                                       *)

\* A slip: a known hit keeps its verdict, a new one is never marked blocked.
RecordedNoUpgrade(hit, kind, isBlock) ==
    cmd_hits \cup {[id |-> hit.id, snippet |-> hit.snippet, kind |-> kind, blocked |-> FALSE]}

Recorded(hit, kind, isBlock) ==
    LET same == {h \in cmd_hits : h.id = hit.id /\ h.snippet = hit.snippet /\ h.kind = kind}
        new == [id |-> hit.id, snippet |-> hit.snippet, kind |-> kind, blocked |-> isBlock]
    IN IF same = {} THEN cmd_hits \cup {new}
       ELSE (cmd_hits \ same) \cup {[h EXCEPT !.blocked = @ \/ isBlock] : h \in same}

RecordedOf(hits, kind, isBlock) ==
    IF hits = {} THEN cmd_hits ELSE Recorded(CHOOSE h \in hits : TRUE, kind, isBlock)

PutOut(t) ==
    /\ out' = out \o t
    /\ seams' = IF t = <<>> THEN seams ELSE seams \cup {Len(out)}

Pass(t) == PutOut(t) /\ UNCHANGED <<session, panicked>>

Panic == panicked' = TRUE /\ UNCHANGED <<session, out, seams>>

\* A slip: hits in the reasoning are recorded like others.
ProcessReasonRecords(t) ==
    IF FindPanics(t) THEN Panic
    ELSE /\ cmd_hits' = RecordedOf(Find(t), "reason", FALSE)
         /\ PutOut(t)
         /\ UNCHANGED <<cmd_pend, cmd_blocked, cmd_reason, panicked>>

ProcessReason(t) ==
    IF FindPanics(t) THEN Panic
    ELSE /\ cmd_reason' = cmd_reason \cup {h.snippet : h \in Find(t)}
         /\ PutOut(t)
         /\ UNCHANGED <<cmd_pend, cmd_blocked, cmd_hits, panicked>>

ProcessObserve(t, kind) ==
    IF FindPanics(t) THEN Panic
    ELSE /\ cmd_hits' = RecordedOf(Acted(t), kind, FALSE)
         /\ PutOut(t)
         /\ UNCHANGED <<cmd_pend, cmd_blocked, cmd_reason, panicked>>

\* A slip: the cut is not moved back to the start of a character.
SplitAtByte(t) == Len(t) - HoldMax

\* The length of what is judged now; the rest of a text that goes on is held.
SplitAt(t) == CHOOSE n \in 0 .. Len(t) - HoldMax :
                  /\ Boundary(t, n)
                  /\ \A k \in n + 1 .. Len(t) - HoldMax : ~Boundary(t, k)

Judged(t, final) == IF final THEN t
                    ELSE IF Len(t) > HoldMax THEN SubSeq(t, 1, SplitAt(t)) ELSE <<>>

\* A slip: the hold begins one byte late.
HeldLate(t, final) == SubSeq(t, Len(Judged(t, final)) + 2, Len(t))

Held(t, final) == SubSeq(t, Len(Judged(t, final)) + 1, Len(t))

Judge(t, held, kind) ==
    LET block == Acted(t) # {} /\ engine.mode = "block"
    IN /\ cmd_pend' = held
       /\ cmd_hits' = RecordedOf(Acted(t), kind, block)
       /\ cmd_blocked' = (cmd_blocked \/ block)
       /\ PutOut(IF block THEN <<>> ELSE IF Acted(t) = {} THEN t ELSE Rewrite(t))
       /\ UNCHANGED <<cmd_reason, panicked>>

ProcessAct(t, kind, final) ==
    LET combined == cmd_pend \o t
        judged == Judged(combined, final)
    IN IF FindPanics(judged)
       THEN /\ cmd_pend' = <<>>
            /\ panicked' = TRUE
            /\ UNCHANGED <<cmd_blocked, cmd_hits, cmd_reason, out, seams>>
       ELSE Judge(judged, Held(combined, final), kind)

Process(t, channel, final) ==
    LET kind == ChannelKind[channel]
        acts == kind # "reason" /\ kind \in engine.channels
    IN \/ kind = "reason" /\ ProcessReason(t)
       \/ kind # "reason" /\ kind \notin engine.channels /\ Pass(t)
       \/ acts /\ cmd_blocked /\ Pass(<<>>)
       \/ acts /\ ~cmd_blocked /\ engine.mode = "observe" /\ ProcessObserve(t, kind)
       \/ acts /\ ~cmd_blocked /\ engine.mode # "observe" /\ ProcessAct(t, kind, final)

----------------------------------------------------------------------------
(* The response.                                                           *)

Running == ~ended /\ ~panicked

\* The next n bytes of the answer.
Upcoming(n) == SubSeq(script, fed + 1, fed + n)

\* The restorer puts out whole characters, a JSON string holds whole ones.
Lengths == {n \in 0 .. Len(script) - fed : Boundary(script, fed + n)}

\* stream_response: the restorer's output for one chunk.  Nothing to hand
\* over, or a block before, changes nothing.
StreamChunk ==
    /\ Running
    /\ path = "stream"
    /\ \E n \in Lengths \ {0} :
        /\ fed' = fed + n
        /\ IF cmd_blocked THEN UNCHANGED <<session, out, seams, panicked>>
           ELSE Process(Upcoming(n), "content", FALSE)
    /\ UNCHANGED <<answer, ended>>

\* The end of the stream: what the restorer still held is handed over as
\* final; when it held nothing, the blocker is not called.
StreamEnd ==
    /\ Running
    /\ path = "stream"
    /\ LET n == Len(script) - fed
       IN /\ fed' = fed + n
          /\ IF n = 0 \/ cmd_blocked THEN UNCHANGED <<session, out, seams, panicked>>
             ELSE Process(Upcoming(n), "content", TRUE)
    /\ ended' = TRUE
    /\ UNCHANGED answer

\* walk_tree: the next string of a whole JSON answer, under some key.
TreeString ==
    /\ Running
    /\ path = "tree"
    /\ \E n \in Lengths \ {0}, key \in DOMAIN ChannelKind :
        /\ fed' = fed + n
        /\ Process(Upcoming(n), key, TRUE)
    /\ UNCHANGED <<answer, ended>>

TreeEnd ==
    /\ Running
    /\ path = "tree"
    /\ fed = Len(script)
    /\ ended' = TRUE
    /\ UNCHANGED <<answer, fed, session, out, seams, panicked>>

Init ==
    /\ engine \in Settings
    /\ path \in {"stream", "tree"}
    /\ script \in Scripts
    /\ fed = 0
    /\ cmd_pend = <<>>
    /\ cmd_blocked = FALSE
    /\ cmd_hits = {}
    /\ cmd_reason = {}
    /\ out = <<>>
    /\ seams = {}
    /\ ended = FALSE
    /\ panicked = FALSE

Next == StreamChunk \/ StreamEnd \/ TreeString \/ TreeEnd

Spec == Init /\ [][Next]_vars

----------------------------------------------------------------------------
(* Properties.                                                             *)

Commands == UNION {Patterns[k].commands : k \in Rules}

\* The variables have their types.
TypeOK ==
    /\ engine \in Settings /\ path \in {"stream", "tree"} /\ script \in Scripts
    /\ fed \in 0 .. Len(script)
    /\ cmd_pend \in Seq(Bytes)
    /\ cmd_hits \subseteq [id : {Patterns[k].id : k \in Rules}, snippet : Commands,
                          kind : engine.channels, blocked : BOOLEAN]
    /\ cmd_reason \subseteq Commands
    /\ cmd_blocked \in BOOLEAN /\ ended \in BOOLEAN /\ panicked \in BOOLEAN

\* o is f with some commands replaced by the notice: Reach[i] has the lengths of
\* f that the first i units of o can stand for.
RewritingOf(o, f) ==
    LET Reach[i \in 0 .. Len(o)] ==
            IF i = 0 THEN {0}
            ELSE {j \in 0 .. Len(f) :
                    \/ j > 0 /\ o[i] = f[j] /\ j - 1 \in Reach[i - 1]
                    \/ /\ o[i] = Notice
                       /\ \E c \in Commands : /\ Len(c) <= j /\ j - Len(c) \in Reach[i - 1]
                                              /\ Occurs(f, j - Len(c) + 1, c)}
    IN Len(f) \in Reach[Len(o)]

\* However the answer is cut, what was put out and what is held are together
\* what came in, in order, nothing twice and nothing missing, but for commands
\* replaced by the notice (the hold of process; walk_tree).
NothingMissing ==
    ~panicked /\ ~cmd_blocked => RewritingOf(out \o cmd_pend, Fed)

\* Where nothing was rewritten the client reads the answer itself, byte by byte:
\* what was put out is a beginning of it, and all that came in but for the hold.
\* A block leaves a stream where it was; a JSON answer goes on with the texts
\* the engine does not act on (process).
Unaltered ==
    engine.mode # "rewrite" \/ cmd_hits = {} =>
        /\ path = "stream" \/ ~cmd_blocked => \E n \in 0 .. fed : out = SubSeq(script, 1, n)
        /\ ~panicked /\ ~cmd_blocked => out \o cmd_pend = Fed

\* The hold is bounded by HoldMax and the rest of the character it begins in,
\* is whole characters, and is there only where text is acted on: neither an
\* observing engine nor a JSON answer holds anything back (process).
HoldBounded ==
    /\ Len(cmd_pend) <= HoldMax + 1
    /\ cmd_pend # <<>> => /\ cmd_pend[1] # "w2"
                         /\ path = "stream"
                         /\ engine.mode # "observe" /\ "text" \in engine.channels

SegmentStart(i) == Max({s \in seams : s < i})

\* A command put out although it is to be acted on was never judged in one
\* piece: it lies across a seam, where the hold ended, or beyond the scan
\* window.  An allow list lets more through: a rule whose first match is
\* allowed does not look for a second (process, find, rewrite).
OnlySeamsLetThrough ==
    /\ seams \subseteq 0 .. Len(out)
    /\ (path = "stream" /\ engine.mode # "observe" /\ "text" \in engine.channels /\ engine.allow = {}) =>
        \A k \in Enabled : \A ic \in Matches(out, Patterns[k]) :
            LET i == ic[1]
                last == ic[1] + Len(ic[2]) - 1
            IN \/ \E s \in seams : s \in i .. last - 1
               \/ last - SegmentStart(i) > ScanMax

\* The record tells what was done: a response is blocked iff a blocked hit is
\* recorded, a notice was put out only where a hit is recorded, and every
\* recorded hit is a command of the answer (record, with its upgrade).
RecordTellsAll ==
    /\ cmd_blocked <=> \E h \in cmd_hits : h.blocked
    /\ Contains(out, Notice) => \E h \in cmd_hits : ~h.blocked
    /\ \A h \in cmd_hits : \E i \in 1 .. fed : Occurs(Fed, i, h.snippet)

\* "Put out the hold at the end of the stream" (flush): an answer that was not
\* blocked is complete when the response is over.
HoldFlushed == (ended /\ ~panicked /\ ~cmd_blocked) => cmd_pend = <<>>
=============================================================================
