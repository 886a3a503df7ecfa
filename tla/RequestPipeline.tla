-------------------------- MODULE RequestPipeline --------------------------
(***************************************************************************)
(* One HTTP request through the gateway: the decision matrix of handler in *)
(* src/src/server/proxy.rs, the masking task, the exchange with the        *)
(* upstream (forward_inner) and the ways its answer returns to the client  *)
(* (src/src/server/response.rs), together with the session table entry the *)
(* request lives on, the sweep of that table and the console's masking     *)
(* demonstration, which borrows a session of the same table.               *)
(*                                                                         *)
(* A step ends where the code awaits: there other requests run, the        *)
(* configuration may change, and the client may disconnect, which drops    *)
(* the handler's future.  The masking task runs on a blocking thread and   *)
(* is not cancelled with the handler.                                      *)
(*                                                                         *)
(* Payloads are reduced to their shape; permitted is a history variable:   *)
(* the configuration allowed this body to pass unmasked at some moment     *)
(* since the request arrived.                                              *)
(***************************************************************************)
EXTENDS Naturals

CONSTANTS
  Requests,      \* client requests
  Demos,         \* calls of the console's demo_mask
  Disconnects,   \* TRUE: clients may go away in the middle of a request
  Expiry,        \* TRUE: a session may come to be older than session_ttl
  SavedConfigs,  \* the configurations the console may save
  MaxCalls,      \* bound: console calls, configurations and demonstrations
  None           \* absence of a value

Configs == [target : BOOLEAN, enabled : BOOLEAN, paused : BOOLEAN, fail_closed : BOOLEAN]

\* A session, as far as its life is concerned.
Session == [inflight : BOOLEAN, expired : BOOLEAN]

ASSUME PipelineAssumption ==
  /\ Disconnects \in BOOLEAN
  /\ Expiry \in BOOLEAN
  /\ MaxCalls \in Nat
  /\ SavedConfigs \subseteq Configs
  /\ "console-demo" \notin Requests
  /\ None \notin Session

VARIABLES
  conf,       \* the configuration: target set, masking enabled, paused, fail_closed
  phase,      \* per request: where its handler is
  shape,      \* per request: what the client sent
  snap,       \* per request: mask.enabled in the snapshot taken on arrival
  strict,     \* per request: fail_closed as read after the body arrived
  task,       \* per request: the masking task on its blocking thread
  sess,       \* per request: the handler holds a RestoreSession
  sent,       \* per request: the body that went upstream
  reply,      \* per request: type of the compressed response being collected
  answer,     \* per request: what the client got
  table,      \* session table: per id, is it in flight, is it past session_ttl
  demo,       \* per demo call: where it is, and whether its text came back
  calls,      \* console calls so far
  permitted   \* history, see above

handlers == <<phase, snap, strict, task, sess, sent, reply, answer>>
vars == <<conf, handlers, shape, table, demo, calls, permitted>>

\* What the client sent, in the order the handler tells it apart.
Shapes == {"oversize", "readonly", "non_json", "invalid_json", "unknown", "llm"}

\* The content types of a response as forward_inner sorts them.
Types == {"stream", "whole", "binary"}

\* Its content-encoding: none, one that decode can undo, another.
Encodings == {"identity", "decodable", "opaque"}

Phases == {"new", "body", "extract", "mask", "send", "wait", "unpack", "gather",
           "drain", "unpolled", "stream", "done", "gone", "dropped"}

\* What the client gets.
Answers == {"none", "error", "raw", "restored", "unrestored", "blocked"}

\* A slip: two requests with the same text share a session id.
SessionIdNoNonce(r) == CHOOSE x \in Requests : TRUE

\* make_session_id: the digest of the conversation plus a nonce per request.
SessionId(r) == r

Sids == Requests \cup {"console-demo"}

TypeOK ==
  /\ conf \in Configs
  /\ phase \in [Requests -> Phases]
  /\ shape \in [Requests -> Shapes \cup {None}]
  /\ snap \in [Requests -> BOOLEAN]
  /\ strict \in [Requests -> BOOLEAN]
  /\ task \in [Requests -> {"none", "running", "ok", "failed"}]
  /\ sess \in [Requests -> BOOLEAN]
  /\ sent \in [Requests -> {"nothing", "raw", "masked"}]
  /\ reply \in [Requests -> Types \cup {None}]
  /\ answer \in [Requests -> Answers]
  /\ table \in [Sids -> Session \cup {None}]
  /\ demo \in [Demos -> {"new", "open", "restored", "unrestored", "closed"}]
  /\ calls \in 0..MaxCalls
  /\ permitted \in [Requests -> BOOLEAN]

Init ==
  /\ conf = [target |-> TRUE, enabled |-> TRUE, paused |-> FALSE, fail_closed |-> TRUE]
  /\ phase = [r \in Requests |-> "new"]
  /\ shape = [r \in Requests |-> None]
  /\ snap = [r \in Requests |-> FALSE]
  /\ strict = [r \in Requests |-> FALSE]
  /\ task = [r \in Requests |-> "none"]
  /\ sess = [r \in Requests |-> FALSE]
  /\ sent = [r \in Requests |-> "nothing"]
  /\ reply = [r \in Requests |-> None]
  /\ answer = [r \in Requests |-> "none"]
  /\ table = [x \in Sids |-> None]
  /\ demo = [d \in Demos |-> "new"]
  /\ calls = 0
  /\ permitted = [r \in Requests |-> FALSE]

-----------------------------------------------------------------------------
(* Building blocks.                                                        *)

Live(x) == table[x] # None

\* new_session, with the flag the handler sets at once.
Open(x, flag) == table' = [table EXCEPT ![x] = [inflight |-> flag, expired |-> FALSE]]

Goto(r, p) == phase' = [phase EXCEPT ![r] = p]

InProgress(r) == phase[r] \notin {"new", "done", "gone", "dropped"}

\* A slip: the answered request is left in a phase nothing handles.
AnswerOpenEnded(r, a) ==
  /\ Goto(r, "answered")
  /\ answer' = [answer EXCEPT ![r] = a]

\* The handler returns an answer to the client.
Answer(r, a) ==
  /\ Goto(r, "done")
  /\ answer' = [answer EXCEPT ![r] = a]

\* drop_session
Drop(x) == table' = [table EXCEPT ![x] = None]

\* A slip: the session is not released.
ReleaseForgotten(r) == UNCHANGED table

\* The release closure of forward_inner.
Release(r) == IF sess[r] THEN Drop(SessionId(r)) ELSE UNCHANGED table

\* restore_final and its relatives leave text alone when the session is gone.
RestoreResult(x) == IF Live(x) THEN "restored" ELSE "unrestored"

\* Configuration c lets a body of shape k through unmasked.
Permits(c, k) == c.paused \/ ~c.enabled \/ (~c.fail_closed /\ k # "llm")

-----------------------------------------------------------------------------
(* The handler.                                                            *)

\* Entry: the configuration is snapshotted; without a target the answer is 502.
Arrive(r, k) ==
  /\ phase[r] = "new"
  /\ shape' = [shape EXCEPT ![r] = k]
  /\ permitted' = [permitted EXCEPT ![r] = Permits(conf, k)]
  /\ snap' = [snap EXCEPT ![r] = conf.enabled]
  /\ IF conf.target THEN Goto(r, "body") /\ UNCHANGED answer ELSE Answer(r, "error")
  /\ UNCHANGED <<conf, strict, task, sess, sent, reply, table, demo, calls>>

\* The body has arrived: 413 when it is too large, then the read-only methods,
\* then a pause (live) or disabled masking (snapshot), then non-JSON bodies.
ReadBody(r) ==
  /\ phase[r] = "body"
  /\ strict' = [strict EXCEPT ![r] = conf.fail_closed]
  /\ LET k   == shape[r]
         raw == k = "readonly" \/ conf.paused \/ ~snap[r]
     IN IF k = "oversize" \/ (~raw /\ k = "non_json" /\ conf.fail_closed)
          THEN Answer(r, "error")
          ELSE /\ Goto(r, IF raw \/ k = "non_json" THEN "send" ELSE "extract")
               /\ UNCHANGED answer
  /\ UNCHANGED <<conf, shape, snap, task, sess, sent, reply, table, demo, calls, permitted>>

Unparsable(r) == shape[r] = "invalid_json"

\* A slip: an unknown shape passes whatever fail_closed says.
UnknownPassesAlways(r) == shape[r] = "unknown"

\* A JSON body of no known protocol is let through only without fail_closed.
UnknownPasses(r) == shape[r] = "unknown" /\ ~strict[r]

\* The payload scan is over: parse, detect the protocol, open the session and
\* start the masking task.
Parse(r) ==
  /\ phase[r] = "extract"
  /\ \/ /\ Unparsable(r) /\ strict[r]
        /\ Answer(r, "error")
        /\ UNCHANGED <<table, task>>
     \/ /\ (Unparsable(r) /\ ~strict[r]) \/ UnknownPasses(r)
        /\ Goto(r, "send")
        /\ UNCHANGED <<table, task, answer>>
     \/ /\ ~Unparsable(r) /\ ~UnknownPasses(r)
        /\ Goto(r, "mask")
        /\ Open(SessionId(r), TRUE)
        /\ task' = [task EXCEPT ![r] = "running"]
        /\ UNCHANGED answer
  /\ UNCHANGED <<conf, shape, snap, strict, sess, sent, reply, demo, calls, permitted>>

\* The blocking thread finishes: mask_body succeeded, or failed or panicked.
MaskTask(r) ==
  /\ task[r] = "running"
  /\ \E res \in {"ok", "failed"} : task' = [task EXCEPT ![r] = res]
  /\ UNCHANGED <<conf, phase, shape, snap, strict, sess, sent, reply, answer, table, demo,
                 calls, permitted>>

\* The handler takes the result: on failure the session is dropped and the
\* request blocked; otherwise its mappings are queued and it goes upstream.
MaskReturned(r) ==
  /\ phase[r] = "mask"
  /\ task[r] \in {"ok", "failed"}
  /\ IF task[r] = "failed"
       THEN /\ Drop(SessionId(r))
            /\ Answer(r, "error")
            /\ UNCHANGED sess
       ELSE /\ sess' = [sess EXCEPT ![r] = TRUE]
            /\ Goto(r, "send")
            /\ UNCHANGED <<table, answer>>
  /\ UNCHANGED <<conf, shape, snap, strict, task, sent, reply, demo, calls, permitted>>

\* forward_inner: build_request may fail; otherwise the body leaves.
Send(r) ==
  /\ phase[r] = "send"
  /\ \/ /\ Release(r)
        /\ Answer(r, "error")
        /\ UNCHANGED sent
     \/ /\ sent' = [sent EXCEPT ![r] = IF sess[r] THEN "masked" ELSE "raw"]
        /\ Goto(r, "wait")
        /\ UNCHANGED <<table, answer>>
  /\ UNCHANGED <<conf, shape, snap, strict, task, sess, reply, demo, calls, permitted>>

\* A slip: a failed connection is not answered.
UpstreamNeverFails(r) ==
  /\ phase[r] = "wait"
  /\ FALSE
  /\ UNCHANGED vars

\* send: refused, broken, or no response head within the time limit.
UpstreamFails(r) ==
  /\ phase[r] = "wait"
  /\ Release(r)
  /\ Answer(r, "error")
  /\ UNCHANGED <<conf, shape, snap, strict, task, sess, sent, reply, demo, calls, permitted>>

Restorable(ct) == ct # "binary"

\* The response head is here: choose how the body goes back.
Reply(r) ==
  /\ phase[r] = "wait"
  /\ \E ct \in Types, enc \in Encodings :
       \/ /\ ~sess[r]
          /\ Goto(r, "drain")
          /\ UNCHANGED <<table, sess, reply>>
       \/ /\ sess[r] /\ enc = "decodable"
          /\ Goto(r, "unpack")
          /\ reply' = [reply EXCEPT ![r] = ct]
          /\ UNCHANGED <<table, sess>>
       \/ /\ sess[r] /\ enc = "identity" /\ Restorable(ct)
          /\ Goto(r, IF ct = "stream" THEN "unpolled" ELSE "gather")
          /\ UNCHANGED <<table, sess, reply>>
       \/ /\ sess[r] /\ enc # "decodable" /\ (enc = "opaque" \/ ~Restorable(ct))
          /\ Drop(SessionId(r))
          /\ sess' = [sess EXCEPT ![r] = FALSE]
          /\ Goto(r, "drain")
          /\ UNCHANGED reply
  /\ UNCHANGED <<conf, shape, snap, strict, task, sent, answer, demo, calls, permitted>>

\* The compressed body is complete; decoded, it is restored as a whole, and
\* passed on as it is when decoding fails or its type is not restorable.
Unpacked(r) ==
  /\ phase[r] = "unpack"
  /\ Drop(SessionId(r))
  /\ \/ Answer(r, "raw")
     \/ /\ Restorable(reply[r])
        /\ \E a \in {"blocked", RestoreResult(SessionId(r))} : Answer(r, a)
  /\ UNCHANGED <<conf, shape, snap, strict, task, sess, sent, reply, demo, calls, permitted>>

\* process_and_emit on a complete body; a dangerous command blocks it.
Gathered(r) ==
  /\ phase[r] = "gather"
  /\ Drop(SessionId(r))
  /\ \E a \in {"blocked", RestoreResult(SessionId(r))} : Answer(r, a)
  /\ UNCHANGED <<conf, shape, snap, strict, task, sess, sent, reply, demo, calls, permitted>>

\* The pass-through path has the complete body.
Drained(r) ==
  /\ phase[r] = "drain"
  /\ Answer(r, "raw")
  /\ UNCHANGED <<conf, shape, snap, strict, task, sess, sent, reply, table, demo, calls,
                 permitted>>

\* aggregate_stream fails: the upstream breaks off, or sends too much.
ReadFails(r) ==
  /\ phase[r] \in {"unpack", "gather", "drain"}
  /\ Release(r)
  /\ Answer(r, "error")
  /\ UNCHANGED <<conf, shape, snap, strict, task, sess, sent, reply, demo, calls, permitted>>

\* The server polls the streaming body: the generator runs, its guard exists.
FirstPoll(r) ==
  /\ phase[r] = "unpolled"
  /\ Goto(r, "stream")
  /\ UNCHANGED <<conf, shape, snap, strict, task, sess, sent, reply, answer, table, demo,
                 calls, permitted>>

\* One frame goes through restore and command check to the client.
StreamChunk(r) ==
  /\ phase[r] = "stream"
  /\ answer[r] \in {"none", "restored"}
  /\ \E a \in {"blocked", RestoreResult(SessionId(r))} : answer' = [answer EXCEPT ![r] = a]
  /\ UNCHANGED <<conf, phase, shape, snap, strict, task, sess, sent, reply, table, demo,
                 calls, permitted>>

\* The upstream ends the stream or breaks it off: the rest is flushed, the
\* RESTORE event is emitted and the guard drops the session.
StreamEnd(r) ==
  /\ phase[r] = "stream"
  /\ Drop(SessionId(r))
  /\ Answer(r, IF answer[r] = "blocked" THEN "blocked" ELSE RestoreResult(SessionId(r)))
  /\ UNCHANGED <<conf, shape, snap, strict, task, sess, sent, reply, demo, calls, permitted>>

\* The client goes away.  A streaming generator that has run takes its session
\* with it; a handler that is waiting, or a stream nobody has polled, does not.
Disconnect(r) ==
  /\ Disconnects
  /\ phase[r] \in {"body", "extract", "mask", "wait", "unpack", "gather", "drain",
                   "unpolled", "stream"}
  /\ Goto(r, IF phase[r] = "stream" THEN "dropped" ELSE "gone")
  /\ IF phase[r] = "stream" THEN Drop(SessionId(r)) ELSE UNCHANGED table
  /\ UNCHANGED <<conf, shape, snap, strict, task, sess, sent, reply, answer, demo, calls,
                 permitted>>

-----------------------------------------------------------------------------
(* Around the handlers.                                                    *)

\* session_ttl has passed since session x was opened.
Expire(x) ==
  /\ Expiry
  /\ Live(x)
  /\ ~table[x].expired
  /\ table' = [table EXCEPT ![x] = [inflight |-> table[x].inflight, expired |-> TRUE]]
  /\ UNCHANGED <<conf, handlers, shape, demo, calls, permitted>>

\* A slip: sweep ignores the inflight mark.
SweepableAny(x) == Live(x) /\ table[x].expired

\* sweep takes expired sessions, but skips those in flight.
Sweepable(x) == Live(x) /\ table[x].expired /\ ~table[x].inflight

Sweep ==
  /\ \E x \in Sids : Sweepable(x)
  /\ table' = [x \in Sids |-> IF Sweepable(x) THEN None ELSE table[x]]
  /\ UNCHANGED <<conf, handlers, shape, demo, calls, permitted>>

\* One of the bounded number of console calls begins.
ConsoleCall ==
  /\ calls < MaxCalls
  /\ calls' = calls + 1

\* The console saves a configuration.
ChangeConfig ==
  /\ ConsoleCall
  /\ \E c \in SavedConfigs \ {conf} :
       /\ conf' = c
       /\ permitted' = [r \in Requests |->
            permitted[r] \/ (InProgress(r) /\ Permits(c, shape[r]))]
  /\ UNCHANGED <<handlers, shape, table, demo>>

\* demo_mask: the fixed session is dropped and opened anew, and the text masked.
DemoOpen(d) ==
  /\ demo[d] = "new"
  /\ ConsoleCall
  /\ demo' = [demo EXCEPT ![d] = "open"]
  /\ Open("console-demo", FALSE)
  /\ UNCHANGED <<conf, handlers, shape, permitted>>

\* demo_mask restores the masked text in that session.
DemoRestore(d) ==
  /\ demo[d] = "open"
  /\ demo' = [demo EXCEPT ![d] = RestoreResult("console-demo")]
  /\ UNCHANGED <<conf, handlers, shape, table, calls, permitted>>

DemoClose(d) ==
  /\ demo[d] \in {"restored", "unrestored"}
  /\ demo' = [demo EXCEPT ![d] = "closed"]
  /\ Drop("console-demo")
  /\ UNCHANGED <<conf, handlers, shape, calls, permitted>>

-----------------------------------------------------------------------------
HandlerStep(r) ==
  \/ Parse(r)
  \/ MaskTask(r)
  \/ MaskReturned(r)
  \/ Send(r)
  \/ UpstreamFails(r)
  \/ FirstPoll(r)

\* Steps that wait for the upstream to go on with its response.
BodyStep(r) ==
  \/ Unpacked(r)
  \/ Gathered(r)
  \/ Drained(r)
  \/ ReadFails(r)
  \/ StreamEnd(r)

DemoStep(d) == DemoOpen(d) \/ DemoRestore(d) \/ DemoClose(d)

Next ==
  \/ \E r \in Requests :
       \/ \E k \in Shapes : Arrive(r, k)
       \/ ReadBody(r)
       \/ HandlerStep(r)
       \/ BodyStep(r)
       \/ Reply(r)
       \/ StreamChunk(r)
       \/ Disconnect(r)
  \/ \E d \in Demos : DemoStep(d)
  \/ \E x \in Sids : Expire(x)
  \/ Sweep
  \/ ChangeConfig

\* The runtime polls every future that can go on, and send has a time limit.
\* Nothing is assumed of a client that is still sending its body.
HandlerFairness == \A r \in Requests : WF_vars(HandlerStep(r))

\* The upstream finishes or breaks off every body it has begun.
UpstreamFairness == \A r \in Requests : WF_vars(BodyStep(r))

Spec == Init /\ [][Next]_vars

FairSpec == Spec /\ HandlerFairness /\ UpstreamFairness

-----------------------------------------------------------------------------
(* Properties.                                                             *)

\* fail_closed: a body leaves unmasked only for a read-only method, or if the
\* configuration allowed it at some moment since the request arrived; values
\* read at different moments (snapshot, live, after the body) never combine
\* into a permission no configuration gave (handler, decisions 2 to 7).
NoRawLeak == \A r \in Requests : sent[r] = "raw" => shape[r] = "readonly" \/ permitted[r]

\* Every response that takes a restoring path finds the session of its own
\* request, whatever other requests, the sweep or the demonstration do to the
\* table meanwhile: the client never gets placeholders for want of a session.
AlwaysRestored == \A r \in Requests : answer[r] # "unrestored"

\* "The session must be released on all exit paths" (forward_inner): a request
\* that was answered, or whose polled stream was dropped, has left no session
\* behind.  The code keeps this only while its future lives: a client that goes
\* away while the handler waits, or before the stream is polled, leaves its
\* session in flight, where sweep never takes it.
SessionsReleased ==
  \A r \in Requests : Live(SessionId(r)) => InProgress(r) \/ phase[r] = "gone"

\* A request whose body has been read is answered in the end, or its client is
\* gone (the time limit of send, and response bodies that end).
Answered == \A r \in Requests : phase[r] \in {"extract", "send"} ~> ~InProgress(r)

=============================================================================
