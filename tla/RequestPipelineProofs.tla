----------------------- MODULE RequestPipelineProofs ------------------------
(***************************************************************************)
(* Proofs about RequestPipeline, for any sets of requests, demonstrations  *)
(* and savable configurations and any number of console calls.             *)
(***************************************************************************)
EXTENDS RequestPipeline, TLAPS

-----------------------------------------------------------------------------
(* The inductive invariant.                                                *)

\* The handler works with its session in these phases, if it has one.
Using == {"send", "wait", "unpack", "gather", "unpolled", "stream"}

\* The request depends on the entry of the session table that has its id.
Needs(r) == phase[r] = "mask" \/ (sess[r] /\ phase[r] \in Using)

\* Before the masking task is back, and on the pass-through path, the handler
\* has no RestoreSession; on the restoring paths it has one.
HoldsWhenNeeded ==
  \A r \in Requests :
    /\ phase[r] \in {"new", "body", "extract", "mask", "drain"} => ~sess[r]
    /\ phase[r] \in {"unpack", "gather", "unpolled", "stream"} => sess[r]

\* A request that depends on its session has it, in flight, where no sweep
\* takes it; and no other request has one, unless its handler was dropped.
SessionsKept ==
  \A r \in Requests :
    /\ Needs(r) => Live(SessionId(r))
    /\ Live(SessionId(r)) => table[SessionId(r)].inflight /\ (Needs(r) \/ phase[r] = "gone")

\* What the handler has read so far, of the snapshot or of the live values,
\* lets a body pass only if some configuration did.
PermissionsKept ==
  \A r \in Requests :
    /\ InProgress(r) => shape[r] \in Shapes /\ (Permits(conf, shape[r]) => permitted[r])
    /\ phase[r] = "new" => sent[r] = "nothing"
    /\ phase[r] = "body" => snap[r] \/ permitted[r]
    /\ phase[r] = "extract" => strict[r] \/ shape[r] = "llm" \/ permitted[r]
    /\ phase[r] = "send" /\ ~sess[r] => shape[r] = "readonly" \/ permitted[r]

IInv ==
  /\ TypeOK
  /\ HoldsWhenNeeded
  /\ SessionsKept
  /\ PermissionsKept
  /\ NoRawLeak
  /\ AlwaysRestored

-----------------------------------------------------------------------------
(* Type correctness.                                                       *)

LEMMA InitType == Init => TypeOK
  BY PipelineAssumption DEF Init, TypeOK, Answers, Configs, Shapes, Phases, Types, Sids, Session

\* The steps of one request keep the types.
LEMMA RequestType ==
  ASSUME NEW r \in Requests, TypeOK
  PROVE  /\ \A k \in Shapes : Arrive(r, k) => TypeOK'
         /\ ReadBody(r) => TypeOK'
         /\ HandlerStep(r) => TypeOK'
         /\ BodyStep(r) => TypeOK'
         /\ Reply(r) => TypeOK'
         /\ StreamChunk(r) => TypeOK'
         /\ Disconnect(r) => TypeOK'
  <1> USE DEF Goto, Answer, Open, Drop, Release, RestoreResult, SessionId, Live,
              Phases, Types, Configs, Shapes, Answers
  <1> r \in Sids
    BY DEF Sids
  <1> [inflight |-> TRUE, expired |-> FALSE] \in Session
    BY DEF Session
  <1>1. ASSUME NEW k \in Shapes, Arrive(r, k) PROVE TypeOK'
    BY <1>1 DEF Arrive, Permits, TypeOK
  <1>2. ASSUME ReadBody(r) PROVE TypeOK'
    BY <1>2 DEF ReadBody, TypeOK
  <1>3. ASSUME Parse(r) PROVE TypeOK'
    <2>1. phase' \in [Requests -> Phases]
      BY <1>3 DEF Parse, TypeOK
    <2>2. table' \in [Sids -> Session \cup {None}]
      <3>1. \/ table' = table
            \/ table' = [table EXCEPT ![r] = [inflight |-> TRUE, expired |-> FALSE]]
        BY <1>3 DEF Parse
      <3>2. table \in [Sids -> Session \cup {None}]
        BY DEF TypeOK
      <3>3. QED
        BY <3>1, <3>2
    <2>3. task' \in [Requests -> {"none", "running", "ok", "failed"}]
      BY <1>3 DEF Parse, TypeOK
    <2>4. answer' \in [Requests -> Answers]
      BY <1>3 DEF Parse, TypeOK
    <2>5. QED
      BY <1>3, <2>1, <2>2, <2>3, <2>4 DEF Parse, TypeOK
  <1>4. ASSUME MaskTask(r) PROVE TypeOK'
    BY <1>4 DEF MaskTask, TypeOK
  <1>5. ASSUME MaskReturned(r) PROVE TypeOK'
    BY <1>5 DEF MaskReturned, TypeOK
  <1>6. ASSUME Send(r) PROVE TypeOK'
    BY <1>6 DEF Send, TypeOK
  <1>7. ASSUME UpstreamFails(r) PROVE TypeOK'
    BY <1>7 DEF UpstreamFails, TypeOK
  <1>8. ASSUME FirstPoll(r) PROVE TypeOK'
    BY <1>8 DEF FirstPoll, TypeOK
  <1>9. ASSUME Unpacked(r) PROVE TypeOK'
    BY <1>9 DEF Unpacked, TypeOK
  <1>10. ASSUME Gathered(r) PROVE TypeOK'
    BY <1>10 DEF Gathered, TypeOK
  <1>11. ASSUME Drained(r) PROVE TypeOK'
    BY <1>11 DEF Drained, TypeOK
  <1>12. ASSUME ReadFails(r) PROVE TypeOK'
    BY <1>12 DEF ReadFails, TypeOK
  <1>13. ASSUME StreamEnd(r) PROVE TypeOK'
    BY <1>13 DEF StreamEnd, TypeOK
  <1>14. ASSUME Reply(r) PROVE TypeOK'
    <2>1. phase' \in [Requests -> Phases]
      BY <1>14 DEF Reply, TypeOK
    <2>2. table' \in [Sids -> Session \cup {None}]
      BY <1>14 DEF Reply, TypeOK
    <2>3. sess' \in [Requests -> BOOLEAN]
      BY <1>14 DEF Reply, TypeOK
    <2>4. reply' \in [Requests -> Types \cup {None}]
      BY <1>14 DEF Reply, TypeOK
    <2>5. QED
      BY <1>14, <2>1, <2>2, <2>3, <2>4 DEF Reply, TypeOK
  <1>15. ASSUME StreamChunk(r) PROVE TypeOK'
    BY <1>15 DEF StreamChunk, TypeOK
  <1>16. ASSUME Disconnect(r) PROVE TypeOK'
    BY <1>16 DEF Disconnect, TypeOK
  <1>17. QED
    BY <1>1, <1>2, <1>3, <1>4, <1>5, <1>6, <1>7, <1>8, <1>9, <1>10, <1>11, <1>12, <1>13, <1>14, <1>15, <1>16
    DEF HandlerStep, BodyStep

\* The steps around the handlers keep the types.
LEMMA AroundType ==
  ASSUME TypeOK
  PROVE  /\ \A d \in Demos : DemoStep(d) => TypeOK'
         /\ \A x \in Sids : Expire(x) => TypeOK'
         /\ Sweep => TypeOK'
         /\ ChangeConfig => TypeOK'
  <1> USE PipelineAssumption DEF handlers, Live, ConsoleCall
  <1> DEFINE demo_sid == "console-demo"
  <1>1. demo_sid \in Sids
    BY DEF Sids
  <1>2. [inflight |-> FALSE, expired |-> FALSE] \in Session
    BY DEF Session
  <1>3. ASSUME NEW d \in Demos, DemoOpen(d) PROVE TypeOK'
    BY <1>1, <1>2, <1>3 DEF DemoOpen, Open, TypeOK
  <1>4. ASSUME NEW d \in Demos, DemoRestore(d) PROVE TypeOK'
    BY <1>4 DEF DemoRestore, RestoreResult, TypeOK
  <1>5. ASSUME NEW d \in Demos, DemoClose(d) PROVE TypeOK'
    BY <1>1, <1>5 DEF DemoClose, Drop, TypeOK
  <1>6. ASSUME NEW x \in Sids, Expire(x) PROVE TypeOK'
    <2>1. table[x] \in Session
      BY <1>6 DEF Expire, TypeOK
    <2>2. [inflight |-> table[x].inflight, expired |-> TRUE] \in Session
      BY <2>1 DEF Session
    <2>3. QED
      BY <1>6, <2>2 DEF Expire, TypeOK
  <1>7. ASSUME Sweep PROVE TypeOK'
    BY <1>7 DEF Sweep, TypeOK
  <1>8. ASSUME ChangeConfig PROVE TypeOK'
    BY <1>8 DEF ChangeConfig, InProgress, Permits, TypeOK
  <1>9. QED
    BY <1>3, <1>4, <1>5, <1>6, <1>7, <1>8 DEF DemoStep

LEMMA NextType == TypeOK /\ [Next]_vars => TypeOK'
  <1>1. ASSUME TypeOK, UNCHANGED vars PROVE TypeOK'
    BY <1>1 DEF TypeOK, vars, handlers
  <1>2. QED
    BY <1>1, RequestType, AroundType DEF Next

\* The variables keep their types, whatever the requests, the console and the
\* sweep do.
THEOREM TypeCorrect == Spec => []TypeOK
  BY InitType, NextType, PTL DEF Spec

-----------------------------------------------------------------------------
(* The invariant is inductive.                                             *)

LEMMA InitInvariant == Init => IInv
  BY InitType, PipelineAssumption
  DEF Init, IInv, HoldsWhenNeeded, SessionsKept, PermissionsKept, NoRawLeak, AlwaysRestored,
      Needs, Using, InProgress, Live, SessionId, Sids

\* One lemma per part of the invariant: what the steps of one request do to it.
LEMMA RequestHoldsWhenNeeded ==
  ASSUME NEW r \in Requests, IInv, TypeOK'
  PROVE  /\ \A k \in Shapes : Arrive(r, k) => HoldsWhenNeeded'
         /\ ReadBody(r) => HoldsWhenNeeded'
         /\ HandlerStep(r) => HoldsWhenNeeded'
         /\ BodyStep(r) => HoldsWhenNeeded'
         /\ Reply(r) => HoldsWhenNeeded'
         /\ StreamChunk(r) => HoldsWhenNeeded'
         /\ Disconnect(r) => HoldsWhenNeeded'
  <1> USE PipelineAssumption DEF IInv, TypeOK, Goto, Answer, Open, Drop, Release, RestoreResult, SessionId,
              Live, InProgress, Shapes, HoldsWhenNeeded
  <1> r \in Sids
    BY DEF Sids
  <1> [inflight |-> TRUE, expired |-> FALSE] \in Session
    BY DEF Session
  <1>1. ASSUME NEW k \in Shapes, Arrive(r, k) PROVE HoldsWhenNeeded'
    BY <1>1 DEF Arrive, Permits
  <1>2. ASSUME ReadBody(r) PROVE HoldsWhenNeeded'
    BY <1>2 DEF ReadBody, Permits
  <1>3. ASSUME Parse(r) PROVE HoldsWhenNeeded'
    BY <1>3 DEF Parse, Unparsable, UnknownPasses, Permits
  <1>4. ASSUME MaskTask(r) PROVE HoldsWhenNeeded'
    BY <1>4 DEF MaskTask
  <1>5. ASSUME MaskReturned(r) PROVE HoldsWhenNeeded'
    BY <1>5 DEF MaskReturned
  <1>6. ASSUME Send(r) PROVE HoldsWhenNeeded'
    BY <1>6 DEF Send
  <1>7. ASSUME UpstreamFails(r) PROVE HoldsWhenNeeded'
    BY <1>7 DEF UpstreamFails
  <1>8. ASSUME FirstPoll(r) PROVE HoldsWhenNeeded'
    BY <1>8 DEF FirstPoll
  <1>9. ASSUME Unpacked(r) PROVE HoldsWhenNeeded'
    BY <1>9 DEF Unpacked
  <1>10. ASSUME Gathered(r) PROVE HoldsWhenNeeded'
    BY <1>10 DEF Gathered
  <1>11. ASSUME Drained(r) PROVE HoldsWhenNeeded'
    BY <1>11 DEF Drained
  <1>12. ASSUME ReadFails(r) PROVE HoldsWhenNeeded'
    BY <1>12 DEF ReadFails
  <1>13. ASSUME StreamEnd(r) PROVE HoldsWhenNeeded'
    BY <1>13 DEF StreamEnd
  <1>14. ASSUME Reply(r) PROVE HoldsWhenNeeded'
    BY <1>14 DEF Reply, Restorable
  <1>15. ASSUME StreamChunk(r) PROVE HoldsWhenNeeded'
    BY <1>15 DEF StreamChunk
  <1>16. ASSUME Disconnect(r) PROVE HoldsWhenNeeded'
    BY <1>16 DEF Disconnect
  <1>17. QED
    BY <1>1, <1>2, <1>3, <1>4, <1>5, <1>6, <1>7, <1>8, <1>9, <1>10, <1>11, <1>12, <1>13, <1>14, <1>15, <1>16
    DEF HandlerStep, BodyStep

\* What a step of request r must show of SessionsKept: that it leaves the other
\* requests and their sessions alone, and keeps the property for r.
LEMMA SessionsKeptByOne ==
  ASSUME NEW r \in Requests, IInv,
         \A q \in Requests \ {r} : phase'[q] = phase[q] /\ sess'[q] = sess[q] /\ table'[q] = table[q],
         phase'[r] = "mask" \/ (sess'[r] /\ phase'[r] \in Using) => table'[r] # None,
         table'[r] # None =>
           /\ table'[r].inflight
           /\ phase'[r] = "mask" \/ (sess'[r] /\ phase'[r] \in Using) \/ phase'[r] = "gone"
  PROVE  SessionsKept'
  BY DEF IInv, SessionsKept, Needs, Live, SessionId

LEMMA RequestSessionsKept ==
  ASSUME NEW r \in Requests, IInv, TypeOK'
  PROVE  /\ \A k \in Shapes : Arrive(r, k) => SessionsKept'
         /\ ReadBody(r) => SessionsKept'
         /\ HandlerStep(r) => SessionsKept'
         /\ BodyStep(r) => SessionsKept'
         /\ Reply(r) => SessionsKept'
         /\ StreamChunk(r) => SessionsKept'
         /\ Disconnect(r) => SessionsKept'
  <1> USE PipelineAssumption DEF Goto, Answer, Open, Drop, Release, SessionId
  <1>0. /\ r \in Sids
        /\ phase \in [Requests -> Phases]
        /\ sess \in [Requests -> BOOLEAN]
        /\ table \in [Sids -> Session \cup {None}]
        /\ Requests \subseteq Sids
    BY DEF Sids, IInv, TypeOK
  <1>h. /\ phase[r] \in {"new", "body", "extract", "mask", "drain"} => ~sess[r]
        /\ phase[r] \in {"unpack", "gather", "unpolled", "stream"} => sess[r]
    BY DEF IInv, HoldsWhenNeeded
  <1>k. /\ phase[r] = "mask" \/ (sess[r] /\ phase[r] \in Using) => table[r] # None
        /\ table[r] # None =>
             /\ table[r].inflight
             /\ phase[r] = "mask" \/ (sess[r] /\ phase[r] \in Using) \/ phase[r] = "gone"
    BY DEF IInv, SessionsKept, Needs, Live
  <1>1. ASSUME NEW k \in Shapes, Arrive(r, k) PROVE SessionsKept'
    <2>1. \A q \in Requests \ {r} : phase'[q] = phase[q] /\ sess'[q] = sess[q] /\ table'[q] = table[q]
      BY <1>0, <1>1 DEF Arrive
    <2>2. phase'[r] = "mask" \/ (sess'[r] /\ phase'[r] \in Using) => table'[r] # None
      BY <1>0, <1>h, <1>k, <1>1 DEF Arrive, Using, Session
    <2>3. table'[r] # None =>
            /\ table'[r].inflight
            /\ phase'[r] = "mask" \/ (sess'[r] /\ phase'[r] \in Using) \/ phase'[r] = "gone"
      BY <1>0, <1>h, <1>k, <1>1 DEF Arrive, Using
    <2>4. QED
      BY <2>1, <2>2, <2>3, SessionsKeptByOne
  <1>2. ASSUME ReadBody(r) PROVE SessionsKept'
    <2>1. \A q \in Requests \ {r} : phase'[q] = phase[q] /\ sess'[q] = sess[q] /\ table'[q] = table[q]
      BY <1>0, <1>2 DEF ReadBody
    <2>2. phase'[r] = "mask" \/ (sess'[r] /\ phase'[r] \in Using) => table'[r] # None
      BY <1>0, <1>h, <1>k, <1>2 DEF ReadBody, Using, Session
    <2>3. table'[r] # None =>
            /\ table'[r].inflight
            /\ phase'[r] = "mask" \/ (sess'[r] /\ phase'[r] \in Using) \/ phase'[r] = "gone"
      BY <1>0, <1>h, <1>k, <1>2 DEF ReadBody, Using
    <2>4. QED
      BY <2>1, <2>2, <2>3, SessionsKeptByOne
  <1>3. ASSUME Parse(r) PROVE SessionsKept'
    <2>1. \A q \in Requests \ {r} : phase'[q] = phase[q] /\ sess'[q] = sess[q] /\ table'[q] = table[q]
      BY <1>0, <1>3 DEF Parse
    <2>2. phase'[r] = "mask" \/ (sess'[r] /\ phase'[r] \in Using) => table'[r] # None
      <3>1. [inflight |-> TRUE, expired |-> FALSE] \in Session
        BY DEF Session
      <3>2. QED
        BY <1>0, <1>h, <1>k, <1>3, <3>1 DEF Parse, Using
    <2>3. table'[r] # None =>
            /\ table'[r].inflight
            /\ phase'[r] = "mask" \/ (sess'[r] /\ phase'[r] \in Using) \/ phase'[r] = "gone"
      BY <1>0, <1>h, <1>k, <1>3 DEF Parse, Using
    <2>4. QED
      BY <2>1, <2>2, <2>3, SessionsKeptByOne
  <1>4. ASSUME MaskTask(r) PROVE SessionsKept'
    <2>1. \A q \in Requests \ {r} : phase'[q] = phase[q] /\ sess'[q] = sess[q] /\ table'[q] = table[q]
      BY <1>0, <1>4 DEF MaskTask
    <2>2. phase'[r] = "mask" \/ (sess'[r] /\ phase'[r] \in Using) => table'[r] # None
      BY <1>0, <1>h, <1>k, <1>4 DEF MaskTask, Using, Session
    <2>3. table'[r] # None =>
            /\ table'[r].inflight
            /\ phase'[r] = "mask" \/ (sess'[r] /\ phase'[r] \in Using) \/ phase'[r] = "gone"
      BY <1>0, <1>h, <1>k, <1>4 DEF MaskTask, Using
    <2>4. QED
      BY <2>1, <2>2, <2>3, SessionsKeptByOne
  <1>5. ASSUME MaskReturned(r) PROVE SessionsKept'
    <2>1. \A q \in Requests \ {r} : phase'[q] = phase[q] /\ sess'[q] = sess[q] /\ table'[q] = table[q]
      BY <1>0, <1>5 DEF MaskReturned
    <2>2. phase'[r] = "mask" \/ (sess'[r] /\ phase'[r] \in Using) => table'[r] # None
      BY <1>0, <1>h, <1>k, <1>5 DEF MaskReturned, Using, Session
    <2>3. table'[r] # None =>
            /\ table'[r].inflight
            /\ phase'[r] = "mask" \/ (sess'[r] /\ phase'[r] \in Using) \/ phase'[r] = "gone"
      BY <1>0, <1>h, <1>k, <1>5 DEF MaskReturned, Using
    <2>4. QED
      BY <2>1, <2>2, <2>3, SessionsKeptByOne
  <1>6. ASSUME Send(r) PROVE SessionsKept'
    <2>1. \A q \in Requests \ {r} : phase'[q] = phase[q] /\ sess'[q] = sess[q] /\ table'[q] = table[q]
      BY <1>0, <1>6 DEF Send
    <2>2. phase'[r] = "mask" \/ (sess'[r] /\ phase'[r] \in Using) => table'[r] # None
      BY <1>0, <1>h, <1>k, <1>6 DEF Send, Using, Session
    <2>3. table'[r] # None =>
            /\ table'[r].inflight
            /\ phase'[r] = "mask" \/ (sess'[r] /\ phase'[r] \in Using) \/ phase'[r] = "gone"
      BY <1>0, <1>h, <1>k, <1>6 DEF Send, Using
    <2>4. QED
      BY <2>1, <2>2, <2>3, SessionsKeptByOne
  <1>7. ASSUME UpstreamFails(r) PROVE SessionsKept'
    <2>1. \A q \in Requests \ {r} : phase'[q] = phase[q] /\ sess'[q] = sess[q] /\ table'[q] = table[q]
      BY <1>0, <1>7 DEF UpstreamFails
    <2>2. phase'[r] = "mask" \/ (sess'[r] /\ phase'[r] \in Using) => table'[r] # None
      BY <1>0, <1>h, <1>k, <1>7 DEF UpstreamFails, Using, Session
    <2>3. table'[r] # None =>
            /\ table'[r].inflight
            /\ phase'[r] = "mask" \/ (sess'[r] /\ phase'[r] \in Using) \/ phase'[r] = "gone"
      BY <1>0, <1>h, <1>k, <1>7 DEF UpstreamFails, Using
    <2>4. QED
      BY <2>1, <2>2, <2>3, SessionsKeptByOne
  <1>8. ASSUME FirstPoll(r) PROVE SessionsKept'
    <2>1. \A q \in Requests \ {r} : phase'[q] = phase[q] /\ sess'[q] = sess[q] /\ table'[q] = table[q]
      BY <1>0, <1>8 DEF FirstPoll
    <2>2. phase'[r] = "mask" \/ (sess'[r] /\ phase'[r] \in Using) => table'[r] # None
      BY <1>0, <1>h, <1>k, <1>8 DEF FirstPoll, Using, Session
    <2>3. table'[r] # None =>
            /\ table'[r].inflight
            /\ phase'[r] = "mask" \/ (sess'[r] /\ phase'[r] \in Using) \/ phase'[r] = "gone"
      BY <1>0, <1>h, <1>k, <1>8 DEF FirstPoll, Using
    <2>4. QED
      BY <2>1, <2>2, <2>3, SessionsKeptByOne
  <1>9. ASSUME Unpacked(r) PROVE SessionsKept'
    <2>1. \A q \in Requests \ {r} : phase'[q] = phase[q] /\ sess'[q] = sess[q] /\ table'[q] = table[q]
      BY <1>0, <1>9 DEF Unpacked
    <2>2. phase'[r] = "mask" \/ (sess'[r] /\ phase'[r] \in Using) => table'[r] # None
      BY <1>0, <1>h, <1>k, <1>9 DEF Unpacked, Using, Session
    <2>3. table'[r] # None =>
            /\ table'[r].inflight
            /\ phase'[r] = "mask" \/ (sess'[r] /\ phase'[r] \in Using) \/ phase'[r] = "gone"
      BY <1>0, <1>h, <1>k, <1>9 DEF Unpacked, Using
    <2>4. QED
      BY <2>1, <2>2, <2>3, SessionsKeptByOne
  <1>10. ASSUME Gathered(r) PROVE SessionsKept'
    <2>1. \A q \in Requests \ {r} : phase'[q] = phase[q] /\ sess'[q] = sess[q] /\ table'[q] = table[q]
      BY <1>0, <1>10 DEF Gathered
    <2>2. phase'[r] = "mask" \/ (sess'[r] /\ phase'[r] \in Using) => table'[r] # None
      BY <1>0, <1>h, <1>k, <1>10 DEF Gathered, Using, Session
    <2>3. table'[r] # None =>
            /\ table'[r].inflight
            /\ phase'[r] = "mask" \/ (sess'[r] /\ phase'[r] \in Using) \/ phase'[r] = "gone"
      BY <1>0, <1>h, <1>k, <1>10 DEF Gathered, Using
    <2>4. QED
      BY <2>1, <2>2, <2>3, SessionsKeptByOne
  <1>11. ASSUME Drained(r) PROVE SessionsKept'
    <2>1. \A q \in Requests \ {r} : phase'[q] = phase[q] /\ sess'[q] = sess[q] /\ table'[q] = table[q]
      BY <1>0, <1>11 DEF Drained
    <2>2. phase'[r] = "mask" \/ (sess'[r] /\ phase'[r] \in Using) => table'[r] # None
      BY <1>0, <1>h, <1>k, <1>11 DEF Drained, Using, Session
    <2>3. table'[r] # None =>
            /\ table'[r].inflight
            /\ phase'[r] = "mask" \/ (sess'[r] /\ phase'[r] \in Using) \/ phase'[r] = "gone"
      BY <1>0, <1>h, <1>k, <1>11 DEF Drained, Using
    <2>4. QED
      BY <2>1, <2>2, <2>3, SessionsKeptByOne
  <1>12. ASSUME ReadFails(r) PROVE SessionsKept'
    <2>1. \A q \in Requests \ {r} : phase'[q] = phase[q] /\ sess'[q] = sess[q] /\ table'[q] = table[q]
      BY <1>0, <1>12 DEF ReadFails
    <2>2. phase'[r] = "mask" \/ (sess'[r] /\ phase'[r] \in Using) => table'[r] # None
      BY <1>0, <1>h, <1>k, <1>12 DEF ReadFails, Using, Session
    <2>3. table'[r] # None =>
            /\ table'[r].inflight
            /\ phase'[r] = "mask" \/ (sess'[r] /\ phase'[r] \in Using) \/ phase'[r] = "gone"
      BY <1>0, <1>h, <1>k, <1>12 DEF ReadFails, Using
    <2>4. QED
      BY <2>1, <2>2, <2>3, SessionsKeptByOne
  <1>13. ASSUME StreamEnd(r) PROVE SessionsKept'
    <2>1. \A q \in Requests \ {r} : phase'[q] = phase[q] /\ sess'[q] = sess[q] /\ table'[q] = table[q]
      BY <1>0, <1>13 DEF StreamEnd
    <2>2. phase'[r] = "mask" \/ (sess'[r] /\ phase'[r] \in Using) => table'[r] # None
      BY <1>0, <1>h, <1>k, <1>13 DEF StreamEnd, Using, Session
    <2>3. table'[r] # None =>
            /\ table'[r].inflight
            /\ phase'[r] = "mask" \/ (sess'[r] /\ phase'[r] \in Using) \/ phase'[r] = "gone"
      BY <1>0, <1>h, <1>k, <1>13 DEF StreamEnd, Using
    <2>4. QED
      BY <2>1, <2>2, <2>3, SessionsKeptByOne
  <1>14. ASSUME Reply(r) PROVE SessionsKept'
    <2>1. \A q \in Requests \ {r} : phase'[q] = phase[q] /\ sess'[q] = sess[q] /\ table'[q] = table[q]
      BY <1>0, <1>14 DEF Reply
    <2>2. phase'[r] = "mask" \/ (sess'[r] /\ phase'[r] \in Using) => table'[r] # None
      BY <1>0, <1>h, <1>k, <1>14 DEF Reply, Using, Session
    <2>3. table'[r] # None =>
            /\ table'[r].inflight
            /\ phase'[r] = "mask" \/ (sess'[r] /\ phase'[r] \in Using) \/ phase'[r] = "gone"
      BY <1>0, <1>h, <1>k, <1>14 DEF Reply, Using
    <2>4. QED
      BY <2>1, <2>2, <2>3, SessionsKeptByOne
  <1>15. ASSUME StreamChunk(r) PROVE SessionsKept'
    <2>1. \A q \in Requests \ {r} : phase'[q] = phase[q] /\ sess'[q] = sess[q] /\ table'[q] = table[q]
      BY <1>0, <1>15 DEF StreamChunk
    <2>2. phase'[r] = "mask" \/ (sess'[r] /\ phase'[r] \in Using) => table'[r] # None
      BY <1>0, <1>h, <1>k, <1>15 DEF StreamChunk, Using, Session
    <2>3. table'[r] # None =>
            /\ table'[r].inflight
            /\ phase'[r] = "mask" \/ (sess'[r] /\ phase'[r] \in Using) \/ phase'[r] = "gone"
      BY <1>0, <1>h, <1>k, <1>15 DEF StreamChunk, Using
    <2>4. QED
      BY <2>1, <2>2, <2>3, SessionsKeptByOne
  <1>16. ASSUME Disconnect(r) PROVE SessionsKept'
    <2>1. \A q \in Requests \ {r} : phase'[q] = phase[q] /\ sess'[q] = sess[q] /\ table'[q] = table[q]
      BY <1>0, <1>16 DEF Disconnect
    <2>2. phase'[r] = "mask" \/ (sess'[r] /\ phase'[r] \in Using) => table'[r] # None
      BY <1>0, <1>h, <1>k, <1>16 DEF Disconnect, Using, Session
    <2>3. table'[r] # None =>
            /\ table'[r].inflight
            /\ phase'[r] = "mask" \/ (sess'[r] /\ phase'[r] \in Using) \/ phase'[r] = "gone"
      BY <1>0, <1>h, <1>k, <1>16 DEF Disconnect, Using
    <2>4. QED
      BY <2>1, <2>2, <2>3, SessionsKeptByOne
  <1>17. QED
    BY <1>1, <1>2, <1>3, <1>4, <1>5, <1>6, <1>7, <1>8, <1>9, <1>10, <1>11, <1>12, <1>13, <1>14, <1>15, <1>16
    DEF HandlerStep, BodyStep

LEMMA RequestPermissionsKept ==
  ASSUME NEW r \in Requests, IInv, TypeOK'
  PROVE  /\ \A k \in Shapes : Arrive(r, k) => PermissionsKept'
         /\ ReadBody(r) => PermissionsKept'
         /\ HandlerStep(r) => PermissionsKept'
         /\ BodyStep(r) => PermissionsKept'
         /\ Reply(r) => PermissionsKept'
         /\ StreamChunk(r) => PermissionsKept'
         /\ Disconnect(r) => PermissionsKept'
  <1> USE PipelineAssumption DEF IInv, TypeOK, Goto, Answer, Open, Drop, Release, RestoreResult, SessionId,
              Live, InProgress, Shapes, PermissionsKept, HoldsWhenNeeded
  <1> r \in Sids
    BY DEF Sids
  <1> [inflight |-> TRUE, expired |-> FALSE] \in Session
    BY DEF Session
  <1>1. ASSUME NEW k \in Shapes, Arrive(r, k) PROVE PermissionsKept'
    <2>1. permitted'[r] = Permits(conf, k)
      BY <1>1 DEF Arrive
    <2>2. \A q \in Requests \ {r} : permitted'[q] = permitted[q]
      BY <1>1 DEF Arrive
    <2>3. /\ shape' = [shape EXCEPT ![r] = k]
          /\ snap' = [snap EXCEPT ![r] = conf.enabled]
          /\ phase' = [phase EXCEPT ![r] = IF conf.target THEN "body" ELSE "done"]
          /\ UNCHANGED <<conf, strict, sess, sent>>
      BY <1>1 DEF Arrive
    <2>4. ASSUME NEW q \in Requests \ {r}
          PROVE  /\ phase'[q] = phase[q] /\ shape'[q] = shape[q] /\ snap'[q] = snap[q]
                 /\ sess'[q] = sess[q] /\ sent'[q] = sent[q] /\ strict'[q] = strict[q]
                 /\ permitted'[q] = permitted[q] /\ conf' = conf
      BY <2>2, <2>3
    <2>5. /\ phase'[r] \in {"body", "done"} /\ shape'[r] = k /\ snap'[r] = conf.enabled
          /\ conf' = conf
      BY <2>3
    <2>6. k \in Shapes /\ conf.enabled \in BOOLEAN /\ (~conf.enabled => Permits(conf, k))
      BY <1>1 DEF Permits, Configs
    <2>7. QED
      BY <2>1, <2>4, <2>5, <2>6 DEF Permits
  <1>2. ASSUME ReadBody(r) PROVE PermissionsKept'
    BY <1>2 DEF ReadBody, Permits
  <1>3. ASSUME Parse(r) PROVE PermissionsKept'
    BY <1>3 DEF Parse, Unparsable, UnknownPasses, Permits
  <1>4. ASSUME MaskTask(r) PROVE PermissionsKept'
    BY <1>4 DEF MaskTask
  <1>5. ASSUME MaskReturned(r) PROVE PermissionsKept'
    BY <1>5 DEF MaskReturned
  <1>6. ASSUME Send(r) PROVE PermissionsKept'
    BY <1>6 DEF Send
  <1>7. ASSUME UpstreamFails(r) PROVE PermissionsKept'
    BY <1>7 DEF UpstreamFails
  <1>8. ASSUME FirstPoll(r) PROVE PermissionsKept'
    BY <1>8 DEF FirstPoll
  <1>9. ASSUME Unpacked(r) PROVE PermissionsKept'
    BY <1>9 DEF Unpacked
  <1>10. ASSUME Gathered(r) PROVE PermissionsKept'
    BY <1>10 DEF Gathered
  <1>11. ASSUME Drained(r) PROVE PermissionsKept'
    BY <1>11 DEF Drained
  <1>12. ASSUME ReadFails(r) PROVE PermissionsKept'
    BY <1>12 DEF ReadFails
  <1>13. ASSUME StreamEnd(r) PROVE PermissionsKept'
    BY <1>13 DEF StreamEnd
  <1>14. ASSUME Reply(r) PROVE PermissionsKept'
    BY <1>14 DEF Reply, Restorable
  <1>15. ASSUME StreamChunk(r) PROVE PermissionsKept'
    BY <1>15 DEF StreamChunk
  <1>16. ASSUME Disconnect(r) PROVE PermissionsKept'
    BY <1>16 DEF Disconnect
  <1>17. QED
    BY <1>1, <1>2, <1>3, <1>4, <1>5, <1>6, <1>7, <1>8, <1>9, <1>10, <1>11, <1>12, <1>13, <1>14, <1>15, <1>16
    DEF HandlerStep, BodyStep

LEMMA RequestNoRawLeak ==
  ASSUME NEW r \in Requests, IInv, TypeOK'
  PROVE  /\ \A k \in Shapes : Arrive(r, k) => NoRawLeak'
         /\ ReadBody(r) => NoRawLeak'
         /\ HandlerStep(r) => NoRawLeak'
         /\ BodyStep(r) => NoRawLeak'
         /\ Reply(r) => NoRawLeak'
         /\ StreamChunk(r) => NoRawLeak'
         /\ Disconnect(r) => NoRawLeak'
  <1> USE PipelineAssumption DEF IInv, TypeOK, Goto, Answer, Open, Drop, Release, RestoreResult, SessionId,
              Live, InProgress, Shapes, NoRawLeak, PermissionsKept
  <1> r \in Sids
    BY DEF Sids
  <1> [inflight |-> TRUE, expired |-> FALSE] \in Session
    BY DEF Session
  <1>1. ASSUME NEW k \in Shapes, Arrive(r, k) PROVE NoRawLeak'
    <2>1. permitted'[r] = Permits(conf, k)
      BY <1>1 DEF Arrive
    <2>2. \A q \in Requests \ {r} : permitted'[q] = permitted[q]
      BY <1>1 DEF Arrive
    <2>3. /\ shape' = [shape EXCEPT ![r] = k]
          /\ snap' = [snap EXCEPT ![r] = conf.enabled]
          /\ phase' = [phase EXCEPT ![r] = IF conf.target THEN "body" ELSE "done"]
          /\ UNCHANGED <<conf, strict, sess, sent>>
      BY <1>1 DEF Arrive
    <2>4. QED
      BY <1>1, <2>1, <2>2, <2>3 DEF Arrive, Permits
  <1>2. ASSUME ReadBody(r) PROVE NoRawLeak'
    BY <1>2 DEF ReadBody, Permits
  <1>3. ASSUME Parse(r) PROVE NoRawLeak'
    BY <1>3 DEF Parse, Unparsable, UnknownPasses, Permits
  <1>4. ASSUME MaskTask(r) PROVE NoRawLeak'
    BY <1>4 DEF MaskTask
  <1>5. ASSUME MaskReturned(r) PROVE NoRawLeak'
    BY <1>5 DEF MaskReturned
  <1>6. ASSUME Send(r) PROVE NoRawLeak'
    BY <1>6 DEF Send
  <1>7. ASSUME UpstreamFails(r) PROVE NoRawLeak'
    BY <1>7 DEF UpstreamFails
  <1>8. ASSUME FirstPoll(r) PROVE NoRawLeak'
    BY <1>8 DEF FirstPoll
  <1>9. ASSUME Unpacked(r) PROVE NoRawLeak'
    BY <1>9 DEF Unpacked
  <1>10. ASSUME Gathered(r) PROVE NoRawLeak'
    BY <1>10 DEF Gathered
  <1>11. ASSUME Drained(r) PROVE NoRawLeak'
    BY <1>11 DEF Drained
  <1>12. ASSUME ReadFails(r) PROVE NoRawLeak'
    BY <1>12 DEF ReadFails
  <1>13. ASSUME StreamEnd(r) PROVE NoRawLeak'
    BY <1>13 DEF StreamEnd
  <1>14. ASSUME Reply(r) PROVE NoRawLeak'
    BY <1>14 DEF Reply, Restorable
  <1>15. ASSUME StreamChunk(r) PROVE NoRawLeak'
    BY <1>15 DEF StreamChunk
  <1>16. ASSUME Disconnect(r) PROVE NoRawLeak'
    BY <1>16 DEF Disconnect
  <1>17. QED
    BY <1>1, <1>2, <1>3, <1>4, <1>5, <1>6, <1>7, <1>8, <1>9, <1>10, <1>11, <1>12, <1>13, <1>14, <1>15, <1>16
    DEF HandlerStep, BodyStep

LEMMA RequestAlwaysRestored ==
  ASSUME NEW r \in Requests, IInv, TypeOK'
  PROVE  /\ \A k \in Shapes : Arrive(r, k) => AlwaysRestored'
         /\ ReadBody(r) => AlwaysRestored'
         /\ HandlerStep(r) => AlwaysRestored'
         /\ BodyStep(r) => AlwaysRestored'
         /\ Reply(r) => AlwaysRestored'
         /\ StreamChunk(r) => AlwaysRestored'
         /\ Disconnect(r) => AlwaysRestored'
  <1> USE PipelineAssumption DEF IInv, TypeOK, Goto, Answer, Open, Drop, Release, RestoreResult, SessionId,
              Live, InProgress, Shapes, AlwaysRestored, SessionsKept, HoldsWhenNeeded, Needs, Using
  <1> r \in Sids
    BY DEF Sids
  <1> [inflight |-> TRUE, expired |-> FALSE] \in Session
    BY DEF Session
  <1>1. ASSUME NEW k \in Shapes, Arrive(r, k) PROVE AlwaysRestored'
    BY <1>1 DEF Arrive, Permits
  <1>2. ASSUME ReadBody(r) PROVE AlwaysRestored'
    BY <1>2 DEF ReadBody, Permits
  <1>3. ASSUME Parse(r) PROVE AlwaysRestored'
    BY <1>3 DEF Parse, Unparsable, UnknownPasses, Permits
  <1>4. ASSUME MaskTask(r) PROVE AlwaysRestored'
    BY <1>4 DEF MaskTask
  <1>5. ASSUME MaskReturned(r) PROVE AlwaysRestored'
    BY <1>5 DEF MaskReturned
  <1>6. ASSUME Send(r) PROVE AlwaysRestored'
    BY <1>6 DEF Send
  <1>7. ASSUME UpstreamFails(r) PROVE AlwaysRestored'
    BY <1>7 DEF UpstreamFails
  <1>8. ASSUME FirstPoll(r) PROVE AlwaysRestored'
    BY <1>8 DEF FirstPoll
  <1>9. ASSUME Unpacked(r) PROVE AlwaysRestored'
    BY <1>9 DEF Unpacked
  <1>10. ASSUME Gathered(r) PROVE AlwaysRestored'
    BY <1>10 DEF Gathered
  <1>11. ASSUME Drained(r) PROVE AlwaysRestored'
    BY <1>11 DEF Drained
  <1>12. ASSUME ReadFails(r) PROVE AlwaysRestored'
    BY <1>12 DEF ReadFails
  <1>13. ASSUME StreamEnd(r) PROVE AlwaysRestored'
    BY <1>13 DEF StreamEnd
  <1>14. ASSUME Reply(r) PROVE AlwaysRestored'
    BY <1>14 DEF Reply, Restorable
  <1>15. ASSUME StreamChunk(r) PROVE AlwaysRestored'
    BY <1>15 DEF StreamChunk
  <1>16. ASSUME Disconnect(r) PROVE AlwaysRestored'
    BY <1>16 DEF Disconnect
  <1>17. QED
    BY <1>1, <1>2, <1>3, <1>4, <1>5, <1>6, <1>7, <1>8, <1>9, <1>10, <1>11, <1>12, <1>13, <1>14, <1>15, <1>16
    DEF HandlerStep, BodyStep

-----------------------------------------------------------------------------
(* The steps around the handlers.                                          *)

\* The demonstration works on a session id of its own, sessions expire without
\* leaving the table, and the sweep skips those in flight: a request keeps what
\* it depends on.
LEMMA AroundSessionsKept ==
  ASSUME IInv
  PROVE  /\ \A d \in Demos : DemoStep(d) => SessionsKept'
         /\ \A x \in Sids : Expire(x) => SessionsKept'
         /\ Sweep => SessionsKept'
         /\ ChangeConfig => SessionsKept'
  <1> USE PipelineAssumption DEF SessionsKept, Needs, Live, SessionId, handlers
  <1> DEFINE demo_sid == "console-demo"
  <1>1. /\ SessionsKept
        /\ table \in [Sids -> Session \cup {None}]
        /\ Requests \subseteq Sids
        /\ demo_sid \in Sids /\ demo_sid \notin Requests
    BY DEF IInv, TypeOK, Sids
  <1>2. ASSUME NEW d \in Demos, DemoOpen(d) PROVE SessionsKept'
    <2>1. \A q \in Requests : table'[q] = table[q]
      BY <1>1, <1>2 DEF DemoOpen, Open
    <2>2. QED
      BY <1>1, <1>2, <2>1 DEF DemoOpen
  <1>3. ASSUME NEW d \in Demos, DemoRestore(d) PROVE SessionsKept'
    BY <1>1, <1>3 DEF DemoRestore
  <1>4. ASSUME NEW d \in Demos, DemoClose(d) PROVE SessionsKept'
    <2>1. \A q \in Requests : table'[q] = table[q]
      BY <1>1, <1>4 DEF DemoClose, Drop
    <2>2. QED
      BY <1>1, <1>4, <2>1 DEF DemoClose
  <1>5. ASSUME NEW x \in Sids, Expire(x) PROVE SessionsKept'
    <2>1. \A q \in Requests \ {x} : table'[q] = table[q]
      BY <1>1, <1>5 DEF Expire
    <2>2. /\ table[x] # None /\ table[x] \in Session
          /\ table'[x] = [inflight |-> table[x].inflight, expired |-> TRUE]
      BY <1>1, <1>5 DEF Expire
    <2>3. table'[x] \in Session /\ table'[x].inflight = table[x].inflight
      BY <2>2 DEF Session
    <2>4. table'[x] # None
      BY <2>3
    <2>5. QED
      BY <1>1, <1>5, <2>1, <2>2, <2>3, <2>4 DEF Expire
  <1>6. ASSUME Sweep PROVE SessionsKept'
    <2>1. \A q \in Requests : table'[q] = table[q]
      BY <1>1, <1>6 DEF Sweep, Sweepable
    <2>2. QED
      BY <1>1, <1>6, <2>1 DEF Sweep
  <1>7. ASSUME ChangeConfig PROVE SessionsKept'
    BY <1>1, <1>7 DEF ChangeConfig
  <1>8. QED
    BY <1>2, <1>3, <1>4, <1>5, <1>6, <1>7 DEF DemoStep

\* A saved configuration that lets a body pass marks the requests under way; so
\* what they read of it later is covered.
LEMMA AroundPermissionsKept ==
  ASSUME IInv
  PROVE  /\ UNCHANGED <<conf, handlers, shape, permitted>> => PermissionsKept'
         /\ ChangeConfig => PermissionsKept'
  <1>1. ASSUME UNCHANGED <<conf, handlers, shape, permitted>> PROVE PermissionsKept'
    BY <1>1 DEF IInv, PermissionsKept, InProgress, Permits, handlers
  <1>2. ASSUME ChangeConfig PROVE PermissionsKept'
    <2>1. PICK c \in SavedConfigs :
            /\ conf' = c
            /\ permitted' = [r \in Requests |->
                 permitted[r] \/ (InProgress(r) /\ Permits(c, shape[r]))]
      BY <1>2 DEF ChangeConfig
    <2>2. UNCHANGED <<handlers, shape>>
      BY <1>2 DEF ChangeConfig
    <2>3. ASSUME NEW r \in Requests
          PROVE  /\ permitted[r] => permitted'[r]
                 /\ InProgress(r) /\ Permits(conf', shape[r]) => permitted'[r]
      BY <2>1
    <2>4. QED
      BY <2>2, <2>3 DEF IInv, PermissionsKept, InProgress, handlers
  <1>3. QED
    BY <1>1, <1>2

LEMMA AroundInvariant ==
  ASSUME IInv
  PROVE  /\ \A d \in Demos : DemoStep(d) => IInv'
         /\ \A x \in Sids : Expire(x) => IInv'
         /\ Sweep => IInv'
         /\ ChangeConfig => IInv'
  <1> DEFINE Rest == HoldsWhenNeeded /\ NoRawLeak /\ AlwaysRestored
  <1>1. UNCHANGED <<handlers, shape, permitted>> => Rest'
    BY DEF IInv, HoldsWhenNeeded, NoRawLeak, AlwaysRestored, handlers
  <1>2. ChangeConfig => Rest'
    <2>1. ASSUME ChangeConfig, NEW r \in Requests PROVE permitted[r] => permitted'[r]
      BY <2>1 DEF ChangeConfig
    <2>2. ASSUME ChangeConfig PROVE UNCHANGED <<handlers, shape>>
      BY <2>2 DEF ChangeConfig
    <2>3. QED
      BY <2>1, <2>2 DEF IInv, HoldsWhenNeeded, NoRawLeak, AlwaysRestored, handlers
  <1>3. /\ \A d \in Demos : DemoStep(d) => UNCHANGED <<conf, handlers, shape, permitted>>
        /\ \A x \in Sids : Expire(x) => UNCHANGED <<conf, handlers, shape, permitted>>
        /\ Sweep => UNCHANGED <<conf, handlers, shape, permitted>>
    BY DEF DemoStep, DemoOpen, DemoRestore, DemoClose, Expire, Sweep
  <1>4. TypeOK
    BY DEF IInv
  <1> HIDE DEF Rest
  <1>5. SessionsKept' /\ PermissionsKept' /\ TypeOK' /\ Rest' => IInv'
    BY DEF IInv, Rest
  <1>6. QED
    BY <1>1, <1>2, <1>3, <1>4, <1>5, AroundType, AroundSessionsKept, AroundPermissionsKept

LEMMA NextInvariant == IInv /\ [Next]_vars => IInv'
  <1> SUFFICES ASSUME IInv, [Next]_vars PROVE IInv'
    OBVIOUS
  <1>1. CASE UNCHANGED vars
    BY <1>1 DEF IInv, TypeOK, HoldsWhenNeeded, SessionsKept, PermissionsKept, NoRawLeak,
                AlwaysRestored, Needs, InProgress, Live, SessionId, Permits, vars, handlers
  <1>2. TypeOK'
    BY NextType DEF IInv
  <1>3. ASSUME NEW r \in Requests,
               \/ \E k \in Shapes : Arrive(r, k)
               \/ ReadBody(r)
               \/ HandlerStep(r)
               \/ BodyStep(r)
               \/ Reply(r)
               \/ StreamChunk(r)
               \/ Disconnect(r)
        PROVE  IInv'
    <2>1. HoldsWhenNeeded'
      BY <1>2, <1>3, RequestHoldsWhenNeeded
    <2>2. SessionsKept'
      BY <1>2, <1>3, RequestSessionsKept
    <2>3. PermissionsKept'
      BY <1>2, <1>3, RequestPermissionsKept
    <2>4. NoRawLeak'
      BY <1>2, <1>3, RequestNoRawLeak
    <2>5. AlwaysRestored'
      BY <1>2, <1>3, RequestAlwaysRestored
    <2>6. QED
      BY <1>2, <2>1, <2>2, <2>3, <2>4, <2>5 DEF IInv
  <1>4. QED
    BY <1>1, <1>3, AroundInvariant DEF Next

-----------------------------------------------------------------------------
(* The theorems.                                                           *)

\* fail_closed: no body leaves the gateway unmasked unless its method is
\* read-only or some configuration in force since its arrival allowed it,
\* however the three reads of the configuration interleave with saves.
THEOREM FailClosedHolds == Spec => []NoRawLeak
  <1>1. IInv => NoRawLeak
    BY DEF IInv
  <1>2. QED
    BY InitInvariant, NextInvariant, <1>1, PTL DEF Spec

\* No response is returned with placeholders for want of its session: neither
\* the sweep, nor the demonstration, nor another request ever takes it.
THEOREM RestoringPathsRestore == Spec => []AlwaysRestored
  <1>1. IInv => AlwaysRestored
    BY DEF IInv
  <1>2. QED
    BY InitInvariant, NextInvariant, <1>1, PTL DEF Spec

\* Every exit path of the handler releases the session; only a handler whose
\* future was dropped can leave one.
THEOREM ExitPathsRelease == Spec => []SessionsReleased
  <1>1. IInv => SessionsReleased
    BY DEF IInv, SessionsKept, SessionsReleased, Needs, Using, InProgress
  <1>2. QED
    BY InitInvariant, NextInvariant, <1>1, PTL DEF Spec

=============================================================================
