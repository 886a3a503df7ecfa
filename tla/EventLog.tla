------------------------------ MODULE EventLog ------------------------------
(***************************************************************************)
(* The event log: the in-memory bus (EventBus in src/src/store/events.rs), *)
(* the queue and the writer thread behind it (EventStore in                *)
(* src/src/store/db.rs) and the console calls that read and clear both     *)
(* (get_logs, get_log_detail and clear_logs in                             *)
(* src/src/server/console_api.rs).                                         *)
(*                                                                         *)
(* Request threads emit events in three steps: take an id, push on the     *)
(* ring, put on the bounded queue.  One writer thread gathers the queue in *)
(* batches and commits each in a transaction.  The console joins the rows  *)
(* of the database with the newer events of the ring.                      *)
(***************************************************************************)
EXTENDS Naturals, Sequences, FiniteSets, SequencesExt, Picks

CONSTANTS
  Producers,     \* threads that emit events
  QueueMax,      \* EVENT_QUEUE_MAX
  BatchSize,     \* BATCH_SIZE
  RingCapacity,  \* RING_CAPACITY
  MaxEvents,     \* bound: events emitted
  MaxFaults,     \* bound: failures of the database
  MaxExits,      \* bound: ends of the process
  MaxClears,     \* bound: clear_logs and retention calls
  MaxSyncs       \* bound: calls of sync

ASSUME LogAssumption ==
  /\ IsFiniteSet(Producers)
  /\ {QueueMax, BatchSize, RingCapacity} \subseteq Nat \ {0}
  /\ {MaxEvents, MaxFaults, MaxExits, MaxClears, MaxSyncs} \subseteq Nat

\* An event: uid tells events of all process lifetimes apart, id is the one
\* emit assigns.
Uids == 1..MaxEvents
Events == [uid : Uids, id : Uids]

\* StoreMsg, reduced to the kinds that touch the events table and the barrier.
\* A slip: the event is queued as it was before emit gave it an id.
EventMsgUnnumbered(e) == [kind |-> "event", event |-> {[e EXCEPT !.id = 0]}, from |-> {}]

EventMsg(e) == [kind |-> "event", event |-> {e}, from |-> {}]
PruneMsg == [kind |-> "prune", event |-> {}, from |-> {}]

\* A barrier carries the channel its caller waits on: one per call.
FlushMsg(p, call) == [kind |-> "flush", event |-> {}, from |-> {<<p, call>>}]

VARIABLES
  nextId,   \* the bus: next id
  ring,     \* the bus: recent events, oldest first
  hand,     \* per producer: the event it is emitting
  pc,       \* per producer: where it is in emit, sync or clear_logs
  call,     \* per producer: number of its latest call of sync
  before,   \* per producer: events accepted before its barrier
  queue,    \* messages sent and not yet received
  batch,    \* messages the writer has gathered
  writer,   \* the writer thread: "recv", "flush" or "reply"
  replies,  \* channels of the barriers in the flushed batch
  conn,     \* the writer has a connection
  rows,     \* the events table in row order
  stats,    \* WriterStats
  lost,     \* history: events that never reached the table, in this lifetime
  erased,   \* history: events removed by clear_logs or retention
  emitted,  \* history: events emitted so far
  budget    \* what is left of the bounds

busVars == <<nextId, ring>>
procVars == <<hand, pc, call, before>>
writerVars == <<queue, batch, writer, replies, conn>>
vars == <<busVars, procVars, writerVars, rows, stats, lost, erased, emitted, budget>>

EventsOf(ms) == UNION {ms[i].event : i \in 1..Len(ms)}
FromOf(ms) == UNION {ms[i].from : i \in 1..Len(ms)}
InRing == {ring[i] : i \in 1..Len(ring)}
InRows == {rows[i] : i \in 1..Len(rows)}
Pending == EventsOf(queue) \cup EventsOf(batch)

Messages == {EventMsg(e) : e \in Events} \cup {PruneMsg} \cup {FlushMsg(p, c) : p \in Producers, c \in 1..MaxSyncs}

TypeOK ==
  /\ nextId \in 1..(MaxEvents + 1)
  /\ ring \in Seq(Events) /\ Len(ring) <= RingCapacity
  /\ hand \in [Producers -> SUBSET Events]
  /\ pc \in [Producers -> {"idle", "push", "enqueue", "send", "wait", "acked", "clear"}]
  /\ call \in [Producers -> 0..MaxSyncs]
  /\ before \in [Producers -> SUBSET Events]
  /\ queue \in Seq(Messages) /\ Len(queue) <= QueueMax
  /\ batch \in Seq(Messages) /\ Len(batch) <= BatchSize
  /\ writer \in {"recv", "flush", "reply"}
  /\ replies \subseteq Producers \X (1..MaxSyncs)
  /\ conn \in BOOLEAN
  /\ rows \in Seq(Events)
  /\ stats \in [written : Nat, dropped : Nat, dead_letters : Nat]
  /\ lost \subseteq Events /\ erased \subseteq Events
  /\ emitted \in 0..MaxEvents
  /\ budget \in [faults : 0..MaxFaults, exits : 0..MaxExits, clears : 0..MaxClears,
                 syncs : 0..MaxSyncs]

NoStats == [written |-> 0, dropped |-> 0, dead_letters |-> 0]

Init ==
  /\ nextId = 1
  /\ ring = <<>>
  /\ hand = [p \in Producers |-> {}]
  /\ pc = [p \in Producers |-> "idle"]
  /\ call = [p \in Producers |-> 0]
  /\ before = [p \in Producers |-> {}]
  /\ queue = <<>>
  /\ batch = <<>>
  /\ writer = "recv"
  /\ replies = {}
  /\ conn = TRUE
  /\ rows = <<>>
  /\ stats = NoStats
  /\ lost = {}
  /\ erased = {}
  /\ emitted = 0
  /\ budget = [faults |-> MaxFaults, exits |-> MaxExits, clears |-> MaxClears, syncs |-> MaxSyncs]

Goto(p, to) == pc' = [pc EXCEPT ![p] = to]

\* A call that is over, or a barrier that was answered: the thread is free.
Free(p) == pc[p] \in {"idle", "acked"}

-----------------------------------------------------------------------------
(* EventBus.                                                               *)

\* emit: the id, under its own lock.
AssignId(p) ==
  /\ Free(p)
  /\ emitted < MaxEvents
  /\ emitted' = emitted + 1
  /\ hand' = [hand EXCEPT ![p] = {[uid |-> emitted + 1, id |-> nextId]}]
  /\ nextId' = nextId + 1
  /\ Goto(p, "push")
  /\ UNCHANGED <<ring, call, before, writerVars, rows, stats, lost, erased, budget>>

\* A slip: one event too many.
RoomInRingLate == IF Len(ring) > RingCapacity THEN Tail(ring) ELSE ring

RoomInRing == IF Len(ring) >= RingCapacity THEN Tail(ring) ELSE ring

\* emit: the ring, dropping the oldest event when it is full.
PushRing(p) ==
  /\ pc[p] = "push"
  /\ \E e \in hand[p] : ring' = Append(RoomInRing, e)
  /\ Goto(p, "enqueue")
  /\ UNCHANGED <<nextId, hand, call, before, writerVars, rows, stats, lost, erased, emitted,
                 budget>>

\* A slip: an event that does not fit is dropped without a trace.
DropSilently(e) ==
  /\ lost' = lost \cup {e}
  /\ UNCHANGED stats

DropCounted(e) ==
  /\ lost' = lost \cup {e}
  /\ stats' = [stats EXCEPT !.dropped = @ + 1]

\* emit, the hook: EventStore::enqueue never waits.
Enqueue(p) ==
  /\ pc[p] = "enqueue"
  /\ \E e \in hand[p] :
       \/ /\ Len(queue) < QueueMax
          /\ queue' = Append(queue, EventMsg(e))
          /\ UNCHANGED <<stats, lost>>
       \/ /\ Len(queue) >= QueueMax
          /\ DropCounted(e)
          /\ UNCHANGED queue
  /\ hand' = [hand EXCEPT ![p] = {}]
  /\ Goto(p, "idle")
  /\ UNCHANGED <<busVars, call, before, batch, writer, replies, conn, rows, erased, emitted,
                 budget>>

-----------------------------------------------------------------------------
(* EventStore, the callers' side.                                          *)

\* sync: the caller sends a barrier and waits for room if it must.
SyncCall(p) ==
  /\ Free(p)
  /\ budget.syncs > 0
  /\ budget' = [budget EXCEPT !.syncs = @ - 1]
  /\ call' = [call EXCEPT ![p] = @ + 1]
  /\ Goto(p, "send")
  /\ UNCHANGED <<busVars, hand, before, writerVars, rows, stats, lost, erased, emitted>>

SyncSend(p) ==
  /\ pc[p] = "send"
  /\ Len(queue) < QueueMax
  /\ queue' = Append(queue, FlushMsg(p, call[p]))
  /\ before' = [before EXCEPT ![p] = Pending]
  /\ Goto(p, "wait")
  /\ UNCHANGED <<busVars, hand, call, batch, writer, replies, conn, rows, stats, lost, erased,
                 emitted, budget>>

\* sync gives up after five seconds.
SyncTimeout(p) ==
  /\ pc[p] = "wait"
  /\ Goto(p, "idle")
  /\ before' = [before EXCEPT ![p] = {}]
  /\ UNCHANGED <<busVars, hand, call, writerVars, rows, stats, lost, erased, emitted,
                 budget>>

\* prune, called by the maintenance thread every thirty seconds.
Prune ==
  /\ budget.clears > 0
  /\ budget' = [budget EXCEPT !.clears = @ - 1]
  /\ queue' = IF Len(queue) < QueueMax THEN Append(queue, PruneMsg) ELSE queue
  /\ UNCHANGED <<busVars, procVars, batch, writer, replies, conn, rows, stats, lost, erased,
                 emitted>>

\* clear_logs: first the bus.
ClearBus(p) ==
  /\ Free(p)
  /\ budget.clears > 0
  /\ budget' = [budget EXCEPT !.clears = @ - 1]
  /\ ring' = <<>>
  /\ Goto(p, "clear")
  /\ UNCHANGED <<nextId, hand, call, before, writerVars, rows, stats, lost, erased, emitted>>

\* clear_logs: then clear_events, on a connection of its own.
ClearRows(p) ==
  /\ pc[p] = "clear"
  /\ erased' = erased \cup InRows
  /\ rows' = <<>>
  /\ Goto(p, "idle")
  /\ UNCHANGED <<busVars, hand, call, before, writerVars, stats, lost, emitted, budget>>

-----------------------------------------------------------------------------
(* The writer thread.                                                      *)

\* A slip: the barrier is answered when it is received.
ReceivedAnswers(m, elapsed) ==
  IF m.kind = "flush"
    THEN writer' = "reply" /\ replies' = m.from
    ELSE /\ writer' = IF Len(batch) + 1 >= BatchSize \/ elapsed THEN "flush" ELSE "recv"
         /\ UNCHANGED replies

\* A barrier, a full batch and 500 ms since the last flush start a flush.
Received(m, elapsed) ==
  /\ writer' = IF m.kind = "flush" \/ Len(batch) + 1 >= BatchSize \/ elapsed
                 THEN "flush" ELSE "recv"
  /\ UNCHANGED replies

\* writer_loop: one message.
Receive ==
  /\ writer = "recv"
  /\ queue # <<>>
  /\ batch' = Append(batch, Head(queue))
  /\ queue' = Tail(queue)
  /\ \E elapsed \in BOOLEAN : Received(Head(queue), elapsed)
  /\ UNCHANGED <<busVars, procVars, conn, rows, stats, lost, erased, emitted,
                 budget>>

\* A slip: without a message the loop does not look at the clock.
ReceiveTimeoutIgnored == FALSE

\* writer_loop: 500 ms without a message.
ReceiveTimeout ==
  /\ writer = "recv"
  /\ queue = <<>>
  /\ batch # <<>>
  /\ writer' = "flush"
  /\ UNCHANGED <<busVars, procVars, queue, batch, replies, conn, rows, stats, lost, erased,
                 emitted, budget>>

\* The positions in the batch of the events whose row does not fail.
Inserted(failed) == {i \in 1..Len(batch) : batch[i].kind = "event" /\ batch[i].event \cap failed = {}}

\* The events of these positions, in order.
Written(failed) ==
  [k \in 1..Cardinality(Inserted(failed)) |->
     CHOOSE e \in batch[Nth(Inserted(failed), k)].event : TRUE]

\* How many of the first rows a retention message of the batch may remove: it
\* also sees the rows written before it in the same transaction.
Prunable(failed) ==
  LET at == {i \in 1..Len(batch) : batch[i].kind = "prune"}
  IN  IF at = {} THEN 0
      ELSE Len(rows) + Cardinality({i \in Inserted(failed) : \E j \in at : i < j})

\* A slip: the batch is not taken.
EndFlushKeeps ==
  /\ replies' = FromOf(batch)
  /\ writer' = "reply"
  /\ UNCHANGED batch

\* The batch is taken; its barriers are answered afterwards, commit or not.
EndFlush ==
  /\ replies' = FromOf(batch)
  /\ writer' = "reply"
  /\ batch' = <<>>

\* flush_batch: the transaction is committed.  A row may fail by itself.
Commit ==
  /\ writer = "flush"
  /\ \E failed \in {{}} \cup {{e} : e \in EventsOf(batch)} :
       \E n \in 0..Prunable(failed) :
         LET all == rows \o Written(failed)
         IN  /\ failed # {} => budget.faults > 0
             /\ budget' = [budget EXCEPT !.faults = @ - Cardinality(failed)]
             /\ rows' = SubSeq(all, n + 1, Len(all))
             /\ erased' = erased \cup {all[i] : i \in 1..n}
             /\ lost' = lost \cup failed
             /\ stats' = [stats EXCEPT !.written = @ + Len(Written(failed)),
                                       !.dead_letters = @ + Cardinality(failed)]
  /\ conn' = TRUE
  /\ EndFlush
  /\ UNCHANGED <<busVars, procVars, queue, emitted>>

\* flush_batch: no connection can be made, or the transaction cannot be begun or
\* committed.  What commit would have written is counted as dead.
DeadLetters ==
  \E n \in {Len(batch), Cardinality(EventsOf(batch))} :
    stats' = [stats EXCEPT !.dead_letters = @ + n]

FlushFails ==
  /\ writer = "flush"
  /\ budget.faults > 0
  /\ budget' = [budget EXCEPT !.faults = @ - 1]
  /\ lost' = lost \cup EventsOf(batch)
  /\ DeadLetters
  /\ conn' = FALSE
  /\ EndFlush
  /\ UNCHANGED <<busVars, procVars, queue, rows, erased, emitted>>

\* flush_batch: the barriers are answered.
Reply ==
  /\ writer = "reply"
  /\ pc' = [p \in Producers |-> IF pc[p] = "wait" /\ <<p, call[p]>> \in replies THEN "acked" ELSE pc[p]]
  /\ replies' = {}
  /\ writer' = "recv"
  /\ UNCHANGED <<busVars, hand, call, before, queue, batch, conn, rows, stats, lost, erased,
                 emitted, budget>>

-----------------------------------------------------------------------------
(* The end of the process, and the next start on the same database.        *)

\* The process ends, by a crash or by an orderly shutdown, and starts again.
\* Also after a shutdown the usage hook and the maintenance thread hold the
\* EventStore until main returns, so that its Drop, which would flush the queue,
\* never runs.
Restart ==
  /\ budget.exits > 0
  /\ budget' = [budget EXCEPT !.exits = @ - 1]
  /\ nextId' = 1
  /\ ring' = <<>>
  /\ hand' = [p \in Producers |-> {}]
  /\ pc' = [p \in Producers |-> "idle"]
  /\ call' = [p \in Producers |-> 0]
  /\ before' = [p \in Producers |-> {}]
  /\ queue' = <<>>
  /\ batch' = <<>>
  /\ writer' = "recv"
  /\ replies' = {}
  /\ conn' = TRUE
  /\ stats' = NoStats
  /\ lost' = {}
  /\ UNCHANGED <<rows, erased, emitted>>

-----------------------------------------------------------------------------
Emit(p) == AssignId(p) \/ PushRing(p) \/ Enqueue(p)
Sync(p) == SyncCall(p) \/ SyncSend(p) \/ SyncTimeout(p)
ClearLogs(p) == ClearBus(p) \/ ClearRows(p)
WriterStep == Receive \/ ReceiveTimeout \/ Commit \/ FlushFails \/ Reply

Next ==
  \/ \E p \in Producers : Emit(p) \/ Sync(p) \/ ClearLogs(p)
  \/ Prune
  \/ WriterStep
  \/ Restart

Spec == Init /\ [][Next]_vars

\* The writer thread is scheduled by the operating system and its receive has a
\* time limit.
FairSpec == Spec /\ WF_vars(WriterStep)

-----------------------------------------------------------------------------
(* What the console shows.                                                 *)

\* fetch_events_page: newest row first; the page is as long as needed.
Page == Reverse(rows)

\* A slip: the newest row counts as newer than itself.
FreshFromNewest ==
  LET newest == IF Page = <<>> THEN 0 ELSE Page[1].id
  IN  Picked(Reverse(ring), {i \in 1..Len(ring) : Reverse(ring)[i].id >= newest})

\* A slip: the first newer event is skipped.
FreshLate ==
  LET newest == IF Page = <<>> THEN 0 ELSE Page[1].id
  IN  Picked(Reverse(ring), {i \in 1..Len(ring) : Reverse(ring)[i].id > newest + 1})

\* get_logs: the ring's events with an id above that of the newest row.
Fresh ==
  LET newest == IF Page = <<>> THEN 0 ELSE Page[1].id
  IN  Picked(Reverse(ring), {i \in 1..Len(ring) : Reverse(ring)[i].id > newest})

\* get_logs, the first page.
Listed == Fresh \o Page

\* by_id: the first event of the ring with that id.
RingById(id) == Picked(ring, {i \in 1..Len(ring) : ring[i].id = id})

\* fetch_event_by_id: the first such row.
RowById(id) == Picked(rows, {i \in 1..Len(rows) : rows[i].id = id})

\* get_log_detail: the ring first, then the table.
Detail(id) ==
  LET found == RingById(id) \o RowById(id)
  IN  IF found = <<>> THEN {} ELSE {Head(found)}

-----------------------------------------------------------------------------
(* Properties.                                                             *)

\* A request just made is visible at once (get_logs): the first page has every
\* event of the ring, but those that were lost or cleared.
FreshVisible ==
  \A e \in InRing \ (lost \cup erased) : \E i \in 1..Len(Listed) : Listed[i] = e

\* No older event is put in front a second time (get_logs): the list has every
\* event once.
ListedOnce == \A i, j \in 1..Len(Listed) : Listed[i] = Listed[j] => i = j

\* Opening a line of the list shows that event (get_log_detail).
DetailMatches == \A i \in 1..Len(Listed) : Detail(Listed[i].id) = {Listed[i]}

\* The log as LossyLog has it: the events that left their producer's hands, what
\* the writer has gathered with what is queued behind it, and the table.
UidsOf(es) == {e.uid : e \in es}
Offered == {u \in 1..emitted : \A p \in Producers : u \notin UidsOf(hand[p])}
Waiting == [i \in 1..(Len(batch) + Len(queue)) |-> UidsOf((batch \o queue)[i].event)]
Table == [i \in 1..Len(rows) |-> rows[i].uid]

Log == INSTANCE LossyLog WITH offered <- Offered, waiting <- Waiting, table <- Table

\* The log keeps events in the order they were accepted in, each once, and loses
\* them only before they are written, by retention or with all others (emit,
\* writer_loop, flush_batch, clear_events): what LossyLog promises.
KeepsOrder == Log!Spec

\* An answered barrier leaves nothing behind it unsettled (flush_batch): every
\* event accepted before it is in the table, was in it, or is known to be lost.
BarrierSettles ==
  \A p \in Producers : pc[p] = "acked" => before[p] \subseteq InRows \cup erased \cup lost

\* No event disappears uncounted (enqueue, flush_batch): in one lifetime of the
\* process the counters shown to the user cover every event that was lost.
LossesCounted == Cardinality(lost) <= stats.dropped + stats.dead_letters

\* An accepted event is settled without further calls (writer_loop, the 500 ms
\* receive): it does not wait for a full batch.
Settled == \A u \in Uids :
  (\E e \in Pending : e.uid = u) ~> ~(\E e \in Pending : e.uid = u)

=============================================================================
