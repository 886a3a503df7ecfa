----------------------------- MODULE TraceRing ------------------------------
(***************************************************************************)
(* The ring of full request and response texts kept for diagnosis (table   *)
(* trace_blobs, write_trace in src/src/store/db.rs; the two places that    *)
(* call put_trace in src/src/server/proxy.rs and response.rs).  A request  *)
(* leaves a row when it is masked and another one when its response ends;  *)
(* the writer thread keeps the rows of the latest sids only.               *)
(***************************************************************************)
EXTENDS Naturals, FiniteSets, FiniteSetsExt

CONSTANTS
  Sids,        \* session ids of requests
  Keeps,       \* values of full_trace_count; 0: the ring is off, or credentials
               \* may not be logged
  MaxChanges   \* bound: configuration changes and calls of clear_logs

ASSUME TraceAssumption ==
  /\ IsFiniteSet(Sids)
  /\ Keeps \subseteq Nat
  /\ Keeps # {}
  /\ MaxChanges \in Nat

VARIABLES
  keep,     \* the count in force
  phase,    \* per request: "new", "sent", "answering" or "done"
  snap,     \* per request: the count taken when the response began
  rows,     \* trace_blobs: sid, kind and row id
  nextRow,  \* AUTOINCREMENT
  latest,   \* history: the count that came with the latest row
  changes

vars == <<keep, phase, snap, rows, nextRow, latest, changes>>

\* Every request writes at most two rows.
RowIds == 1..(2 * Cardinality(Sids))
Rows == [sid : Sids, kind : {"req", "resp"}, id : RowIds]

TypeOK ==
  /\ keep \in Keeps
  /\ phase \in [Sids -> {"new", "sent", "answering", "done"}]
  /\ snap \in [Sids -> Keeps \cup {0}]
  /\ rows \subseteq Rows
  /\ nextRow \in Nat \ {0}
  /\ latest \in Keeps \cup {0}
  /\ changes \in 0..MaxChanges

Init ==
  /\ keep \in Keeps
  /\ phase = [s \in Sids |-> "new"]
  /\ snap = [s \in Sids |-> 0]
  /\ rows = {}
  /\ nextRow = 1
  /\ latest = 0
  /\ changes = 0

SidsIn(R) == {r.sid : r \in R}

\* MAX(id) of a sid's rows.
Newest(R, s) == Max({r.id : r \in {q \in R : q.sid = s}})

\* A slip: rows are evicted one by one, not by request.
EvictRows(R, n) == {r \in R : Cardinality({q \in R : q.id > r.id}) < n}

\* A slip: one request too many is kept.
EvictLate(R, n) ==
  {r \in R : Cardinality({s \in SidsIn(R) : Newest(R, s) > Newest(R, r.sid)}) <= n}

\* write_trace: only the rows of the n sids with the newest rows stay.
Evict(R, n) ==
  {r \in R : Cardinality({s \in SidsIn(R) : Newest(R, s) > Newest(R, r.sid)}) < n}

\* write_trace: insert the row, then evict.
Write(s, kind, n) ==
  /\ rows' = Evict(rows \cup {[sid |-> s, kind |-> kind, id |-> nextRow]}, n)
  /\ nextRow' = nextRow + 1
  /\ latest' = n

\* No row: the ring is off, or the queue is full (enqueue_trace).
Skip == UNCHANGED <<rows, nextRow, latest>>

\* handler: the request is masked and sent.
Request(s) ==
  /\ phase[s] = "new"
  /\ phase' = [phase EXCEPT ![s] = "sent"]
  /\ \/ keep > 0 /\ Write(s, "req", keep)
     \/ Skip
  /\ UNCHANGED <<keep, snap, changes>>

\* A slip: the count is off by one.
SnapshotTooLarge == keep + 1

Snapshot == keep

\* forward_inner: the response begins; the count goes into its StreamMeta.
Headers(s) ==
  /\ phase[s] = "sent"
  /\ phase' = [phase EXCEPT ![s] = "answering"]
  /\ snap' = [snap EXCEPT ![s] = Snapshot]
  /\ UNCHANGED <<keep, rows, nextRow, latest, changes>>

\* stream_response, process_and_emit: the response has ended.
Response(s) ==
  /\ phase[s] = "answering"
  /\ phase' = [phase EXCEPT ![s] = "done"]
  /\ \/ snap[s] > 0 /\ Write(s, "resp", snap[s])
     \/ Skip
  /\ UNCHANGED <<keep, snap, changes>>

\* The console changes full_trace_count or log_credential_plaintext.
SetKeep ==
  /\ changes < MaxChanges
  /\ changes' = changes + 1
  /\ \E k \in Keeps \ {keep} : keep' = k
  /\ UNCHANGED <<phase, snap, rows, nextRow, latest>>

\* clear_events
Clear ==
  /\ changes < MaxChanges
  /\ changes' = changes + 1
  /\ rows' = {}
  /\ UNCHANGED <<keep, phase, snap, nextRow, latest>>

Next ==
  \/ \E s \in Sids : Request(s) \/ Headers(s) \/ Response(s)
  \/ SetKeep
  \/ Clear

Spec == Init /\ [][Next]_vars

-----------------------------------------------------------------------------
(* Properties.                                                             *)

\* The table is bounded (write_trace): it holds no more requests than the count
\* that came with the latest row, whatever order responses end in.
Bounded == Cardinality(SidsIn(rows)) <= latest

\* Eviction takes whole requests (write_trace): a step that removes a row of a
\* request removes its other row as well.
EvictedTogether ==
  [][\A q, r \in rows : q.sid = r.sid /\ q \notin rows' => r \notin rows']_vars

=============================================================================
