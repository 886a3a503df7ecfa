--------------------------- MODULE EventLogProofs ---------------------------
(***************************************************************************)
(* Proofs about EventLog, for any finite set of threads, any capacities    *)
(* and any number of events, faults, restarts and calls.                   *)
(***************************************************************************)
EXTENDS EventLog, FiniteSetTheorems, SequenceTheorems, NaturalLemmas

-----------------------------------------------------------------------------
(* The inductive invariant.                                                *)

\* Events whose fate is known.
Accounted == InRows \cup erased \cup lost

\* Ids do not run ahead of the events, calls of sync not of their bound, and the
\* writer receives only while the batch has room.
Counters ==
  /\ nextId <= emitted + 1
  /\ \A p \in Producers : call[p] + budget.syncs <= MaxSyncs
  /\ \A p \in Producers : pc[p] = "send" => call[p] >= 1
  /\ writer = "recv" => Len(batch) < BatchSize
  /\ writer = "reply" => batch = <<>>

Losses == IsFiniteSet(lost) /\ LossesCounted

\* Channels are not reused: those in the log belong to calls that were made, and
\* not to one that has not sent its barrier yet.
ChannelsFresh ==
  \A p \in Producers, c \in Nat :
    <<p, c>> \in FromOf(queue) \cup FromOf(batch) \cup replies =>
      c <= call[p] /\ (pc[p] = "send" => c < call[p])

\* The events queued before position k.
Ahead(k) == UNION {queue[j].event : j \in 1..(k - 1)}

\* What p's barrier covers is in front of it: settled, in the batch, or before
\* it in the queue; and less and less of it as the barrier goes on.
Covers(p) ==
  /\ \A k \in 1..Len(queue) :
       <<p, call[p]>> \in queue[k].from => before[p] \subseteq Accounted \cup EventsOf(batch) \cup Ahead(k)
  /\ <<p, call[p]>> \in FromOf(batch) => before[p] \subseteq Accounted \cup EventsOf(batch)
  /\ <<p, call[p]>> \in replies => before[p] \subseteq Accounted

Barriers == \A p \in Producers : pc[p] = "wait" => Covers(p)

IInv ==
  /\ TypeOK
  /\ Counters
  /\ Losses
  /\ ChannelsFresh
  /\ Barriers
  /\ BarrierSettles

-----------------------------------------------------------------------------
(* Messages, batches and the rows written from them.                       *)

Channels == Producers \X (1..MaxSyncs)

\* A message has at most one event, and one exactly if it says so.
LEMMA MessageFacts ==
  ASSUME NEW m \in Messages
  PROVE  /\ m.event \subseteq Events
         /\ m.kind = "event" <=> m.event # {}
         /\ \A d, e \in m.event : d = e
         /\ m.from \subseteq Channels
  BY DEF Messages, EventMsg, PruneMsg, FlushMsg, Channels

LEMMA MessageTypes ==
  /\ \A e \in Events : EventMsg(e) \in Messages /\ EventMsg(e).event = {e} /\ EventMsg(e).from = {}
  /\ PruneMsg \in Messages /\ PruneMsg.event = {} /\ PruneMsg.from = {}
  /\ \A p \in Producers, c \in 1..MaxSyncs :
       /\ FlushMsg(p, c) \in Messages /\ FlushMsg(p, c).event = {}
       /\ FlushMsg(p, c).from = {<<p, c>>}
  <1>1. ASSUME NEW e \in Events
        PROVE  EventMsg(e) \in Messages /\ EventMsg(e).event = {e} /\ EventMsg(e).from = {}
    <2>1. EventMsg(e) \in Messages
      BY DEF Messages
    <2>2. QED
      BY <2>1 DEF EventMsg
  <1>2. PruneMsg \in Messages /\ PruneMsg.event = {} /\ PruneMsg.from = {}
    <2>1. PruneMsg \in Messages
      BY DEF Messages
    <2>2. QED
      BY <2>1 DEF PruneMsg
  <1>3. ASSUME NEW p \in Producers, NEW c \in 1..MaxSyncs
        PROVE  /\ FlushMsg(p, c) \in Messages /\ FlushMsg(p, c).event = {}
               /\ FlushMsg(p, c).from = {<<p, c>>}
    <2>1. FlushMsg(p, c) \in Messages
      BY DEF Messages
    <2>2. QED
      BY <2>1 DEF FlushMsg
  <1>4. QED
    BY <1>1, <1>2, <1>3

LEMMA BatchFacts ==
  ASSUME NEW ms \in Seq(Messages)
  PROVE  /\ EventsOf(ms) \subseteq Events
         /\ FromOf(ms) \subseteq Channels
         /\ \A e : e \in EventsOf(ms) <=> \E i \in 1..Len(ms) : e \in ms[i].event
         /\ \A c : c \in FromOf(ms) <=> \E i \in 1..Len(ms) : c \in ms[i].from
  <1>1. \A i \in 1..Len(ms) : ms[i] \in Messages
    BY ElementOfSeq
  <1>2. QED
    BY <1>1, MessageFacts DEF EventsOf, FromOf

\* What a message adds when it is put at the end of a sequence.
LEMMA AppendFacts ==
  ASSUME NEW ms \in Seq(Messages), NEW m \in Messages
  PROVE  /\ Append(ms, m) \in Seq(Messages)
         /\ Len(Append(ms, m)) = Len(ms) + 1
         /\ EventsOf(Append(ms, m)) = EventsOf(ms) \cup m.event
         /\ FromOf(Append(ms, m)) = FromOf(ms) \cup m.from
  <1> DEFINE s == Append(ms, m)
  <1>1. /\ s \in Seq(Messages) /\ Len(s) = Len(ms) + 1 /\ Len(ms) \in Nat
        /\ \A i \in 1..Len(ms) : s[i] = ms[i]
        /\ s[Len(ms) + 1] = m
    BY AppendProperties, LenProperties
  <1> HIDE DEF s
  <1>2. /\ \A e : e \in EventsOf(s) <=> \E i \in 1..Len(s) : e \in s[i].event
        /\ \A c : c \in FromOf(s) <=> \E i \in 1..Len(s) : c \in s[i].from
    BY <1>1, BatchFacts
  <1>3. /\ \A e : e \in EventsOf(ms) <=> \E i \in 1..Len(ms) : e \in ms[i].event
        /\ \A c : c \in FromOf(ms) <=> \E i \in 1..Len(ms) : c \in ms[i].from
    BY BatchFacts
  <1>4. \A i : i \in 1..Len(s) <=> i \in 1..Len(ms) \/ i = Len(ms) + 1
    BY <1>1
  <1>5. \A e : e \in EventsOf(s) <=> e \in EventsOf(ms) \/ e \in m.event
    BY <1>1, <1>2, <1>3, <1>4
  <1>6. \A c : c \in FromOf(s) <=> c \in FromOf(ms) \/ c \in m.from
    BY <1>1, <1>2, <1>3, <1>4
  <1>7. QED
    BY <1>1, <1>5, <1>6 DEF s

LEMMA EmptyBatch == EventsOf(<<>>) = {} /\ FromOf(<<>>) = {}
  BY DEF EventsOf, FromOf

\* Each message counts for at least its event.
LEMMA EventsCounted ==
  ASSUME NEW ms \in Seq(Messages)
  PROVE  /\ IsFiniteSet(EventsOf(ms))
         /\ Cardinality(EventsOf(ms)) \in Nat
         /\ Cardinality(EventsOf(ms)) <= Len(ms)
  <1> DEFINE I == {i \in 1..Len(ms) : ms[i].event # {}}
             f == [i \in I |-> CHOOSE e \in ms[i].event : TRUE]
  <1>1. Len(ms) \in Nat /\ \A i \in 1..Len(ms) : ms[i] \in Messages
    BY LenProperties, ElementOfSeq
  <1>2. \A i \in I : f[i] \in ms[i].event /\ \A e \in ms[i].event : e = f[i]
    BY <1>1, MessageFacts
  <1>3. \A e : e \in EventsOf(ms) <=> \E i \in 1..Len(ms) : e \in ms[i].event
    BY BatchFacts
  <1>4. f \in [I -> EventsOf(ms)]
    BY <1>2, <1>3
  <1>5. \A e \in EventsOf(ms) : \E i \in I : f[i] = e
    BY <1>2, <1>3
  <1> HIDE DEF f
  <1>6. f \in Surjection(I, EventsOf(ms))
    BY <1>4, <1>5 DEF Surjection
  <1>7. IsFiniteSet(1..Len(ms)) /\ Cardinality(1..Len(ms)) = Len(ms)
    BY <1>1, FS_Interval, SMTT(30)
  <1>8. I \in SUBSET (1..Len(ms))
    OBVIOUS
  <1>9. IsFiniteSet(I) /\ Cardinality(I) <= Len(ms)
    BY <1>7, <1>8, FS_Subset
  <1>10. IsFiniteSet(EventsOf(ms)) /\ Cardinality(EventsOf(ms)) <= Cardinality(I)
    BY <1>6, <1>9, FS_Surjection
  <1>11. Cardinality(EventsOf(ms)) \in Nat /\ Cardinality(I) \in Nat
    BY <1>9, <1>10, FS_CardinalityType
  <1>12. QED
    BY <1>1, <1>9, <1>10, <1>11

LEMMA InsertedFacts ==
  ASSUME TypeOK, NEW failed
  PROVE  /\ Inserted(failed) \in SUBSET Nat
         /\ IsFiniteSet(Inserted(failed))
         /\ Cardinality(Inserted(failed)) \in Nat
         /\ \A T \in SUBSET Inserted(failed) :
              Cardinality(T) \in Nat /\ Cardinality(T) <= Cardinality(Inserted(failed))
  <1>1. Len(batch) \in Nat
    BY LenProperties DEF TypeOK
  <1>2. Inserted(failed) \in SUBSET (1..Len(batch))
    BY DEF Inserted
  <1>3. IsFiniteSet(1..Len(batch))
    BY <1>1, FS_Interval
  <1>4. IsFiniteSet(Inserted(failed))
    BY <1>2, <1>3, FS_Subset
  <1>5. QED
    BY <1>1, <1>2, <1>4, FS_Subset, FS_CardinalityType

\* The rows of a batch are events, and miss none but the failed ones.
LEMMA WrittenFacts ==
  ASSUME TypeOK, NEW failed
  PROVE  /\ Written(failed) \in Seq(Events)
         /\ Len(Written(failed)) = Cardinality(Inserted(failed))
         /\ \A k \in 1..Len(Written(failed)) : Written(failed)[k] \in EventsOf(batch)
         /\ \A e \in EventsOf(batch) \ failed :
              \E k \in 1..Len(Written(failed)) : Written(failed)[k] = e
  <1> DEFINE at == Inserted(failed)
             n == Cardinality(at)
  <1>1. batch \in Seq(Messages) /\ \A i \in 1..Len(batch) : batch[i] \in Messages
    BY ElementOfSeq DEF TypeOK
  <1>2. at \in SUBSET Nat /\ IsFiniteSet(at) /\ n \in Nat
    BY InsertedFacts
  <1>3. /\ \A k \in 1..n : Nth(at, k) \in at
        /\ \A i \in at : \E k \in 1..n : Nth(at, k) = i
    BY <1>2, NthFacts
  <1>4. ASSUME NEW i \in at
        PROVE  /\ i \in 1..Len(batch)
               /\ (CHOOSE e \in batch[i].event : TRUE) \in Events
               /\ (CHOOSE e \in batch[i].event : TRUE) \in EventsOf(batch)
               /\ \A e \in batch[i].event : (CHOOSE x \in batch[i].event : TRUE) = e
    <2>1. i \in 1..Len(batch) /\ batch[i].kind = "event"
      BY DEF Inserted
    <2>2. batch[i] \in Messages
      BY <1>1, <2>1
    <2>3. /\ batch[i].event \subseteq Events /\ batch[i].event # {}
          /\ \A d, e \in batch[i].event : d = e
      BY <2>1, <2>2, MessageFacts
    <2>4. batch[i].event \subseteq EventsOf(batch)
      BY <1>1, <2>1, BatchFacts
    <2>5. QED
      BY <2>1, <2>3, <2>4
  <1> DEFINE w == [k \in 1..n |-> CHOOSE e \in batch[Nth(at, k)].event : TRUE]
  <1>5. Written(failed) = w
    BY DEF Written
  <1>6. \A k \in 1..n : w[k] \in Events /\ w[k] \in EventsOf(batch)
    BY <1>3, <1>4
  <1>7. ASSUME NEW e \in EventsOf(batch) \ failed
        PROVE  \E k \in 1..n : w[k] = e
    <2>1. PICK i \in 1..Len(batch) : e \in batch[i].event
      BY <1>1, BatchFacts
    <2>2. batch[i] \in Messages
      BY <1>1
    <2>3. batch[i].kind = "event" /\ \A d \in batch[i].event : d = e
      BY <2>1, <2>2, MessageFacts
    <2>4. i \in at
      BY <2>1, <2>3 DEF Inserted
    <2>5. PICK k \in 1..n : Nth(at, k) = i
      BY <1>3, <2>4
    <2>6. w[k] = e
      BY <1>4, <2>1, <2>4, <2>5
    <2>7. QED
      BY <2>6
  <1>8. w \in Seq(Events) /\ Len(w) = n
    <2>1. w \in [1..n -> Events]
      BY <1>6
    <2> HIDE DEF w, n
    <2>2. QED
      BY <1>2, <2>1
  <1>9. QED
    BY <1>5, <1>6, <1>7, <1>8

Budgets == [faults : 0..MaxFaults, exits : 0..MaxExits, clears : 0..MaxClears, syncs : 0..MaxSyncs]
Statistics == [written : Nat, dropped : Nat, dead_letters : Nat]

\* What a flush does, committed or not: the events of the batch are accounted
\* for, nothing else is forgotten, and losses are counted.
Flushed ==
  /\ rows' \in Seq(Events)
  /\ erased' \subseteq Events /\ lost' \subseteq Events
  /\ stats' \in Statistics
  /\ budget' \in Budgets /\ budget'.syncs = budget.syncs
  /\ Accounted \cup EventsOf(batch) \subseteq Accounted'
  /\ Losses'

\* Rows and erased rows, together, lose nothing when the first n of them go.
LEMMA RowsSplit ==
  ASSUME NEW all \in Seq(Events), NEW n \in 0..Len(all)
  PROVE  /\ SubSeq(all, n + 1, Len(all)) \in Seq(Events)
         /\ {all[i] : i \in 1..n} \subseteq Events
         /\ LET s == SubSeq(all, n + 1, Len(all))
            IN  \A i \in 1..Len(all) :
                  all[i] \in {s[j] : j \in 1..Len(s)} \cup {all[j] : j \in 1..n}
  <1> DEFINE s == SubSeq(all, n + 1, Len(all))
  <1>1. Len(all) \in Nat /\ \A i \in 1..Len(all) : all[i] \in Events
    BY LenProperties, ElementOfSeq
  <1>2. \A i \in (n + 1)..Len(all) : all[i] \in Events
    BY <1>1
  <1>3. /\ s \in Seq(Events)
        /\ Len(s) = IF n + 1 <= Len(all) THEN Len(all) - (n + 1) + 1 ELSE 0
        /\ \A i \in 1..(Len(all) - (n + 1) + 1) : s[i] = all[(n + 1) + i - 1]
    BY <1>1, <1>2, SubSeqProperties
  <1> HIDE DEF s
  <1>4. ASSUME NEW i \in 1..Len(all), i > n
        PROVE  \E j \in 1..Len(s) : s[j] = all[i]
    <2>1. i - n \in 1..Len(s) /\ i - n \in 1..(Len(all) - (n + 1) + 1)
      BY <1>1, <1>3, <1>4
    <2>2. (n + 1) + (i - n) - 1 = i
      BY <1>1
    <2>3. s[i - n] = all[i]
      BY <1>3, <2>1, <2>2
    <2>4. QED
      BY <2>1, <2>3
  <1>5. \A i \in 1..n : i \in 1..Len(all)
    BY <1>1
  <1>6. \A i \in 1..Len(all) : i > n \/ i \in 1..n
    BY <1>1
  <1>7. QED
    BY <1>1, <1>3, <1>4, <1>5, <1>6 DEF s

\* The rows a retention message may remove are there.
LEMMA PrunableBound ==
  ASSUME TypeOK, NEW failed
  PROVE  /\ Prunable(failed) \in Nat
         /\ Prunable(failed) <= Len(rows) + Cardinality(Inserted(failed))
  <1> DEFINE at == {i \in 1..Len(batch) : batch[i].kind = "prune"}
             T == {i \in Inserted(failed) : \E j \in at : i < j}
  <1>1. Len(rows) \in Nat
    BY LenProperties DEF TypeOK
  <1>2. T \in SUBSET Inserted(failed)
    OBVIOUS
  <1>3. /\ Cardinality(T) \in Nat /\ Cardinality(T) <= Cardinality(Inserted(failed))
        /\ Cardinality(Inserted(failed)) \in Nat
    BY <1>2, InsertedFacts
  <1>4. Prunable(failed) = IF at = {} THEN 0 ELSE Len(rows) + Cardinality(T)
    BY DEF Prunable
  <1> HIDE DEF T, at
  <1>5. QED
    BY <1>1, <1>3, <1>4

\* Losing more events and counting as many keeps the counters right.
LEMMA LossesGrow ==
  ASSUME Losses, stats \in Statistics, NEW E, IsFiniteSet(E), NEW n \in Nat,
         Cardinality(E) <= n, lost' = lost \cup E,
         stats'.dropped + stats'.dead_letters = stats.dropped + stats.dead_letters + n
  PROVE  Losses'
  <1>1. /\ IsFiniteSet(lost \cup E)
        /\ Cardinality(lost \cup E) = Cardinality(lost) + Cardinality(E) - Cardinality(lost \cap E)
    BY FS_Union DEF Losses
  <1>2. lost \cap E \in SUBSET E
    OBVIOUS
  <1>3. /\ Cardinality(lost) \in Nat /\ Cardinality(E) \in Nat
        /\ Cardinality(lost \cap E) \in Nat /\ Cardinality(lost \cup E) \in Nat
    BY <1>1, <1>2, FS_Subset, FS_CardinalityType DEF Losses
  <1>4. stats.dropped \in Nat /\ stats.dead_letters \in Nat
    BY DEF Statistics
  <1>5. Cardinality(lost) <= stats.dropped + stats.dead_letters
    BY DEF Losses, LossesCounted
  <1>6. Cardinality(lost \cup E) <= stats.dropped + stats.dead_letters + n
    BY <1>1, <1>3, <1>4, <1>5
  <1>7. QED
    BY <1>1, <1>6 DEF Losses, LossesCounted

LEMMA CommitFlushed ==
  ASSUME TypeOK, Losses, Commit
  PROVE  Flushed
  <1>1. PICK failed \in {{}} \cup {{e} : e \in EventsOf(batch)} :
          \E n \in 0..Prunable(failed) :
            LET all == rows \o Written(failed)
            IN  /\ failed # {} => budget.faults > 0
                /\ budget' = [budget EXCEPT !.faults = @ - Cardinality(failed)]
                /\ rows' = SubSeq(all, n + 1, Len(all))
                /\ erased' = erased \cup {all[i] : i \in 1..n}
                /\ lost' = lost \cup failed
                /\ stats' = [stats EXCEPT !.written = @ + Len(Written(failed)),
                                          !.dead_letters = @ + Cardinality(failed)]
    BY DEF Commit
  <1> DEFINE w == Written(failed)
             all == rows \o w
  <1>2. PICK n \in 0..Prunable(failed) :
                /\ failed # {} => budget.faults > 0
                /\ budget' = [budget EXCEPT !.faults = @ - Cardinality(failed)]
                /\ rows' = SubSeq(all, n + 1, Len(all))
                /\ erased' = erased \cup {all[i] : i \in 1..n}
                /\ lost' = lost \cup failed
                /\ stats' = [stats EXCEPT !.written = @ + Len(w),
                                          !.dead_letters = @ + Cardinality(failed)]
    BY <1>1
  <1>3. /\ rows \in Seq(Events) /\ batch \in Seq(Messages) /\ erased \subseteq Events
        /\ lost \subseteq Events /\ stats \in Statistics /\ budget \in Budgets
    BY DEF TypeOK, Statistics, Budgets
  <1>4. EventsOf(batch) \subseteq Events
    BY <1>3, BatchFacts
  <1>5. /\ w \in Seq(Events) /\ Len(w) = Cardinality(Inserted(failed))
        /\ \A e \in EventsOf(batch) \ failed : \E k \in 1..Len(w) : w[k] = e
    BY WrittenFacts
  <1> HIDE DEF w
  <1>6. /\ all \in Seq(Events) /\ Len(all) = Len(rows) + Len(w)
        /\ \A i \in 1..(Len(rows) + Len(w)) :
             all[i] = IF i <= Len(rows) THEN rows[i] ELSE w[i - Len(rows)]
        /\ Len(rows) \in Nat /\ Len(w) \in Nat
    BY <1>3, <1>5, ConcatProperties, LenProperties
  <1> HIDE DEF all
  <1>7. n \in 0..Len(all)
    BY <1>5, <1>6, PrunableBound
  <1>8. /\ rows' \in Seq(Events) /\ {all[i] : i \in 1..n} \subseteq Events
        /\ \A i \in 1..Len(all) : all[i] \in InRows' \cup {all[j] : j \in 1..n}
    BY <1>2, <1>6, <1>7, RowsSplit DEF InRows
  <1>9. \A i \in 1..Len(all) : all[i] \in Accounted'
    BY <1>2, <1>8 DEF Accounted
  <1>10. \A i \in 1..Len(rows) : rows[i] \in Accounted'
    <2>1. ASSUME NEW i \in 1..Len(rows) PROVE i \in 1..Len(all) /\ all[i] = rows[i]
      BY <1>6
    <2>2. QED
      BY <1>9, <2>1
  <1>11. \A k \in 1..Len(w) : w[k] \in Accounted'
    <2>1. ASSUME NEW k \in 1..Len(w)
          PROVE  Len(rows) + k \in 1..Len(all) /\ all[Len(rows) + k] = w[k]
      <3>1. Len(rows) + k \in 1..(Len(rows) + Len(w)) /\ ~(Len(rows) + k <= Len(rows))
        BY <1>6
      <3>2. (Len(rows) + k) - Len(rows) = k
        BY <1>6
      <3>3. QED
        BY <1>6, <3>1, <3>2
    <2>2. QED
      BY <1>9, <2>1
  <1>12. Accounted \cup EventsOf(batch) \subseteq Accounted'
    <2>1. InRows \subseteq Accounted'
      BY <1>10 DEF InRows
    <2>2. erased \cup lost \cup failed \subseteq Accounted'
      BY <1>2 DEF Accounted
    <2>3. EventsOf(batch) \ failed \subseteq Accounted'
      BY <1>5, <1>11
    <2>4. QED
      BY <2>1, <2>2, <2>3 DEF Accounted
  <1>13. /\ IsFiniteSet(failed) /\ Cardinality(failed) \in {0, 1}
         /\ Cardinality(failed) = 1 => failed # {}
    BY FS_EmptySet, FS_Singleton
  <1>14. budget' \in Budgets /\ budget'.syncs = budget.syncs
    <2>1. budget.faults \in 0..MaxFaults /\ MaxFaults \in Nat
      BY <1>3, LogAssumption DEF Budgets
    <2>2. budget.faults - Cardinality(failed) \in 0..MaxFaults
      BY <1>2, <1>13, <2>1
    <2>3. QED
      BY <1>2, <1>3, <2>2 DEF Budgets
  <1>15. /\ stats' \in Statistics
         /\ stats'.dropped + stats'.dead_letters =
              stats.dropped + stats.dead_letters + Cardinality(failed)
    <2> DEFINE c == Cardinality(failed)
    <2>1. c \in Nat /\ Len(w) \in Nat
      BY <1>6, <1>13
    <2>2. stats' = [stats EXCEPT !.written = @ + Len(w), !.dead_letters = @ + c]
      BY <1>2
    <2> HIDE DEF c
    <2>3. /\ stats = [written |-> stats.written, dropped |-> stats.dropped,
                      dead_letters |-> stats.dead_letters]
          /\ stats.written \in Nat /\ stats.dropped \in Nat /\ stats.dead_letters \in Nat
      BY <1>3 DEF Statistics
    <2>4. stats' = [written |-> stats.written + Len(w), dropped |-> stats.dropped,
                    dead_letters |-> stats.dead_letters + c]
      BY <2>2, <2>3
    <2>5. stats' \in Statistics
      BY <2>1, <2>3, <2>4 DEF Statistics
    <2>6. QED
      BY <2>1, <2>3, <2>4, <2>5 DEF c
  <1>16. Losses'
    <2> DEFINE c == Cardinality(failed)
    <2>1. lost' = lost \cup failed
      BY <1>2
    <2>2. IsFiniteSet(failed) /\ c \in Nat /\ Cardinality(failed) <= c
      BY <1>13
    <2>3. stats \in Statistics
      BY <1>3
    <2>4. stats'.dropped + stats'.dead_letters = stats.dropped + stats.dead_letters + c
      BY <1>15
    <2> HIDE DEF c
    <2>5. QED
      BY <2>1, <2>2, <2>3, <2>4, LossesGrow
  <1>17. lost' \subseteq Events /\ erased' \subseteq Events
    BY <1>2, <1>3, <1>4, <1>8
  <1>18. QED
    BY <1>8, <1>12, <1>14, <1>15, <1>16, <1>17 DEF Flushed

LEMMA FailureFlushed ==
  ASSUME TypeOK, Losses, FlushFails
  PROVE  Flushed
  <1>1. /\ rows \in Seq(Events) /\ batch \in Seq(Messages) /\ erased \subseteq Events
        /\ lost \subseteq Events /\ stats \in Statistics /\ budget \in Budgets
    BY DEF TypeOK, Statistics, Budgets
  <1>2. /\ EventsOf(batch) \subseteq Events /\ IsFiniteSet(EventsOf(batch))
        /\ Cardinality(EventsOf(batch)) \in Nat
        /\ Cardinality(EventsOf(batch)) <= Len(batch) /\ Len(batch) \in Nat
    BY <1>1, BatchFacts, EventsCounted, LenProperties
  <1>3. PICK n \in {Len(batch), Cardinality(EventsOf(batch))} :
          stats' = [stats EXCEPT !.dead_letters = @ + n]
    BY DEF FlushFails, DeadLetters
  <1>4. n \in Nat /\ Cardinality(EventsOf(batch)) <= n
    BY <1>2
  <1>5. /\ stats' \in Statistics
        /\ stats'.dropped + stats'.dead_letters = stats.dropped + stats.dead_letters + n
    BY <1>1, <1>3, <1>4 DEF Statistics
  <1>6. lost' = lost \cup EventsOf(batch) /\ UNCHANGED <<rows, erased>>
    BY DEF FlushFails
  <1>7. Losses'
    BY <1>1, <1>2, <1>4, <1>5, <1>6, LossesGrow
  <1>8. budget' \in Budgets /\ budget'.syncs = budget.syncs
    <2>1. budget.faults \in 0..MaxFaults /\ MaxFaults \in Nat
      BY <1>1, LogAssumption DEF Budgets
    <2>2. budget.faults - 1 \in 0..MaxFaults /\ budget' = [budget EXCEPT !.faults = @ - 1]
      BY <2>1 DEF FlushFails
    <2>3. QED
      BY <1>1, <2>2 DEF Budgets
  <1>9. QED
    BY <1>1, <1>2, <1>5, <1>6, <1>7, <1>8 DEF Flushed, Accounted, InRows

-----------------------------------------------------------------------------
(* Type correctness.                                                       *)

Typed == TypeOK /\ Counters

LEMMA InitTyped == Init => Typed
  <1> SUFFICES ASSUME Init PROVE Typed
    OBVIOUS
  <1>1. /\ QueueMax \in Nat \ {0} /\ BatchSize \in Nat \ {0} /\ RingCapacity \in Nat \ {0}
        /\ MaxEvents \in Nat /\ MaxFaults \in Nat /\ MaxExits \in Nat
        /\ MaxClears \in Nat /\ MaxSyncs \in Nat
    BY LogAssumption
  <1>2. budget \in Budgets /\ budget.syncs = MaxSyncs /\ stats \in Statistics
    BY <1>1 DEF Init, Budgets, Statistics, NoStats
  <1>3. Len(<<>>) = 0 /\ <<>> \in Seq(Events) /\ <<>> \in Seq(Messages)
    BY EmptySeq
  <1>4. TypeOK
    BY <1>1, <1>2, <1>3 DEF Init, TypeOK, Budgets, Statistics
  <1>5. Counters
    BY <1>1, <1>2, <1>3 DEF Init, Counters
  <1>6. QED
    BY <1>4, <1>5 DEF Typed

LEMMA EmitTyped ==
  ASSUME Typed, NEW p \in Producers, Emit(p)
  PROVE  Typed'
  <1> USE DEF Typed, Goto, busVars, writerVars
  <1>1. /\ pc \in [Producers -> {"idle", "push", "enqueue", "send", "wait", "acked", "clear"}]
        /\ hand \in [Producers -> SUBSET Events] /\ ring \in Seq(Events) /\ queue \in Seq(Messages)
        /\ nextId \in Nat \ {0} /\ emitted \in 0..MaxEvents /\ MaxEvents \in Nat
        /\ nextId <= emitted + 1 /\ stats \in Statistics /\ lost \subseteq Events
        /\ RingCapacity \in Nat \ {0} /\ Len(ring) <= RingCapacity
        /\ QueueMax \in Nat \ {0} /\ Len(queue) <= QueueMax
    <2>1. MaxEvents \in Nat /\ RingCapacity \in Nat \ {0} /\ QueueMax \in Nat \ {0}
      BY LogAssumption
    <2>2. nextId \in 1..(MaxEvents + 1) /\ emitted \in 0..MaxEvents /\ nextId <= emitted + 1
      BY DEF TypeOK, Counters
    <2>3. nextId \in Nat \ {0}
      BY <2>1, <2>2
    <2>4. QED
      BY <2>1, <2>2, <2>3 DEF TypeOK, Statistics
  <1>2. CASE AssignId(p)
    <2>1. emitted + 1 \in Uids /\ nextId \in Uids /\ nextId' \in 1..(MaxEvents + 1)
          /\ emitted' \in 0..MaxEvents /\ nextId' <= emitted' + 1
      BY <1>1, <1>2 DEF AssignId, Uids
    <2>2. [uid |-> emitted + 1, id |-> nextId] \in Events
      BY <2>1 DEF Events
    <2>3. hand' \in [Producers -> SUBSET Events]
      BY <1>1, <1>2, <2>2 DEF AssignId
    <2>4. TypeOK'
      BY <1>2, <2>1, <2>3 DEF AssignId, TypeOK
    <2>5. Counters'
      BY <1>1, <1>2, <2>1 DEF AssignId, Counters
    <2>6. QED
      BY <2>4, <2>5
  <1>3. CASE PushRing(p)
    <2>1. PICK e \in hand[p] : ring' = Append(RoomInRing, e)
      BY <1>3 DEF PushRing
    <2>2. e \in Events
      BY <1>1
    <2>3. RoomInRing \in Seq(Events) /\ Len(RoomInRing) \in Nat /\ Len(RoomInRing) + 1 <= RingCapacity
      <3>1. CASE Len(ring) >= RingCapacity
        <4>1. ring # <<>>
          BY <1>1, <3>1, EmptySeq
        <4>2. Tail(ring) \in Seq(Events) /\ Len(Tail(ring)) = Len(ring) - 1 /\ Len(ring) \in Nat
          BY <1>1, <4>1, HeadTailProperties, LenProperties
        <4>3. QED
          BY <1>1, <3>1, <4>2 DEF RoomInRing
      <3>2. CASE ~(Len(ring) >= RingCapacity)
        <4>1. Len(ring) \in Nat
          BY <1>1, LenProperties
        <4>2. QED
          BY <1>1, <3>2, <4>1 DEF RoomInRing
      <3>3. QED
        BY <3>1, <3>2
    <2>4. ring' \in Seq(Events) /\ Len(ring') <= RingCapacity
      BY <2>1, <2>2, <2>3, AppendProperties
    <2>5. TypeOK'
      BY <1>3, <2>4 DEF PushRing, TypeOK
    <2>6. Counters'
      BY <1>1, <1>3 DEF PushRing, Counters
    <2>7. QED
      BY <2>5, <2>6
  <1>4. CASE Enqueue(p)
    <2>1. PICK e \in hand[p] :
            \/ /\ Len(queue) < QueueMax
               /\ queue' = Append(queue, EventMsg(e))
               /\ UNCHANGED <<stats, lost>>
            \/ /\ Len(queue) >= QueueMax
               /\ DropCounted(e)
               /\ UNCHANGED queue
      BY <1>4 DEF Enqueue
    <2>2. e \in Events /\ EventMsg(e) \in Messages /\ Len(queue) \in Nat
      BY <1>1, MessageTypes, LenProperties
    <2>3. queue' \in Seq(Messages) /\ Len(queue') <= QueueMax
      BY <1>1, <2>1, <2>2, AppendProperties, SMTT(30)
    <2>4. lost' \subseteq Events /\ stats' \in Statistics
      BY <1>1, <2>1, <2>2 DEF DropCounted, Statistics
    <2>5. TypeOK'
      BY <1>4, <2>3, <2>4 DEF Enqueue, TypeOK, Statistics
    <2>6. Counters'
      BY <1>1, <1>4 DEF Enqueue, Counters
    <2>7. QED
      BY <2>5, <2>6
  <1>5. QED
    BY <1>2, <1>3, <1>4 DEF Emit

\* The bounded calls of the callers.
LEMMA BudgetFacts ==
  ASSUME TypeOK
  PROVE  /\ budget \in Budgets
         /\ budget.syncs \in 0..MaxSyncs /\ budget.clears \in 0..MaxClears /\ budget.exits \in 0..MaxExits
         /\ MaxSyncs \in Nat /\ MaxClears \in Nat /\ MaxExits \in Nat
  BY LogAssumption DEF TypeOK, Budgets

LEMMA SyncTyped ==
  ASSUME Typed, NEW p \in Producers, Sync(p)
  PROVE  Typed'
  <1> USE DEF Typed, Goto, busVars, writerVars
  <1>1. /\ pc \in [Producers -> {"idle", "push", "enqueue", "send", "wait", "acked", "clear"}]
        /\ call \in [Producers -> 0..MaxSyncs] /\ before \in [Producers -> SUBSET Events]
        /\ queue \in Seq(Messages) /\ batch \in Seq(Messages)
        /\ QueueMax \in Nat \ {0} /\ Len(queue) <= QueueMax
    BY LogAssumption DEF TypeOK
  <1>2. /\ budget \in Budgets /\ budget.syncs \in 0..MaxSyncs /\ MaxSyncs \in Nat
        /\ \A q \in Producers : call[q] \in Nat /\ call[q] + budget.syncs <= MaxSyncs
    BY <1>1, BudgetFacts DEF Counters
  <1>3. CASE SyncCall(p)
    <2>1. /\ budget.syncs > 0 /\ budget' = [budget EXCEPT !.syncs = @ - 1]
          /\ call' = [call EXCEPT ![p] = @ + 1]
      BY <1>3 DEF SyncCall
    <2>2. budget' \in Budgets /\ budget'.syncs = budget.syncs - 1
      BY <1>2, <2>1 DEF Budgets
    <2>3. \A q \in Producers : call'[q] \in 0..MaxSyncs /\ call'[q] + budget'.syncs <= MaxSyncs
      BY <1>1, <1>2, <2>1, <2>2
    <2>4. call' \in [Producers -> 0..MaxSyncs] /\ call'[p] >= 1
      BY <1>1, <1>2, <2>1, <2>3
    <2>5. TypeOK'
      BY <1>3, <2>2, <2>4 DEF SyncCall, TypeOK, Budgets
    <2>6. \A q \in Producers : pc'[q] = "send" => call'[q] >= 1
      BY <1>1, <1>3, <2>1, <2>4 DEF SyncCall, Counters
    <2>7. Counters'
      BY <1>3, <2>3, <2>6 DEF SyncCall, Counters
    <2>8. QED
      BY <2>5, <2>7
  <1>4. CASE SyncSend(p)
    <2>1. call[p] \in 1..MaxSyncs
      BY <1>1, <1>2, <1>4 DEF SyncSend, Counters
    <2>2. FlushMsg(p, call[p]) \in Messages /\ Len(queue) \in Nat
      BY <1>1, <2>1, MessageTypes, LenProperties
    <2>3. queue' \in Seq(Messages) /\ Len(queue') <= QueueMax
      BY <1>1, <1>4, <2>2, AppendProperties DEF SyncSend
    <2>4. Pending \in SUBSET Events
      BY <1>1, BatchFacts DEF Pending
    <2>5. TypeOK'
      BY <1>1, <1>4, <2>3, <2>4 DEF SyncSend, TypeOK
    <2>6. Counters'
      BY <1>1, <1>4 DEF SyncSend, Counters
    <2>7. QED
      BY <2>5, <2>6
  <1>5. CASE SyncTimeout(p)
    BY <1>1, <1>5 DEF SyncTimeout, TypeOK, Counters
  <1>6. QED
    BY <1>3, <1>4, <1>5 DEF Sync

LEMMA ClearTyped ==
  ASSUME Typed
  PROVE  /\ \A p \in Producers : ClearLogs(p) => Typed'
         /\ Prune => Typed'
         /\ Restart => Typed'
  <1> USE DEF Typed, Goto, busVars, writerVars, procVars
  <1>1. /\ pc \in [Producers -> {"idle", "push", "enqueue", "send", "wait", "acked", "clear"}]
        /\ queue \in Seq(Messages) /\ QueueMax \in Nat \ {0} /\ Len(queue) <= QueueMax
        /\ Len(queue) \in Nat /\ rows \in Seq(Events) /\ erased \subseteq Events
        /\ RingCapacity \in Nat \ {0} /\ BatchSize \in Nat \ {0} /\ MaxEvents \in Nat
        /\ emitted \in 0..MaxEvents
    BY LogAssumption, LenProperties DEF TypeOK
  <1>2. Len(<<>>) = 0 /\ <<>> \in Seq(Events) /\ <<>> \in Seq(Messages)
    BY EmptySeq
  <1>3. /\ budget \in Budgets /\ budget.clears \in 0..MaxClears /\ MaxClears \in Nat
        /\ budget.exits \in 0..MaxExits /\ MaxExits \in Nat
        /\ budget.syncs \in 0..MaxSyncs /\ MaxSyncs \in Nat
    BY BudgetFacts
  <1>4. ASSUME budget.clears > 0, budget' = [budget EXCEPT !.clears = @ - 1]
        PROVE  budget' \in Budgets /\ budget'.syncs = budget.syncs
    BY <1>3, <1>4 DEF Budgets
  <1>5. ASSUME NEW p \in Producers, ClearBus(p) PROVE Typed'
    <2>1. budget' \in Budgets /\ budget'.syncs = budget.syncs
      BY <1>4, <1>5 DEF ClearBus
    <2>2. TypeOK'
      <3>1. ring' \in Seq(Events) /\ Len(ring') <= RingCapacity
        BY <1>1, <1>2, <1>5 DEF ClearBus
      <3>2. pc' \in [Producers -> {"idle", "push", "enqueue", "send", "wait", "acked", "clear"}]
        BY <1>1, <1>5 DEF ClearBus
      <3>3. QED
        BY <1>5, <2>1, <3>1, <3>2 DEF ClearBus, TypeOK, Budgets
    <2>3. Counters'
      BY <1>1, <1>5, <2>1 DEF ClearBus, Counters
    <2>4. QED
      BY <2>2, <2>3
  <1>6. ASSUME NEW p \in Producers, ClearRows(p) PROVE Typed'
    <2>1. InRows \subseteq Events
      BY <1>1, ElementOfSeq DEF InRows
    <2>2. TypeOK'
      BY <1>1, <1>2, <1>6, <2>1 DEF ClearRows, TypeOK
    <2>3. Counters'
      BY <1>1, <1>6 DEF ClearRows, Counters
    <2>4. QED
      BY <2>2, <2>3
  <1>7. ASSUME Prune PROVE Typed'
    <2>1. budget' \in Budgets /\ budget'.syncs = budget.syncs
      BY <1>4, <1>7 DEF Prune
    <2>2. queue' \in Seq(Messages) /\ Len(queue') <= QueueMax
      BY <1>1, <1>7, MessageTypes, AppendProperties DEF Prune
    <2>3. TypeOK'
      BY <1>7, <2>1, <2>2 DEF Prune, TypeOK, Budgets
    <2>4. Counters'
      BY <1>7, <2>1 DEF Prune, Counters
    <2>5. QED
      BY <2>3, <2>4
  <1>8. ASSUME Restart PROVE Typed'
    <2>1. budget' \in Budgets /\ budget'.syncs = budget.syncs
      BY <1>3, <1>8 DEF Restart, Budgets
    <2>2. TypeOK'
      <3>1. /\ ring' \in Seq(Events) /\ Len(ring') <= RingCapacity
            /\ queue' \in Seq(Messages) /\ Len(queue') <= QueueMax
            /\ batch' \in Seq(Messages) /\ Len(batch') <= BatchSize
        BY <1>1, <1>2, <1>8 DEF Restart
      <3>2. /\ pc' \in [Producers -> {"idle", "push", "enqueue", "send", "wait", "acked", "clear"}]
            /\ hand' \in [Producers -> SUBSET Events] /\ before' \in [Producers -> SUBSET Events]
        BY <1>8 DEF Restart
      <3>3. call' \in [Producers -> 0..MaxSyncs] /\ nextId' \in 1..(MaxEvents + 1)
        BY <1>1, <1>3, <1>8 DEF Restart
      <3>4. stats' \in Statistics
        BY <1>8 DEF Restart, Statistics, NoStats
      <3>5. /\ writer' \in {"recv", "flush", "reply"} /\ conn' \in BOOLEAN
            /\ replies' \subseteq Producers \X (1..MaxSyncs) /\ lost' \subseteq Events
        BY <1>8 DEF Restart
      <3>6. rows' \in Seq(Events) /\ erased' \subseteq Events /\ emitted' \in 0..MaxEvents
        BY <1>1, <1>8 DEF Restart
      <3>7. QED
        BY <2>1, <3>1, <3>2, <3>3, <3>4, <3>5, <3>6 DEF TypeOK, Budgets, Statistics
    <2>3. Counters'
      BY <1>1, <1>2, <1>3, <1>8, <2>1 DEF Restart, Counters
    <2>4. QED
      BY <2>2, <2>3
  <1>9. QED
    BY <1>5, <1>6, <1>7, <1>8 DEF ClearLogs

LEMMA WriterTyped ==
  ASSUME Typed, Losses, WriterStep
  PROVE  Typed'
  <1> USE DEF Typed, busVars, procVars
  <1>1. /\ queue \in Seq(Messages) /\ batch \in Seq(Messages) /\ Len(batch) \in Nat
        /\ Len(queue) \in Nat /\ Len(queue) <= QueueMax /\ QueueMax \in Nat
        /\ BatchSize \in Nat \ {0} /\ Len(batch) <= BatchSize
    BY LogAssumption, LenProperties DEF TypeOK
  <1>2. Len(<<>>) = 0 /\ <<>> \in Seq(Messages)
    BY EmptySeq
  <1>3. CASE Receive
    <2>1. queue # <<>> /\ batch' = Append(batch, Head(queue)) /\ queue' = Tail(queue)
      BY <1>3 DEF Receive
    <2>2. /\ Head(queue) \in Messages /\ queue' \in Seq(Messages) /\ Len(queue') = Len(queue) - 1
      BY <1>1, <2>1, HeadTailProperties
    <2>3. batch' \in Seq(Messages) /\ Len(batch') = Len(batch) + 1
      BY <1>1, <2>1, <2>2, AppendProperties
    <2>4. Len(batch) < BatchSize
      BY <1>3 DEF Receive, Counters
    <2>5. writer' \in {"recv", "flush"} /\ (writer' = "recv" => Len(batch) + 1 < BatchSize)
      BY <1>1, <1>3 DEF Receive, Received
    <2>6. TypeOK'
      <3>1. Len(queue') <= QueueMax /\ Len(batch') <= BatchSize
        BY <1>1, <2>2, <2>3, <2>4
      <3>2. UNCHANGED <<nextId, ring, hand, pc, call, before, replies, conn, rows, stats, lost,
                        erased, emitted, budget>>
        BY <1>3 DEF Receive, Received
      <3>3. QED
        BY <2>2, <2>3, <2>5, <3>1, <3>2 DEF TypeOK
    <2>7. Counters'
      BY <1>3, <2>3, <2>5 DEF Receive, Counters
    <2>8. QED
      BY <2>6, <2>7
  <1>4. CASE ReceiveTimeout
    BY <1>4 DEF ReceiveTimeout, TypeOK, Counters
  <1>5. CASE Commit \/ FlushFails
    <2>1. Flushed
      BY <1>5, CommitFlushed, FailureFlushed
    <2>2. /\ replies' = FromOf(batch) /\ writer' = "reply" /\ batch' = <<>>
          /\ conn' \in BOOLEAN /\ UNCHANGED <<nextId, ring, hand, pc, call, before, queue, emitted>>
      BY <1>5 DEF Commit, FlushFails, EndFlush
    <2>3. replies' \subseteq Producers \X (1..MaxSyncs)
      BY <1>1, <2>2, BatchFacts DEF Channels
    <2>4. TypeOK'
      <3>1. batch' \in Seq(Messages) /\ Len(batch') <= BatchSize
        BY <1>1, <1>2, <2>2
      <3>2. /\ rows' \in Seq(Events) /\ lost' \subseteq Events /\ erased' \subseteq Events
            /\ stats' \in Statistics /\ budget' \in Budgets
        BY <2>1 DEF Flushed
      <3>3. QED
        BY <2>2, <2>3, <3>1, <3>2 DEF TypeOK, Budgets, Statistics
    <2>5. Counters'
      BY <2>1, <2>2 DEF Flushed, Counters
    <2>6. QED
      BY <2>4, <2>5
  <1>6. CASE Reply
    <2>1. \A p \in Producers : pc'[p] = pc[p] \/ pc'[p] = "acked"
      BY <1>6 DEF Reply
    <2>2. TypeOK'
      BY <1>6 DEF Reply, TypeOK
    <2>3. batch = <<>>
      BY <1>6 DEF Reply, Counters
    <2>4. Counters'
      BY <1>1, <1>2, <1>6, <2>1, <2>3 DEF Reply, Counters
    <2>5. QED
      BY <2>2, <2>4
  <1>7. QED
    BY <1>3, <1>4, <1>5, <1>6 DEF WriterStep

-----------------------------------------------------------------------------
(* Losses are counted.                                                     *)

LEMMA LossesKept ==
  ASSUME Typed, Losses, Next
  PROVE  Losses'
  <1>1. /\ stats \in Statistics /\ stats.dropped \in Nat /\ stats.dead_letters \in Nat
    BY DEF Typed, TypeOK, Statistics
  <1>2. ASSUME UNCHANGED <<lost, stats>> PROVE Losses'
    BY <1>2 DEF Losses, LossesCounted
  <1>3. ASSUME NEW p \in Producers, Enqueue(p) PROVE Losses'
    <2>1. PICK e \in hand[p] : UNCHANGED <<lost, stats>> \/ DropCounted(e)
      BY <1>3 DEF Enqueue
    <2>2. CASE DropCounted(e)
      <3>1. IsFiniteSet({e}) /\ Cardinality({e}) <= 1
        BY FS_Singleton
      <3>2. stats'.dropped + stats'.dead_letters = stats.dropped + stats.dead_letters + 1
        BY <1>1, <2>2 DEF DropCounted, Statistics
      <3>3. lost' = lost \cup {e}
        BY <2>2 DEF DropCounted
      <3>4. QED
        BY <1>1, <3>1, <3>2, <3>3, LossesGrow
    <2>3. QED
      BY <1>2, <2>1, <2>2
  <1>4. ASSUME NEW p \in Producers, Emit(p) \/ Sync(p) \/ ClearLogs(p) PROVE Losses'
    <2>1. Enqueue(p) \/ UNCHANGED <<lost, stats>>
      BY <1>4 DEF Emit, AssignId, PushRing, Sync, SyncCall, SyncSend, SyncTimeout, ClearLogs,
                  ClearBus, ClearRows
    <2>2. QED
      BY <1>2, <1>3, <2>1
  <1>5. ASSUME WriterStep PROVE Losses'
    <2>1. Commit \/ FlushFails \/ UNCHANGED <<lost, stats>>
      BY <1>5 DEF WriterStep, Receive, ReceiveTimeout, Reply
    <2>2. QED
      BY <1>2, <2>1, CommitFlushed, FailureFlushed DEF Typed, Flushed
  <1>6. ASSUME Restart PROVE Losses'
    <2>1. lost' = {} /\ stats'.dropped = 0 /\ stats'.dead_letters = 0
      BY <1>6 DEF Restart, NoStats
    <2>2. IsFiniteSet({}) /\ Cardinality({}) = 0
      BY FS_EmptySet
    <2>3. QED
      BY <2>1, <2>2 DEF Losses, LossesCounted
  <1>7. Prune => UNCHANGED <<lost, stats>>
    BY DEF Prune
  <1>8. QED
    BY <1>2, <1>4, <1>5, <1>6, <1>7 DEF Next

-----------------------------------------------------------------------------
(* Barriers.                                                               *)

Barred == ChannelsFresh /\ Barriers /\ BarrierSettles

\* Who waits, waited; who was answered, was answered before; the rest is free.
Waiters ==
  \A p \in Producers : pc'[p] \in {"send", "wait", "acked"} =>
    pc'[p] = pc[p] /\ before'[p] = before[p]

\* A step that neither moves messages nor takes back what is settled.
LEMMA BarredKept ==
  ASSUME Barred, UNCHANGED <<queue, batch, replies, call>>, Accounted \subseteq Accounted', Waiters
  PROVE  Barred'
  <1>1. FromOf(queue)' = FromOf(queue) /\ FromOf(batch)' = FromOf(batch) /\ EventsOf(batch)' = EventsOf(batch)
    BY DEF FromOf, EventsOf
  <1>2. \A k : Ahead(k)' = Ahead(k)
    BY DEF Ahead
  <1>3. ChannelsFresh'
    BY <1>1 DEF Barred, ChannelsFresh, Waiters
  <1>4. ASSUME NEW p \in Producers, pc'[p] = "wait" PROVE Covers(p)'
    <2>1. Covers(p) /\ before'[p] = before[p]
      BY <1>4 DEF Barred, Barriers, Waiters
    <2>2. QED
      BY <1>1, <1>2, <2>1 DEF Covers
  <1>5. BarrierSettles'
    BY DEF Barred, BarrierSettles, Accounted, Waiters
  <1>6. QED
    BY <1>3, <1>4, <1>5 DEF Barred, Barriers

\* The events ahead of a position do not change when the queue grows.
LEMMA AheadOfAppend ==
  ASSUME NEW m \in Messages, queue \in Seq(Messages), queue' = Append(queue, m)
  PROVE  /\ Len(queue') = Len(queue) + 1 /\ Len(queue) \in Nat
         /\ \A k \in 1..Len(queue) : queue'[k] = queue[k] /\ Ahead(k)' = Ahead(k)
         /\ queue'[Len(queue) + 1] = m
         /\ \A k \in Nat : k = Len(queue) + 1 => Ahead(k)' = EventsOf(queue)
         /\ FromOf(queue)' = FromOf(queue) \cup m.from
  <1>1. /\ Len(queue') = Len(queue) + 1 /\ Len(queue) \in Nat
        /\ \A k \in 1..Len(queue) : queue'[k] = queue[k]
        /\ queue'[Len(queue) + 1] = m
    BY AppendProperties, LenProperties
  <1>2. ASSUME NEW k \in 1..(Len(queue) + 1)
        PROVE  Ahead(k)' = UNION {queue[j].event : j \in 1..(k - 1)}
    <2>1. \A j \in 1..(k - 1) : j \in 1..Len(queue)
      BY <1>1
    <2>2. QED
      BY <1>1, <2>1 DEF Ahead
  <1>3. \A k \in 1..Len(queue) : Ahead(k)' = Ahead(k)
    BY <1>1, <1>2 DEF Ahead
  <1>4. ASSUME NEW k \in Nat, k = Len(queue) + 1 PROVE Ahead(k)' = EventsOf(queue)
    <2>1. k \in 1..(Len(queue) + 1) /\ k - 1 = Len(queue)
      BY <1>1, <1>4
    <2>2. QED
      BY <1>2, <2>1 DEF EventsOf
  <1>5. FromOf(queue)' = FromOf(queue) \cup m.from
    <2>1. FromOf(queue') = FromOf(queue) \cup m.from
      BY AppendFacts
    <2>2. QED
      BY <2>1 DEF FromOf
  <1>6. QED
    BY <1>1, <1>3, <1>4, <1>5

\* A message behind a barrier does not concern it.
LEMMA CoversBehind ==
  ASSUME NEW m \in Messages, queue \in Seq(Messages), queue' = Append(queue, m),
         UNCHANGED <<batch, replies, call>>, Accounted \subseteq Accounted',
         NEW p \in Producers, Covers(p), before'[p] = before[p], <<p, call[p]>> \notin m.from
  PROVE  Covers(p)'
  <1>1. FromOf(batch)' = FromOf(batch) /\ EventsOf(batch)' = EventsOf(batch)
    BY DEF FromOf, EventsOf
  <1>2. ASSUME NEW k \in 1..Len(queue'), <<p, call[p]>> \in queue'[k].from
        PROVE  before[p] \subseteq Accounted' \cup EventsOf(batch) \cup Ahead(k)'
    <2>1. k \in 1..Len(queue)
      BY <1>2, AheadOfAppend
    <2>2. queue'[k] = queue[k] /\ Ahead(k)' = Ahead(k)
      BY <2>1, AheadOfAppend
    <2>3. QED
      BY <1>2, <2>1, <2>2 DEF Covers
  <1>3. QED
    BY <1>1, <1>2 DEF Covers

LEMMA BarredBehind ==
  ASSUME Barred, NEW m \in Messages, queue \in Seq(Messages), queue' = Append(queue, m),
         m.from = {}, UNCHANGED <<batch, replies, call>>, Accounted \subseteq Accounted', Waiters
  PROVE  Barred'
  <1>1. FromOf(queue)' = FromOf(queue) /\ FromOf(batch)' = FromOf(batch)
    BY AheadOfAppend DEF FromOf
  <1>2. ChannelsFresh'
    BY <1>1 DEF Barred, ChannelsFresh, Waiters
  <1>3. ASSUME NEW p \in Producers, pc'[p] = "wait" PROVE Covers(p)'
    <2>1. Covers(p) /\ before'[p] = before[p]
      BY <1>3 DEF Barred, Barriers, Waiters
    <2>2. QED
      BY <2>1, CoversBehind
  <1>4. BarrierSettles'
    BY DEF Barred, BarrierSettles, Accounted, Waiters
  <1>5. QED
    BY <1>2, <1>3, <1>4 DEF Barred, Barriers

\* sync sends its barrier on a new channel, behind everything pending.
LEMMA SendBarred ==
  ASSUME Typed, Barred, NEW p \in Producers, SyncSend(p)
  PROVE  Barred'
  <1> DEFINE m == FlushMsg(p, call[p])
  <1>1. /\ pc \in [Producers -> {"idle", "push", "enqueue", "send", "wait", "acked", "clear"}]
        /\ before \in [Producers -> SUBSET Events] /\ queue \in Seq(Messages) /\ batch \in Seq(Messages)
        /\ call \in [Producers -> 0..MaxSyncs] /\ MaxSyncs \in Nat
    BY LogAssumption DEF Typed, TypeOK
  <1>2. call[p] \in 1..MaxSyncs
    BY <1>1 DEF SyncSend, Typed, Counters
  <1>3. m \in Messages /\ m.from = {<<p, call[p]>>}
    BY <1>2, MessageTypes
  <1>4. /\ pc[p] = "send" /\ pc' = [pc EXCEPT ![p] = "wait"] /\ queue' = Append(queue, m)
        /\ before' = [before EXCEPT ![p] = Pending] /\ UNCHANGED <<call, batch, replies>>
        /\ UNCHANGED <<rows, erased, lost>>
    BY DEF SyncSend, Goto
  <1> HIDE DEF m
  <1>5. FromOf(batch)' = FromOf(batch) /\ EventsOf(batch)' = EventsOf(batch) /\ Accounted' = Accounted
    BY <1>4 DEF FromOf, EventsOf, Accounted, InRows
  <1>6. FromOf(queue)' = FromOf(queue) \cup {<<p, call[p]>>}
    BY <1>1, <1>3, <1>4, AheadOfAppend
  <1>7. /\ <<p, call[p]>> \notin FromOf(queue) /\ <<p, call[p]>> \notin FromOf(batch)
        /\ <<p, call[p]>> \notin replies
    <2>1. call[p] \in Nat /\ ~(call[p] < call[p])
      BY <1>1, <1>2
    <2>2. QED
      BY <1>4, <2>1 DEF Barred, ChannelsFresh
  <1>8. ChannelsFresh'
    <2> SUFFICES ASSUME NEW q \in Producers, NEW c \in Nat,
                        <<q, c>> \in (FromOf(queue) \cup FromOf(batch) \cup replies)'
                 PROVE  c <= call[q] /\ (pc'[q] = "send" => c < call[q])
      BY <1>4 DEF ChannelsFresh
    <2>1. CASE <<q, c>> = <<p, call[p]>>
      <3>1. q = p /\ c = call[p] /\ pc'[p] = "wait"
        BY <1>1, <1>4, <2>1
      <3>2. QED
        BY <1>1, <1>2, <3>1
    <2>2. CASE <<q, c>> # <<p, call[p]>>
      <3>1. <<q, c>> \in FromOf(queue) \cup FromOf(batch) \cup replies
        BY <1>4, <1>5, <1>6, <2>2
      <3>2. c <= call[q] /\ (pc[q] = "send" => c < call[q])
        BY <3>1 DEF Barred, ChannelsFresh
      <3>3. pc'[q] = "send" => pc[q] = "send"
        BY <1>1, <1>4
      <3>4. QED
        BY <3>2, <3>3
    <2>3. QED
      BY <2>1, <2>2
  <1>9. ASSUME NEW q \in Producers, pc'[q] = "wait" PROVE Covers(q)'
    <2>1. CASE q = p
      <3>1. before'[p] = EventsOf(queue) \cup EventsOf(batch)
        BY <1>1, <1>4 DEF Pending
      <3>2. ASSUME NEW k \in 1..Len(queue'), <<p, call[p]>> \in queue'[k].from
            PROVE  Ahead(k)' = EventsOf(queue)
        <4>1. ASSUME k \in 1..Len(queue) PROVE FALSE
          <5>1. queue'[k] = queue[k]
            BY <1>1, <1>3, <1>4, <4>1, AheadOfAppend
          <5>2. <<p, call[p]>> \in FromOf(queue)
            BY <1>1, <3>2, <4>1, <5>1, BatchFacts
          <5>3. QED
            BY <1>7, <5>2
        <4>2. k \in Nat /\ k = Len(queue) + 1
          BY <1>1, <1>3, <1>4, <4>1, AheadOfAppend
        <4>3. QED
          BY <1>1, <1>3, <1>4, <4>2, AheadOfAppend
      <3>3. QED
        BY <1>4, <1>5, <1>7, <2>1, <3>1, <3>2 DEF Covers
    <2>2. CASE q # p
      <3>1. pc[q] = "wait" /\ before'[q] = before[q]
        BY <1>1, <1>4, <1>9, <2>2
      <3>2. Covers(q)
        BY <3>1 DEF Barred, Barriers
      <3>3. <<q, call[q]>> \notin m.from
        BY <1>3, <2>2
      <3>4. QED
        BY <1>1, <1>3, <1>4, <1>5, <3>1, <3>2, <3>3, CoversBehind
    <2>3. QED
      BY <2>1, <2>2
  <1>10. BarrierSettles'
    <2>1. ASSUME NEW q \in Producers, pc'[q] = "acked" PROVE before'[q] \subseteq Accounted'
      <3>1. pc[q] = "acked" /\ before'[q] = before[q]
        BY <1>1, <1>4, <2>1
      <3>2. QED
        BY <1>5, <3>1 DEF Barred, BarrierSettles, Accounted
    <2>2. QED
      BY <2>1 DEF BarrierSettles, Accounted
  <1>11. QED
    BY <1>8, <1>9, <1>10 DEF Barred, Barriers

\* A new call of sync has a channel above all used ones.
LEMMA CallBarred ==
  ASSUME Typed, Barred, NEW p \in Producers, SyncCall(p)
  PROVE  Barred'
  <1>1. /\ pc \in [Producers -> {"idle", "push", "enqueue", "send", "wait", "acked", "clear"}]
        /\ call \in [Producers -> 0..MaxSyncs] /\ MaxSyncs \in Nat
    BY LogAssumption DEF Typed, TypeOK
  <1>2. /\ pc' = [pc EXCEPT ![p] = "send"] /\ call' = [call EXCEPT ![p] = @ + 1]
        /\ UNCHANGED <<before, queue, batch, replies, rows, erased, lost>>
    BY DEF SyncCall, Goto, writerVars
  <1>3. /\ FromOf(queue)' = FromOf(queue) /\ FromOf(batch)' = FromOf(batch)
        /\ EventsOf(batch)' = EventsOf(batch) /\ Accounted' = Accounted
    BY <1>2 DEF FromOf, EventsOf, Accounted, InRows
  <1>4. \A k : Ahead(k)' = Ahead(k)
    BY <1>2 DEF Ahead
  <1>5. ASSUME NEW q \in Producers
        PROVE  \/ q = p /\ pc'[q] = "send" /\ call'[q] = call[q] + 1 /\ call[q] \in Nat
               \/ pc'[q] = pc[q] /\ call'[q] = call[q]
    BY <1>1, <1>2
  <1>6. ChannelsFresh'
    <2> SUFFICES ASSUME NEW q \in Producers, NEW c \in Nat,
                        <<q, c>> \in FromOf(queue) \cup FromOf(batch) \cup replies
                 PROVE  c <= call'[q] /\ (pc'[q] = "send" => c < call'[q])
      BY <1>2, <1>3 DEF ChannelsFresh
    <2>1. c <= call[q] /\ (pc[q] = "send" => c < call[q])
      BY DEF Barred, ChannelsFresh
    <2>2. QED
      BY <1>5, <2>1
  <1>7. ASSUME NEW q \in Producers, pc'[q] = "wait" PROVE Covers(q)'
    <2>1. pc[q] = "wait" /\ call'[q] = call[q]
      BY <1>5, <1>7
    <2>2. Covers(q)
      BY <2>1 DEF Barred, Barriers
    <2>3. QED
      BY <1>2, <1>3, <1>4, <2>1, <2>2 DEF Covers
  <1>8. BarrierSettles'
    BY <1>2, <1>5, <1>3 DEF Barred, BarrierSettles, Accounted
  <1>9. QED
    BY <1>6, <1>7, <1>8 DEF Barred, Barriers

\* The writer takes the first message: it and its events go from the queue to
\* the batch, and nothing else changes its order.
LEMMA ReceiveBarred ==
  ASSUME Typed, Barred, Receive
  PROVE  Barred'
  <1>1. queue \in Seq(Messages) /\ batch \in Seq(Messages)
    BY DEF Typed, TypeOK
  <1>2. /\ queue # <<>> /\ batch' = Append(batch, Head(queue)) /\ queue' = Tail(queue)
        /\ UNCHANGED <<pc, call, before, replies, rows, erased, lost>>
    BY DEF Receive, Received, procVars
  <1>3. /\ Head(queue) \in Messages /\ Head(queue) = queue[1] /\ Len(queue) \in Nat
        /\ queue' \in Seq(Messages) /\ Len(queue') = Len(queue) - 1 /\ 1 \in 1..Len(queue)
        /\ \A i \in 1..Len(queue') : queue'[i] = queue[i + 1]
    <2>1. /\ Head(queue) \in Messages /\ Tail(queue) \in Seq(Messages)
          /\ Len(Tail(queue)) = Len(queue) - 1 /\ Len(queue) \in Nat
          /\ \A i \in 1..Len(Tail(queue)) : Tail(queue)[i] = queue[i + 1]
      BY <1>1, <1>2, HeadTailProperties, LenProperties
    <2>2. Len(queue) # 0
      BY <1>1, <1>2, EmptySeq
    <2>3. Head(queue) = queue[1]
      BY <1>1, <1>2
    <2>4. QED
      BY <1>2, <2>1, <2>2, <2>3
  <1>4. /\ EventsOf(batch)' = EventsOf(batch) \cup queue[1].event
        /\ FromOf(batch)' = FromOf(batch) \cup queue[1].from
    <2>1. /\ EventsOf(batch') = EventsOf(batch) \cup queue[1].event
          /\ FromOf(batch') = FromOf(batch) \cup queue[1].from
      BY <1>1, <1>2, <1>3, AppendFacts
    <2>2. QED
      BY <2>1 DEF EventsOf, FromOf
  <1>5. FromOf(queue)' \subseteq FromOf(queue) /\ queue[1].from \subseteq FromOf(queue)
    <2>1. queue[1].from \subseteq FromOf(queue)
      BY <1>1, <1>3, BatchFacts
    <2>2. ASSUME NEW i \in 1..Len(queue') PROVE queue'[i].from \subseteq FromOf(queue)
      <3>1. i + 1 \in 1..Len(queue) /\ queue'[i] = queue[i + 1]
        BY <1>3
      <3>2. QED
        BY <1>1, <3>1, BatchFacts
    <2>3. QED
      BY <2>1, <2>2 DEF FromOf
  <1>6. Accounted' = Accounted
    BY <1>2 DEF Accounted, InRows
  <1>7. ChannelsFresh'
    BY <1>2, <1>4, <1>5 DEF Barred, ChannelsFresh
  <1>8. ASSUME NEW p \in Producers, pc'[p] = "wait" PROVE Covers(p)'
    <2>1. Covers(p)
      BY <1>2, <1>8 DEF Barred, Barriers
    <2>2. ASSUME NEW k \in 1..Len(queue'), <<p, call[p]>> \in queue'[k].from
          PROVE  before[p] \subseteq Accounted \cup EventsOf(batch)' \cup Ahead(k)'
      <3>1. k + 1 \in 1..Len(queue) /\ queue'[k] = queue[k + 1] /\ (k + 1) - 1 = k
        BY <1>3
      <3>2. before[p] \subseteq Accounted \cup EventsOf(batch) \cup Ahead(k + 1)
        BY <2>1, <2>2, <3>1 DEF Covers
      <3>3. Ahead(k + 1) \subseteq queue[1].event \cup Ahead(k)'
        <4>1. ASSUME NEW j \in 1..k
              PROVE  queue[j].event \subseteq queue[1].event \cup Ahead(k)'
          <5>1. CASE j = 1
            BY <5>1
          <5>2. CASE j # 1
            <6>1. j - 1 \in 1..(k - 1) /\ j - 1 \in 1..Len(queue') /\ (j - 1) + 1 = j
              BY <1>3, <5>2
            <6>2. queue'[j - 1] = queue[j]
              BY <1>3, <6>1
            <6>3. queue'[j - 1].event \subseteq Ahead(k)'
              BY <6>1 DEF Ahead
            <6>4. QED
              BY <6>2, <6>3
          <5>3. QED
            BY <5>1, <5>2
        <4>2. Ahead(k + 1) = UNION {queue[j].event : j \in 1..k}
          BY <3>1 DEF Ahead
        <4>3. QED
          BY <4>1, <4>2
      <3>4. QED
        BY <1>4, <3>2, <3>3
    <2>3. ASSUME <<p, call[p]>> \in FromOf(batch)'
          PROVE  before[p] \subseteq Accounted \cup EventsOf(batch)'
      <3>1. CASE <<p, call[p]>> \in FromOf(batch)
        BY <1>4, <2>1, <3>1 DEF Covers
      <3>2. CASE <<p, call[p]>> \in queue[1].from
        <4>1. before[p] \subseteq Accounted \cup EventsOf(batch) \cup Ahead(1)
          BY <1>3, <2>1, <3>2 DEF Covers
        <4>2. Ahead(1) = {}
          BY DEF Ahead
        <4>3. QED
          BY <1>4, <4>1, <4>2
      <3>3. QED
        BY <1>4, <2>3, <3>1, <3>2
    <2>4. QED
      BY <1>2, <1>6, <2>1, <2>2, <2>3 DEF Covers
  <1>9. BarrierSettles'
    BY <1>2 DEF Barred, BarrierSettles, InRows
  <1>10. QED
    BY <1>7, <1>8, <1>9 DEF Barred, Barriers

\* A flush, successful or not, settles the batch before its barriers are answered.
LEMMA FlushBarred ==
  ASSUME Typed, Losses, Barred, Commit \/ FlushFails
  PROVE  Barred'
  <1>1. Accounted \cup EventsOf(batch) \subseteq Accounted'
    BY CommitFlushed, FailureFlushed DEF Typed, Flushed
  <1>2. /\ replies' = FromOf(batch) /\ batch' = <<>>
        /\ UNCHANGED <<pc, call, before, queue>>
    BY DEF Commit, FlushFails, EndFlush, procVars
  <1>3. FromOf(batch)' = {} /\ EventsOf(batch)' = {} /\ FromOf(queue)' = FromOf(queue)
    BY <1>2, EmptyBatch DEF FromOf, EventsOf
  <1>4. \A k : Ahead(k)' = Ahead(k)
    BY <1>2 DEF Ahead
  <1>5. ChannelsFresh'
    BY <1>2, <1>3 DEF Barred, ChannelsFresh
  <1>6. ASSUME NEW p \in Producers, pc'[p] = "wait" PROVE Covers(p)'
    <2>1. Covers(p)
      BY <1>2, <1>6 DEF Barred, Barriers
    <2>2. QED
      BY <1>1, <1>2, <1>3, <1>4, <2>1 DEF Covers
  <1>7. BarrierSettles'
    BY <1>1, <1>2 DEF Barred, BarrierSettles, Accounted
  <1>8. QED
    BY <1>5, <1>6, <1>7 DEF Barred, Barriers

\* Who is answered had its channel among the replies of a flushed batch.
LEMMA ReplyBarred ==
  ASSUME Typed, Barred, Reply
  PROVE  Barred'
  <1>1. /\ replies' = {} /\ UNCHANGED <<call, before, queue, batch, rows, erased, lost>>
        /\ \A p \in Producers :
             pc'[p] = IF pc[p] = "wait" /\ <<p, call[p]>> \in replies THEN "acked" ELSE pc[p]
    BY DEF Reply
  <1>2. /\ FromOf(queue)' = FromOf(queue) /\ FromOf(batch)' = FromOf(batch)
        /\ EventsOf(batch)' = EventsOf(batch) /\ Accounted' = Accounted
    BY <1>1 DEF FromOf, EventsOf, Accounted, InRows
  <1>3. \A k : Ahead(k)' = Ahead(k)
    BY <1>1 DEF Ahead
  <1>4. ChannelsFresh'
    BY <1>1, <1>2 DEF Barred, ChannelsFresh
  <1>5. ASSUME NEW p \in Producers, pc'[p] = "wait" PROVE Covers(p)'
    <2>1. Covers(p)
      BY <1>1, <1>5 DEF Barred, Barriers
    <2>2. QED
      BY <1>1, <1>2, <1>3, <2>1 DEF Covers
  <1>6. ASSUME NEW p \in Producers, pc'[p] = "acked" PROVE before[p] \subseteq Accounted
    <2>1. CASE pc[p] = "acked"
      BY <2>1 DEF Barred, BarrierSettles, Accounted
    <2>2. CASE pc[p] = "wait" /\ <<p, call[p]>> \in replies
      BY <2>2 DEF Barred, Barriers, Covers
    <2>3. QED
      BY <1>1, <1>6, <2>1, <2>2
  <1>7. BarrierSettles'
    BY <1>1, <1>2, <1>6 DEF BarrierSettles, Accounted
  <1>8. QED
    BY <1>4, <1>5, <1>7 DEF Barred, Barriers

\* After a start nothing is queued and nobody waits.
LEMMA NothingBarred ==
  ASSUME queue = <<>>, batch = <<>>, replies = {}, \A p \in Producers : pc[p] = "idle"
  PROVE  Barred
  <1>1. FromOf(queue) = {} /\ FromOf(batch) = {}
    BY EmptyBatch
  <1>2. QED
    BY <1>1 DEF Barred, ChannelsFresh, Barriers, BarrierSettles

LEMMA NextBarred ==
  ASSUME Typed, Losses, Barred, Next
  PROVE  Barred'
  <1> USE DEF Goto, busVars, procVars, writerVars
  <1>1. /\ pc \in [Producers -> {"idle", "push", "enqueue", "send", "wait", "acked", "clear"}]
        /\ before \in [Producers -> SUBSET Events] /\ hand \in [Producers -> SUBSET Events]
        /\ queue \in Seq(Messages)
    BY DEF Typed, TypeOK
  <1>2. ASSUME NEW p \in Producers, NEW to \in {"idle", "push", "enqueue", "clear"},
               pc' = [pc EXCEPT ![p] = to],
               before' = before \/ before' = [before EXCEPT ![p] = {}]
        PROVE  Waiters
    BY <1>1, <1>2 DEF Waiters
  <1>3. ASSUME UNCHANGED <<rows, erased>>, lost \subseteq lost' PROVE Accounted \subseteq Accounted'
    BY <1>3 DEF Accounted, InRows
  <1>4. ASSUME NEW p \in Producers, AssignId(p) \/ PushRing(p) \/ ClearBus(p) \/ SyncTimeout(p)
        PROVE  Barred'
    <2>1. UNCHANGED <<queue, batch, replies, call, rows, erased, lost>>
      BY <1>4 DEF AssignId, PushRing, ClearBus, SyncTimeout
    <2>2. Waiters
      BY <1>2, <1>4 DEF AssignId, PushRing, ClearBus, SyncTimeout
    <2>3. QED
      BY <1>3, <2>1, <2>2, BarredKept
  <1>5. ASSUME NEW p \in Producers, Enqueue(p) PROVE Barred'
    <2>1. PICK e \in hand[p] :
            \/ queue' = Append(queue, EventMsg(e)) /\ UNCHANGED lost
            \/ UNCHANGED queue /\ lost' = lost \cup {e}
      BY <1>5 DEF Enqueue, DropCounted
    <2>2. e \in Events
      BY <1>1
    <2>3. EventMsg(e) \in Messages /\ EventMsg(e).from = {}
      BY <2>2, MessageTypes
    <2>4. UNCHANGED <<batch, replies, call>> /\ Accounted \subseteq Accounted'
      BY <1>3, <1>5, <2>1 DEF Enqueue
    <2>5. Waiters
      BY <1>2, <1>5 DEF Enqueue
    <2>6. QED
      BY <1>1, <2>1, <2>3, <2>4, <2>5, BarredKept, BarredBehind
  <1>6. ASSUME NEW p \in Producers, ClearRows(p) PROVE Barred'
    <2>1. UNCHANGED <<queue, batch, replies, call>> /\ Accounted \subseteq Accounted'
      BY <1>6 DEF ClearRows, Accounted
    <2>2. Waiters
      BY <1>2, <1>6 DEF ClearRows
    <2>3. QED
      BY <2>1, <2>2, BarredKept
  <1>7. ASSUME Prune PROVE Barred'
    <2>1. PruneMsg \in Messages /\ PruneMsg.from = {}
      BY MessageTypes
    <2>2. /\ UNCHANGED <<pc, before, batch, replies, call, rows, erased, lost>>
          /\ queue' = Append(queue, PruneMsg) \/ UNCHANGED queue
      BY <1>7 DEF Prune
    <2>3. Waiters
      BY <2>2 DEF Waiters
    <2>4. QED
      BY <1>1, <1>3, <2>1, <2>2, <2>3, BarredKept, BarredBehind
  <1>8. ASSUME ReceiveTimeout PROVE Barred'
    <2>1. UNCHANGED <<pc, before, queue, batch, replies, call, rows, erased, lost>>
      BY <1>8 DEF ReceiveTimeout
    <2>2. Waiters
      BY <2>1 DEF Waiters
    <2>3. QED
      BY <1>3, <2>1, <2>2, BarredKept
  <1>9. ASSUME Restart PROVE Barred'
    <2>1. queue' = <<>> /\ batch' = <<>> /\ replies' = {} /\ \A p \in Producers : pc'[p] = "idle"
      BY <1>9 DEF Restart
    <2>2. FromOf(queue)' = {} /\ FromOf(batch)' = {}
      BY <2>1, EmptyBatch DEF FromOf
    <2>3. QED
      BY <2>1, <2>2 DEF Barred, ChannelsFresh, Barriers, BarrierSettles
  <1>10. QED
    BY <1>4, <1>5, <1>6, <1>7, <1>8, <1>9, CallBarred, SendBarred, ReceiveBarred, FlushBarred,
       ReplyBarred DEF Next, Emit, Sync, ClearLogs, WriterStep

-----------------------------------------------------------------------------
(* The theorems.                                                           *)

LEMMA InitInductive == Init => IInv
  <1> SUFFICES ASSUME Init PROVE IInv
    OBVIOUS
  <1>1. Typed
    BY InitTyped
  <1>2. Losses
    <2>1. lost = {} /\ stats.dropped = 0 /\ stats.dead_letters = 0
      BY DEF Init, NoStats
    <2>2. IsFiniteSet({}) /\ Cardinality({}) = 0
      BY FS_EmptySet
    <2>3. QED
      BY <2>1, <2>2 DEF Losses, LossesCounted
  <1>3. Barred
    BY NothingBarred DEF Init
  <1>4. QED
    BY <1>1, <1>2, <1>3 DEF IInv, Typed, Barred

LEMMA NextInductive == IInv /\ [Next]_vars => IInv'
  <1> SUFFICES ASSUME IInv, [Next]_vars PROVE IInv'
    OBVIOUS
  <1>1. Typed /\ Losses /\ Barred
    BY DEF IInv, Typed, Barred
  <1>2. CASE Next
    <2>1. Typed'
      BY <1>1, <1>2, EmitTyped, SyncTyped, ClearTyped, WriterTyped DEF Next
    <2>2. Losses'
      BY <1>1, <1>2, LossesKept
    <2>3. Barred'
      BY <1>1, <1>2, NextBarred
    <2>4. QED
      BY <2>1, <2>2, <2>3 DEF IInv, Typed, Barred
  <1>3. CASE UNCHANGED vars
    <2>1. UNCHANGED <<nextId, ring, hand, pc, call, before, queue, batch, writer, replies, conn,
                      rows, stats, lost, erased, emitted, budget>>
      BY <1>3 DEF vars, busVars, procVars, writerVars
    <2>2. Typed'
      BY <1>1, <2>1 DEF Typed, TypeOK, Counters
    <2>3. Losses'
      BY <1>1, <2>1 DEF Losses, LossesCounted
    <2>4. Barred'
      <3>1. Waiters /\ Accounted \subseteq Accounted'
        BY <2>1 DEF Waiters, Accounted, InRows
      <3>2. QED
        BY <1>1, <2>1, <3>1, BarredKept
    <2>5. QED
      BY <2>2, <2>3, <2>4 DEF IInv, Typed, Barred
  <1>4. QED
    BY <1>2, <1>3

LEMMA Inductive == Spec => []IInv
  BY InitInductive, NextInductive, PTL DEF Spec

\* The state keeps its shape (EventBus, EventStore): the ring, the queue and the
\* batch stay within their capacities, and every queued message is one that was
\* built by emit, sync or prune.
THEOREM TypeCorrect == Spec => []TypeOK
  <1>1. IInv => TypeOK
    BY DEF IInv
  <1>2. QED
    BY <1>1, Inductive, PTL

\* An answered barrier leaves nothing behind it unsettled (sync, flush_batch):
\* whatever the batch size, the order of calls and the failures of the database,
\* and also when a late answer meets a caller that gave up and called again.
THEOREM AnsweredMeansSettled == Spec => []BarrierSettles
  <1>1. IInv => BarrierSettles
    BY DEF IInv
  <1>2. QED
    BY <1>1, Inductive, PTL

\* No event disappears uncounted (enqueue, flush_batch): the events dropped at a
\* full queue, failing alone, or lost with their transaction are all in the counters.
THEOREM LossesAreCounted == Spec => []LossesCounted
  <1>1. IInv => LossesCounted
    BY DEF IInv, Losses
  <1>2. QED
    BY <1>1, Inductive, PTL

(***************************************************************************)
(* The order of the event log: that it implements LossyLog, and what the   *)
(* console therefore lists.                                                *)
(***************************************************************************)


-----------------------------------------------------------------------------
(* The log as LossyLog has it.                                             *)

\* A place in front of the table holds an event or none.
Places == {{}} \cup {{u} : u \in Uids}

Line(b, q) == [i \in 1..(Len(b) + Len(q)) |-> UidsOf((b \o q)[i].event)]
Column(r) == [i \in 1..Len(r) |-> r[i].uid]

LEMMA Mapped ==
  /\ Waiting = Line(batch, queue) /\ Waiting' = Line(batch', queue')
  /\ Table = Column(rows) /\ Table' = Column(rows')
  BY DEF Waiting, Line, Table, Column

LEMMA PlaceFacts ==
  ASSUME NEW m \in Messages
  PROVE  /\ UidsOf(m.event) \in Places
         /\ m.kind = "event" <=> UidsOf(m.event) # {}
         /\ \A e \in m.event : UidsOf(m.event) = {e.uid}
  <1>1. /\ m.event \subseteq Events /\ m.kind = "event" <=> m.event # {}
        /\ \A d, e \in m.event : d = e
    BY MessageFacts
  <1>2. \A e \in m.event : UidsOf(m.event) = {e.uid} /\ e.uid \in Uids
    BY <1>1 DEF UidsOf, Events
  <1>3. m.event = {} => UidsOf(m.event) = {}
    BY DEF UidsOf
  <1>4. QED
    BY <1>1, <1>2, <1>3 DEF Places

LEMMA LineFacts ==
  ASSUME NEW b \in Seq(Messages), NEW q \in Seq(Messages)
  PROVE  /\ Line(b, q) \in Seq(Places)
         /\ Len(b) \in Nat /\ Len(q) \in Nat
         /\ Len(Line(b, q)) = Len(b) + Len(q)
         /\ \A i \in 1..Len(b) : Line(b, q)[i] = UidsOf(b[i].event)
         /\ \A i \in 1..Len(q) : Line(b, q)[Len(b) + i] = UidsOf(q[i].event)
  <1> DEFINE n == Len(b) + Len(q)
             s == b \o q
             l == [i \in 1..n |-> UidsOf(s[i].event)]
  <1>1. Len(b) \in Nat /\ Len(q) \in Nat /\ n \in Nat
    BY LenProperties
  <1>2. /\ s \in Seq(Messages) /\ Len(s) = n
        /\ \A i \in 1..n : s[i] = IF i <= Len(b) THEN b[i] ELSE q[i - Len(b)]
    BY ConcatProperties
  <1>3. \A i \in 1..n : s[i] \in Messages
    BY <1>2, ElementOfSeq
  <1>4. Line(b, q) = l
    BY DEF Line
  <1> HIDE DEF s
  <1>5. l \in Seq(Places) /\ Len(l) = n
    <2>1. l \in [1..n -> Places]
      BY <1>3, PlaceFacts
    <2> HIDE DEF l, n
    <2>2. QED
      BY <1>1, <2>1
  <1>6. ASSUME NEW i \in 1..Len(b) PROVE l[i] = UidsOf(b[i].event)
    BY <1>1, <1>2
  <1>7. ASSUME NEW i \in 1..Len(q) PROVE l[Len(b) + i] = UidsOf(q[i].event)
    <2>1. Len(b) + i \in 1..n /\ ~(Len(b) + i <= Len(b)) /\ (Len(b) + i) - Len(b) = i
      BY <1>1
    <2>2. s[Len(b) + i] = q[i]
      BY <1>2, <2>1
    <2>3. QED
      BY <2>1, <2>2
  <1>8. QED
    BY <1>1, <1>4, <1>5, <1>6, <1>7

LEMMA ColumnFacts ==
  ASSUME NEW r \in Seq(Events)
  PROVE  /\ Column(r) \in Seq(Uids)
         /\ Len(r) \in Nat /\ Len(Column(r)) = Len(r)
         /\ \A i \in 1..Len(r) : Column(r)[i] = r[i].uid
  <1> DEFINE n == Len(r)
             c == [i \in 1..n |-> r[i].uid]
  <1>1. n \in Nat /\ \A i \in 1..n : r[i] \in Events
    BY LenProperties, ElementOfSeq
  <1>2. Column(r) = c
    BY DEF Column
  <1>3. c \in Seq(Uids) /\ Len(c) = n
    <2>1. c \in [1..n -> Uids]
      BY <1>1 DEF Events
    <2> HIDE DEF c, n
    <2>2. QED
      BY <1>1, <2>1
  <1>4. QED
    BY <1>1, <1>2, <1>3

\* A message put on the queue takes the last place.
LEMMA LineAppended ==
  ASSUME NEW b \in Seq(Messages), NEW q \in Seq(Messages), NEW m \in Messages
  PROVE  Line(b, Append(q, m)) = Append(Line(b, q), UidsOf(m.event))
  <1> DEFINE r == Append(q, m)
             l == Line(b, q)
             s == Line(b, r)
             t == Append(l, UidsOf(m.event))
  <1>1. /\ r \in Seq(Messages) /\ Len(r) = Len(q) + 1
        /\ \A i \in 1..Len(q) : r[i] = q[i]
        /\ r[Len(q) + 1] = m
    BY AppendProperties
  <1>2. /\ l \in Seq(Places) /\ Len(b) \in Nat /\ Len(q) \in Nat /\ Len(l) = Len(b) + Len(q)
        /\ \A i \in 1..Len(b) : l[i] = UidsOf(b[i].event)
        /\ \A i \in 1..Len(q) : l[Len(b) + i] = UidsOf(q[i].event)
    BY LineFacts
  <1> HIDE DEF r
  <1>3. /\ s \in Seq(Places) /\ Len(s) = Len(b) + Len(r)
        /\ \A i \in 1..Len(b) : s[i] = UidsOf(b[i].event)
        /\ \A i \in 1..Len(r) : s[Len(b) + i] = UidsOf(r[i].event)
    BY <1>1, LineFacts
  <1> HIDE DEF l
  <1>4. /\ t \in Seq(Places) /\ Len(t) = Len(l) + 1
        /\ \A i \in 1..Len(l) : t[i] = l[i]
        /\ t[Len(l) + 1] = UidsOf(m.event)
    BY <1>2, PlaceFacts, AppendProperties
  <1> HIDE DEF s, t
  <1>5. ASSUME NEW i \in 1..Len(s) PROVE s[i] = t[i]
    <2>1. i \in Nat /\ (i \in 1..Len(b) \/ i - Len(b) \in 1..Len(r))
      BY <1>1, <1>2, <1>3
    <2>2. CASE i \in 1..Len(b)
      <3>1. i \in 1..Len(l)
        BY <1>2, <2>2
      <3>2. s[i] = UidsOf(b[i].event)
        BY <1>3, <2>2
      <3>3. l[i] = UidsOf(b[i].event)
        BY <1>2, <2>2
      <3>4. t[i] = l[i]
        BY <1>4, <3>1
      <3>5. QED
        BY <3>2, <3>3, <3>4
    <2>3. CASE i - Len(b) \in 1..Len(q)
      <3> DEFINE k == i - Len(b)
      <3>1. k \in 1..Len(q) /\ i = Len(b) + k /\ k \in 1..Len(r) /\ i \in 1..Len(l)
        BY <1>1, <1>2, <2>1, <2>3
      <3> HIDE DEF k
      <3>2. s[i] = UidsOf(r[k].event) /\ t[i] = l[i] /\ l[i] = UidsOf(q[k].event) /\ r[k] = q[k]
        BY <1>1, <1>2, <1>3, <1>4, <3>1
      <3>3. QED
        BY <3>2
    <2>4. CASE i - Len(b) = Len(q) + 1
      <3>1. i = Len(b) + (Len(q) + 1) /\ Len(q) + 1 \in 1..Len(r) /\ i = Len(l) + 1
        BY <1>1, <1>2, <2>4
      <3>2. s[Len(b) + (Len(q) + 1)] = UidsOf(r[Len(q) + 1].event)
        BY <1>3, <3>1
      <3>3. QED
        BY <1>1, <1>4, <3>1, <3>2
    <2>5. i - Len(b) \in 1..Len(r) => i - Len(b) \in 1..Len(q) \/ i - Len(b) = Len(q) + 1
      <3>1. Len(r) = Len(q) + 1 /\ Len(q) \in Nat /\ Len(b) \in Nat /\ i \in Nat
        BY <1>1, <1>2, <2>1
      <3>2. QED
        BY <3>1
    <2>6. QED
      BY <2>1, <2>2, <2>3, <2>4, <2>5
  <1>6. Len(s) = Len(t)
    BY <1>1, <1>2, <1>3, <1>4
  <1>7. s = t
    BY <1>3, <1>4, <1>5, <1>6, SeqEqual
  <1>8. QED
    BY <1>7 DEF s, t, l, r

\* Gathering a message moves no one.
LEMMA LineReceived ==
  ASSUME NEW b \in Seq(Messages), NEW q \in Seq(Messages), q # <<>>
  PROVE  Line(Append(b, Head(q)), Tail(q)) = Line(b, q)
  <1> DEFINE c == Append(b, Head(q))
             r == Tail(q)
             l == Line(b, q)
             s == Line(c, r)
  <1>1. /\ Head(q) \in Messages /\ r \in Seq(Messages) /\ Len(r) = Len(q) - 1
        /\ \A i \in 1..Len(r) : r[i] = q[i + 1]
        /\ Head(q) = q[1]
    BY HeadTailProperties
  <1>2. /\ c \in Seq(Messages) /\ Len(c) = Len(b) + 1
        /\ \A i \in 1..Len(b) : c[i] = b[i]
        /\ c[Len(b) + 1] = q[1]
    BY <1>1, AppendProperties
  <1>3. /\ l \in Seq(Places) /\ Len(b) \in Nat /\ Len(q) \in Nat /\ Len(l) = Len(b) + Len(q)
        /\ \A i \in 1..Len(b) : l[i] = UidsOf(b[i].event)
        /\ \A i \in 1..Len(q) : l[Len(b) + i] = UidsOf(q[i].event)
    BY LineFacts
  <1>4. Len(q) >= 1
    BY <1>3, EmptySeq
  <1> HIDE DEF c, r
  <1>5. /\ s \in Seq(Places) /\ Len(s) = Len(c) + Len(r) /\ Len(r) \in Nat
        /\ \A i \in 1..Len(c) : s[i] = UidsOf(c[i].event)
        /\ \A i \in 1..Len(r) : s[Len(c) + i] = UidsOf(r[i].event)
    BY <1>1, <1>2, LineFacts
  <1> HIDE DEF l, s
  <1>6. Len(s) = Len(l)
    BY <1>1, <1>2, <1>3, <1>5
  <1>7. ASSUME NEW i \in 1..Len(s) PROVE s[i] = l[i]
    <2>1. i \in Nat /\ (i \in 1..Len(b) \/ i = Len(b) + 1 \/ i - Len(c) \in 1..Len(r))
      BY <1>1, <1>2, <1>3, <1>5
    <2>2. CASE i \in 1..Len(b)
      <3>1. i \in 1..Len(c)
        BY <1>2, <1>3, <2>2
      <3>2. s[i] = UidsOf(c[i].event) /\ c[i] = b[i]
        BY <1>2, <1>5, <2>2, <3>1
      <3>3. l[i] = UidsOf(b[i].event)
        BY <1>3, <2>2
      <3>4. QED
        BY <3>2, <3>3
    <2>3. CASE i = Len(b) + 1
      <3>1. Len(b) + 1 \in 1..Len(c) /\ 1 \in 1..Len(q)
        BY <1>2, <1>3, <1>4
      <3>2. QED
        BY <1>2, <1>3, <1>5, <2>3, <3>1
    <2>4. CASE i - Len(c) \in 1..Len(r)
      <3> DEFINE k == i - Len(c)
      <3>1. k \in 1..Len(r) /\ i = Len(c) + k /\ k + 1 \in 1..Len(q) /\ i = Len(b) + (k + 1)
        BY <1>1, <1>2, <1>3, <1>5, <2>1, <2>4
      <3> HIDE DEF k
      <3>2. s[Len(c) + k] = UidsOf(r[k].event) /\ r[k] = q[k + 1]
            /\ l[Len(b) + (k + 1)] = UidsOf(q[k + 1].event)
        BY <1>1, <1>3, <1>5, <3>1
      <3>3. QED
        BY <3>1, <3>2
    <2>5. QED
      BY <2>1, <2>2, <2>3, <2>4
  <1>8. s = l
    BY <1>3, <1>5, <1>6, <1>7, SeqEqual
  <1>9. QED
    BY <1>8 DEF s, l, c, r

\* Taking the batch empties its places.
LEMMA LineFlushed ==
  ASSUME NEW b \in Seq(Messages), NEW q \in Seq(Messages)
  PROVE  Line(<<>>, q) = SubSeq(Line(b, q), Len(b) + 1, Len(Line(b, q)))
  <1> DEFINE l == Line(b, q)
             s == Line(<<>>, q)
             t == SubSeq(l, Len(b) + 1, Len(l))
  <1>1. /\ l \in Seq(Places) /\ Len(b) \in Nat /\ Len(q) \in Nat /\ Len(l) = Len(b) + Len(q)
        /\ \A i \in 1..Len(q) : l[Len(b) + i] = UidsOf(q[i].event)
    BY LineFacts
  <1>2. <<>> \in Seq(Messages) /\ Len(<<>>) = 0
    BY EmptySeq
  <1>3. /\ s \in Seq(Places) /\ Len(s) = Len(q)
        /\ \A i \in 1..Len(q) : s[i] = UidsOf(q[i].event)
    <2>1. /\ s \in Seq(Places) /\ Len(s) = 0 + Len(q)
          /\ \A i \in 1..Len(q) : s[0 + i] = UidsOf(q[i].event)
      BY <1>2, LineFacts
    <2>2. \A i \in 1..Len(q) : 0 + i = i
      BY <1>1
    <2>3. QED
      BY <1>1, <2>1, <2>2
  <1> HIDE DEF l, s
  <1>4. /\ t \in Seq(Places)
        /\ Len(t) = IF Len(b) + 1 <= Len(l) THEN Len(l) - (Len(b) + 1) + 1 ELSE 0
        /\ \A i \in 1..(Len(l) - (Len(b) + 1) + 1) : t[i] = l[(Len(b) + 1) + i - 1]
    <2>1. \A i \in (Len(b) + 1)..Len(l) : i \in 1..Len(l)
      BY <1>1
    <2>2. \A i \in (Len(b) + 1)..Len(l) : l[i] \in Places
      BY <1>1, <2>1, ElementOfSeq
    <2>3. Len(b) + 1 \in Int /\ Len(l) \in Int
      BY <1>1
    <2>4. QED
      BY <2>2, <2>3, SubSeqProperties
  <1> HIDE DEF t
  <1>5. Len(s) = Len(t)
    BY <1>1, <1>3, <1>4
  <1>6. ASSUME NEW i \in 1..Len(s) PROVE s[i] = t[i]
    <2>1. i \in 1..Len(q) /\ i \in 1..(Len(l) - (Len(b) + 1) + 1) /\ (Len(b) + 1) + i - 1 = Len(b) + i
      BY <1>1, <1>3
    <2>2. QED
      BY <1>1, <1>3, <1>4, <2>1
  <1>7. s = t
    BY <1>3, <1>4, <1>5, <1>6, SeqEqual
  <1>8. QED
    BY <1>7 DEF s, t, l

-----------------------------------------------------------------------------
(* What producers hold.                                                    *)

\* An event on its way is in one producer's hands, and only until emit ends.
HandsOwn ==
  /\ \A p \in Producers : pc[p] \notin {"push", "enqueue"} => hand[p] = {}
  /\ \A p \in Producers : \A e \in hand[p] : e.uid <= emitted
  /\ \A p \in Producers : \A d, e \in hand[p] : d = e
  /\ \A p, q \in Producers : \A d \in hand[p], e \in hand[q] : d.uid = e.uid => p = q

LEMMA EmittedFacts ==
  ASSUME TypeOK
  PROVE  MaxEvents \in Nat /\ emitted \in 0..MaxEvents /\ emitted \in Nat
  <1>1. MaxEvents \in Nat
    BY LogAssumption
  <1>2. emitted \in 0..MaxEvents
    BY DEF TypeOK
  <1>3. QED
    BY <1>1, <1>2

LEMMA HandsStill ==
  ASSUME HandsOwn, hand' = hand, emitted' = emitted,
         \A q \in Producers :
           pc'[q] = pc[q] \/ pc[q] \notin {"push", "enqueue"} \/ pc'[q] = "enqueue"
  PROVE  HandsOwn'
  BY DEF HandsOwn

LEMMA AssignHands ==
  ASSUME TypeOK, HandsOwn, NEW p \in Producers, AssignId(p)
  PROVE  /\ HandsOwn'
         /\ hand[p] = {}
         /\ hand' = [hand EXCEPT ![p] = {[uid |-> emitted + 1, id |-> nextId]}]
         /\ emitted' = emitted + 1
  <1> DEFINE new == [uid |-> emitted + 1, id |-> nextId]
  <1>1. /\ hand' = [hand EXCEPT ![p] = {new}] /\ emitted' = emitted + 1
        /\ pc' = [pc EXCEPT ![p] = "push"] /\ pc[p] \notin {"push", "enqueue"}
    BY DEF AssignId, Goto, Free
  <1>2. /\ pc \in [Producers -> {"idle", "push", "enqueue", "send", "wait", "acked", "clear"}]
        /\ hand \in [Producers -> SUBSET Events] /\ emitted \in Nat
    BY EmittedFacts DEF TypeOK
  <1>3. hand[p] = {} /\ hand'[p] = {new} /\ \A q \in Producers \ {p} : hand'[q] = hand[q]
    BY <1>1, <1>2 DEF HandsOwn
  <1>4. \A q \in Producers : \A e \in hand[q] : e.uid \in Nat /\ e.uid <= emitted
    <2>1. \A e \in Events : e.uid \in Nat
      BY LogAssumption DEF Events, Uids
    <2>2. QED
      BY <1>2, <2>1 DEF HandsOwn
  <1>5. new.uid = emitted + 1
    OBVIOUS
  <1> HIDE DEF new
  <1>6. \A q \in Producers : \A e \in hand'[q] : e.uid <= emitted'
    BY <1>1, <1>2, <1>3, <1>4, <1>5
  <1>7. ASSUME NEW q \in Producers, NEW r \in Producers, NEW d \in hand'[q], NEW e \in hand'[r],
               d.uid = e.uid
        PROVE  q = r
    <2>1. CASE q = p /\ r = p
      BY <1>3, <2>1
    <2>2. CASE q = p /\ r # p
      BY <1>2, <1>3, <1>4, <1>5, <1>7, <2>2
    <2>3. CASE q # p /\ r = p
      BY <1>2, <1>3, <1>4, <1>5, <1>7, <2>3
    <2>4. CASE q # p /\ r # p
      BY <1>3, <1>7, <2>4 DEF HandsOwn
    <2>5. QED
      BY <2>1, <2>2, <2>3, <2>4
  <1>8. \A q \in Producers : pc'[q] \notin {"push", "enqueue"} => hand'[q] = {}
    BY <1>1, <1>2, <1>3 DEF HandsOwn
  <1>9. \A q \in Producers : \A d, e \in hand'[q] : d = e
    BY <1>3 DEF HandsOwn
  <1>10. HandsOwn'
    BY <1>6, <1>7, <1>8, <1>9 DEF HandsOwn
  <1>11. QED
    BY <1>1, <1>3, <1>10 DEF new

LEMMA EnqueueHands ==
  ASSUME TypeOK, HandsOwn, NEW p \in Producers, Enqueue(p)
  PROVE  HandsOwn'
  <1>1. /\ hand' = [hand EXCEPT ![p] = {}] /\ emitted' = emitted
        /\ pc' = [pc EXCEPT ![p] = "idle"]
    BY DEF Enqueue, Goto
  <1>2. /\ pc \in [Producers -> {"idle", "push", "enqueue", "send", "wait", "acked", "clear"}]
        /\ hand \in [Producers -> SUBSET Events]
    BY DEF TypeOK
  <1>3. hand'[p] = {} /\ \A q \in Producers \ {p} : hand'[q] = hand[q] /\ pc'[q] = pc[q]
    BY <1>1, <1>2
  <1>4. QED
    BY <1>1, <1>3 DEF HandsOwn

LEMMA HandsKept ==
  ASSUME TypeOK, HandsOwn, [Next]_vars
  PROVE  HandsOwn'
  <1>1. pc \in [Producers -> {"idle", "push", "enqueue", "send", "wait", "acked", "clear"}]
    BY DEF TypeOK
  <1>2. ASSUME NEW p \in Producers, PushRing(p) \/ Sync(p) \/ ClearLogs(p) PROVE HandsOwn'
    <2>1. /\ hand' = hand /\ emitted' = emitted
          /\ \E to \in {"enqueue", "send", "wait", "idle", "clear"} :
               /\ pc' = [pc EXCEPT ![p] = to]
               /\ pc[p] \notin {"push", "enqueue"} \/ to = "enqueue"
      BY <1>2 DEF PushRing, Sync, SyncCall, SyncSend, SyncTimeout, ClearLogs, ClearBus, ClearRows,
                  Goto, Free
    <2>2. \A q \in Producers :
            pc'[q] = pc[q] \/ pc[q] \notin {"push", "enqueue"} \/ pc'[q] = "enqueue"
      BY <1>1, <2>1
    <2>3. QED
      BY <2>1, <2>2, HandsStill
  <1>3. CASE Prune \/ Receive \/ ReceiveTimeout \/ Commit \/ FlushFails \/ UNCHANGED vars
    <2>1. hand' = hand /\ emitted' = emitted /\ pc' = pc
      BY <1>3 DEF Prune, Receive, ReceiveTimeout, Commit, FlushFails, vars, procVars
    <2>2. QED
      BY <2>1, HandsStill
  <1>4. CASE Reply
    <2>1. /\ hand' = hand /\ emitted' = emitted
          /\ \A q \in Producers : pc'[q] = pc[q] \/ pc[q] = "wait"
      BY <1>4 DEF Reply
    <2>2. QED
      BY <2>1, HandsStill
  <1>5. CASE Restart
    <2>1. \A p \in Producers : hand'[p] = {}
      BY <1>5 DEF Restart
    <2>2. QED
      BY <2>1 DEF HandsOwn
  <1>6. QED
    BY <1>2, <1>3, <1>4, <1>5, AssignHands, EnqueueHands DEF Next, Emit, WriterStep

-----------------------------------------------------------------------------
(* Every step of the log is one of LossyLog, or none.                      *)

LogStep == Log!Next \/ UNCHANGED <<Offered, Waiting, Table>>

LEMMA OfferedStill ==
  ASSUME hand' = hand, emitted' = emitted
  PROVE  Offered' = Offered
  BY DEF Offered

LEMMA LogStill ==
  /\ batch' = batch /\ queue' = queue => Waiting' = Waiting
  /\ rows' = rows => Table' = Table
  BY DEF Waiting, Table

LEMMA AssignMaps ==
  ASSUME TypeOK, HandsOwn, NEW p \in Producers, AssignId(p)
  PROVE  LogStep
  <1> DEFINE new == [uid |-> emitted + 1, id |-> nextId]
  <1>1. /\ hand[p] = {} /\ hand' = [hand EXCEPT ![p] = {new}] /\ emitted' = emitted + 1
    BY AssignHands
  <1>2. hand \in [Producers -> SUBSET Events] /\ emitted \in Nat
    BY EmittedFacts DEF TypeOK
  <1>3. UidsOf({new}) = {emitted + 1} /\ UidsOf({}) = {}
    BY DEF UidsOf
  <1> HIDE DEF new
  <1>4. /\ UidsOf(hand'[p]) = {emitted + 1} /\ UidsOf(hand[p]) = {}
        /\ \A q \in Producers \ {p} : hand'[q] = hand[q]
    BY <1>1, <1>2, <1>3
  <1>5. \A u : u \in Offered' <=> u \in Offered
    <2>1. ASSUME NEW u \in 1..emitted
          PROVE  /\ u \in 1..emitted' /\ u # emitted + 1
      BY <1>1, <1>2
    <2>2. \A u \in 1..emitted' : u \in 1..emitted \/ u = emitted + 1
      BY <1>1, <1>2
    <2>3. QED
      BY <1>4, <2>1, <2>2 DEF Offered
  <1>6. Offered' = Offered
    BY <1>5
  <1>7. batch' = batch /\ queue' = queue /\ rows' = rows
    BY DEF AssignId, writerVars
  <1>8. QED
    BY <1>6, <1>7, LogStill DEF LogStep

LEMMA EnqueueMaps ==
  ASSUME TypeOK, HandsOwn, NEW p \in Producers, Enqueue(p)
  PROVE  LogStep
  <1>1. PICK e \in hand[p] :
          \/ queue' = Append(queue, EventMsg(e))
          \/ queue' = queue
    BY DEF Enqueue
  <1>2. /\ hand' = [hand EXCEPT ![p] = {}] /\ emitted' = emitted
        /\ batch' = batch /\ rows' = rows
    BY DEF Enqueue
  <1>3. /\ hand \in [Producers -> SUBSET Events] /\ queue \in Seq(Messages) /\ batch \in Seq(Messages)
    BY DEF TypeOK
  <1>4. e \in Events /\ e.uid \in Uids /\ e.uid \in 1..emitted
    <2>1. e \in Events
      BY <1>3
    <2>2. e.uid \in 1..MaxEvents /\ e.uid <= emitted
      BY <2>1 DEF HandsOwn, Events, Uids
    <2>3. QED
      BY <2>1, <2>2, EmittedFacts DEF Uids
  <1>5. \A d \in hand[p] : d = e
    BY DEF HandsOwn
  <1>6. UidsOf(hand[p]) = {e.uid} /\ \A q \in Producers \ {p} : e.uid \notin UidsOf(hand[q])
    BY <1>5 DEF HandsOwn, UidsOf
  <1>7. UidsOf(hand'[p]) = {} /\ \A q \in Producers \ {p} : hand'[q] = hand[q]
    BY <1>2, <1>3 DEF UidsOf
  <1>8. e.uid \notin Offered
    BY <1>6 DEF Offered
  <1>9. \A u : u \in Offered' <=> u \in Offered \/ u = e.uid
    BY <1>2, <1>4, <1>6, <1>7 DEF Offered
  <1>10. Offered' = Offered \cup {e.uid}
    BY <1>9
  <1>11. Table' = Table
    BY <1>2, LogStill
  <1>12. CASE queue' = queue
    <2>1. Waiting' = Waiting
      BY <1>2, <1>12, LogStill
    <2>2. Log!Refuse
      BY <1>4, <1>8, <1>10, <1>11, <2>1 DEF Log!Refuse
    <2>3. QED
      BY <2>2 DEF LogStep, Log!Next
  <1>13. CASE queue' = Append(queue, EventMsg(e))
    <2>1. EventMsg(e) \in Messages /\ UidsOf(EventMsg(e).event) = {e.uid}
      BY <1>4, MessageTypes DEF UidsOf
    <2>2. Line(batch, Append(queue, EventMsg(e))) = Append(Line(batch, queue), UidsOf(EventMsg(e).event))
      BY <1>3, <2>1, LineAppended
    <2>3. Waiting' = Append(Waiting, {e.uid})
      BY <1>2, <1>13, <2>1, <2>2, Mapped
    <2>4. Log!Accept
      BY <1>4, <1>8, <1>10, <1>11, <2>3 DEF Log!Accept
    <2>5. QED
      BY <2>4 DEF LogStep, Log!Next
  <1>14. QED
    BY <1>1, <1>12, <1>13

\* A barrier or a retention message.
LEMMA MarkMaps ==
  ASSUME TypeOK, NEW m \in Messages, m.event = {}, queue' = Append(queue, m),
         batch' = batch, rows' = rows, hand' = hand, emitted' = emitted
  PROVE  LogStep
  <1>1. queue \in Seq(Messages) /\ batch \in Seq(Messages)
    BY DEF TypeOK
  <1>2. UidsOf(m.event) = {}
    BY DEF UidsOf
  <1>3. Line(batch, Append(queue, m)) = Append(Line(batch, queue), UidsOf(m.event))
    BY <1>1, LineAppended
  <1>4. Waiting' = Append(Waiting, {})
    BY <1>2, <1>3, Mapped
  <1>5. Log!Mark
    BY <1>4, OfferedStill, LogStill DEF Log!Mark
  <1>6. QED
    BY <1>5 DEF LogStep, Log!Next

LEMMA SyncMaps ==
  ASSUME TypeOK, Counters, NEW p \in Producers, Sync(p)
  PROVE  LogStep
  <1>1. CASE SyncCall(p) \/ SyncTimeout(p)
    <2>1. hand' = hand /\ emitted' = emitted /\ batch' = batch /\ queue' = queue /\ rows' = rows
      BY <1>1 DEF SyncCall, SyncTimeout, writerVars
    <2>2. QED
      BY <2>1, OfferedStill, LogStill DEF LogStep
  <1>2. CASE SyncSend(p)
    <2>1. /\ hand' = hand /\ emitted' = emitted /\ batch' = batch /\ rows' = rows
          /\ queue' = Append(queue, FlushMsg(p, call[p])) /\ pc[p] = "send"
      BY <1>2 DEF SyncSend
    <2>2. call[p] \in 1..MaxSyncs
      <3>1. call[p] \in 0..MaxSyncs /\ MaxSyncs \in Nat /\ call[p] >= 1
        BY <2>1, LogAssumption DEF TypeOK, Counters
      <3>2. QED
        BY <3>1
    <2>3. FlushMsg(p, call[p]) \in Messages /\ FlushMsg(p, call[p]).event = {}
      BY <2>2, MessageTypes
    <2>4. QED
      BY <2>1, <2>3, MarkMaps
  <1>3. QED
    BY <1>1, <1>2 DEF Sync

LEMMA ClearMaps ==
  ASSUME TypeOK
  PROVE  /\ \A p \in Producers : ClearLogs(p) => LogStep
         /\ Prune => LogStep
         /\ Restart => LogStep
  <1>1. ASSUME NEW p \in Producers, ClearBus(p) PROVE LogStep
    <2>1. hand' = hand /\ emitted' = emitted /\ batch' = batch /\ queue' = queue /\ rows' = rows
      BY <1>1 DEF ClearBus, writerVars
    <2>2. QED
      BY <2>1, OfferedStill, LogStill DEF LogStep
  <1>2. ASSUME NEW p \in Producers, ClearRows(p) PROVE LogStep
    <2>1. hand' = hand /\ emitted' = emitted /\ batch' = batch /\ queue' = queue /\ rows' = <<>>
      BY <1>2 DEF ClearRows, writerVars
    <2>2. Column(<<>>) = <<>>
      <3>1. <<>> \in Seq(Events) /\ Len(<<>>) = 0 /\ <<>> \in Seq(Uids)
        BY EmptySeq
      <3>2. Column(<<>>) \in Seq(Uids) /\ Len(Column(<<>>)) = 0
        BY <3>1, ColumnFacts
      <3>3. QED
        BY <3>2, EmptySeq
    <2>3. Table' = <<>>
      BY <2>1, <2>2, Mapped
    <2>4. Log!Clear
      BY <2>1, <2>3, OfferedStill, LogStill DEF Log!Clear
    <2>5. QED
      BY <2>4 DEF LogStep, Log!Next
  <1>3. ASSUME Prune PROVE LogStep
    <2>1. /\ hand' = hand /\ emitted' = emitted /\ batch' = batch /\ rows' = rows
          /\ queue' = queue \/ queue' = Append(queue, PruneMsg)
      BY <1>3 DEF Prune, procVars
    <2>2. PruneMsg \in Messages /\ PruneMsg.event = {}
      BY MessageTypes
    <2>3. QED
      BY <2>1, <2>2, MarkMaps, OfferedStill, LogStill DEF LogStep
  <1>4. ASSUME Restart PROVE LogStep
    <2>1. /\ hand' = [p \in Producers |-> {}] /\ emitted' = emitted /\ rows' = rows
          /\ batch' = <<>> /\ queue' = <<>>
      BY <1>4 DEF Restart
    <2>2. Line(<<>>, <<>>) = <<>>
      <3>1. <<>> \in Seq(Messages) /\ Len(<<>>) = 0
        BY EmptySeq
      <3>2. Line(<<>>, <<>>) \in Seq(Places) /\ Len(Line(<<>>, <<>>)) = Len(<<>>) + Len(<<>>)
        BY <3>1, LineFacts
      <3>3. Len(Line(<<>>, <<>>)) = 0
        BY <3>1, <3>2
      <3>4. QED
        BY <3>2, <3>3, EmptySeq
    <2>3. Waiting' = <<>>
      BY <2>1, <2>2, Mapped
    <2>4. \A p \in Producers : UidsOf(hand'[p]) = {}
      BY <2>1 DEF UidsOf
    <2>5. Offered' = 1..emitted
      BY <2>1, <2>4 DEF Offered
    <2>6. Offered \subseteq Offered' /\ Offered' \subseteq Uids
      <3>1. 1..emitted \subseteq 1..MaxEvents
        BY EmittedFacts
      <3>2. QED
        BY <2>5, <3>1 DEF Offered, Uids
    <2>7. Log!Crash
      BY <2>1, <2>3, <2>6, LogStill DEF Log!Crash
    <2>8. QED
      BY <2>7 DEF LogStep, Log!Next
  <1>5. QED
    BY <1>1, <1>2, <1>3, <1>4 DEF ClearLogs

\* Dropping the first rows drops the first of the column.
LEMMA ColumnTail ==
  ASSUME NEW r \in Seq(Events), NEW m \in 0..Len(r)
  PROVE  Column(SubSeq(r, m + 1, Len(r))) = SubSeq(Column(r), m + 1, Len(r))
  <1> DEFINE n == Len(r)
             q == SubSeq(r, m + 1, n)
             c == Column(r)
             s == Column(q)
             t == SubSeq(c, m + 1, n)
  <1>1. n \in Nat /\ m \in Nat /\ m <= n /\ \A i \in 1..n : r[i] \in Events
    BY LenProperties, ElementOfSeq
  <1>2. c \in Seq(Uids) /\ Len(c) = n /\ \A i \in 1..n : c[i] = r[i].uid
    BY ColumnFacts
  <1>3. \A i \in 1..n : c[i] \in Uids
    BY <1>2, ElementOfSeq
  <1> HIDE DEF c
  <1>4. \A i \in (m + 1)..n : i \in 1..n
    BY <1>1
  <1>5. /\ q \in Seq(Events) /\ Len(q) = IF m + 1 <= n THEN n - (m + 1) + 1 ELSE 0
        /\ \A i \in 1..(n - (m + 1) + 1) : q[i] = r[(m + 1) + i - 1]
    BY <1>1, <1>4, SubSeqProperties
  <1>6. /\ t \in Seq(Uids) /\ Len(t) = IF m + 1 <= n THEN n - (m + 1) + 1 ELSE 0
        /\ \A i \in 1..(n - (m + 1) + 1) : t[i] = c[(m + 1) + i - 1]
    BY <1>1, <1>3, <1>4, SubSeqProperties
  <1> HIDE DEF q, t, n
  <1>7. s \in Seq(Uids) /\ Len(s) = Len(q) /\ \A i \in 1..Len(q) : s[i] = q[i].uid
    BY <1>5, ColumnFacts
  <1> HIDE DEF s
  <1>8. Len(s) = Len(t)
    BY <1>5, <1>6, <1>7
  <1>9. ASSUME NEW i \in 1..Len(s) PROVE s[i] = t[i]
    <2>1. i \in 1..(n - (m + 1) + 1) /\ (m + 1) + i - 1 \in 1..n /\ i \in 1..Len(q)
      BY <1>1, <1>5, <1>7
    <2>2. QED
      BY <1>2, <1>5, <1>6, <1>7, <2>1
  <1>10. s = t
    BY <1>6, <1>7, <1>8, <1>9, SeqEqual
  <1>11. QED
    BY <1>10 DEF s, t, q, c, n

\* A commit writes a selection of the batch's events behind the table.
LEMMA CommitExtends ==
  ASSUME TypeOK, NEW failed
  PROVE  LET S == Inserted(failed)
             k == Cardinality(S)
             at == [i \in 1..k |-> Nth(S, i)]
         IN  /\ k \in 0..Len(batch)
             /\ at \in Log!Selections(k, Len(batch))
             /\ \A i \in 1..k : Waiting[at[i]] # {}
             /\ Column(rows \o Written(failed)) = Log!Extended(k, at)
  <1> DEFINE S == Inserted(failed)
             k == Cardinality(S)
             at == [i \in 1..k |-> Nth(S, i)]
             w == Written(failed)
             all == rows \o w
             l == Len(Table)
             ext == [i \in 1..(l + k) |->
                       IF i <= l THEN Table[i] ELSE CHOOSE u \in Waiting[at[i - l]] : TRUE]
  <1>1. /\ batch \in Seq(Messages) /\ queue \in Seq(Messages) /\ rows \in Seq(Events)
        /\ \A i \in 1..Len(batch) : batch[i] \in Messages
    BY ElementOfSeq DEF TypeOK
  <1>2. /\ Len(batch) \in Nat /\ Len(Waiting) = Len(batch) + Len(queue)
        /\ \A i \in 1..Len(batch) : Waiting[i] = UidsOf(batch[i].event)
    BY <1>1, LineFacts, Mapped
  <1>3. /\ Table \in Seq(Uids) /\ l = Len(rows) /\ l \in Nat
        /\ \A i \in 1..l : Table[i] = rows[i].uid
    BY <1>1, ColumnFacts, Mapped
  <1>4. S \in SUBSET Nat /\ IsFiniteSet(S) /\ k \in Nat
    BY InsertedFacts
  <1>5. S \in SUBSET (1..Len(batch)) /\ \A i \in S : batch[i].kind = "event"
    BY DEF Inserted
  <1>6. k <= Len(batch)
    <2> DEFINE b == Len(batch)
    <2>1. b \in Nat /\ S \in SUBSET (1..b)
      BY <1>2, <1>5
    <2> HIDE DEF b, S
    <2>2. IsFiniteSet(1..b) /\ Cardinality(1..b) = b
      BY <2>1, FS_Interval
    <2>3. k <= b
      BY <2>1, <2>2, FS_Subset
    <2>4. QED
      BY <2>3 DEF b
  <1>7. \A i \in 1..k : Nth(S, i) \in S
    BY <1>4, NthFacts
  <1>8. w \in Seq(Events) /\ Len(w) = k
    BY WrittenFacts
  <1>9. \A i \in 1..k : w[i] = CHOOSE e \in batch[Nth(S, i)].event : TRUE
    BY DEF Written
  <1>10. ASSUME NEW i \in 1..k
         PROVE  /\ at[i] \in 1..Len(batch) /\ Waiting[at[i]] = {w[i].uid}
    <2>1. at[i] = Nth(S, i) /\ at[i] \in S /\ at[i] \in 1..Len(batch)
      BY <1>5, <1>7
    <2>2. batch[at[i]] \in Messages /\ batch[at[i]].kind = "event"
      BY <1>1, <1>5, <2>1
    <2>3. w[i] \in batch[at[i]].event
      <3>1. batch[at[i]].event # {}
        BY <2>2, MessageFacts
      <3>2. QED
        BY <1>9, <2>1, <3>1
    <2>4. UidsOf(batch[at[i]].event) = {w[i].uid}
      BY <2>2, <2>3, PlaceFacts
    <2>5. QED
      BY <1>2, <2>1, <2>4
  <1>11. at \in Log!Selections(k, Len(batch))
    <2>1. \A i, j \in 1..k : i < j => Nth(S, i) < Nth(S, j)
      BY <1>4, NthAscends
    <2>2. at \in [1..k -> 1..Len(batch)]
      BY <1>5, <1>7
    <2>3. \A i, j \in 1..k : i < j => at[i] < at[j]
      BY <2>1
    <2> HIDE DEF at, k
    <2>4. QED
      BY <2>2, <2>3 DEF Log!Selections
  <1>12. Log!Extended(k, at) = ext
    BY DEF Log!Extended
  <1> HIDE DEF w, at
  <1>13. /\ all \in Seq(Events) /\ Len(all) = l + k
         /\ \A i \in 1..(l + k) : all[i] = IF i <= l THEN rows[i] ELSE w[i - l]
    <2>1. /\ all \in Seq(Events) /\ Len(all) = Len(rows) + Len(w)
          /\ \A i \in 1..(Len(rows) + Len(w)) :
               all[i] = IF i <= Len(rows) THEN rows[i] ELSE w[i - Len(rows)]
      BY <1>1, <1>8, ConcatProperties
    <2>2. Len(rows) = l /\ Len(w) = k
      BY <1>3, <1>8
    <2> HIDE DEF all, l, k
    <2>3. QED
      BY <2>1, <2>2
  <1> HIDE DEF all
  <1>14. /\ Column(all) \in Seq(Uids) /\ Len(Column(all)) = l + k
         /\ \A i \in 1..(l + k) : Column(all)[i] = all[i].uid
    BY <1>13, ColumnFacts
  <1> HIDE DEF l, k
  <1>15. ASSUME NEW i \in 1..(l + k) PROVE Column(all)[i] = ext[i]
    <2>1. CASE i <= l
      <3>1. i \in 1..l
        BY <1>3, <1>4, <2>1
      <3>2. QED
        BY <1>3, <1>13, <1>14, <2>1, <3>1
    <2>2. CASE ~(i <= l)
      <3>1. i - l \in 1..k
        BY <1>3, <1>4, <2>2
      <3>2. (CHOOSE u \in Waiting[at[i - l]] : TRUE) = w[i - l].uid
        BY <1>10, <3>1
      <3>3. ext[i] = w[i - l].uid
        BY <2>2, <3>2
      <3>4. Column(all)[i] = w[i - l].uid
        BY <1>13, <1>14, <2>2
      <3>5. QED
        BY <3>3, <3>4
    <2>3. QED
      BY <2>1, <2>2
  <1>16. Column(all) = ext
    <2>1. DOMAIN Column(all) = 1..(l + k) /\ Column(all) = [i \in DOMAIN Column(all) |-> Column(all)[i]]
      BY <1>14, LenProperties
    <2>2. QED
      BY <1>15, <2>1
  <1>17. \A i \in 1..k : Waiting[at[i]] # {}
    BY <1>10
  <1>18. k \in 0..Len(batch)
    BY <1>2, <1>4, <1>6
  <1>19. QED
    BY <1>11, <1>12, <1>16, <1>17, <1>18 DEF k, at, all, w

LEMMA CommitMaps ==
  ASSUME TypeOK, Commit
  PROVE  LogStep
  <1>1. PICK failed \in {{}} \cup {{e} : e \in EventsOf(batch)} :
          \E n \in 0..Prunable(failed) :
            rows' = SubSeq(rows \o Written(failed), n + 1, Len(rows \o Written(failed)))
    BY DEF Commit
  <1> DEFINE S == Inserted(failed)
             k == Cardinality(S)
             at == [i \in 1..k |-> Nth(S, i)]
             all == rows \o Written(failed)
             b == Len(batch)
  <1>2. PICK n \in 0..Prunable(failed) : rows' = SubSeq(all, n + 1, Len(all))
    BY <1>1
  <1>3. /\ hand' = hand /\ emitted' = emitted /\ batch' = <<>> /\ queue' = queue
    BY DEF Commit, EndFlush, procVars
  <1>4. /\ batch \in Seq(Messages) /\ queue \in Seq(Messages) /\ rows \in Seq(Events)
        /\ \A i \in 1..b : batch[i] \in Messages
    BY ElementOfSeq DEF TypeOK
  <1>5. /\ k \in 0..b /\ at \in Log!Selections(k, b)
        /\ \A i \in 1..k : Waiting[at[i]] # {}
        /\ Column(all) = Log!Extended(k, at)
    BY CommitExtends
  <1>6. /\ all \in Seq(Events) /\ Len(all) = Len(rows) + k
    <2>1. Written(failed) \in Seq(Events) /\ Len(Written(failed)) = k
      BY WrittenFacts
    <2>2. QED
      BY <1>4, <2>1, ConcatProperties
  <1>7. /\ b \in Nat /\ Len(Waiting) = b + Len(queue) /\ Len(queue) \in Nat
        /\ \A i \in 1..b : Waiting[i] = UidsOf(batch[i].event)
        /\ Len(Table) = Len(rows) /\ Len(rows) \in Nat
    BY <1>4, LineFacts, ColumnFacts, Mapped
  <1>8. n \in 0..(Len(Table) + k)
    <2>1. Prunable(failed) \in Nat /\ Prunable(failed) <= Len(rows) + k
      BY PrunableBound
    <2> HIDE DEF k
    <2>2. QED
      BY <1>5, <1>7, <2>1
  <1>9. n > 0 => \E i \in 1..b : Waiting[i] = {}
    <2>1. SUFFICES ASSUME n > 0 PROVE \E i \in 1..b : Waiting[i] = {}
      OBVIOUS
    <2>2. Prunable(failed) # 0
      BY <2>1, PrunableBound
    <2>3. PICK i \in 1..b : batch[i].kind = "prune"
      BY <2>2 DEF Prunable
    <2>4. UidsOf(batch[i].event) = {}
      BY <1>4, <2>3, PlaceFacts
    <2>5. QED
      BY <1>7, <2>4
  <1>10. Table' = SubSeq(Log!Extended(k, at), n + 1, Len(Table) + k)
    <2> HIDE DEF all, k, at
    <2>1. n \in 0..Len(all)
      BY <1>6, <1>7, <1>8
    <2>2. Column(SubSeq(all, n + 1, Len(all))) = SubSeq(Column(all), n + 1, Len(all))
      BY <1>6, <2>1, ColumnTail
    <2>3. Table' = Column(rows')
      BY Mapped
    <2>4. Len(all) = Len(Table) + k
      BY <1>6, <1>7
    <2>5. QED
      BY <1>2, <1>5, <2>2, <2>3, <2>4
  <1>11. Waiting' = SubSeq(Waiting, b + 1, Len(Waiting))
    BY <1>3, <1>4, LineFlushed, Mapped
  <1>12. Offered' = Offered
    BY <1>3, OfferedStill
  <1>13. b \in 0..Len(Waiting)
    BY <1>7
  <1>14. Log!Settle
    <2> HIDE DEF k, at, b
    <2>1. QED
      BY <1>5, <1>8, <1>9, <1>10, <1>11, <1>12, <1>13 DEF Log!Settle
  <1>15. QED
    BY <1>14 DEF LogStep, Log!Next

\* A failed flush gives up the places of the batch.
LEMMA FailureMaps ==
  ASSUME TypeOK, FlushFails
  PROVE  LogStep
  <1> DEFINE b == Len(batch)
             at == [i \in 1..0 |-> i]
  <1>1. /\ hand' = hand /\ emitted' = emitted /\ batch' = <<>> /\ queue' = queue /\ rows' = rows
    BY DEF FlushFails, EndFlush, procVars
  <1>2. batch \in Seq(Messages) /\ queue \in Seq(Messages) /\ rows \in Seq(Events)
    BY DEF TypeOK
  <1>3. /\ b \in Nat /\ Len(Waiting) = b + Len(queue) /\ Len(queue) \in Nat
        /\ Table \in Seq(Uids) /\ Len(Table) \in Nat
    BY <1>2, LineFacts, ColumnFacts, Mapped
  <1>4. Waiting' = SubSeq(Waiting, b + 1, Len(Waiting))
    BY <1>1, <1>2, LineFlushed, Mapped
  <1>5. Offered' = Offered /\ Table' = Table
    BY <1>1, OfferedStill, LogStill
  <1>6. at \in Log!Selections(0, b)
    BY DEF Log!Selections
  <1>7. Log!Extended(0, at) = Table
    <2>1. Table = [i \in 1..Len(Table) |-> Table[i]]
      BY <1>3, LenProperties
    <2>2. Len(Table) + 0 = Len(Table) /\ \A i \in 1..Len(Table) : i <= Len(Table)
      BY <1>3
    <2>3. QED
      BY <2>1, <2>2 DEF Log!Extended
  <1>8. SubSeq(Table, 1, Len(Table)) = Table
    BY <1>3, SubSeqFull
  <1>9. Table' = SubSeq(Log!Extended(0, at), 0 + 1, Len(Table) + 0)
    BY <1>3, <1>5, <1>7, <1>8
  <1>10. /\ b \in 0..Len(Waiting) /\ 0 \in 0..b /\ 0 \in 0..(Len(Table) + 0)
         /\ \A i \in 1..0 : Waiting[at[i]] # {}
         /\ ~(0 > 0)
    BY <1>3
  <1>11. Log!Settle
    <2> HIDE DEF b, at
    <2>1. QED
      BY <1>4, <1>5, <1>6, <1>9, <1>10 DEF Log!Settle
  <1>12. QED
    BY <1>11 DEF LogStep, Log!Next

LEMMA WriterMaps ==
  ASSUME TypeOK, WriterStep
  PROVE  LogStep
  <1>1. CASE Receive
    <2>1. /\ queue # <<>> /\ batch' = Append(batch, Head(queue)) /\ queue' = Tail(queue)
          /\ hand' = hand /\ emitted' = emitted /\ rows' = rows
      BY <1>1 DEF Receive, procVars
    <2>2. batch \in Seq(Messages) /\ queue \in Seq(Messages)
      BY DEF TypeOK
    <2>3. Waiting' = Waiting
      BY <2>1, <2>2, LineReceived, Mapped
    <2>4. QED
      BY <2>1, <2>3, OfferedStill, LogStill DEF LogStep
  <1>2. CASE ReceiveTimeout \/ Reply
    <2>1. hand' = hand /\ emitted' = emitted /\ batch' = batch /\ queue' = queue /\ rows' = rows
      BY <1>2 DEF ReceiveTimeout, Reply, procVars
    <2>2. QED
      BY <2>1, OfferedStill, LogStill DEF LogStep
  <1>3. QED
    BY <1>1, <1>2, CommitMaps, FailureMaps DEF WriterStep

LEMMA NextMaps ==
  ASSUME TypeOK, Counters, HandsOwn, [Next]_vars
  PROVE  LogStep
  <1>1. ASSUME NEW p \in Producers, PushRing(p) PROVE LogStep
    <2>1. hand' = hand /\ emitted' = emitted /\ batch' = batch /\ queue' = queue /\ rows' = rows
      BY <1>1 DEF PushRing, writerVars
    <2>2. QED
      BY <2>1, OfferedStill, LogStill DEF LogStep
  <1>2. CASE UNCHANGED vars
    <2>1. hand' = hand /\ emitted' = emitted /\ batch' = batch /\ queue' = queue /\ rows' = rows
      BY <1>2 DEF vars, procVars, writerVars
    <2>2. QED
      BY <2>1, OfferedStill, LogStill DEF LogStep
  <1>3. QED
    BY <1>1, <1>2, AssignMaps, EnqueueMaps, SyncMaps, ClearMaps, WriterMaps DEF Next, Emit

LEMMA InitMaps ==
  ASSUME Init
  PROVE  Log!Init
  <1>1. <<>> \in Seq(Messages) /\ <<>> \in Seq(Events) /\ Len(<<>>) = 0
    BY EmptySeq
  <1>2. Line(<<>>, <<>>) \in Seq(Places) /\ Len(Line(<<>>, <<>>)) = Len(<<>>) + Len(<<>>)
    BY <1>1, LineFacts
  <1>3. Column(<<>>) \in Seq(Uids) /\ Len(Column(<<>>)) = Len(<<>>)
    BY <1>1, ColumnFacts
  <1>4. Len(Line(<<>>, <<>>)) = 0 /\ Len(Column(<<>>)) = 0
    BY <1>1, <1>2, <1>3
  <1>5. Line(<<>>, <<>>) = <<>> /\ Column(<<>>) = <<>>
    BY <1>2, <1>3, <1>4, EmptySeq
  <1>6. Waiting = <<>> /\ Table = <<>>
    BY <1>5, Mapped DEF Init
  <1>7. Offered = {}
    BY DEF Init, Offered
  <1>8. QED
    BY <1>6, <1>7 DEF Log!Init

-----------------------------------------------------------------------------

LEMMA HandsInductive == Spec => []HandsOwn
  <1>1. Init => HandsOwn
    BY DEF Init, HandsOwn
  <1>2. TypeOK /\ HandsOwn /\ [Next]_vars => HandsOwn'
    BY HandsKept
  <1>3. QED
    BY <1>1, <1>2, TypeCorrect, PTL DEF Spec

\* The event log keeps what LossyLog promises, with any number of producers,
\* failures, restarts and calls (emit, writer_loop, flush_batch, clear_events):
\* events reach the table in the order they were accepted in, each at most once.
THEOREM LogImplemented == Spec => KeepsOrder
  <1>1. Init => Log!Init
    BY InitMaps
  <1>2. TypeOK /\ Counters /\ HandsOwn /\ [Next]_vars => [Log!Next]_<<Offered, Waiting, Table>>
    BY NextMaps DEF LogStep
  <1>3. IInv => TypeOK /\ Counters
    BY DEF IInv
  <1>4. QED
    BY <1>1, <1>2, <1>3, Inductive, HandsInductive, PTL DEF Spec, KeepsOrder, Log!Spec, Log!logVars

-----------------------------------------------------------------------------
(* The table and what waits, as one sequence of places.                    *)

Whole(t, w) ==
  [x \in 1..(Len(t) + Len(w)) |-> IF x <= Len(t) THEN {t[x]} ELSE w[x - Len(t)]]

\* The second log has places of the first, in the same order.
Thinned(t, w, t2, w2) ==
  \E f \in [1..(Len(t2) + Len(w2)) -> 1..(Len(t) + Len(w))] :
    /\ \A x, y \in 1..(Len(t2) + Len(w2)) : x < y => f[x] < f[y]
    /\ \A x \in 1..(Len(t2) + Len(w2)) : Whole(t2, w2)[x] = Whole(t, w)[f[x]]

\* Each event has one place.
Single(t, w, seen) ==
  /\ \A x, y \in 1..(Len(t) + Len(w)) : Whole(t, w)[x] \cap Whole(t, w)[y] # {} => x = y
  /\ \A x \in 1..(Len(t) + Len(w)) : Whole(t, w)[x] \subseteq seen

\* Older events have earlier places.
Sorted(t, w) ==
  \A x, y \in 1..(Len(t) + Len(w)) :
    x < y => \A u \in Whole(t, w)[x], v \in Whole(t, w)[y] : u < v

LEMMA WholeFacts ==
  ASSUME NEW t \in Seq(Uids), NEW w \in Seq(Places)
  PROVE  /\ Len(t) \in Nat /\ Len(w) \in Nat
         /\ \A x \in 1..Len(t) :
              x \in 1..(Len(t) + Len(w)) /\ Whole(t, w)[x] = {t[x]} /\ t[x] \in Uids
         /\ \A x \in 1..Len(w) :
              Len(t) + x \in 1..(Len(t) + Len(w)) /\ Whole(t, w)[Len(t) + x] = w[x] /\ w[x] \in Places
         /\ \A x \in 1..(Len(t) + Len(w)) :
              x \in 1..Len(t) \/ \E j \in 1..Len(w) : x = Len(t) + j
  <1> DEFINE m == Len(t)
             n == Len(w)
  <1>1. /\ m \in Nat /\ n \in Nat
        /\ \A x \in 1..m : t[x] \in Uids
        /\ \A x \in 1..n : w[x] \in Places
    BY LenProperties, ElementOfSeq
  <1>2. Whole(t, w) = [x \in 1..(m + n) |-> IF x <= m THEN {t[x]} ELSE w[x - m]]
    BY DEF Whole
  <1> HIDE DEF m, n
  <1>3. ASSUME NEW x \in 1..m PROVE x \in 1..(m + n) /\ Whole(t, w)[x] = {t[x]}
    <2>1. x \in 1..(m + n) /\ x <= m
      BY <1>1
    <2>2. QED
      BY <1>2, <2>1
  <1>4. ASSUME NEW x \in 1..n PROVE m + x \in 1..(m + n) /\ Whole(t, w)[m + x] = w[x]
    <2>1. m + x \in 1..(m + n) /\ ~(m + x <= m) /\ (m + x) - m = x
      BY <1>1
    <2>2. QED
      BY <1>2, <2>1
  <1>5. ASSUME NEW x \in 1..(m + n) PROVE x \in 1..m \/ \E j \in 1..n : x = m + j
    <2>1. x \in 1..m \/ (x - m \in 1..n /\ x = m + (x - m))
      BY <1>1
    <2>2. QED
      BY <2>1
  <1>6. QED
    BY <1>1, <1>3, <1>4, <1>5 DEF m, n

LEMMA ThinnedKeeps ==
  ASSUME NEW t \in Seq(Uids), NEW w \in Seq(Places), NEW t2 \in Seq(Uids), NEW w2 \in Seq(Places),
         NEW seen, NEW seen2, seen \subseteq seen2, Thinned(t, w, t2, w2)
  PROVE  /\ Single(t, w, seen) => Single(t2, w2, seen2)
         /\ Sorted(t, w) => Sorted(t2, w2)
         /\ \A x \in 1..(Len(t2) + Len(w2)) :
              \E y \in 1..(Len(t) + Len(w)) : Whole(t2, w2)[x] = Whole(t, w)[y]
  <1> DEFINE n == Len(t) + Len(w)
             n2 == Len(t2) + Len(w2)
             W == Whole(t, w)
             W2 == Whole(t2, w2)
  <1>1. PICK f \in [1..n2 -> 1..n] :
          /\ \A x, y \in 1..n2 : x < y => f[x] < f[y]
          /\ \A x \in 1..n2 : W2[x] = W[f[x]]
    BY DEF Thinned
  <1>2. n2 \in Nat /\ n \in Nat
    BY WholeFacts
  <1> HIDE DEF n, n2, W, W2
  <1>3. \A x \in 1..n2 : f[x] \in 1..n /\ f[x] \in Nat
    BY <1>1, <1>2
  <1>4. \A x, y \in 1..n2 : f[x] = f[y] => x = y
    <2>1. ASSUME NEW x \in 1..n2, NEW y \in 1..n2, f[x] = f[y] PROVE x = y
      <3>1. ~(x < y) /\ ~(y < x)
        BY <1>1, <1>3, <2>1
      <3>2. QED
        BY <1>2, <3>1
    <2>2. QED
      BY <2>1
  <1>5. Single(t, w, seen) => Single(t2, w2, seen2)
    <2>1. SUFFICES ASSUME Single(t, w, seen) PROVE Single(t2, w2, seen2)
      OBVIOUS
    <2>2. /\ \A x, y \in 1..n : W[x] \cap W[y] # {} => x = y
          /\ \A x \in 1..n : W[x] \subseteq seen
      BY <2>1 DEF Single, n, W
    <2>3. \A x, y \in 1..n2 : W2[x] \cap W2[y] # {} => x = y
      <3>1. ASSUME NEW x \in 1..n2, NEW y \in 1..n2, W2[x] \cap W2[y] # {} PROVE x = y
        <4>1. f[x] \in 1..n /\ f[y] \in 1..n /\ W2[x] = W[f[x]] /\ W2[y] = W[f[y]]
          BY <1>1, <1>3
        <4>2. f[x] = f[y]
          BY <2>2, <3>1, <4>1
        <4>3. QED
          BY <1>4, <4>2
      <3>2. QED
        BY <3>1
    <2>4. \A x \in 1..n2 : W2[x] \subseteq seen2
      BY <1>1, <1>3, <2>2
    <2>5. QED
      BY <2>3, <2>4 DEF Single, n2, W2
  <1>6. Sorted(t, w) => Sorted(t2, w2)
    <2>1. SUFFICES ASSUME Sorted(t, w) PROVE Sorted(t2, w2)
      OBVIOUS
    <2>2. \A x, y \in 1..n : x < y => \A u \in W[x], v \in W[y] : u < v
      BY <2>1 DEF Sorted, n, W
    <2>3. \A x, y \in 1..n2 : x < y => \A u \in W2[x], v \in W2[y] : u < v
      BY <1>1, <1>3, <2>2
    <2>4. QED
      BY <2>3 DEF Sorted, n2, W2
  <1>7. QED
    BY <1>1, <1>3, <1>5, <1>6 DEF n, n2, W, W2

\* A place added at the end, with nothing the log has had.
LEMMA AppendedKeeps ==
  ASSUME NEW t \in Seq(Uids), NEW w \in Seq(Places), NEW P \in Places,
         NEW seen, NEW seen2, seen \subseteq seen2, P \subseteq seen2, P \cap seen = {},
         Single(t, w, seen)
  PROVE  /\ Single(t, Append(w, P), seen2)
         /\ (/\ Sorted(t, w)
             /\ \A x \in 1..(Len(t) + Len(w)) : \A u \in Whole(t, w)[x], v \in P : u < v)
            => Sorted(t, Append(w, P))
         /\ \A x \in 1..(Len(t) + Len(Append(w, P))) :
              \/ Whole(t, Append(w, P))[x] = P
              \/ \E y \in 1..(Len(t) + Len(w)) : Whole(t, Append(w, P))[x] = Whole(t, w)[y]
  <1> DEFINE w2 == Append(w, P)
             n == Len(t) + Len(w)
             n2 == Len(t) + Len(w2)
             W == Whole(t, w)
             W2 == Whole(t, w2)
  <1>1. /\ w2 \in Seq(Places) /\ Len(w2) = Len(w) + 1
        /\ \A i \in 1..Len(w) : w2[i] = w[i]
        /\ w2[Len(w) + 1] = P
    BY AppendProperties
  <1>2. /\ Len(t) \in Nat /\ Len(w) \in Nat
        /\ \A x \in 1..Len(t) : x \in 1..n /\ W[x] = {t[x]}
        /\ \A x \in 1..Len(w) : Len(t) + x \in 1..n /\ W[Len(t) + x] = w[x]
        /\ \A x \in 1..n : x \in 1..Len(t) \/ \E j \in 1..Len(w) : x = Len(t) + j
    BY WholeFacts, SMTT(30)
  <1> HIDE DEF w2
  <1>3. /\ \A x \in 1..Len(t) : x \in 1..n2 /\ W2[x] = {t[x]}
        /\ \A x \in 1..Len(w2) : Len(t) + x \in 1..n2 /\ W2[Len(t) + x] = w2[x]
    BY <1>1, WholeFacts
  <1>4. n2 = n + 1 /\ n \in Nat
    BY <1>1, <1>2
  <1>5. W2[n + 1] = P
    <2>1. Len(w) + 1 \in 1..Len(w2) /\ n + 1 = Len(t) + (Len(w) + 1)
      BY <1>1, <1>2
    <2>2. QED
      BY <1>1, <1>3, <2>1
  <1> HIDE DEF W, W2
  <1>6. ASSUME NEW x \in 1..n PROVE W2[x] = W[x]
    <2>1. CASE x \in 1..Len(t)
      BY <1>2, <1>3, <2>1
    <2>2. CASE \E j \in 1..Len(w) : x = Len(t) + j
      <3>1. PICK j \in 1..Len(w) : x = Len(t) + j
        BY <2>2
      <3>2. j \in 1..Len(w2)
        BY <1>1, <1>2
      <3>3. W2[Len(t) + j] = w2[j] /\ W[Len(t) + j] = w[j] /\ w2[j] = w[j]
        BY <1>1, <1>2, <1>3, <3>2
      <3>4. QED
        BY <3>1, <3>3
    <2>3. QED
      BY <1>2, <2>1, <2>2
  <1> HIDE DEF n, n2
  <1>7. \A x \in 1..n2 : x \in 1..n \/ x = n + 1
    BY <1>4
  <1>8. /\ \A x, y \in 1..n : W[x] \cap W[y] # {} => x = y
        /\ \A x \in 1..n : W[x] \subseteq seen
    BY DEF Single, n, W
  <1>9. Single(t, w2, seen2)
    <2>1. \A x \in 1..n2 : W2[x] \subseteq seen2
      BY <1>5, <1>6, <1>7, <1>8
    <2>2. \A x \in 1..n : W2[x] \cap P = {}
      BY <1>6, <1>8
    <2>3. \A x, y \in 1..n2 : W2[x] \cap W2[y] # {} => x = y
      BY <1>5, <1>6, <1>7, <1>8, <2>2
    <2>4. QED
      BY <2>1, <2>3 DEF Single, n2, W2
  <1>10. ASSUME Sorted(t, w), \A x \in 1..n : \A u \in W[x], v \in P : u < v
         PROVE  Sorted(t, w2)
    <2>1. \A x, y \in 1..n : x < y => \A u \in W[x], v \in W[y] : u < v
      BY <1>10 DEF Sorted, n, W
    <2>2. \A x \in 1..n : ~(n + 1 < x)
      BY <1>4
    <2>3. \A x, y \in 1..n2 : x < y => \A u \in W2[x], v \in W2[y] : u < v
      <3>1. ASSUME NEW x \in 1..n2, NEW y \in 1..n2, x < y, NEW u \in W2[x], NEW v \in W2[y]
            PROVE  u < v
        <4>1. x \in 1..n
          BY <1>4, <1>7, <3>1
        <4>2. CASE y \in 1..n
          BY <1>6, <2>1, <3>1, <4>1, <4>2
        <4>3. CASE y = n + 1
          BY <1>5, <1>6, <1>10, <3>1, <4>1, <4>3
        <4>4. QED
          BY <1>7, <4>2, <4>3
      <3>2. QED
        BY <3>1
    <2>4. QED
      BY <2>3 DEF Sorted, n2, W2
  <1>11. \A x \in 1..n2 : W2[x] = P \/ \E y \in 1..n : W2[x] = W[y]
    BY <1>5, <1>6, <1>7
  <1>12. QED
    BY <1>9, <1>10, <1>11 DEF n, n2, W, W2, w2

\* A table t extended by a selection of the first n places, without its first m.
LEMMA SettleThins ==
  ASSUME NEW t \in Seq(Uids), NEW w \in Seq(Places), NEW t2 \in Seq(Uids), NEW w2 \in Seq(Places),
         NEW n \in 0..Len(w), NEW k \in 0..n, NEW at \in [1..k -> 1..n], NEW m \in 0..(Len(t) + k),
         \A i, j \in 1..k : i < j => at[i] < at[j],
         \A i \in 1..k : w[at[i]] # {}, NEW ext
  PROVE  /\ ext = [i \in 1..(Len(t) + k) |->
                      IF i <= Len(t) THEN t[i] ELSE CHOOSE u \in w[at[i - Len(t)]] : TRUE]
         /\ t2 = SubSeq(ext, m + 1, Len(t) + k) /\ w2 = SubSeq(w, n + 1, Len(w))
         => Thinned(t, w, t2, w2)
  <1>0. SUFFICES ASSUME ext = [i \in 1..(Len(t) + k) |->
                          IF i <= Len(t) THEN t[i] ELSE CHOOSE u \in w[at[i - Len(t)]] : TRUE],
                        t2 = SubSeq(ext, m + 1, Len(t) + k), w2 = SubSeq(w, n + 1, Len(w))
                 PROVE  Thinned(t, w, t2, w2)
    OBVIOUS
  <1> DEFINE l == Len(t)
             p == Len(w)
             l2 == Len(t2)
             p2 == Len(w2)
             W == Whole(t, w)
             W2 == Whole(t2, w2)
  <1>1. /\ l \in Nat /\ p \in Nat
        /\ \A x \in 1..l : x \in 1..(l + p) /\ W[x] = {t[x]} /\ t[x] \in Uids
        /\ \A x \in 1..p : l + x \in 1..(l + p) /\ W[l + x] = w[x] /\ w[x] \in Places
    BY WholeFacts
  <1>2. /\ l2 \in Nat /\ p2 \in Nat
        /\ \A x \in 1..l2 : x \in 1..(l2 + p2) /\ W2[x] = {t2[x]} /\ t2[x] \in Uids
        /\ \A x \in 1..p2 : l2 + x \in 1..(l2 + p2) /\ W2[l2 + x] = w2[x]
        /\ \A x \in 1..(l2 + p2) : x \in 1..l2 \/ \E j \in 1..p2 : x = l2 + j
    BY WholeFacts
  <1>3. ext = [i \in 1..(l + k) |-> IF i <= l THEN t[i] ELSE CHOOSE u \in w[at[i - l]] : TRUE]
    BY <1>0
  <1>4a. l \in Nat /\ p \in Nat /\ l2 \in Nat /\ p2 \in Nat /\ n \in 0..p /\ k \in 0..n /\ m \in 0..(l + k)
    BY <1>1, <1>2
  <1> HIDE DEF l, p, W, W2, l2, p2
  <1>4. /\ l \in Nat /\ p \in Nat /\ l2 \in Nat /\ p2 \in Nat /\ n \in Nat /\ k \in Nat /\ m \in Nat
        /\ n <= p /\ k <= n /\ m <= l + k
    BY <1>4a
  <1>5. ASSUME NEW i \in 1..(l + k), ~(i <= l)
        PROVE  i - l \in 1..k /\ at[i - l] \in 1..n /\ at[i - l] \in 1..p /\ W[l + at[i - l]] = {ext[i]}
               /\ ext[i] \in Uids
    <2>1. i - l \in 1..k
      BY <1>4, <1>5
    <2>2. at[i - l] \in 1..n /\ w[at[i - l]] # {}
      BY <2>1
    <2>3. at[i - l] \in 1..p
      BY <1>4, <2>2
    <2>4. w[at[i - l]] \in Places /\ W[l + at[i - l]] = w[at[i - l]]
      BY <1>1, <2>3
    <2>5. ext[i] = CHOOSE u \in w[at[i - l]] : TRUE
      BY <1>3, <1>5
    <2>6. \A P \in Places : P # {} => P = {CHOOSE u \in P : TRUE} /\ (CHOOSE u \in P : TRUE) \in Uids
      BY DEF Places
    <2> DEFINE P == w[at[i - l]]
    <2>6a. P \in Places /\ P # {} /\ ext[i] = CHOOSE u \in P : TRUE
      BY <2>2, <2>4, <2>5
    <2> HIDE DEF P
    <2>6b. P = {ext[i]} /\ ext[i] \in Uids
      BY <2>6, <2>6a
    <2>7. w[at[i - l]] = {ext[i]} /\ ext[i] \in Uids
      BY <2>6b DEF P
    <2>8. QED
      BY <2>1, <2>2, <2>3, <2>4, <2>7
  <1>6. ASSUME NEW i \in 1..(l + k), i <= l
        PROVE  i \in 1..l /\ W[i] = {ext[i]} /\ ext[i] \in Uids
    <2>1. i \in 1..l
      BY <1>4, <1>6
    <2>2. ext[i] = t[i]
      BY <1>3, <1>6
    <2>3. QED
      BY <1>1, <2>1, <2>2
  <1>7. /\ l2 = (l + k) - m
        /\ \A i \in 1..l2 : m + i \in 1..(l + k) /\ t2[i] = ext[m + i]
    <2>1. \A i \in (m + 1)..(l + k) : i \in 1..(l + k)
      BY <1>4
    <2>2. \A i \in (m + 1)..(l + k) : ext[i] \in Uids
      BY <1>5, <1>6, <2>1
    <2>3. m + 1 \in Int /\ l + k \in Int
      BY <1>4
    <2>4. t2 = SubSeq(ext, m + 1, l + k)
      BY <1>0 DEF l
    <2>5. /\ l2 = IF m + 1 <= l + k THEN (l + k) - (m + 1) + 1 ELSE 0
          /\ \A i \in 1..((l + k) - (m + 1) + 1) : t2[i] = ext[(m + 1) + i - 1]
      <3> DEFINE a == m + 1
                 b == l + k
      <3>1. a \in Int /\ b \in Int /\ t2 = SubSeq(ext, a, b) /\ \A i \in a..b : ext[i] \in Uids
        BY <2>2, <2>3, <2>4
      <3> HIDE DEF a, b
      <3>2. /\ Len(t2) = IF a <= b THEN b - a + 1 ELSE 0
            /\ \A i \in 1..(b - a + 1) : t2[i] = ext[a + i - 1]
        BY <3>1, SubSeqProperties
      <3>3. QED
        BY <3>2 DEF l2, a, b
    <2>6. l2 = (l + k) - m
      BY <1>4, <2>5
    <2>7. ASSUME NEW i \in 1..l2 PROVE m + i \in 1..(l + k) /\ t2[i] = ext[m + i]
      <3>1. i \in 1..((l + k) - (m + 1) + 1) /\ (m + 1) + i - 1 = m + i /\ m + i \in 1..(l + k)
        BY <1>4, <2>6
      <3>2. QED
        BY <2>5, <3>1
    <2>8. QED
      BY <2>6, <2>7
  <1>8. /\ p2 = p - n
        /\ \A j \in 1..p2 : n + j \in 1..p /\ w2[j] = w[n + j]
    <2>1. \A i \in (n + 1)..p : i \in 1..p
      BY <1>4
    <2>2. \A i \in (n + 1)..p : w[i] \in Places
      BY <1>1, <2>1
    <2>3. n + 1 \in Int /\ p \in Int
      BY <1>4
    <2>4. w2 = SubSeq(w, n + 1, p)
      BY <1>0 DEF p
    <2>5. /\ p2 = IF n + 1 <= p THEN p - (n + 1) + 1 ELSE 0
          /\ \A i \in 1..(p - (n + 1) + 1) : w2[i] = w[(n + 1) + i - 1]
      BY <2>2, <2>3, <2>4, SubSeqProperties DEF p2
    <2>6. p2 = p - n
      BY <1>4, <2>5
    <2>7. ASSUME NEW j \in 1..p2 PROVE n + j \in 1..p /\ w2[j] = w[n + j]
      <3>1. j \in 1..(p - (n + 1) + 1) /\ (n + 1) + j - 1 = n + j /\ n + j \in 1..p
        BY <1>4, <2>6
      <3>2. QED
        BY <2>5, <3>1
    <2>8. QED
      BY <2>6, <2>7
  <1> DEFINE old(x) == IF x <= l2
                         THEN IF m + x <= l THEN m + x ELSE l + at[(m + x) - l]
                         ELSE l + (n + (x - l2))
             f == [x \in 1..(l2 + p2) |-> old(x)]
  <1>9. ASSUME NEW x \in 1..l2
        PROVE  /\ old(x) \in 1..(l + n) /\ old(x) \in 1..(l + p) /\ W2[x] = W[old(x)]
    <2>0. x <= l2
      BY <1>4
    <2>1. x <= l2 /\ m + x \in 1..(l + k) /\ W2[x] = {ext[m + x]}
      BY <1>2, <1>7, <2>0
    <2>2. CASE m + x <= l
      <3>1. m + x \in 1..l /\ W[m + x] = {ext[m + x]} /\ old(x) = m + x
        BY <1>6, <2>1, <2>2
      <3>2. m + x \in 1..(l + n) /\ m + x \in 1..(l + p)
        BY <1>4, <3>1, SMTT(30)
      <3>3. QED
        BY <2>1, <3>1, <3>2
    <2>3. CASE ~(m + x <= l)
      <3>1. /\ at[(m + x) - l] \in 1..n /\ at[(m + x) - l] \in 1..p
            /\ W[l + at[(m + x) - l]] = {ext[m + x]} /\ old(x) = l + at[(m + x) - l]
        BY <1>5, <2>1, <2>3
      <3>2. l + at[(m + x) - l] \in 1..(l + n) /\ l + at[(m + x) - l] \in 1..(l + p)
        BY <1>4, <3>1, SMTT(30)
      <3>3. QED
        BY <2>1, <3>1, <3>2
    <2>4. QED
      BY <2>2, <2>3
  <1>10. ASSUME NEW j \in 1..p2
         PROVE  /\ old(l2 + j) = l + (n + j) /\ l + (n + j) \in 1..(l + p)
                /\ W2[l2 + j] = W[l + (n + j)]
    <2>1. ~(l2 + j <= l2) /\ (l2 + j) - l2 = j
      BY <1>4
    <2>2. n + j \in 1..p /\ W2[l2 + j] = w[n + j]
      BY <1>2, <1>8
    <2>3. W[l + (n + j)] = w[n + j] /\ l + (n + j) \in 1..(l + p)
      BY <1>1, <2>2
    <2>4. QED
      BY <2>1, <2>2, <2>3
  <1>11. \A x \in 1..(l2 + p2) : old(x) \in 1..(l + p) /\ W2[x] = W[old(x)]
    <2> HIDE DEF old
    <2>1. \A x \in 1..(l2 + p2) : x \in 1..l2 \/ \E j \in 1..p2 : x = l2 + j
      BY <1>2
    <2>2. QED
      BY <1>9, <1>10, <2>1
  <1>12. ASSUME NEW x \in 1..(l2 + p2), NEW y \in 1..(l2 + p2), x < y
         PROVE  old(x) < old(y)
    <2>1. l2 \in Nat /\ p2 \in Nat /\ x \in Nat /\ y \in Nat
      BY <1>4, <1>12
    <2>2. CASE y <= l2
      <3>1. x \in 1..l2 /\ y \in 1..l2
        BY <1>12, <2>1, <2>2
      <3>2. m + x \in 1..(l + k) /\ m + y \in 1..(l + k)
        BY <1>7, <3>1
      <3>3. CASE m + y <= l
        BY <1>4, <1>12, <2>1, <2>2, <3>1, <3>3
      <3>4. CASE ~(m + y <= l) /\ m + x <= l
        <4>1. at[(m + y) - l] \in 1..n
          BY <1>5, <3>2, <3>4
        <4>2. QED
          BY <1>4, <1>12, <2>1, <2>2, <3>1, <3>4, <4>1
      <3>5. CASE ~(m + y <= l) /\ ~(m + x <= l)
        <4>1. /\ (m + y) - l \in 1..k /\ (m + x) - l \in 1..k
              /\ at[(m + y) - l] \in 1..n /\ at[(m + x) - l] \in 1..n
          BY <1>5, <3>2, <3>5
        <4>2. (m + x) - l < (m + y) - l
          BY <1>4, <1>12, <2>1
        <4>3. at[(m + x) - l] < at[(m + y) - l]
          BY <4>1, <4>2
        <4>4. old(x) = l + at[(m + x) - l] /\ old(y) = l + at[(m + y) - l]
          BY <3>1, <3>5, <2>1
        <4>5. QED
          BY <1>4, <4>1, <4>3, <4>4
      <3>6. QED
        BY <1>4, <2>1, <3>3, <3>4, <3>5
    <2>3. CASE ~(y <= l2) /\ x <= l2
      <3>1. x \in 1..l2
        BY <2>1, <2>3
      <3>2. old(x) \in 1..(l + n)
        BY <1>9, <3>1
      <3>3. old(y) = l + (n + (y - l2)) /\ y - l2 >= 1
        BY <2>1, <2>3
      <3>4. QED
        BY <1>4, <2>1, <3>2, <3>3
    <2>4. CASE ~(y <= l2) /\ ~(x <= l2)
      BY <1>4, <1>12, <2>1, <2>4
    <2>5. QED
      BY <1>12, <2>1, <2>2, <2>3, <2>4
  <1>13. /\ f \in [1..(l2 + p2) -> 1..(l + p)]
         /\ \A x, y \in 1..(l2 + p2) : x < y => f[x] < f[y]
         /\ \A x \in 1..(l2 + p2) : W2[x] = W[f[x]]
    <2> HIDE DEF old
    <2>1. QED
      BY <1>11, <1>12
  <1> HIDE DEF f
  <1>14. QED
    BY <1>13 DEF Thinned, l, p, l2, p2, W, W2

\* Part of the places, without a gap.
LEMMA ShiftThins ==
  ASSUME NEW t \in Seq(Uids), NEW w \in Seq(Places), NEW t2 \in Seq(Uids), NEW w2 \in Seq(Places),
         NEW d \in Nat,
         \A x \in 1..(Len(t2) + Len(w2)) :
           d + x \in 1..(Len(t) + Len(w)) /\ Whole(t2, w2)[x] = Whole(t, w)[d + x]
  PROVE  Thinned(t, w, t2, w2)
  <1> DEFINE n == Len(t) + Len(w)
             n2 == Len(t2) + Len(w2)
             f == [x \in 1..n2 |-> d + x]
  <1>1. n \in Nat /\ n2 \in Nat
    BY WholeFacts
  <1>2. \A x \in 1..n2 : d + x \in 1..n /\ Whole(t2, w2)[x] = Whole(t, w)[d + x]
    OBVIOUS
  <1> HIDE DEF n, n2
  <1>3. f \in [1..n2 -> 1..n] /\ \A x \in 1..n2 : f[x] = d + x
    BY <1>2
  <1>4. \A x, y \in 1..n2 : x < y => d + x < d + y
    BY <1>1
  <1> HIDE DEF f
  <1>5. /\ \A x, y \in 1..n2 : x < y => f[x] < f[y]
        /\ \A x \in 1..n2 : Whole(t2, w2)[x] = Whole(t, w)[f[x]]
    BY <1>2, <1>3, <1>4
  <1>6. QED
    BY <1>3, <1>5 DEF Thinned, n, n2

LEMMA SameThins ==
  ASSUME NEW t \in Seq(Uids), NEW w \in Seq(Places)
  PROVE  Thinned(t, w, t, w)
  <1> DEFINE n == Len(t) + Len(w)
  <1>1. n \in Nat /\ 0 \in Nat
    BY WholeFacts
  <1> HIDE DEF n
  <1>2. \A x \in 1..n : 0 + x \in 1..n /\ 0 + x = x
    BY <1>1
  <1>3. \A x \in 1..n : 0 + x \in 1..n /\ Whole(t, w)[x] = Whole(t, w)[0 + x]
    BY <1>2
  <1>4. QED
    BY <1>1, <1>3, ShiftThins DEF n

LEMMA CrashThins ==
  ASSUME NEW t \in Seq(Uids), NEW w \in Seq(Places)
  PROVE  Thinned(t, w, t, <<>>)
  <1> DEFINE l == Len(t)
             p == Len(w)
  <1>1. l \in Nat /\ p \in Nat /\ 0 \in Nat /\ \A x \in 1..l : Whole(t, w)[x] = {t[x]}
    BY WholeFacts
  <1>2. <<>> \in Seq(Places) /\ Len(<<>>) = 0
    BY EmptySeq
  <1>3. \A x \in 1..l : Whole(t, <<>>)[x] = {t[x]}
    <2> DEFINE none == <<>>
    <2>1. none \in Seq(Places)
      BY <1>2
    <2> HIDE DEF none
    <2>2. \A x \in 1..l : Whole(t, none)[x] = {t[x]}
      BY <2>1, WholeFacts
    <2>3. QED
      BY <2>2 DEF none
  <1> HIDE DEF l, p
  <1>4. l + 0 = l /\ \A x \in 1..l : 0 + x \in 1..(l + p) /\ 0 + x = x
    BY <1>1
  <1>5. \A x \in 1..(l + 0) : 0 + x \in 1..(l + p) /\ Whole(t, <<>>)[x] = Whole(t, w)[0 + x]
    BY <1>1, <1>3, <1>4
  <1>6. \A x \in 1..(Len(t) + Len(<<>>)) :
          0 + x \in 1..(Len(t) + Len(w)) /\ Whole(t, <<>>)[x] = Whole(t, w)[0 + x]
    BY <1>2, <1>5 DEF l, p
  <1>7. QED
    BY <1>1, <1>2, <1>6, ShiftThins

LEMMA ClearThins ==
  ASSUME NEW t \in Seq(Uids), NEW w \in Seq(Places)
  PROVE  Thinned(t, w, <<>>, w)
  <1> DEFINE l == Len(t)
             p == Len(w)
  <1>1. /\ l \in Nat /\ p \in Nat
        /\ \A x \in 1..p : l + x \in 1..(l + p) /\ Whole(t, w)[l + x] = w[x]
    BY WholeFacts
  <1>2. <<>> \in Seq(Uids) /\ Len(<<>>) = 0
    BY EmptySeq
  <1>3. \A x \in 1..p : Whole(<<>>, w)[0 + x] = w[x]
    <2> DEFINE none == <<>>
    <2>0. Len(none) = 0
      BY <1>2
    <2>1. none \in Seq(Uids)
      BY <1>2
    <2> HIDE DEF none
    <2>2. \A x \in 1..Len(w) :
            Len(none) + x \in 1..(Len(none) + Len(w)) /\ Whole(none, w)[Len(none) + x] = w[x]
      BY <2>1, WholeFacts
    <2>3. \A x \in 1..p : Whole(none, w)[0 + x] = w[x]
      BY <2>0, <2>2
    <2>4. QED
      BY <2>3 DEF none
  <1> HIDE DEF l, p
  <1>4. 0 + p = p /\ \A x \in 1..p : 0 + x = x
    BY <1>1
  <1>5. \A x \in 1..(0 + p) : l + x \in 1..(l + p) /\ Whole(<<>>, w)[x] = Whole(t, w)[l + x]
    BY <1>1, <1>3, <1>4
  <1>6. \A x \in 1..(Len(<<>>) + Len(w)) :
          l + x \in 1..(Len(t) + Len(w)) /\ Whole(<<>>, w)[x] = Whole(t, w)[l + x]
    BY <1>2, <1>5 DEF l, p
  <1>7. QED
    BY <1>1, <1>2, <1>6, ShiftThins

-----------------------------------------------------------------------------
(* One step: a place more, with an event not had before, or some gone.     *)

Thins ==
  /\ Thinned(Table, Waiting, Table', Waiting')
  /\ Offered \subseteq Offered'

Grows ==
  /\ Table' = Table
  /\ \E P \in Places :
       /\ Waiting' = Append(Waiting, P)
       /\ P \subseteq Offered' /\ P \cap Offered = {} /\ Offered \subseteq Offered'

LogTyped == Table \in Seq(Uids) /\ Waiting \in Seq(Places)

LEMMA TypedLog ==
  ASSUME TypeOK
  PROVE  LogTyped
  <1>1. batch \in Seq(Messages) /\ queue \in Seq(Messages) /\ rows \in Seq(Events)
    BY DEF TypeOK
  <1>2. QED
    BY <1>1, LineFacts, ColumnFacts, Mapped DEF LogTyped

LEMMA StepKinds ==
  ASSUME LogTyped, LogTyped', LogStep
  PROVE  Thins \/ Grows
  <1> USE DEF LogTyped
  <1>1. CASE Log!Settle
    <2>a. PICK n \in 0..Len(Waiting) : \E k \in 0..n : \E at \in Log!Selections(k, n) :
            /\ \A i \in 1..k : Waiting[at[i]] # {}
            /\ \E m \in 0..(Len(Table) + k) :
                 Table' = SubSeq(Log!Extended(k, at), m + 1, Len(Table) + k)
            /\ Waiting' = SubSeq(Waiting, n + 1, Len(Waiting))
      BY <1>1 DEF Log!Settle
    <2>b. PICK k \in 0..n : \E at \in Log!Selections(k, n) :
            /\ \A i \in 1..k : Waiting[at[i]] # {}
            /\ \E m \in 0..(Len(Table) + k) :
                 Table' = SubSeq(Log!Extended(k, at), m + 1, Len(Table) + k)
            /\ Waiting' = SubSeq(Waiting, n + 1, Len(Waiting))
      BY <2>a
    <2>c. PICK at \in Log!Selections(k, n) :
            /\ \A i \in 1..k : Waiting[at[i]] # {}
            /\ \E m \in 0..(Len(Table) + k) :
                 Table' = SubSeq(Log!Extended(k, at), m + 1, Len(Table) + k)
            /\ Waiting' = SubSeq(Waiting, n + 1, Len(Waiting))
      BY <2>b
    <2>1. PICK m \in 0..(Len(Table) + k) : Table' = SubSeq(Log!Extended(k, at), m + 1, Len(Table) + k)
      BY <2>c
    <2>2. at \in [1..k -> 1..n] /\ \A i, j \in 1..k : i < j => at[i] < at[j]
      BY DEF Log!Selections
    <2>3. Log!Extended(k, at) =
            [i \in 1..(Len(Table) + k) |->
               IF i <= Len(Table) THEN Table[i] ELSE CHOOSE u \in Waiting[at[i - Len(Table)]] : TRUE]
      BY DEF Log!Extended
    <2>4. Thinned(Table, Waiting, Table', Waiting')
      <3> DEFINE T == Table
                 V == Waiting
                 T2 == Table'
                 V2 == Waiting'
                 ext == Log!Extended(k, at)
      <3>1. /\ T \in Seq(Uids) /\ V \in Seq(Places) /\ T2 \in Seq(Uids) /\ V2 \in Seq(Places)
            /\ n \in 0..Len(V) /\ k \in 0..n /\ at \in [1..k -> 1..n] /\ m \in 0..(Len(T) + k)
            /\ \A i, j \in 1..k : i < j => at[i] < at[j]
            /\ \A i \in 1..k : V[at[i]] # {}
        BY <2>2, <2>c
      <3>2. /\ ext = [i \in 1..(Len(T) + k) |->
                        IF i <= Len(T) THEN T[i] ELSE CHOOSE u \in V[at[i - Len(T)]] : TRUE]
            /\ T2 = SubSeq(ext, m + 1, Len(T) + k) /\ V2 = SubSeq(V, n + 1, Len(V))
        BY <2>1, <2>3, <2>c
      <3> HIDE DEF T, V, T2, V2, ext
      <3>3. Thinned(T, V, T2, V2)
        BY <3>1, <3>2, SettleThins
      <3>4. QED
        BY <3>3 DEF T, V, T2, V2
    <2>5. QED
      BY <1>1, <2>4 DEF Thins, Log!Settle
  <1>2. CASE Log!Clear
    <2>1. Thinned(Table, Waiting, <<>>, Waiting)
      BY ClearThins
    <2>2. QED
      BY <1>2, <2>1 DEF Log!Clear, Thins
  <1>3. CASE Log!Crash
    <2>1. Thinned(Table, Waiting, Table, <<>>)
      BY CrashThins
    <2>2. QED
      BY <1>3, <2>1 DEF Log!Crash, Thins
  <1>4. CASE Log!Refuse \/ UNCHANGED <<Offered, Waiting, Table>>
    <2>1. Thinned(Table, Waiting, Table, Waiting)
      BY SameThins
    <2>2. Table' = Table /\ Waiting' = Waiting /\ Offered \subseteq Offered'
      BY <1>4 DEF Log!Refuse
    <2>3. QED
      BY <2>1, <2>2 DEF Thins
  <1>5. CASE Log!Accept
    <2>1. PICK u \in Uids \ Offered :
            Offered' = Offered \cup {u} /\ Waiting' = Append(Waiting, {u})
      BY <1>5 DEF Log!Accept
    <2>2. {u} \in Places /\ {u} \cap Offered = {}
      BY DEF Places
    <2>3. QED
      BY <1>5, <2>1, <2>2 DEF Grows, Log!Accept
  <1>6. CASE Log!Mark
    <2>1. {} \in Places
      BY DEF Places
    <2>2. QED
      BY <1>6, <2>1 DEF Grows, Log!Mark
  <1>7. QED
    BY <1>1, <1>2, <1>3, <1>4, <1>5, <1>6 DEF LogStep, Log!Next

-----------------------------------------------------------------------------
(* Each event is in the log once.                                          *)

\* Every event the log holds has one place in it, and was offered.
EachOnce == Single(Table, Waiting, Offered)

LEMMA StepSingle ==
  ASSUME LogTyped, LogTyped', EachOnce, Thins \/ Grows
  PROVE  EachOnce'
  <1> DEFINE T == Table
             V == Waiting
             O == Offered
             T2 == Table'
             V2 == Waiting'
             O2 == Offered'
  <1>1. T \in Seq(Uids) /\ V \in Seq(Places) /\ T2 \in Seq(Uids) /\ V2 \in Seq(Places)
    BY DEF LogTyped
  <1>2. Single(T, V, O)
    BY DEF EachOnce
  <1>3. \/ Thinned(T, V, T2, V2) /\ O \subseteq O2
        \/ /\ T2 = T
           /\ \E P \in Places :
                V2 = Append(V, P) /\ P \subseteq O2 /\ P \cap O = {} /\ O \subseteq O2
    BY DEF Thins, Grows
  <1>4. EachOnce' = Single(T2, V2, O2)
    BY DEF EachOnce, Single, Whole
  <1> HIDE DEF T, V, O, T2, V2, O2
  <1>5. CASE Thinned(T, V, T2, V2) /\ O \subseteq O2
    BY <1>1, <1>2, <1>4, <1>5, ThinnedKeeps
  <1>6. ASSUME T2 = T, NEW P \in Places,
               V2 = Append(V, P), P \subseteq O2, P \cap O = {}, O \subseteq O2
        PROVE  EachOnce'
    <2>1. Single(T, Append(V, P), O2)
      BY <1>1, <1>2, <1>6, AppendedKeeps
    <2>2. QED
      BY <1>4, <1>6, <2>1
  <1>7. QED
    BY <1>3, <1>5, <1>6

LEMMA EmptyLog ==
  ASSUME Init
  PROVE  EachOnce /\ Sorted(Table, Waiting)
  <1>1. Waiting = <<>> /\ Table = <<>>
    BY InitMaps DEF Log!Init
  <1>2. Len(<<>>) = 0
    BY EmptySeq
  <1>3. 1..(Len(Table) + Len(Waiting)) = {}
    BY <1>1, <1>2
  <1>4. QED
    BY <1>3 DEF EachOnce, Single, Sorted

LEMMA OnceInductive == Spec => []EachOnce
  <1>1. Init => EachOnce
    BY EmptyLog
  <1>2. TypeOK /\ TypeOK' /\ Counters /\ HandsOwn /\ EachOnce /\ [Next]_vars => EachOnce'
    <2>1. TypeOK' => LogTyped'
      BY TypedLog, PTL
    <2>2. QED
      BY <2>1, TypedLog, NextMaps, StepKinds, StepSingle
  <1>3. IInv => TypeOK /\ Counters
    BY DEF IInv
  <1>4. QED
    BY <1>1, <1>2, <1>3, Inductive, HandsInductive, PTL DEF Spec

LEMMA OnceFollows ==
  ASSUME LogTyped, EachOnce
  PROVE  Log!Once
  <1> DEFINE l == Len(Table)
             p == Len(Waiting)
             W == Whole(Table, Waiting)
  <1>1. /\ l \in Nat /\ p \in Nat
        /\ \A x \in 1..l : x \in 1..(l + p) /\ W[x] = {Table[x]}
        /\ \A x \in 1..p : l + x \in 1..(l + p) /\ W[l + x] = Waiting[x]
    BY WholeFacts DEF LogTyped
  <1>2. /\ \A x, y \in 1..(l + p) : W[x] \cap W[y] # {} => x = y
        /\ \A x \in 1..(l + p) : W[x] \subseteq Offered
    BY DEF EachOnce, Single
  <1> HIDE DEF l, p, W
  <1>3. /\ \A i, j \in 1..p : l + i = l + j => i = j
        /\ \A i \in 1..l, j \in 1..p : i # l + j
    BY <1>1
  <1>4. \A i, j \in 1..l : Table[i] = Table[j] => i = j
    BY <1>1, <1>2
  <1>5. \A i, j \in 1..p : Waiting[i] \cap Waiting[j] # {} => i = j
    BY <1>1, <1>2, <1>3
  <1>6. \A i \in 1..l, j \in 1..p : Table[i] \notin Waiting[j]
    BY <1>1, <1>2, <1>3
  <1>7. /\ \A i \in 1..l : Table[i] \in Offered
        /\ \A j \in 1..p : Waiting[j] \subseteq Offered
    BY <1>1, <1>2
  <1>8. QED
    BY <1>4, <1>5, <1>6, <1>7 DEF Log!Once, l, p

\* No event is in the table twice, in the queue twice, or in the table and still
\* on its way, and none that no one emitted (enqueue, writer_loop, flush_batch):
\* with any number of producers, failures, restarts and calls.
THEOREM NothingTwice == Spec => []Log!Once
  <1>1. TypeOK /\ EachOnce => Log!Once
    BY TypedLog, OnceFollows
  <1>2. QED
    BY <1>1, TypeCorrect, OnceInductive, PTL

-----------------------------------------------------------------------------
(* One producer: older events have earlier places.                         *)

OneProducer == \A p, q \in Producers : p = q

\* What is still in hand was emitted last.
LastInHand == \A p \in Producers : \A e \in hand[p] : e.uid = emitted

InOrder == LastInHand /\ Sorted(Table, Waiting)

LEMMA LastKept ==
  ASSUME OneProducer, TypeOK, HandsOwn, LastInHand, [Next]_vars
  PROVE  LastInHand'
  <1>1. hand \in [Producers -> SUBSET Events]
    BY DEF TypeOK
  <1>2. ASSUME NEW p \in Producers, AssignId(p) PROVE LastInHand'
    <2> DEFINE new == [uid |-> emitted + 1, id |-> nextId]
    <2>1. hand' = [hand EXCEPT ![p] = {new}] /\ emitted' = emitted + 1
      BY <1>2, AssignHands
    <2>2. new.uid = emitted + 1
      OBVIOUS
    <2> HIDE DEF new
    <2>3. \A q \in Producers : hand'[q] = {new}
      BY <1>1, <2>1 DEF OneProducer
    <2>4. QED
      BY <2>1, <2>2, <2>3 DEF LastInHand
  <1>3. ASSUME NEW p \in Producers, Enqueue(p) PROVE LastInHand'
    <2>1. hand' = [hand EXCEPT ![p] = {}] /\ emitted' = emitted
      BY <1>3 DEF Enqueue
    <2>2. \A q \in Producers : hand'[q] = {}
      BY <1>1, <2>1 DEF OneProducer
    <2>3. QED
      BY <2>2 DEF LastInHand
  <1>4. ASSUME NEW p \in Producers, PushRing(p) \/ Sync(p) \/ ClearLogs(p) PROVE LastInHand'
    <2>1. hand' = hand /\ emitted' = emitted
      BY <1>4 DEF PushRing, Sync, SyncCall, SyncSend, SyncTimeout, ClearLogs, ClearBus, ClearRows
    <2>2. QED
      BY <2>1 DEF LastInHand
  <1>5. CASE Prune \/ WriterStep \/ UNCHANGED vars
    <2>1. hand' = hand /\ emitted' = emitted
      BY <1>5 DEF Prune, WriterStep, Receive, ReceiveTimeout, Commit, FlushFails, Reply, vars, procVars
    <2>2. QED
      BY <2>1 DEF LastInHand
  <1>6. CASE Restart
    <2>1. \A p \in Producers : hand'[p] = {}
      BY <1>6 DEF Restart
    <2>2. QED
      BY <2>1 DEF LastInHand
  <1>7. QED
    BY <1>2, <1>3, <1>4, <1>5, <1>6 DEF Next, Emit

\* An event that is offered later has a greater number.
LEMMA OfferedLater ==
  ASSUME TypeOK, TypeOK', LastInHand, NEW u \in Offered', u \notin Offered, NEW v \in Offered
  PROVE  v < u
  <1>1. emitted \in Nat /\ emitted' \in Nat
    <2>1. MaxEvents \in Nat /\ emitted \in 0..MaxEvents /\ emitted' \in 0..MaxEvents
      BY LogAssumption DEF TypeOK
    <2>2. QED
      BY <2>1
  <1>2. u \in 1..emitted' /\ v \in 1..emitted
    BY DEF Offered
  <1>3. CASE u \in 1..emitted
    <2>1. PICK p \in Producers : u \in UidsOf(hand[p])
      BY <1>3 DEF Offered
    <2>2. u = emitted
      BY <2>1 DEF UidsOf, LastInHand
    <2>3. v # u
      OBVIOUS
    <2>4. QED
      BY <1>1, <1>2, <2>2, <2>3
  <1>4. CASE u \notin 1..emitted
    BY <1>1, <1>2, <1>4
  <1>5. QED
    BY <1>3, <1>4

LEMMA StepSorted ==
  ASSUME TypeOK, TypeOK', LogTyped, LogTyped', EachOnce, InOrder, Thins \/ Grows
  PROVE  Sorted(Table, Waiting)'
  <1> DEFINE T == Table
             V == Waiting
             O == Offered
             T2 == Table'
             V2 == Waiting'
             O2 == Offered'
  <1>1. T \in Seq(Uids) /\ V \in Seq(Places) /\ T2 \in Seq(Uids) /\ V2 \in Seq(Places)
    BY DEF LogTyped
  <1>2. Single(T, V, O) /\ Sorted(T, V)
    BY DEF EachOnce, InOrder
  <1>3. \/ Thinned(T, V, T2, V2) /\ O \subseteq O2
        \/ /\ T2 = T
           /\ \E P \in Places :
                V2 = Append(V, P) /\ P \subseteq O2 /\ P \cap O = {} /\ O \subseteq O2
    BY DEF Thins, Grows
  <1>4. Sorted(Table, Waiting)' = Sorted(T2, V2)
    BY DEF Sorted, Whole
  <1>5. \A u \in O2, v \in O : u \notin O => v < u
    BY OfferedLater DEF InOrder
  <1> HIDE DEF T, V, O, T2, V2, O2
  <1>6. CASE Thinned(T, V, T2, V2) /\ O \subseteq O2
    BY <1>1, <1>2, <1>4, <1>6, ThinnedKeeps
  <1>7. ASSUME T2 = T, NEW P \in Places,
               V2 = Append(V, P), P \subseteq O2, P \cap O = {}, O \subseteq O2
        PROVE  Sorted(Table, Waiting)'
    <2>1. \A x \in 1..(Len(T) + Len(V)) : Whole(T, V)[x] \subseteq O
      BY <1>2 DEF Single
    <2>2. \A x \in 1..(Len(T) + Len(V)) : \A u \in Whole(T, V)[x], v \in P : u < v
      BY <1>5, <1>7, <2>1
    <2>3. Sorted(T, Append(V, P))
      BY <1>1, <1>2, <1>7, <2>2, AppendedKeeps
    <2>4. QED
      BY <1>4, <1>7, <2>3
  <1>8. QED
    BY <1>3, <1>6, <1>7

LEMMA OrderInductive ==
  ASSUME OneProducer
  PROVE  Spec => []InOrder
  <1>1. Init => InOrder
    <2>1. Init => LastInHand
      BY DEF Init, LastInHand
    <2>2. QED
      BY <2>1, EmptyLog DEF InOrder
  <1>2. TypeOK /\ TypeOK' /\ Counters /\ HandsOwn /\ EachOnce /\ InOrder /\ [Next]_vars => InOrder'
    <2>1. TypeOK' => LogTyped'
      BY TypedLog, PTL
    <2>2. TypeOK /\ HandsOwn /\ InOrder /\ [Next]_vars => LastInHand'
      BY LastKept DEF InOrder
    <2>3. TypeOK /\ TypeOK' /\ Counters /\ HandsOwn /\ EachOnce /\ InOrder /\ [Next]_vars
            => Sorted(Table, Waiting)'
      BY <2>1, TypedLog, NextMaps, StepKinds, StepSorted
    <2>4. QED
      BY <2>2, <2>3 DEF InOrder
  <1>3. IInv => TypeOK /\ Counters
    BY DEF IInv
  <1>4. QED
    BY <1>1, <1>2, <1>3, Inductive, HandsInductive, OnceInductive, PTL DEF Spec

-----------------------------------------------------------------------------
(* What a step adds and keeps.                                             *)

HandEvents == UNION {hand[p] : p \in Producers}
Around == InRing \cup InRows \cup Pending \cup HandEvents
Known == Accounted \cup Pending \cup HandEvents

LEMMA CommitRows ==
  ASSUME TypeOK, Commit
  PROVE  InRows' \subseteq InRows \cup EventsOf(batch)
  <1>1. PICK failed \in {{}} \cup {{e} : e \in EventsOf(batch)} :
          \E n \in 0..Prunable(failed) :
            rows' = SubSeq(rows \o Written(failed), n + 1, Len(rows \o Written(failed)))
    BY DEF Commit
  <1> DEFINE w == Written(failed)
             all == rows \o w
  <1>2. PICK n \in 0..Prunable(failed) : rows' = SubSeq(all, n + 1, Len(all))
    BY <1>1
  <1>3. rows \in Seq(Events) /\ Prunable(failed) \in Nat
    BY PrunableBound DEF TypeOK
  <1>4. w \in Seq(Events) /\ \A k \in 1..Len(w) : w[k] \in EventsOf(batch)
    BY WrittenFacts
  <1> HIDE DEF w
  <1>5. /\ all \in Seq(Events) /\ Len(all) = Len(rows) + Len(w)
        /\ \A i \in 1..(Len(rows) + Len(w)) :
             all[i] = IF i <= Len(rows) THEN rows[i] ELSE w[i - Len(rows)]
        /\ Len(rows) \in Nat /\ Len(w) \in Nat /\ Len(all) \in Nat
    BY <1>3, <1>4, ConcatProperties, LenProperties
  <1> HIDE DEF all
  <1>6. ASSUME NEW i \in 1..Len(all) PROVE all[i] \in InRows \cup EventsOf(batch)
    <2>1. i \in 1..(Len(rows) + Len(w)) /\ i \in Nat
      BY <1>5
    <2>2. CASE i <= Len(rows)
      <3>1. i \in 1..Len(rows)
        BY <1>5, <2>1, <2>2
      <3>2. QED
        BY <1>5, <2>1, <2>2, <3>1 DEF InRows
    <2>3. CASE ~(i <= Len(rows))
      <3>1. i - Len(rows) \in 1..Len(w)
        BY <1>5, <2>1, <2>3
      <3>2. QED
        BY <1>4, <1>5, <2>1, <2>3, <3>1
    <2>4. QED
      BY <2>2, <2>3
  <1>7. n \in Nat
    BY <1>3
  <1>8. ASSUME NEW j \in 1..Len(rows') PROVE \E i \in 1..Len(all) : rows'[j] = all[i]
    <2> DEFINE a == n + 1
               b == Len(all)
    <2>1. /\ a \in Int /\ b \in Int /\ rows' = SubSeq(all, a, b)
          /\ \A i \in a..b : i \in 1..b
      BY <1>2, <1>5, <1>7
    <2>2. \A i \in a..b : all[i] \in InRows \cup EventsOf(batch)
      BY <1>6, <2>1
    <2>3. a >= 1
      BY <1>7
    <2> HIDE DEF a, b
    <2>4. /\ Len(rows') = IF a <= b THEN b - a + 1 ELSE 0
          /\ \A i \in 1..(b - a + 1) : rows'[i] = all[a + i - 1]
      BY <2>1, <2>2, SubSeqProperties
    <2>5. j \in 1..(b - a + 1) /\ a + j - 1 \in 1..b
      BY <2>1, <2>3, <2>4
    <2>6. QED
      BY <2>4, <2>5 DEF b
  <1>9. QED
    BY <1>6, <1>8 DEF InRows

LEMMA PendingAppended ==
  ASSUME TypeOK, NEW m \in Messages, queue' = Append(queue, m), batch' = batch
  PROVE  Pending' = Pending \cup m.event
  <1>1. queue \in Seq(Messages)
    BY DEF TypeOK
  <1>2. EventsOf(Append(queue, m)) = EventsOf(queue) \cup m.event
    BY <1>1, AppendFacts
  <1>3. Pending' = EventsOf(queue') \cup EventsOf(batch')
    BY DEF Pending, EventsOf
  <1>4. QED
    BY <1>2, <1>3 DEF Pending

LEMMA PendingReceived ==
  ASSUME TypeOK, Receive
  PROVE  Pending' = Pending
  <1>1. /\ queue \in Seq(Messages) /\ batch \in Seq(Messages) /\ queue # <<>>
        /\ batch' = Append(batch, Head(queue)) /\ queue' = Tail(queue)
    BY DEF TypeOK, Receive
  <1>2. /\ Head(queue) \in Messages /\ Head(queue) = queue[1] /\ Tail(queue) \in Seq(Messages)
        /\ Len(Tail(queue)) = Len(queue) - 1
        /\ \A i \in 1..Len(Tail(queue)) : Tail(queue)[i] = queue[i + 1]
        /\ Len(queue) \in Nat /\ Len(queue) >= 1
    <2>1. Len(queue) \in Nat /\ Len(queue) # 0
      BY <1>1, LenProperties, EmptySeq
    <2>2. QED
      BY <1>1, <2>1, HeadTailProperties
  <1>3. EventsOf(batch') = EventsOf(batch) \cup queue[1].event
    BY <1>1, <1>2, AppendFacts
  <1> DEFINE r == Tail(queue)
  <1>4. /\ \A e : e \in EventsOf(queue) <=> \E i \in 1..Len(queue) : e \in queue[i].event
        /\ \A e : e \in EventsOf(r) <=> \E i \in 1..Len(r) : e \in r[i].event
    BY <1>1, <1>2, BatchFacts
  <1>5. /\ r \in Seq(Messages) /\ Len(r) = Len(queue) - 1 /\ queue' = r
        /\ \A i \in 1..Len(r) : r[i] = queue[i + 1]
    BY <1>1, <1>2
  <1> HIDE DEF r
  <1>6. /\ \A i \in 1..Len(r) : i + 1 \in 1..Len(queue)
        /\ \A i \in 1..Len(queue) : i = 1 \/ (i - 1 \in 1..Len(r) /\ (i - 1) + 1 = i)
        /\ 1 \in 1..Len(queue)
    BY <1>2, <1>5
  <1>7. \A e : e \in EventsOf(queue) <=> e \in queue[1].event \/ e \in EventsOf(r)
    <2>1. ASSUME NEW e \in EventsOf(queue) PROVE e \in queue[1].event \/ e \in EventsOf(r)
      <3>1. PICK i \in 1..Len(queue) : e \in queue[i].event
        BY <1>4
      <3>2. CASE i = 1
        BY <3>1, <3>2
      <3>3. CASE i - 1 \in 1..Len(r) /\ (i - 1) + 1 = i
        <4>1. r[i - 1] = queue[i]
          BY <1>5, <3>3
        <4>2. QED
          BY <1>4, <3>1, <3>3, <4>1
      <3>4. QED
        BY <1>6, <3>2, <3>3
    <2>2. ASSUME NEW e \in EventsOf(r) PROVE e \in EventsOf(queue)
      BY <1>4, <1>5, <1>6
    <2>3. \A e \in queue[1].event : e \in EventsOf(queue)
      BY <1>4, <1>6
    <2>4. QED
      BY <2>1, <2>2, <2>3
  <1>8. Pending' = EventsOf(queue') \cup EventsOf(batch')
    BY DEF Pending, EventsOf
  <1>9. QED
    BY <1>3, <1>5, <1>7, <1>8 DEF Pending

\* The ring after a push has some of its events and the new one.
LEMMA Pushed ==
  ASSUME TypeOK, NEW p \in Producers, PushRing(p)
  PROVE  \E e \in hand[p], d \in {0, 1} :
           /\ Len(ring) \in Nat /\ ring' \in Seq(Events)
           /\ d <= Len(ring) /\ Len(ring') = (Len(ring) - d) + 1
           /\ \A i \in 1..(Len(ring) - d) : i + d \in 1..Len(ring) /\ ring'[i] = ring[i + d]
           /\ ring'[Len(ring')] = e
  <1>1. PICK e \in hand[p] : ring' = Append(RoomInRing, e)
    BY DEF PushRing
  <1>2. ring \in Seq(Events) /\ e \in Events /\ RingCapacity \in Nat \ {0}
    BY LogAssumption DEF TypeOK
  <1>3. Len(ring) \in Nat
    BY <1>2, LenProperties
  <1> DEFINE s == RoomInRing
  <1>4. PICK d \in {0, 1} :
          /\ s \in Seq(Events) /\ d <= Len(ring) /\ Len(s) = Len(ring) - d
          /\ \A i \in 1..Len(s) : s[i] = ring[i + d]
    <2>1. CASE Len(ring) >= RingCapacity
      <3>1. s = Tail(ring)
        BY <2>1 DEF RoomInRing
      <3>2. Len(ring) >= 1
        BY <1>2, <1>3, <2>1
      <3>3. ring # <<>>
        BY <1>2, <3>2, EmptySeq
      <3>4. /\ Tail(ring) \in Seq(Events) /\ Len(Tail(ring)) = Len(ring) - 1
            /\ \A i \in 1..Len(Tail(ring)) : Tail(ring)[i] = ring[i + 1]
        BY <1>2, <3>3, HeadTailProperties
      <3>5. QED
        BY <3>1, <3>2, <3>4
    <2>2. CASE ~(Len(ring) >= RingCapacity)
      <3>1. s = ring
        BY <2>2 DEF RoomInRing
      <3>2. \A i \in 1..Len(ring) : i + 0 = i
        BY <1>3
      <3>3. 0 <= Len(ring) /\ Len(ring) = Len(ring) - 0
        BY <1>3
      <3>4. QED
        BY <1>2, <3>1, <3>2, <3>3
    <2>3. QED
      BY <2>1, <2>2
  <1>5. ring' = Append(s, e)
    BY <1>1
  <1> HIDE DEF s
  <1>6. /\ ring' \in Seq(Events) /\ Len(ring') = Len(s) + 1
        /\ \A i \in 1..Len(s) : ring'[i] = s[i]
        /\ ring'[Len(s) + 1] = e
    BY <1>2, <1>4, <1>5, AppendProperties
  <1>7. Len(ring') = (Len(ring) - d) + 1 /\ ring'[Len(ring')] = e
    BY <1>4, <1>6
  <1>8. \A i \in 1..(Len(ring) - d) : i + d \in 1..Len(ring)
    BY <1>3, <1>4
  <1>9. \A i \in 1..(Len(ring) - d) : ring'[i] = ring[i + d]
    BY <1>4, <1>6
  <1>10. QED
    BY <1>3, <1>4, <1>6, <1>7, <1>8, <1>9

LEMMA PushedEvents ==
  ASSUME TypeOK, NEW p \in Producers, PushRing(p)
  PROVE  InRing' \subseteq InRing \cup hand[p]
  <1>1. PICK e \in hand[p], d \in {0, 1} :
           /\ Len(ring) \in Nat /\ ring' \in Seq(Events)
           /\ d <= Len(ring) /\ Len(ring') = (Len(ring) - d) + 1
           /\ \A i \in 1..(Len(ring) - d) : i + d \in 1..Len(ring) /\ ring'[i] = ring[i + d]
           /\ ring'[Len(ring')] = e
    BY Pushed
  <1>2. \A i \in 1..Len(ring') : i = Len(ring') \/ i \in 1..(Len(ring) - d)
    BY <1>1
  <1>3. ASSUME NEW i \in 1..Len(ring') PROVE ring'[i] \in InRing \cup hand[p]
    <2>1. CASE i = Len(ring')
      BY <1>1, <2>1
    <2>2. CASE i \in 1..(Len(ring) - d)
      BY <1>1, <2>2 DEF InRing
    <2>3. QED
      BY <1>2, <2>1, <2>2
  <1>4. QED
    BY <1>3 DEF InRing

LEMMA Still ==
  /\ ring' = ring => InRing' = InRing
  /\ rows' = rows => InRows' = InRows
  /\ hand' = hand => HandEvents' = HandEvents
  /\ queue' = queue /\ batch' = batch => Pending' = Pending
  /\ rows' = rows /\ erased' = erased /\ lost' = lost => Accounted' = Accounted
  BY DEF InRing, InRows, HandEvents, Pending, Accounted

\* A step of the log within one lifetime: events come from emit, and those that
\* were accounted for or on their way still are.
Carries ==
  /\ Known \subseteq Known'
  /\ InRing' \subseteq InRing \cup HandEvents
  /\ \/ Around' \subseteq Around /\ emitted' = emitted /\ nextId' = nextId
     \/ /\ Around' \subseteq Around \cup {[uid |-> emitted + 1, id |-> nextId]}
        /\ emitted' = emitted + 1 /\ nextId' = nextId + 1

LEMMA AssignCarries ==
  ASSUME TypeOK, HandsOwn, NEW p \in Producers, AssignId(p)
  PROVE  Carries
  <1> DEFINE new == [uid |-> emitted + 1, id |-> nextId]
  <1>1. hand[p] = {} /\ hand' = [hand EXCEPT ![p] = {new}] /\ emitted' = emitted + 1
    BY AssignHands
  <1>2. /\ ring' = ring /\ rows' = rows /\ queue' = queue /\ batch' = batch
        /\ erased' = erased /\ lost' = lost /\ nextId' = nextId + 1
    BY DEF AssignId, writerVars
  <1> HIDE DEF new
  <1>3. hand'[p] = {new} /\ \A q \in Producers \ {p} : hand'[q] = hand[q]
    BY <1>1 DEF TypeOK
  <1>4. HandEvents' = HandEvents \cup {new}
    BY <1>1, <1>3 DEF HandEvents
  <1>5. InRing' = InRing /\ InRows' = InRows /\ Pending' = Pending /\ Accounted' = Accounted
    BY <1>2, Still
  <1>6. Around' \subseteq Around \cup {new} /\ Known \subseteq Known'
    BY <1>4, <1>5 DEF Around, Known
  <1>7. QED
    BY <1>1, <1>2, <1>5, <1>6 DEF Carries, new

LEMMA EnqueueCarries ==
  ASSUME TypeOK, HandsOwn, NEW p \in Producers, Enqueue(p)
  PROVE  Carries
  <1>1. PICK e \in hand[p] :
          \/ queue' = Append(queue, EventMsg(e)) /\ lost' = lost
          \/ queue' = queue /\ lost' = lost \cup {e}
    BY DEF Enqueue, DropCounted
  <1>2. /\ ring' = ring /\ rows' = rows /\ batch' = batch /\ erased' = erased
        /\ emitted' = emitted /\ nextId' = nextId /\ hand' = [hand EXCEPT ![p] = {}]
    BY DEF Enqueue, busVars
  <1>3. e \in Events /\ hand[p] = {e}
    BY DEF TypeOK, HandsOwn
  <1>4. hand'[p] = {} /\ \A q \in Producers \ {p} : hand'[q] = hand[q]
    BY <1>2 DEF TypeOK
  <1>5. HandEvents' \subseteq HandEvents /\ HandEvents \subseteq HandEvents' \cup {e} /\ e \in HandEvents
    BY <1>3, <1>4 DEF HandEvents
  <1>6. InRing' = InRing /\ InRows' = InRows
    BY <1>2, Still
  <1>7. CASE queue' = Append(queue, EventMsg(e)) /\ lost' = lost
    <2>1. EventMsg(e) \in Messages /\ EventMsg(e).event = {e}
      BY <1>3, MessageTypes
    <2>2. Pending' = Pending \cup {e}
      BY <1>2, <1>7, <2>1, PendingAppended
    <2>3. Accounted' = Accounted
      BY <1>2, <1>7, Still
    <2>4. QED
      BY <1>2, <1>5, <1>6, <2>2, <2>3 DEF Carries, Around, Known
  <1>8. CASE queue' = queue /\ lost' = lost \cup {e}
    <2>1. Pending' = Pending
      BY <1>2, <1>8, Still
    <2>2. Accounted' = Accounted \cup {e}
      BY <1>2, <1>6, <1>8 DEF Accounted
    <2>3. QED
      BY <1>2, <1>5, <1>6, <2>1, <2>2 DEF Carries, Around, Known
  <1>9. QED
    BY <1>1, <1>7, <1>8

LEMMA CallsCarry ==
  ASSUME TypeOK, Counters, NEW p \in Producers, PushRing(p) \/ Sync(p) \/ ClearLogs(p)
  PROVE  Carries
  <1>1. emitted' = emitted /\ nextId' = nextId /\ hand' = hand /\ batch' = batch /\ lost' = lost
    BY DEF PushRing, Sync, SyncCall, SyncSend, SyncTimeout, ClearLogs, ClearBus, ClearRows, busVars, writerVars
  <1>2. HandEvents' = HandEvents /\ hand[p] \subseteq HandEvents
    BY <1>1, Still DEF HandEvents
  <1>3. CASE PushRing(p)
    <2>1. queue' = queue /\ rows' = rows /\ erased' = erased
      BY <1>3 DEF PushRing, writerVars
    <2>2. Pending' = Pending /\ InRows' = InRows /\ Accounted' = Accounted
      BY <1>1, <2>1, Still
    <2>3. InRing' \subseteq InRing \cup HandEvents
      BY <1>2, <1>3, PushedEvents
    <2>4. QED
      BY <1>1, <1>2, <2>2, <2>3 DEF Carries, Around, Known
  <1>4. CASE SyncSend(p)
    <2>1. /\ ring' = ring /\ rows' = rows /\ erased' = erased
          /\ queue' = Append(queue, FlushMsg(p, call[p])) /\ pc[p] = "send"
      BY <1>4 DEF SyncSend, busVars
    <2>2. call[p] \in 1..MaxSyncs
      <3>1. call[p] \in 0..MaxSyncs /\ call[p] >= 1 /\ MaxSyncs \in Nat
        BY <2>1, LogAssumption DEF TypeOK, Counters
      <3>2. QED
        BY <3>1
    <2>3. FlushMsg(p, call[p]) \in Messages /\ FlushMsg(p, call[p]).event = {}
      BY <2>2, MessageTypes
    <2>4. Pending' = Pending
      BY <1>1, <2>1, <2>3, PendingAppended
    <2>5. InRing' = InRing /\ InRows' = InRows /\ Accounted' = Accounted
      BY <1>1, <2>1, Still
    <2>6. QED
      BY <1>1, <1>2, <2>4, <2>5 DEF Carries, Around, Known
  <1>5. CASE SyncCall(p) \/ SyncTimeout(p)
    <2>1. ring' = ring /\ rows' = rows /\ erased' = erased /\ queue' = queue
      BY <1>5 DEF SyncCall, SyncTimeout, busVars, writerVars
    <2>2. Pending' = Pending /\ InRows' = InRows /\ Accounted' = Accounted /\ InRing' = InRing
      BY <1>1, <2>1, Still
    <2>3. QED
      BY <1>1, <1>2, <2>2 DEF Carries, Around, Known
  <1>6. CASE ClearBus(p)
    <2>1. ring' = <<>> /\ rows' = rows /\ erased' = erased /\ queue' = queue
      BY <1>6 DEF ClearBus, writerVars
    <2>2. Pending' = Pending /\ InRows' = InRows /\ Accounted' = Accounted
      BY <1>1, <2>1, Still
    <2>3. InRing' = {}
      BY <2>1 DEF InRing
    <2>4. QED
      BY <1>1, <1>2, <2>2, <2>3 DEF Carries, Around, Known
  <1>7. CASE ClearRows(p)
    <2>1. ring' = ring /\ rows' = <<>> /\ erased' = erased \cup InRows /\ queue' = queue
      BY <1>7 DEF ClearRows, busVars, writerVars
    <2>2. Pending' = Pending /\ InRing' = InRing
      BY <1>1, <2>1, Still
    <2>3. InRows' = {}
      BY <2>1 DEF InRows
    <2>4. Accounted' = Accounted
      BY <1>1, <2>1, <2>3 DEF Accounted
    <2>5. QED
      BY <1>1, <1>2, <2>2, <2>3, <2>4 DEF Carries, Around, Known
  <1>8. QED
    BY <1>3, <1>4, <1>5, <1>6, <1>7 DEF Sync, ClearLogs

LEMMA WriterCarries ==
  ASSUME TypeOK, Losses, Prune \/ WriterStep \/ UNCHANGED vars
  PROVE  Carries
  <1>1. emitted' = emitted /\ nextId' = nextId /\ hand' = hand /\ ring' = ring
    BY DEF Prune, WriterStep, Receive, ReceiveTimeout, Commit, FlushFails, Reply, vars, procVars, busVars
  <1>2. HandEvents' = HandEvents /\ InRing' = InRing
    BY <1>1, Still
  <1>3. CASE Receive \/ ReceiveTimeout \/ Reply \/ UNCHANGED vars
    <2>1. rows' = rows /\ erased' = erased /\ lost' = lost
      BY <1>3 DEF Receive, ReceiveTimeout, Reply, vars
    <2>2. InRows' = InRows /\ Accounted' = Accounted
      BY <2>1, Still
    <2>3. Pending' = Pending
      <3>1. CASE Receive
        BY <3>1, PendingReceived
      <3>2. CASE ReceiveTimeout \/ Reply \/ UNCHANGED vars
        <4>1. queue' = queue /\ batch' = batch
          BY <3>2 DEF ReceiveTimeout, Reply, vars, writerVars
        <4>2. QED
          BY <4>1, Still
      <3>3. QED
        BY <1>3, <3>1, <3>2
    <2>4. QED
      BY <1>1, <1>2, <2>2, <2>3 DEF Carries, Around, Known
  <1>4. CASE Prune
    <2>1. /\ rows' = rows /\ erased' = erased /\ lost' = lost /\ batch' = batch
          /\ queue' = Append(queue, PruneMsg) \/ queue' = queue
      BY <1>4 DEF Prune
    <2>2. InRows' = InRows /\ Accounted' = Accounted
      BY <2>1, Still
    <2>3. PruneMsg \in Messages /\ PruneMsg.event = {}
      BY MessageTypes
    <2>4. Pending' = Pending
      <3>1. CASE queue' = queue
        BY <2>1, <3>1, Still
      <3>2. CASE queue' = Append(queue, PruneMsg)
        BY <2>1, <2>3, <3>2, PendingAppended
      <3>3. QED
        BY <2>1, <3>1, <3>2
    <2>5. QED
      BY <1>1, <1>2, <2>2, <2>4 DEF Carries, Around, Known
  <1>5. CASE Commit \/ FlushFails
    <2>1. queue' = queue /\ batch' = <<>>
      BY <1>5 DEF Commit, FlushFails, EndFlush
    <2>2. Pending' = EventsOf(queue)
      <3>1. Pending' = EventsOf(queue') \cup EventsOf(batch')
        BY DEF Pending, EventsOf
      <3>2. QED
        BY <2>1, <3>1, EmptyBatch
    <2>3. Accounted \cup EventsOf(batch) \subseteq Accounted'
      BY <1>5, CommitFlushed, FailureFlushed DEF Flushed
    <2>4. InRows' \subseteq InRows \cup EventsOf(batch)
      <3>1. FlushFails => rows' = rows
        BY DEF FlushFails
      <3>2. QED
        BY <1>5, <3>1, CommitRows, Still
    <2>5. QED
      BY <1>1, <1>2, <2>2, <2>3, <2>4 DEF Carries, Around, Known, Pending
  <1>6. QED
    BY <1>3, <1>4, <1>5 DEF WriterStep

\* The process does not end.
OneLifetime == MaxExits = 0

LEMMA StepCarries ==
  ASSUME OneLifetime, TypeOK, Counters, Losses, HandsOwn, [Next]_vars
  PROVE  Carries /\ ~Restart
  <1>1. ~Restart
    <2>1. budget.exits \in 0..0
      BY DEF TypeOK, OneLifetime
    <2>2. QED
      BY <2>1 DEF Restart
  <1>2. QED
    BY <1>1, AssignCarries, EnqueueCarries, CallsCarry, WriterCarries DEF Next, Emit

-----------------------------------------------------------------------------
(* One lifetime: ids tell events apart.                                    *)

\* Ids count the events, and every event around is one of those.
SameIds ==
  /\ nextId = emitted + 1
  /\ \A e \in Around : e.id = e.uid /\ e.uid <= emitted

LEMMA AroundTyped ==
  ASSUME TypeOK
  PROVE  Around \subseteq Events /\ InRing \subseteq Events /\ InRows \subseteq Events
  <1>1. InRing \subseteq Events /\ InRows \subseteq Events
    BY ElementOfSeq DEF TypeOK, InRing, InRows
  <1>2. HandEvents \subseteq Events
    BY DEF TypeOK, HandEvents
  <1>3. Pending \subseteq Events
    BY BatchFacts DEF TypeOK, Pending
  <1>4. QED
    BY <1>1, <1>2, <1>3 DEF Around

LEMMA UidNat == \A e \in Events : e.uid \in Nat /\ e.id \in Nat
  BY LogAssumption DEF Events, Uids

LEMMA IdsKept ==
  ASSUME TypeOK, SameIds, Carries
  PROVE  SameIds'
  <1> DEFINE new == [uid |-> emitted + 1, id |-> nextId]
  <1>1. emitted \in Nat /\ \A e \in Around : e.uid \in Nat
    BY EmittedFacts, AroundTyped, UidNat
  <1>2. nextId = emitted + 1 /\ \A e \in Around : e.id = e.uid /\ e.uid <= emitted
    BY DEF SameIds
  <1>3. new.uid = emitted + 1 /\ new.id = nextId
    OBVIOUS
  <1>4. \/ Around' \subseteq Around /\ emitted' = emitted /\ nextId' = nextId
        \/ /\ Around' \subseteq Around \cup {new}
           /\ emitted' = emitted + 1 /\ nextId' = nextId + 1
    BY DEF Carries
  <1> HIDE DEF new
  <1>5. CASE Around' \subseteq Around /\ emitted' = emitted /\ nextId' = nextId
    BY <1>2, <1>5 DEF SameIds
  <1>6. CASE /\ Around' \subseteq Around \cup {new}
             /\ emitted' = emitted + 1 /\ nextId' = nextId + 1
    <2>1. new.id = new.uid /\ new.uid <= emitted + 1
      BY <1>1, <1>2, <1>3
    <2>2. \A e \in Around : e.id = e.uid /\ e.uid <= emitted + 1
      BY <1>1, <1>2
    <2>3. \A e \in Around' : e.id = e.uid /\ e.uid <= emitted'
      BY <1>6, <2>1, <2>2
    <2>4. nextId' = emitted' + 1
      BY <1>2, <1>6
    <2>5. QED
      BY <2>3, <2>4 DEF SameIds
  <1>7. QED
    BY <1>4, <1>5, <1>6

LEMMA IdsInductive ==
  ASSUME OneLifetime
  PROVE  Spec => []SameIds
  <1>1. Init => SameIds
    <2>1. ASSUME Init PROVE SameIds
      <3>1. Len(<<>>) = 0
        BY EmptySeq
      <3>2. InRing = {} /\ InRows = {} /\ HandEvents = {}
        BY <2>1, <3>1 DEF Init, InRing, InRows, HandEvents
      <3>3. Pending = {}
        BY <2>1, EmptyBatch DEF Init, Pending
      <3>4. nextId = 1 /\ emitted = 0
        BY <2>1 DEF Init
      <3>5. QED
        BY <3>2, <3>3, <3>4 DEF SameIds, Around
    <2>2. QED
      BY <2>1
  <1>2. IInv /\ HandsOwn /\ SameIds /\ [Next]_vars => SameIds'
    BY StepCarries, IdsKept DEF IInv
  <1>3. QED
    BY <1>1, <1>2, Inductive, HandsInductive, PTL DEF Spec

-----------------------------------------------------------------------------
(* What the console shows.                                                 *)

LEMMA PageFacts ==
  ASSUME NEW T, NEW s \in Seq(T)
  PROVE  /\ Reverse(s) \in Seq(T) /\ Len(s) \in Nat /\ Len(Reverse(s)) = Len(s)
         /\ \A i \in 1..Len(s) :
              (Len(s) - i) + 1 \in 1..Len(s) /\ Reverse(s)[i] = s[(Len(s) - i) + 1]
  <1> DEFINE n == Len(s)
             r == [i \in 1..n |-> s[(n - i) + 1]]
  <1>1. n \in Nat /\ \A i \in 1..n : s[i] \in T
    BY LenProperties, ElementOfSeq
  <1>2. Reverse(s) = r
    BY DEF Reverse
  <1> HIDE DEF n
  <1>3. \A i \in 1..n : (n - i) + 1 \in 1..n
    BY <1>1
  <1>4. r \in [1..n -> T]
    BY <1>1, <1>3
  <1>5. \A i \in 1..n : r[i] = s[(n - i) + 1]
    OBVIOUS
  <1> HIDE DEF r
  <1>6. r \in Seq(T) /\ Len(r) = n
    BY <1>1, <1>4
  <1>7. QED
    BY <1>1, <1>2, <1>3, <1>5, <1>6 DEF n

\* The id of the newest row.
Newest == IF Page = <<>> THEN 0 ELSE Page[1].id

FreshAt == {i \in 1..Len(ring) : Reverse(ring)[i].id > Newest}

LEMMA FreshPicked == Fresh = Picked(Reverse(ring), FreshAt)
  BY DEF Fresh, FreshAt, Newest

LEMMA ListedFacts ==
  ASSUME TypeOK
  PROVE  /\ Fresh \in Seq(Events) /\ Page \in Seq(Events) /\ Len(Fresh) \in Nat /\ Len(Page) \in Nat
         /\ Len(Listed) = Len(Fresh) + Len(Page)
         /\ \A i \in 1..Len(Fresh) : i \in 1..Len(Listed) /\ Listed[i] = Fresh[i]
         /\ \A i \in 1..Len(Page) : Len(Fresh) + i \in 1..Len(Listed) /\ Listed[Len(Fresh) + i] = Page[i]
         /\ \A i \in 1..Len(Listed) : i \in 1..Len(Fresh) \/ \E j \in 1..Len(Page) : i = Len(Fresh) + j
  <1> DEFINE a == Fresh
             b == Page
             m == Len(a)
             n == Len(b)
  <1>1. ring \in Seq(Events) /\ rows \in Seq(Events)
    BY DEF TypeOK
  <1>2. b \in Seq(Events)
    BY <1>1, PageFacts DEF Page
  <1>3. a \in Seq(Events)
    <2>1. Reverse(ring) \in Seq(Events) /\ Len(Reverse(ring)) = Len(ring)
      BY <1>1, PageFacts
    <2>2. FreshAt \in SUBSET (1..Len(Reverse(ring)))
      BY <2>1 DEF FreshAt
    <2>3. QED
      BY <2>1, <2>2, PickedFacts, FreshPicked
  <1>4. Listed = a \o b
    BY DEF Listed
  <1> HIDE DEF a, b
  <1>5. /\ m \in Nat /\ n \in Nat /\ Len(Listed) = m + n
        /\ \A i \in 1..(m + n) : Listed[i] = IF i <= m THEN a[i] ELSE b[i - m]
    BY <1>2, <1>3, <1>4, ConcatProperties, LenProperties
  <1> HIDE DEF m, n
  <1>6. ASSUME NEW i \in 1..m PROVE i \in 1..(m + n) /\ Listed[i] = a[i]
    <2>1. i \in 1..(m + n) /\ i <= m
      BY <1>5
    <2>2. QED
      BY <1>5, <2>1
  <1>7. ASSUME NEW i \in 1..n PROVE m + i \in 1..(m + n) /\ Listed[m + i] = b[i]
    <2>1. m + i \in 1..(m + n) /\ ~(m + i <= m) /\ (m + i) - m = i
      BY <1>5
    <2>2. QED
      BY <1>5, <2>1
  <1>8. ASSUME NEW i \in 1..(m + n) PROVE i \in 1..m \/ \E j \in 1..n : i = m + j
    <2>1. i \in 1..m \/ (i - m \in 1..n /\ i = m + (i - m))
      BY <1>5
    <2>2. QED
      BY <2>1
  <1>9. QED
    BY <1>2, <1>3, <1>5, <1>6, <1>7, <1>8 DEF a, b, m, n

\* The lines before the page are events of the ring newer than its rows.
LEMMA FreshFacts ==
  ASSUME TypeOK
  PROVE  /\ \A i \in 1..Len(Fresh) : Fresh[i] \in InRing /\ Fresh[i].id > Newest
         /\ \A e \in InRing : e.id > Newest => \E i \in 1..Len(Fresh) : Fresh[i] = e
         /\ (\A i, j \in 1..Len(ring) : ring[i] = ring[j] => i = j)
            => \A i, j \in 1..Len(Fresh) : Fresh[i] = Fresh[j] => i = j
  <1> DEFINE r == Reverse(ring)
             l == Len(ring)
             S == FreshAt
  <1>1. ring \in Seq(Events)
    BY DEF TypeOK
  <1>2. /\ r \in Seq(Events) /\ l \in Nat /\ Len(r) = l
        /\ \A i \in 1..l : (l - i) + 1 \in 1..l /\ r[i] = ring[(l - i) + 1]
    BY <1>1, PageFacts
  <1>3. S \in SUBSET (1..Len(r)) /\ \A i \in 1..l : i \in S <=> r[i].id > Newest
    BY <1>2 DEF FreshAt
  <1>4. Fresh = Picked(r, S)
    BY FreshPicked
  <1> HIDE DEF r, S, l
  <1>5. /\ \A k \in 1..Len(Fresh) : Nth(S, k) \in S /\ Fresh[k] = r[Nth(S, k)]
        /\ \A i \in S : \E k \in 1..Len(Fresh) : Fresh[k] = r[i]
        /\ \A j, k \in 1..Len(Fresh) : Nth(S, j) = Nth(S, k) => j = k
    <2>1. r \in Seq(Events) /\ S \in SUBSET (1..Len(r))
      BY <1>2, <1>3
    <2> DEFINE f == Picked(r, S)
    <2>2. /\ \A k \in 1..Len(f) : Nth(S, k) \in S /\ f[k] = r[Nth(S, k)]
          /\ \A i \in S : \E k \in 1..Len(f) : f[k] = r[i]
          /\ \A k, h \in 1..Len(f) : Nth(S, k) = Nth(S, h) => k = h
      BY <2>1, PickedFacts
    <2>3. QED
      BY <1>4, <2>2
  <1>6. \A i \in S : i \in 1..l
    BY <1>2, <1>3
  <1>7. \A i \in 1..l : r[i] \in InRing
    BY <1>2 DEF InRing, l
  <1>8. \A i \in 1..Len(Fresh) : Fresh[i] \in InRing /\ Fresh[i].id > Newest
    BY <1>3, <1>5, <1>6, <1>7
  <1>9. ASSUME NEW e \in InRing, e.id > Newest PROVE \E i \in 1..Len(Fresh) : Fresh[i] = e
    <2>1. PICK j \in 1..l : ring[j] = e
      BY DEF InRing, l
    <2> DEFINE i == (l - j) + 1
    <2>2. i \in 1..l /\ (l - i) + 1 = j
      BY <1>2
    <2> HIDE DEF i
    <2>3. r[i] = e
      BY <1>2, <2>1, <2>2
    <2>4. i \in S
      BY <1>3, <1>9, <2>2, <2>3
    <2>5. QED
      BY <1>5, <2>3, <2>4
  <1>10. ASSUME \A i, j \in 1..l : ring[i] = ring[j] => i = j,
                NEW i \in 1..Len(Fresh), NEW j \in 1..Len(Fresh), Fresh[i] = Fresh[j]
         PROVE  i = j
    <2> DEFINE x == Nth(S, i)
               y == Nth(S, j)
    <2>1. x \in 1..l /\ y \in 1..l /\ r[x] = r[y]
      BY <1>5, <1>6, <1>10
    <2> HIDE DEF x, y
    <2>2. (l - x) + 1 = (l - y) + 1
      <3>1. (l - x) + 1 \in 1..l /\ (l - y) + 1 \in 1..l
        BY <1>2, <2>1
      <3>2. ring[(l - x) + 1] = ring[(l - y) + 1]
        BY <1>2, <2>1
      <3>3. \A g, h \in 1..l : ring[g] = ring[h] => g = h
        BY <1>10
      <3>4. QED
        BY <3>1, <3>2, <3>3
    <2>3. x = y
      BY <1>2, <2>1, <2>2
    <2>4. QED
      BY <1>5, <2>3 DEF x, y
  <1>11. QED
    BY <1>8, <1>9, <1>10 DEF l

\* The page has the rows, and no others.
LEMMA RowsOnPage ==
  ASSUME TypeOK
  PROVE  /\ \A i \in 1..Len(Page) : Page[i] \in InRows
         /\ \A e \in InRows : \E i \in 1..Len(Page) : Page[i] = e
  <1> DEFINE n == Len(rows)
  <1>1. rows \in Seq(Events)
    BY DEF TypeOK
  <1>2. /\ n \in Nat /\ Len(Page) = n
        /\ \A i \in 1..n : (n - i) + 1 \in 1..n /\ Page[i] = rows[(n - i) + 1]
    BY <1>1, PageFacts DEF Page
  <1> HIDE DEF n
  <1>3. \A i \in 1..Len(Page) : Page[i] \in InRows
    BY <1>2 DEF InRows, n
  <1>4. ASSUME NEW e \in InRows PROVE \E i \in 1..Len(Page) : Page[i] = e
    <2>1. PICK j \in 1..n : rows[j] = e
      BY DEF InRows, n
    <2> DEFINE i == (n - j) + 1
    <2>2. i \in 1..n /\ (n - i) + 1 = j
      BY <1>2
    <2> HIDE DEF i
    <2>3. QED
      BY <1>2, <2>1, <2>2
  <1>5. QED
    BY <1>3, <1>4

\* What get_log_detail finds for the id of an event in the ring or the table.
LEMMA DetailFound ==
  ASSUME TypeOK, SameIds, NEW e \in InRing \cup InRows
  PROVE  Detail(e.id) = {e}
  <1> DEFINE S == {i \in 1..Len(ring) : ring[i].id = e.id}
             R == {i \in 1..Len(rows) : rows[i].id = e.id}
             a == Picked(ring, S)
             b == Picked(rows, R)
             found == a \o b
  <1>1. ring \in Seq(Events) /\ rows \in Seq(Events)
    BY DEF TypeOK
  <1>2. S \in SUBSET (1..Len(ring)) /\ R \in SUBSET (1..Len(rows))
    OBVIOUS
  <1>3. /\ \A i \in S : ring[i] \in InRing /\ ring[i].id = e.id
        /\ \A i \in R : rows[i] \in InRows /\ rows[i].id = e.id
        /\ e \in InRing => \E i \in S : ring[i] = e
        /\ e \in InRows => \E i \in R : rows[i] = e
    BY DEF InRing, InRows
  <1>4. Detail(e.id) = IF found = <<>> THEN {} ELSE {Head(found)}
    BY DEF Detail, RingById, RowById
  <1> HIDE DEF S, R
  <1>5. /\ a \in Seq(Events) /\ Len(a) \in Nat
        /\ \A k \in 1..Len(a) : Nth(S, k) \in S /\ a[k] = ring[Nth(S, k)]
        /\ \A i \in S : \E k \in 1..Len(a) : a[k] = ring[i]
    BY <1>1, <1>2, PickedFacts
  <1>6. /\ b \in Seq(Events) /\ Len(b) \in Nat
        /\ \A k \in 1..Len(b) : Nth(R, k) \in R /\ b[k] = rows[Nth(R, k)]
        /\ \A i \in R : \E k \in 1..Len(b) : b[k] = rows[i]
    BY <1>1, <1>2, PickedFacts
  <1> HIDE DEF a, b
  <1>7. /\ \A k \in 1..Len(a) : a[k] \in InRing \cup InRows /\ a[k].id = e.id
        /\ \A k \in 1..Len(b) : b[k] \in InRing \cup InRows /\ b[k].id = e.id
        /\ (\E k \in 1..Len(a) : TRUE) \/ (\E k \in 1..Len(b) : TRUE)
    <2>1. ASSUME NEW k \in 1..Len(a) PROVE a[k] \in InRing /\ a[k].id = e.id
      BY <1>3, <1>5
    <2>2. ASSUME NEW k \in 1..Len(b) PROVE b[k] \in InRows /\ b[k].id = e.id
      BY <1>3, <1>6
    <2>3. e \in InRing => \E k \in 1..Len(a) : TRUE
      BY <1>3, <1>5
    <2>4. e \in InRows => \E k \in 1..Len(b) : TRUE
      BY <1>3, <1>6
    <2>5. QED
      BY <2>1, <2>2, <2>3, <2>4
  <1>8. /\ found \in Seq(Events) /\ Len(found) = Len(a) + Len(b)
        /\ \A i \in 1..(Len(a) + Len(b)) : found[i] = IF i <= Len(a) THEN a[i] ELSE b[i - Len(a)]
    BY <1>5, <1>6, ConcatProperties
  <1> HIDE DEF found
  <1>9. Len(found) >= 1
    BY <1>5, <1>6, <1>7, <1>8
  <1>10. found # <<>> /\ Head(found) = found[1]
    <2>1. found # <<>>
      BY <1>8, <1>9, EmptySeq
    <2>2. QED
      BY <1>8, <2>1, HeadTailProperties
  <1>11. found[1] \in InRing \cup InRows /\ found[1].id = e.id
    <2>1. 1 \in 1..(Len(a) + Len(b))
      BY <1>5, <1>6, <1>8, <1>9
    <2>2. CASE 1 <= Len(a)
      <3>1. 1 \in 1..Len(a)
        BY <1>5, <2>2
      <3>2. QED
        BY <1>7, <1>8, <2>1, <2>2, <3>1
    <2>3. CASE ~(1 <= Len(a))
      <3>1. 1 - Len(a) \in 1..Len(b)
        BY <1>5, <1>6, <2>1, <2>3
      <3>2. QED
        BY <1>7, <1>8, <2>1, <2>3, <3>1
    <2>4. QED
      BY <2>2, <2>3
  <1>12. found[1] = e
    <2>1. InRing \cup InRows \subseteq Around /\ InRing \cup InRows \subseteq Events
      BY AroundTyped DEF Around
    <2>2. found[1].uid = e.uid
      BY <1>11, <2>1 DEF SameIds
    <2>3. \A x, y \in Events : x.uid = y.uid /\ x.id = y.id => x = y
      BY DEF Events
    <2>4. QED
      BY <1>11, <2>1, <2>2, <2>3
  <1>13. QED
    BY <1>4, <1>10, <1>12

\* Opening a line of the list shows that event (get_log_detail), as long as the
\* process does not restart: with any number of producers, failures and calls.
THEOREM DetailRight ==
  ASSUME OneLifetime
  PROVE  Spec => []DetailMatches
  <1>1. TypeOK /\ SameIds => DetailMatches
    <2>1. ASSUME TypeOK, SameIds, NEW i \in 1..Len(Listed) PROVE Detail(Listed[i].id) = {Listed[i]}
      <3>1. Listed[i] \in InRing \cup InRows
        <4>1. CASE i \in 1..Len(Fresh)
          BY <2>1, <4>1, ListedFacts, FreshFacts
        <4>2. CASE \E j \in 1..Len(Page) : i = Len(Fresh) + j
          BY <2>1, <4>2, ListedFacts, RowsOnPage
        <4>3. QED
          BY <2>1, <4>1, <4>2, ListedFacts
      <3>2. QED
        BY <2>1, <3>1, DetailFound
    <2>2. QED
      BY <2>1 DEF DetailMatches
  <1>2. QED
    BY <1>1, TypeCorrect, IdsInductive, PTL

-----------------------------------------------------------------------------
(* The ring.                                                               *)

\* No event is in the ring twice, or will be.
RingOnce ==
  /\ \A i, j \in 1..Len(ring) : ring[i].uid = ring[j].uid => i = j
  /\ \A p \in Producers : pc[p] = "push" =>
       \A e \in hand[p], i \in 1..Len(ring) : ring[i].uid # e.uid

\* Events of the ring are accounted for, or on their way.
Traced == InRing \subseteq Known

LEMMA PushOnce ==
  ASSUME TypeOK, HandsOwn, RingOnce, NEW p \in Producers, PushRing(p)
  PROVE  RingOnce'
  <1>1. PICK e \in hand[p], d \in {0, 1} :
           /\ Len(ring) \in Nat /\ ring' \in Seq(Events)
           /\ d <= Len(ring) /\ Len(ring') = (Len(ring) - d) + 1
           /\ \A i \in 1..(Len(ring) - d) : i + d \in 1..Len(ring) /\ ring'[i] = ring[i + d]
           /\ ring'[Len(ring')] = e
    BY Pushed
  <1> DEFINE n == Len(ring)
             m == n - d
  <1>2. n \in Nat /\ m \in Nat /\ Len(ring') = m + 1
    BY <1>1
  <1>3. /\ \A i \in 1..m : i + d \in 1..n /\ ring'[i] = ring[i + d]
        /\ ring'[m + 1] = e
    BY <1>1
  <1>4. /\ \A i, j \in 1..n : ring[i].uid = ring[j].uid => i = j
        /\ \A i \in 1..n : ring[i].uid # e.uid
    BY DEF RingOnce, PushRing
  <1>5. /\ pc' = [pc EXCEPT ![p] = "enqueue"] /\ hand' = hand
        /\ pc \in [Producers -> {"idle", "push", "enqueue", "send", "wait", "acked", "clear"}]
    BY DEF PushRing, Goto, TypeOK
  <1>6. ASSUME NEW q \in Producers, pc'[q] = "push"
        PROVE  /\ pc[q] = "push" /\ \A x \in hand[q] : x.uid # e.uid
               /\ \A x \in hand[q], i \in 1..n : ring[i].uid # x.uid
    <2>1. q # p /\ pc[q] = "push"
      BY <1>5, <1>6
    <2>2. QED
      BY <2>1 DEF HandsOwn, RingOnce
  <1> HIDE DEF m, n
  <1>7. \A i \in 1..Len(ring') : i \in 1..m \/ i = m + 1
    BY <1>2
  <1>8. \A i, j \in 1..m : i + d = j + d => i = j
    BY <1>2
  <1>9. ASSUME NEW i \in 1..Len(ring'), NEW j \in 1..Len(ring'), ring'[i].uid = ring'[j].uid
        PROVE  i = j
    <2>1. CASE i \in 1..m /\ j \in 1..m
      BY <1>3, <1>4, <1>8, <1>9, <2>1
    <2>2. CASE i = m + 1 /\ j \in 1..m
      BY <1>3, <1>4, <1>9, <2>2
    <2>3. CASE i \in 1..m /\ j = m + 1
      BY <1>3, <1>4, <1>9, <2>3
    <2>4. QED
      BY <1>7, <2>1, <2>2, <2>3
  <1>10. ASSUME NEW q \in Producers, pc'[q] = "push", NEW x \in hand'[q], NEW i \in 1..Len(ring')
         PROVE  ring'[i].uid # x.uid
    <2>1. x \in hand[q]
      BY <1>5, <1>10
    <2>2. CASE i \in 1..m
      BY <1>3, <1>6, <1>10, <2>1, <2>2
    <2>3. CASE i = m + 1
      BY <1>3, <1>6, <1>10, <2>1, <2>3
    <2>4. QED
      BY <1>7, <2>2, <2>3
  <1>11. QED
    BY <1>9, <1>10 DEF RingOnce

LEMMA RingOnceStill ==
  ASSUME RingOnce, ring' = ring,
         \A q \in Producers : pc'[q] = "push" => pc[q] = "push" /\ hand'[q] = hand[q]
  PROVE  RingOnce'
  BY DEF RingOnce

LEMMA RingOnceKept ==
  ASSUME TypeOK, HandsOwn, SameIds, RingOnce, [Next]_vars
  PROVE  RingOnce'
  <1>1. /\ pc \in [Producers -> {"idle", "push", "enqueue", "send", "wait", "acked", "clear"}]
        /\ hand \in [Producers -> SUBSET Events]
    BY DEF TypeOK
  <1>2. ASSUME NEW p \in Producers, AssignId(p) PROVE RingOnce'
    <2> DEFINE new == [uid |-> emitted + 1, id |-> nextId]
    <2>1. hand' = [hand EXCEPT ![p] = {new}]
      BY <1>2, AssignHands
    <2>2. ring' = ring /\ pc' = [pc EXCEPT ![p] = "push"] /\ new.uid = emitted + 1
      BY <1>2 DEF AssignId, Goto
    <2> HIDE DEF new
    <2>3. \A i \in 1..Len(ring) : ring[i].uid # new.uid
      <3>1. emitted \in Nat
        BY EmittedFacts
      <3>2. \A e \in InRing : e.uid \in Nat /\ e.uid <= emitted
        BY AroundTyped, UidNat DEF SameIds, Around
      <3>3. \A e \in InRing : e.uid # emitted + 1
        BY <3>1, <3>2
      <3>4. QED
        BY <2>2, <3>3 DEF InRing
    <2>4. /\ hand'[p] = {new}
          /\ \A q \in Producers \ {p} : hand'[q] = hand[q] /\ pc'[q] = pc[q]
      BY <1>1, <2>1, <2>2
    <2>5. QED
      BY <2>2, <2>3, <2>4 DEF RingOnce
  <1>3. ASSUME NEW p \in Producers, Enqueue(p) \/ Sync(p) \/ ClearRows(p) PROVE RingOnce'
    <2>1. /\ ring' = ring
          /\ \E to \in {"send", "wait", "idle"} : pc' = [pc EXCEPT ![p] = to]
          /\ hand' = hand \/ hand' = [hand EXCEPT ![p] = {}]
      BY <1>3 DEF Enqueue, Sync, SyncCall, SyncSend, SyncTimeout, ClearRows, Goto, busVars
    <2>2. \A q \in Producers : pc'[q] = "push" => pc[q] = "push" /\ hand'[q] = hand[q]
      BY <1>1, <2>1
    <2>3. QED
      BY <2>1, <2>2, RingOnceStill
  <1>4. ASSUME NEW p \in Producers, ClearBus(p) PROVE RingOnce'
    <2>1. ring' = <<>> /\ Len(<<>>) = 0
      BY <1>4, EmptySeq DEF ClearBus
    <2>2. QED
      BY <2>1 DEF RingOnce
  <1>5. CASE Prune \/ Receive \/ ReceiveTimeout \/ Commit \/ FlushFails \/ UNCHANGED vars
    <2>1. hand' = hand /\ ring' = ring /\ pc' = pc
      BY <1>5 DEF Prune, Receive, ReceiveTimeout, Commit, FlushFails, vars, procVars, busVars
    <2>2. QED
      BY <2>1, RingOnceStill
  <1>6. CASE Reply
    <2>1. /\ hand' = hand /\ ring' = ring
          /\ \A q \in Producers : pc'[q] = pc[q] \/ pc'[q] = "acked"
      BY <1>6 DEF Reply, busVars
    <2>2. QED
      BY <2>1, RingOnceStill
  <1>7. CASE Restart
    <2>1. ring' = <<>> /\ Len(<<>>) = 0
      BY <1>7, EmptySeq DEF Restart
    <2>2. QED
      BY <2>1 DEF RingOnce
  <1>8. QED
    BY <1>2, <1>3, <1>4, <1>5, <1>6, <1>7, PushOnce DEF Next, Emit, ClearLogs, WriterStep

LEMMA RingInductive ==
  ASSUME OneLifetime
  PROVE  Spec => [](RingOnce /\ Traced)
  <1>1. Init => RingOnce /\ Traced
    <2>1. Len(<<>>) = 0
      BY EmptySeq
    <2>2. QED
      BY <2>1 DEF Init, RingOnce, Traced, InRing
  <1>2. IInv /\ HandsOwn /\ SameIds /\ RingOnce /\ [Next]_vars => RingOnce'
    BY RingOnceKept DEF IInv
  <1>3. IInv /\ HandsOwn /\ Traced /\ [Next]_vars => Traced'
    <2>1. ASSUME Carries, Traced PROVE Traced'
      BY <2>1 DEF Carries, Traced, Known
    <2>2. QED
      BY <2>1, StepCarries DEF IInv
  <1>4. QED
    BY <1>1, <1>2, <1>3, Inductive, HandsInductive, IdsInductive, PTL DEF Spec

-----------------------------------------------------------------------------
(* One producer and one lifetime: the first page of the list.              *)

\* Rows have their order, and what is on its way is newer than all of them.
LEMMA TableOrder ==
  ASSUME TypeOK, SameIds, EachOnce, InOrder
  PROVE  /\ \A i, j \in 1..Len(rows) : i < j => rows[i].id < rows[j].id
         /\ \A i \in 1..Len(rows), e \in Pending \cup HandEvents : rows[i].id < e.id
  <1> DEFINE n == Len(rows)
             T == Table
             V == Waiting
             W == Whole(T, V)
             z == Len(T) + Len(V)
  <1>1. T \in Seq(Uids) /\ V \in Seq(Places)
    BY TypedLog DEF LogTyped
  <1>2. rows \in Seq(Events) /\ batch \in Seq(Messages) /\ queue \in Seq(Messages)
    BY DEF TypeOK
  <1>3. n \in Nat /\ Len(T) = n /\ \A i \in 1..n : T[i] = rows[i].uid
    BY <1>2, ColumnFacts, Mapped
  <1>4. \A i \in 1..n : rows[i].id = rows[i].uid
    BY DEF SameIds, Around, InRows
  <1>5. /\ Len(T) \in Nat /\ Len(V) \in Nat
        /\ \A x \in 1..Len(T) : x \in 1..z /\ W[x] = {T[x]}
        /\ \A x \in 1..Len(V) : Len(T) + x \in 1..z /\ W[Len(T) + x] = V[x]
    BY <1>1, WholeFacts
  <1>6. /\ \A x, y \in 1..z : x < y => \A u \in W[x], v \in W[y] : u < v
        /\ \A x \in 1..z : W[x] \subseteq Offered
    BY DEF InOrder, Sorted, EachOnce, Single
  <1>7. /\ Len(batch) \in Nat /\ Len(queue) \in Nat /\ Len(V) = Len(batch) + Len(queue)
        /\ \A i \in 1..Len(batch) : V[i] = UidsOf(batch[i].event)
        /\ \A i \in 1..Len(queue) : V[Len(batch) + i] = UidsOf(queue[i].event)
    BY <1>2, LineFacts, Mapped
  <1> HIDE DEF T, V, W, z
  <1>8. \A i \in 1..n : i \in 1..z /\ W[i] = {rows[i].uid}
    BY <1>3, <1>5
  <1> HIDE DEF n
  <1>9. \A i, j \in 1..n : i < j => rows[i].id < rows[j].id
    BY <1>4, <1>6, <1>8
  <1>10. ASSUME NEW e \in Pending PROVE \E x \in 1..Len(V) : e.uid \in V[x]
    <2>1. CASE e \in EventsOf(batch)
      <3>1. PICK i \in 1..Len(batch) : e \in batch[i].event
        BY <1>2, <2>1, BatchFacts
      <3>2. i \in 1..Len(V)
        BY <1>7
      <3>3. e.uid \in V[i]
        BY <1>7, <3>1 DEF UidsOf
      <3>4. QED
        BY <3>2, <3>3
    <2>2. CASE e \in EventsOf(queue)
      <3>1. PICK i \in 1..Len(queue) : e \in queue[i].event
        BY <1>2, <2>2, BatchFacts
      <3>2. Len(batch) + i \in 1..Len(V)
        BY <1>7
      <3>3. e.uid \in V[Len(batch) + i]
        BY <1>7, <3>1 DEF UidsOf
      <3>4. QED
        BY <3>2, <3>3
    <2>3. QED
      BY <2>1, <2>2 DEF Pending
  <1>11. ASSUME NEW i \in 1..n, NEW e \in Pending PROVE rows[i].id < e.id
    <2>1. PICK x \in 1..Len(V) : e.uid \in V[x]
      BY <1>10
    <2>2. Len(T) + x \in 1..z /\ W[Len(T) + x] = V[x]
      BY <1>5
    <2>3. i < Len(T) + x
      BY <1>3, <1>5
    <2>4. rows[i].uid < e.uid
      BY <1>6, <1>8, <2>1, <2>2, <2>3
    <2>5. e.id = e.uid
      BY DEF SameIds, Around
    <2>6. QED
      BY <1>4, <2>4, <2>5
  <1>12. ASSUME NEW i \in 1..n, NEW e \in HandEvents PROVE rows[i].id < e.id
    <2>1. PICK p \in Producers : e \in hand[p]
      BY DEF HandEvents
    <2>2. e.uid = emitted /\ e.uid \in UidsOf(hand[p])
      BY <2>1 DEF InOrder, LastInHand, UidsOf
    <2>3. rows[i].uid \in Offered
      BY <1>6, <1>8
    <2>4. rows[i].uid \in 1..emitted /\ rows[i].uid # e.uid
      BY <2>1, <2>2, <2>3 DEF Offered
    <2>5. rows[i].uid < e.uid
      BY <2>2, <2>4, EmittedFacts
    <2>6. e.id = e.uid
      BY DEF SameIds, Around
    <2>7. QED
      BY <1>4, <2>5, <2>6
  <1>13. QED
    BY <1>9, <1>11, <1>12 DEF n

LEMMA PageOrder ==
  ASSUME TypeOK, \A i, j \in 1..Len(rows) : i < j => rows[i].id < rows[j].id
  PROVE  /\ \A i, j \in 1..Len(Page) : Page[i] = Page[j] => i = j
         /\ \A i \in 1..Len(Page) : ~(Page[i].id > Newest)
         /\ Newest = 0 \/ \E e \in InRows : Newest = e.id
  <1> DEFINE n == Len(rows)
  <1>1. rows \in Seq(Events)
    BY DEF TypeOK
  <1>2. /\ Page \in Seq(Events) /\ n \in Nat /\ Len(Page) = n
        /\ \A i \in 1..n : (n - i) + 1 \in 1..n /\ Page[i] = rows[(n - i) + 1]
    BY <1>1, PageFacts DEF Page
  <1>3. \A i \in 1..n : rows[i].id \in Nat
    BY <1>1, ElementOfSeq, UidNat
  <1>4. \A i, j \in 1..n : i < j => rows[i].id < rows[j].id
    OBVIOUS
  <1> HIDE DEF n
  <1>5. ASSUME NEW i \in 1..n, NEW j \in 1..n, i < j PROVE Page[j].id < Page[i].id
    <2>1. (n - j) + 1 < (n - i) + 1
      BY <1>2, <1>5
    <2>2. QED
      BY <1>2, <1>4, <2>1
  <1>6. \A i \in 1..n : Page[i].id \in Nat
    BY <1>2, <1>3
  <1>7. ASSUME NEW i \in 1..n, NEW j \in 1..n, Page[i] = Page[j] PROVE i = j
    <2>1. ~(i < j) /\ ~(j < i)
      BY <1>5, <1>6, <1>7
    <2>2. QED
      BY <1>2, <2>1
  <1>8. ASSUME NEW i \in 1..n
        PROVE  Newest = Page[1].id /\ 1 \in 1..n /\ ~(Page[i].id > Newest)
    <2>1. 1 \in 1..n /\ Len(Page) # 0
      BY <1>2
    <2>2. Newest = Page[1].id
      BY <1>2, <2>1, EmptySeq DEF Newest
    <2>3. i = 1 \/ 1 < i
      BY <1>2
    <2>4. CASE i = 1
      BY <1>6, <2>1, <2>2, <2>4
    <2>5. CASE 1 < i
      <3>1. Page[i].id < Page[1].id /\ Page[i].id \in Nat /\ Page[1].id \in Nat
        BY <1>5, <1>6, <2>1, <2>5
      <3>2. QED
        BY <2>1, <2>2, <3>1
    <2>6. QED
      BY <2>3, <2>4, <2>5
  <1>9. Newest = 0 \/ \E e \in InRows : Newest = e.id
    <2>1. CASE Page = <<>>
      BY <2>1 DEF Newest
    <2>2. CASE Page # <<>>
      <3>1. Len(Page) # 0
        BY <1>2, <2>2, EmptySeq
      <3>2. 1 \in 1..n
        BY <1>2, <3>1
      <3>3. Newest = Page[1].id /\ Page[1] \in InRows
        BY <1>2, <1>8, <3>2, RowsOnPage
      <3>4. QED
        BY <3>3
    <2>3. QED
      BY <2>1, <2>2
  <1>10. QED
    BY <1>2, <1>7, <1>8, <1>9

LEMMA ListedOnceFollows ==
  ASSUME TypeOK, SameIds, EachOnce, InOrder, RingOnce
  PROVE  ListedOnce
  <1> DEFINE m == Len(Fresh)
             n == Len(Page)
  <1>1. /\ m \in Nat /\ n \in Nat
        /\ \A i \in 1..m : Listed[i] = Fresh[i]
        /\ \A i \in 1..n : Listed[m + i] = Page[i]
        /\ \A i \in 1..Len(Listed) : i \in 1..m \/ \E j \in 1..n : i = m + j
    BY ListedFacts
  <1>2. /\ \A i, j \in 1..n : Page[i] = Page[j] => i = j
        /\ \A i \in 1..n : ~(Page[i].id > Newest)
    BY TableOrder, PageOrder
  <1>3. \A i, j \in 1..Len(ring) : ring[i] = ring[j] => i = j
    BY DEF RingOnce
  <1>4. /\ \A i \in 1..m : Fresh[i].id > Newest
        /\ \A i, j \in 1..m : Fresh[i] = Fresh[j] => i = j
    BY <1>3, FreshFacts
  <1> HIDE DEF m, n
  <1>5. ASSUME NEW i \in 1..Len(Listed), NEW j \in 1..Len(Listed), Listed[i] = Listed[j]
        PROVE  i = j
    <2>1. CASE i \in 1..m /\ j \in 1..m
      BY <1>1, <1>4, <1>5, <2>1
    <2>2. ASSUME i \in 1..m, NEW y \in 1..n, j = m + y PROVE i = j
      <3>1. Listed[i] = Fresh[i] /\ Listed[j] = Page[y]
        BY <1>1, <2>2
      <3>2. QED
        BY <1>2, <1>4, <1>5, <2>2, <3>1
    <2>3. ASSUME j \in 1..m, NEW x \in 1..n, i = m + x PROVE i = j
      <3>1. Listed[j] = Fresh[j] /\ Listed[i] = Page[x]
        BY <1>1, <2>3
      <3>2. QED
        BY <1>2, <1>4, <1>5, <2>3, <3>1
    <2>4. ASSUME NEW x \in 1..n, NEW y \in 1..n, i = m + x, j = m + y PROVE i = j
      <3>0. Listed[i] = Page[x] /\ Listed[j] = Page[y]
        BY <1>1, <2>4
      <3>1. x = y
        BY <1>2, <1>5, <3>0
      <3>2. QED
        BY <2>4, <3>1
    <2>5. QED
      BY <1>1, <2>1, <2>2, <2>3, <2>4
  <1>6. QED
    BY <1>5 DEF ListedOnce

LEMMA FreshVisibleFollows ==
  ASSUME TypeOK, SameIds, EachOnce, InOrder, Traced
  PROVE  FreshVisible
  <1>1. ASSUME NEW e \in InRing \ (lost \cup erased)
        PROVE  \E i \in 1..Len(Listed) : Listed[i] = e
    <2>1. CASE e \in InRows
      <3>1. PICK i \in 1..Len(Page) : Page[i] = e
        BY <2>1, RowsOnPage
      <3>2. Len(Fresh) + i \in 1..Len(Listed) /\ Listed[Len(Fresh) + i] = e
        BY <3>1, ListedFacts
      <3>3. QED
        BY <3>2
    <2>2. CASE e \in Pending \cup HandEvents
      <3>1. \A i \in 1..Len(rows) : rows[i].id < e.id
        BY <2>2, TableOrder
      <3>2. \A d \in InRows : d.id < e.id
        BY <3>1 DEF InRows
      <3>3. Newest = 0 \/ \E d \in InRows : Newest = d.id
        BY TableOrder, PageOrder
      <3>4. e.id \in Nat /\ e.id > 0 /\ \A d \in InRows : d.id \in Nat
        <4>1. e \in Events /\ InRows \subseteq Events
          BY AroundTyped
        <4>2. \A d \in Events : d.id \in Nat /\ d.id > 0
          BY LogAssumption DEF Events, Uids
        <4>3. QED
          BY <4>1, <4>2
      <3>5. e.id > Newest
        BY <3>2, <3>3, <3>4
      <3>6. PICK i \in 1..Len(Fresh) : Fresh[i] = e
        BY <3>5, FreshFacts
      <3>7. QED
        BY <3>6, ListedFacts
    <2>3. e \in Known
      BY DEF Traced
    <2>4. QED
      BY <2>1, <2>2, <2>3 DEF Known, Accounted
  <1>2. QED
    BY <1>1 DEF FreshVisible

\* Events emitted one after the other in one lifetime of the process are listed
\* once each (get_logs): through full queues, failures, clearing and retention.
THEOREM OnceInList ==
  ASSUME OneProducer, OneLifetime
  PROVE  Spec => []ListedOnce
  <1>1. TypeOK /\ SameIds /\ EachOnce /\ InOrder /\ RingOnce => ListedOnce
    BY ListedOnceFollows
  <1>2. QED
    BY <1>1, TypeCorrect, IdsInductive, OnceInductive, OrderInductive, RingInductive, PTL

\* Under the same conditions the first page has every event of the ring, but
\* those that were lost or cleared (get_logs).
THEOREM VisibleAtOnce ==
  ASSUME OneProducer, OneLifetime
  PROVE  Spec => []FreshVisible
  <1>1. TypeOK /\ SameIds /\ EachOnce /\ InOrder /\ Traced => FreshVisible
    BY FreshVisibleFollows
  <1>2. QED
    BY <1>1, TypeCorrect, IdsInductive, OnceInductive, OrderInductive, RingInductive, PTL
=============================================================================
