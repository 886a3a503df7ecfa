-------------------------- MODULE TraceRingProofs ---------------------------
(***************************************************************************)
(* Proofs about TraceRing, for any finite set of requests, any counts and  *)
(* any number of configuration changes.                                    *)
(***************************************************************************)
EXTENDS TraceRing, FiniteSetTheorems, NaturalLemmas

-----------------------------------------------------------------------------
(* The inductive invariant.                                                *)

\* The requests that may have written their first row, and their second one.
Began == {s \in Sids : phase[s] # "new"}
Ended == {s \in Sids : phase[s] = "done"}

\* Row ids are not used up: every request has had at most its two rows.
RowsLeft == nextRow <= Cardinality(Began) + Cardinality(Ended) + 1

\* AUTOINCREMENT: a row has an id of its own, below the next one.
OwnIds ==
  /\ \A r \in rows : r.id < nextRow
  /\ \A q, r \in rows : q.id = r.id => q = r

IInv ==
  /\ TypeOK
  /\ RowsLeft
  /\ OwnIds
  /\ Bounded

-----------------------------------------------------------------------------
(* Finite sets of rows.                                                    *)

LEMMA RowsFinite ==
  /\ Cardinality(Sids) \in Nat
  /\ \A R \in SUBSET Rows : /\ SidsIn(R) \in SUBSET Sids
                            /\ IsFiniteSet(SidsIn(R))
                            /\ Cardinality(SidsIn(R)) \in Nat
  <1>1. Cardinality(Sids) \in Nat
    BY TraceAssumption, FS_CardinalityType
  <1>2. ASSUME NEW R \in SUBSET Rows
        PROVE  /\ SidsIn(R) \in SUBSET Sids
               /\ IsFiniteSet(SidsIn(R))
               /\ Cardinality(SidsIn(R)) \in Nat
    <2>1. SidsIn(R) \in SUBSET Sids
      BY DEF SidsIn, Rows
    <2>2. QED
      BY <2>1, TraceAssumption, FS_Subset, FS_CardinalityType
  <1>3. QED
    BY <1>1, <1>2

\* MAX(id) of a sid that has rows is the id of one of them.
LEMMA NewestIsARow ==
  ASSUME NEW R \in SUBSET Rows, NEW s \in SidsIn(R)
  PROVE  \E r \in R : r.sid = s /\ Newest(R, s) = r.id
  <1> DEFINE I == {r.id : r \in {q \in R : q.sid = s}}
             n == 2 * Cardinality(Sids)
  <1>1. n \in Nat
    BY RowsFinite
  <1>2. I \in SUBSET Nat /\ \A k \in I : k <= n
    BY <1>1 DEF Rows, RowIds
  <1>3. I # {}
    BY DEF SidsIn
  <1>4. \E m \in I : \A k \in I : m >= k
    BY <1>1, <1>2, <1>3, GreatestElement
  <1>5. Newest(R, s) \in I
    BY <1>4 DEF Newest, Max
  <1>6. QED
    BY <1>5

\* Eviction with a count n leaves at most n requests.  Of the requests it
\* leaves, take the one whose newest row is oldest: the others all have newer
\* ones, and fewer than n requests do.
LEMMA EvictBounds ==
  ASSUME NEW R \in SUBSET Rows, \A q, r \in R : q.id = r.id => q = r, NEW n \in Nat
  PROVE  Cardinality(SidsIn(Evict(R, n))) <= n
  <1> DEFINE K == SidsIn(Evict(R, n))
             Newer(m) == {s \in SidsIn(R) : Newest(R, s) > Newest(R, m)}
             N == {Newest(R, s) : s \in K}
  <1>1. Evict(R, n) \in SUBSET R
    BY DEF Evict
  <1>2. K \in SUBSET SidsIn(R)
    BY <1>1 DEF SidsIn
  <1>3. IsFiniteSet(SidsIn(R)) /\ IsFiniteSet(K) /\ Cardinality(K) \in Nat
    BY <1>1, RowsFinite
  <1>4. CASE K = {}
    BY <1>4, FS_EmptySet
  <1>5. CASE K # {}
    <2>1. N \in SUBSET Nat /\ N # {}
      <3>1. ASSUME NEW s \in K PROVE Newest(R, s) \in Nat
        <4>1. PICK r \in R : Newest(R, s) = r.id
          BY <1>2, NewestIsARow
        <4>2. QED
          BY <4>1 DEF Rows, RowIds
      <3>2. QED
        BY <1>5, <3>1
    <2>2. PICK m \in K : \A s \in K : Newest(R, m) <= Newest(R, s)
      <3>1. PICK v \in N : \A w \in N : v <= w
        BY <2>1, LeastElement
      <3>2. QED
        BY <3>1
    <2>3. ASSUME NEW s \in K \ {m} PROVE s \in Newer(m)
      <3>1. PICK q \in R : q.sid = s /\ Newest(R, s) = q.id
        BY <1>2, NewestIsARow
      <3>2. PICK r \in R : r.sid = m /\ Newest(R, m) = r.id
        BY <1>2, NewestIsARow
      <3>3. q.id # r.id
        BY <3>1, <3>2
      <3>4. q.id \in Nat /\ r.id \in Nat
        BY DEF Rows, RowIds
      <3>5. QED
        BY <1>2, <2>2, <3>1, <3>2, <3>3, <3>4
    <2>4. Cardinality(Newer(m)) < n
      BY <2>2 DEF Evict, SidsIn
    <2>5. Newer(m) \in SUBSET SidsIn(R)
      OBVIOUS
    <2>6. IsFiniteSet(Newer(m)) /\ Cardinality(Newer(m)) \in Nat
      BY <1>3, <2>5, FS_Subset, FS_CardinalityType
    <2>7. K \ {m} \in SUBSET Newer(m)
      BY <2>3
    <2>8. Cardinality(K \ {m}) <= Cardinality(Newer(m))
      BY <2>6, <2>7, FS_Subset
    <2>9. Cardinality(K \ {m}) = Cardinality(K) - 1
      BY <1>3, <2>2, FS_RemoveElement
    <2>10. QED
      BY <1>3, <2>4, <2>6, <2>8, <2>9
  <1>6. QED
    BY <1>4, <1>5

-----------------------------------------------------------------------------
(* The steps.                                                              *)

LEMMA InitInvariant == Init => IInv
  <1> SUFFICES ASSUME Init PROVE IInv
    OBVIOUS
  <1>1. TypeOK
    BY TraceAssumption DEF Init, TypeOK
  <1>2. Began = {} /\ Ended = {}
    BY DEF Init, Began, Ended
  <1>3. RowsLeft
    BY <1>2, FS_EmptySet DEF Init, RowsLeft
  <1>4. SidsIn(rows) = {}
    BY DEF Init, SidsIn
  <1>5. Bounded
    BY <1>4, FS_EmptySet DEF Init, Bounded
  <1>6. OwnIds
    BY DEF Init, OwnIds
  <1>7. QED
    BY <1>1, <1>3, <1>5, <1>6 DEF IInv

\* There is a row id left for a request whose phase goes on, and what is left
\* over is still enough for the others.
LEMMA RowLeft ==
  ASSUME IInv, NEW s \in Sids, NEW p \in {"sent", "done"},
         p = "sent" => phase[s] = "new",
         p = "done" => phase[s] = "answering",
         phase' = [phase EXCEPT ![s] = p]
  PROVE  /\ nextRow \in RowIds
         /\ nextRow + 1 <= Cardinality(Began') + Cardinality(Ended') + 1
  <1>1. phase \in [Sids -> {"new", "sent", "answering", "done"}] /\ nextRow \in Nat \ {0}
    BY DEF IInv, TypeOK
  <1>2. /\ Began \in SUBSET Sids /\ Ended \in SUBSET Sids
        /\ Began' \in SUBSET Sids /\ Ended' \in SUBSET Sids
    BY DEF Began, Ended
  <1>3. /\ IsFiniteSet(Began) /\ IsFiniteSet(Ended)
        /\ Cardinality(Began') <= Cardinality(Sids) /\ Cardinality(Ended') <= Cardinality(Sids)
        /\ Cardinality(Began) \in Nat /\ Cardinality(Ended) \in Nat
        /\ Cardinality(Sids) \in Nat
    BY <1>2, TraceAssumption, FS_Subset, FS_CardinalityType
  <1>4. Cardinality(Began') + Cardinality(Ended') = Cardinality(Began) + Cardinality(Ended) + 1
    <2>1. CASE p = "sent"
      <3>1. Began' = Began \cup {s} /\ Ended' = Ended /\ s \notin Began
        BY <1>1, <2>1 DEF Began, Ended
      <3>2. Cardinality(Began \cup {s}) = Cardinality(Began) + 1
        BY <1>3, <3>1, FS_AddElement
      <3>3. QED
        BY <1>3, <3>1, <3>2
    <2>2. CASE p = "done"
      <3>1. Began' = Began /\ Ended' = Ended \cup {s} /\ s \notin Ended
        BY <1>1, <2>2 DEF Began, Ended
      <3>2. Cardinality(Ended \cup {s}) = Cardinality(Ended) + 1
        BY <1>3, <3>1, FS_AddElement
      <3>3. QED
        BY <1>3, <3>1, <3>2
    <2>3. QED
      BY <2>1, <2>2
  <1>5. nextRow <= Cardinality(Began) + Cardinality(Ended) + 1
    BY DEF IInv, RowsLeft
  <1>6. nextRow <= Cardinality(Began') + Cardinality(Ended')
    BY <1>4, <1>5
  <1>7. Cardinality(Began') \in Nat /\ Cardinality(Ended') \in Nat
    BY <1>2, TraceAssumption, FS_Subset, FS_CardinalityType
  <1>8. nextRow + 1 <= Cardinality(Began') + Cardinality(Ended') + 1
    BY <1>1, <1>6, <1>7
  <1>9. nextRow <= 2 * Cardinality(Sids)
    BY <1>1, <1>3, <1>6, <1>7
  <1>10. QED
    BY <1>1, <1>3, <1>8, <1>9 DEF RowIds

\* A row that is written, and the eviction that comes with it, keep the invariant.
LEMMA WriteInvariant ==
  ASSUME IInv, NEW s \in Sids, NEW kind \in {"req", "resp"}, NEW n \in Keeps \cup {0},
         nextRow \in RowIds, Write(s, kind, n)
  PROVE  /\ rows' \subseteq Rows
         /\ nextRow' = nextRow + 1
         /\ latest' \in Keeps \cup {0}
         /\ OwnIds'
         /\ Bounded'
  <1> DEFINE new == [sid |-> s, kind |-> kind, id |-> nextRow]
             R == rows \cup {new}
  <1>1. rows \subseteq Rows /\ nextRow \in Nat
    BY DEF IInv, TypeOK
  <1>2. new \in Rows /\ new.id = nextRow
    BY DEF Rows
  <1>3. R \in SUBSET Rows
    BY <1>1, <1>2
  <1>4. \A r \in rows : r.id < nextRow /\ r.id \in Nat
    BY <1>1 DEF IInv, OwnIds, Rows, RowIds
  <1>5. /\ \A q, r \in rows : q.id = r.id => q = r
    BY DEF IInv, OwnIds
  <1> HIDE DEF new
  <1>6. \A q, r \in R : q.id = r.id => q = r
    BY <1>1, <1>2, <1>4, <1>5
  <1>7. n \in Nat
    BY TraceAssumption
  <1>8. rows' = Evict(R, n) /\ nextRow' = nextRow + 1 /\ latest' = n
    BY DEF Write, new
  <1>9. rows' \subseteq R
    BY <1>8 DEF Evict
  <1>10. OwnIds'
    <2>1. \A r \in R : r.id < nextRow + 1
      BY <1>1, <1>2, <1>4
    <2>2. QED
      BY <1>6, <1>8, <1>9, <2>1 DEF OwnIds
  <1>11. Bounded'
    <2>1. Cardinality(SidsIn(Evict(R, n))) <= n
      BY <1>3, <1>6, <1>7, EvictBounds
    <2>2. QED
      BY <1>8, <2>1 DEF Bounded
  <1>12. QED
    BY <1>3, <1>8, <1>9, <1>10, <1>11

\* What a request's row does to the invariant, written or skipped.
LEMMA RowInvariant ==
  ASSUME IInv, NEW s \in Sids, NEW kind \in {"req", "resp"}, NEW n \in Keeps \cup {0},
         NEW p \in {"sent", "done"},
         p = "sent" => phase[s] = "new",
         p = "done" => phase[s] = "answering",
         phase' = [phase EXCEPT ![s] = p],
         Write(s, kind, n) \/ Skip,
         UNCHANGED <<keep, snap, changes>>
  PROVE  IInv'
  <1>1. /\ nextRow \in RowIds
        /\ nextRow + 1 <= Cardinality(Began') + Cardinality(Ended') + 1
    BY RowLeft
  <1>2. Cardinality(Began') \in Nat /\ Cardinality(Ended') \in Nat /\ nextRow \in Nat \ {0}
    <2>1. Began' \in SUBSET Sids /\ Ended' \in SUBSET Sids
      BY DEF Began, Ended
    <2>2. nextRow \in Nat \ {0}
      BY DEF IInv, TypeOK
    <2>3. QED
      BY <2>1, <2>2, TraceAssumption, FS_Subset, FS_CardinalityType
  <1>3. CASE Write(s, kind, n)
    <2>1. /\ rows' \subseteq Rows
          /\ nextRow' = nextRow + 1
          /\ latest' \in Keeps \cup {0}
          /\ OwnIds'
          /\ Bounded'
      BY <1>1, <1>3, WriteInvariant
    <2>2. TypeOK'
      BY <1>2, <2>1 DEF IInv, TypeOK
    <2>3. RowsLeft'
      BY <1>1, <2>1 DEF RowsLeft
    <2>4. QED
      BY <2>1, <2>2, <2>3 DEF IInv
  <1>4. CASE Skip
    <2>1. TypeOK'
      BY <1>4 DEF IInv, TypeOK, Skip
    <2>2. RowsLeft'
      BY <1>1, <1>2, <1>4 DEF RowsLeft, Skip
    <2>3. OwnIds' /\ Bounded'
      BY <1>4 DEF IInv, OwnIds, Bounded, Skip, SidsIn
    <2>4. QED
      BY <2>1, <2>2, <2>3 DEF IInv
  <1>5. QED
    BY <1>3, <1>4

LEMMA NextInvariant == IInv /\ [Next]_vars => IInv'
  <1> SUFFICES ASSUME IInv, [Next]_vars PROVE IInv'
    OBVIOUS
  <1> USE DEF IInv
  <1>1. ASSUME NEW s \in Sids, Request(s) PROVE IInv'
    <2>1. keep \in Keeps \cup {0}
      BY DEF TypeOK
    <2>2. QED
      BY <1>1, <2>1, RowInvariant DEF Request
  <1>2. ASSUME NEW s \in Sids, Headers(s) PROVE IInv'
    <2>1. TypeOK'
      BY <1>2 DEF Headers, TypeOK, Snapshot
    <2>2. Began' = Began /\ Ended' = Ended
      BY <1>2 DEF Headers, TypeOK, Began, Ended
    <2>3. QED
      BY <1>2, <2>1, <2>2 DEF Headers, RowsLeft, OwnIds, Bounded
  <1>3. ASSUME NEW s \in Sids, Response(s) PROVE IInv'
    <2>1. snap[s] \in Keeps \cup {0}
      BY DEF TypeOK
    <2>2. QED
      BY <1>3, <2>1, RowInvariant DEF Response
  <1>4. CASE SetKeep
    <2>1. TypeOK'
      BY <1>4, TraceAssumption DEF SetKeep, TypeOK
    <2>2. QED
      BY <1>4, <2>1 DEF SetKeep, RowsLeft, Began, Ended, OwnIds, Bounded
  <1>5. CASE Clear
    <2>1. TypeOK'
      BY <1>5, TraceAssumption DEF Clear, TypeOK
    <2>2. SidsIn(rows') = {}
      BY <1>5 DEF Clear, SidsIn
    <2>3. latest \in Nat
      BY TraceAssumption DEF TypeOK
    <2>4. Bounded'
      BY <1>5, <2>2, <2>3, FS_EmptySet DEF Clear, Bounded
    <2>5. RowsLeft' /\ OwnIds'
      BY <1>5 DEF Clear, RowsLeft, Began, Ended, OwnIds
    <2>6. QED
      BY <2>1, <2>4, <2>5
  <1>6. CASE UNCHANGED vars
    BY <1>6 DEF vars, TypeOK, RowsLeft, Began, Ended, OwnIds, Bounded
  <1>7. QED
    BY <1>1, <1>2, <1>3, <1>4, <1>5, <1>6 DEF Next

-----------------------------------------------------------------------------
(* The theorems.                                                           *)

\* The variables keep their types; in particular the row ids stay within two
\* rows per request.
THEOREM TypeCorrect == Spec => []TypeOK
  <1>1. IInv => TypeOK
    BY DEF IInv
  <1>2. QED
    BY InitInvariant, NextInvariant, <1>1, PTL DEF Spec

\* write_trace keeps no more requests than the count of the latest row asks
\* for, in whatever order responses end and counts change.
THEOREM RingBounded == Spec => []Bounded
  <1>1. IInv => Bounded
    BY DEF IInv
  <1>2. QED
    BY InitInvariant, NextInvariant, <1>1, PTL DEF Spec

\* write_trace and clear_events remove requests, never half of one.
THEOREM WholeRequestsEvicted == Spec => EvictedTogether
  <1> DEFINE Together == \A q, r \in rows : q.sid = r.sid /\ q \notin rows' => r \notin rows'
  <1>1. ASSUME NEW s \in Sids, NEW kind, NEW n, TypeOK, Write(s, kind, n) PROVE Together
    <2> DEFINE R == rows \cup {[sid |-> s, kind |-> kind, id |-> nextRow]}
    <2>1. rows' = Evict(R, n)
      BY <1>1 DEF Write
    <2>2. \A q, r \in R : q.sid = r.sid /\ q \notin Evict(R, n) => r \notin Evict(R, n)
      BY DEF Evict
    <2>3. QED
      BY <2>1, <2>2
  <1>2. TypeOK /\ [Next]_vars => [Together]_vars
    BY <1>1 DEF Next, Request, Response, Headers, SetKeep, Clear, Skip, vars
  <1>3. QED
    BY <1>2, TypeCorrect, PTL DEF Spec, EvictedTogether

=============================================================================
