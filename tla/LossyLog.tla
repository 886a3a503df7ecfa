------------------------------ MODULE LossyLog ------------------------------
(***************************************************************************)
(* What the event log promises: an event is offered once; it is accepted   *)
(* in order, or refused; accepted ones get into the table in that order,   *)
(* each once or not at all, and leave it from the front or all together.   *)
(***************************************************************************)
EXTENDS Naturals, Sequences

CONSTANT Uids

VARIABLES
  offered,  \* events that were offered
  waiting,  \* places in front of the table: each holds an event or none
  table     \* the events kept, oldest first

logVars == <<offered, waiting, table>>

Init ==
  /\ offered = {}
  /\ waiting = <<>>
  /\ table = <<>>

Accept ==
  /\ \E u \in Uids \ offered :
       /\ offered' = offered \cup {u}
       /\ waiting' = Append(waiting, {u})
  /\ UNCHANGED table

Refuse ==
  /\ \E u \in Uids \ offered : offered' = offered \cup {u}
  /\ UNCHANGED <<waiting, table>>

\* A request that is no event takes a place as well.
Mark ==
  /\ waiting' = Append(waiting, {})
  /\ UNCHANGED <<offered, table>>

\* The k-element selections from the first n places, in order.
Selections(k, n) ==
  {at \in [1..k -> 1..n] : \A i, j \in 1..k : i < j => at[i] < at[j]}

\* The table with the events of these places behind it.
Extended(k, at) ==
  [i \in 1..(Len(table) + k) |->
     IF i <= Len(table) THEN table[i] ELSE CHOOSE u \in waiting[at[i - Len(table)]] : TRUE]

\* Some of the first n places are written, the others are given up; a place
\* without an event may ask for the oldest of the table to be removed.
Settle ==
  /\ \E n \in 0..Len(waiting) : \E k \in 0..n : \E at \in Selections(k, n) :
       /\ \A i \in 1..k : waiting[at[i]] # {}
       /\ \E m \in 0..(Len(table) + k) :
            /\ m > 0 => \E i \in 1..n : waiting[i] = {}
            /\ table' = SubSeq(Extended(k, at), m + 1, Len(table) + k)
       /\ waiting' = SubSeq(waiting, n + 1, Len(waiting))
  /\ UNCHANGED offered

Clear ==
  /\ table' = <<>>
  /\ UNCHANGED <<offered, waiting>>

\* What waits is forgotten, and so are events on their way.
Crash ==
  /\ waiting' = <<>>
  /\ offered \subseteq offered' /\ offered' \subseteq Uids
  /\ UNCHANGED table

Next == Accept \/ Refuse \/ Mark \/ Settle \/ Clear \/ Crash

Spec == Init /\ [][Next]_logVars

-----------------------------------------------------------------------------
\* No event is in the log twice, nor one that was not offered.
Once ==
  /\ \A i, j \in 1..Len(table) : table[i] = table[j] => i = j
  /\ \A i, j \in 1..Len(waiting) : waiting[i] \cap waiting[j] # {} => i = j
  /\ \A i \in 1..Len(table), j \in 1..Len(waiting) : table[i] \notin waiting[j]
  /\ \A i \in 1..Len(table) : table[i] \in offered
  /\ \A j \in 1..Len(waiting) : waiting[j] \subseteq offered
=============================================================================
