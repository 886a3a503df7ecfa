------------------------------- MODULE Picks --------------------------------
(* The entries of a sequence at chosen positions, in order.                *)
EXTENDS Naturals, FiniteSets

\* The k-th smallest number in S.
Nth(S, k) == CHOOSE i \in S : Cardinality({j \in S : j <= i}) = k

\* The entries of s at these positions, in order.
Picked(s, S) == [k \in 1..Cardinality(S) |-> s[Nth(S, k)]]
=============================================================================
