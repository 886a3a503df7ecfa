--------------------------- MODULE MCConfigCenter ---------------------------
(* Small instances of ConfigCenter for TLC.                                 *)
EXTENDS ConfigCenter

CONSTANTS t1, t2

\* A configuration with every field changed.
MCPuts == {[f \in Fields |-> TRUE]}

=============================================================================
