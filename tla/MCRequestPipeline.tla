------------------------- MODULE MCRequestPipeline -------------------------
(* Small instances of RequestPipeline for TLC.                              *)
EXTENDS RequestPipeline

CONSTANTS r1, r2, d1

\* Each setting that lets bodies through, alone and with fail_closed off, and
\* a configuration without a target.
MCSavedConfigs ==
  {[target |-> TRUE, enabled |-> e, paused |-> p, fail_closed |-> f] : e, p, f \in BOOLEAN}
    \cup {[target |-> FALSE, enabled |-> TRUE, paused |-> FALSE, fail_closed |-> TRUE]}

=============================================================================
