----------------------------- MODULE MCEventLog -----------------------------
(* Small instances of EventLog for TLC.                                     *)
EXTENDS EventLog

CONSTANTS p1, p2

=============================================================================
