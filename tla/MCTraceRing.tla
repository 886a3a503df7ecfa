----------------------------- MODULE MCTraceRing ----------------------------
(* Small instances of TraceRing for TLC.                                    *)
EXTENDS TraceRing

CONSTANTS s1, s2, s3

=============================================================================
