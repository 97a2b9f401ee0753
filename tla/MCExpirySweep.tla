--------------------------- MODULE MCExpirySweep ---------------------------
(* A brand whose few points lapse on different days.                        *)
EXTENDS ExpirySweep

CONSTANTS a, b
=============================================================================
