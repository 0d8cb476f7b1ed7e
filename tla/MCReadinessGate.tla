--------------------------- MODULE MCReadinessGate --------------------------
(* Three concurrent calls, one of which may hang.  Two failures open the   *)
(* breaker; a call can settle before, at and after the end of the recovery *)
(* time of three ticks.  Three failed probes, two ticks apart, take the    *)
(* pod out of rotation, before or after the recovery time is over.         *)
EXTENDS ReadinessGate

CONSTANTS c1, c2, c3

MCCallers == {c1, c2, c3}
MCResponsive == {c1, c2}
=============================================================================
