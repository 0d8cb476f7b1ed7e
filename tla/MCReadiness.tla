----------------------------- MODULE MCReadiness ----------------------------
(* Three overlapping probes and a clock of two ticks: probes that share a  *)
(* time stamp and probes that do not.                                      *)
EXTENDS Readiness, TLC

CONSTANTS p1, p2, p3

MCProbes == {p1, p2, p3}

ProbeSymmetry == Permutations(MCProbes)
=============================================================================
