----------------------------- MODULE MCBruteForce ---------------------------
(* Four failures of one address: two that overlap no other can precede two *)
(* that overlap.  The window is shorter than the block, and the clock runs *)
(* past it.                                                                *)
EXTENDS BruteForce, TLC

CONSTANTS f1, f2, f3, f4

MCCalls == {f1, f2, f3, f4}

CallSymmetry == Permutations(MCCalls)
=============================================================================
