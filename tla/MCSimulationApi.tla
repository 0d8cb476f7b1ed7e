--------------------------- MODULE MCSimulationApi --------------------------
(* Two requests, batches of up to three transactions in chunks of two: a   *)
(* full chunk followed by a partial one, and both kinds alone.             *)
EXTENDS SimulationApi

CONSTANTS r1, r2

MCRequests == {r1, r2}
=============================================================================
