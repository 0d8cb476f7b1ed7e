----------------------- MODULE MCSimulateTransaction ------------------------
(* Three requests with one retry each and a threshold of three failures:   *)
(* one request alone cannot reach it, two can.                             *)
EXTENDS SimulateTransaction

CONSTANTS r1, r2, r3

MCCallers == {r1, r2, r3}
=============================================================================
