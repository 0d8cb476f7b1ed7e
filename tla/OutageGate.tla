----------------------------- MODULE OutageGate -----------------------------
(***************************************************************************)
(* What the circuit breaker promises its callers, without its three-state  *)
(* flag: an outage is a run of FailureThreshold or more failures with no   *)
(* success between; during an outage calls are turned away until           *)
(* RecoveryTime has passed since the latest of those failures, then one is *)
(* let through.  Whether others follow before it settles is left open: ADR *)
(* 002 allows a single probe, the code lets them all through.              *)
(***************************************************************************)
EXTENDS Integers

CONSTANTS Callers, FailureThreshold, RecoveryTime, MaxFailures

VARIABLES
  streak,   \* the failures since the last success
  quiet,    \* the time since the last failure of an outage, Null without one
  trial,    \* the calls let through since then
  call

gateVars == <<streak, quiet, trial, call>>

Null == -1

Outage(n) == n > 0 /\ n >= FailureThreshold

\* Nobody may pass.
Shut == Outage(streak) /\ quiet < RecoveryTime

\* Somebody is on trial, and the others may be kept waiting for the verdict.
OnTrial == trial # {}

Init ==
  /\ streak = 0
  /\ quiet = Null
  /\ trial = {}
  /\ call = [c \in Callers |-> "none"]

TurnAway(c) ==
  /\ call[c] # "running"
  /\ Shut \/ OnTrial
  /\ call' = [call EXCEPT ![c] = "rejected"]
  /\ UNCHANGED <<streak, quiet, trial>>

LetThrough(c) ==
  /\ call[c] # "running"
  /\ ~Shut
  /\ call' = [call EXCEPT ![c] = "running"]
  /\ trial' = IF Outage(streak) THEN trial \cup {c} ELSE trial
  /\ UNCHANGED <<streak, quiet>>

SettleOk(c) ==
  /\ call[c] = "running"
  /\ call' = [call EXCEPT ![c] = "ok"]
  /\ streak' = 0
  /\ quiet' = Null
  /\ trial' = {}

SettleFailed(c) ==
  /\ call[c] = "running"
  /\ call' = [call EXCEPT ![c] = "failed"]
  /\ streak' = IF streak < MaxFailures THEN streak + 1 ELSE streak
  /\ quiet' = IF Outage(streak') THEN 0 ELSE Null
  /\ trial' = {}

TimePasses ==
  /\ quiet \in 0..(RecoveryTime - 1)
  /\ quiet' = quiet + 1
  /\ UNCHANGED <<streak, trial, call>>

Next ==
  \/ \E c \in Callers :
       TurnAway(c) \/ LetThrough(c) \/ SettleOk(c) \/ SettleFailed(c)
  \/ TimePasses

Spec == Init /\ [][Next]_gateVars
=============================================================================
