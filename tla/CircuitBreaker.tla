--------------------------- MODULE CircuitBreaker ---------------------------
(***************************************************************************)
(* The circuit breaker around every outbound RPC call                      *)
(* (src/utils/circuitBreaker.ts), shared by all requests of one process.   *)
(*                                                                         *)
(* `call' awaits the wrapped function, so any number of calls are between  *)
(* its admission test and its onSuccess / onFailure at the same time: an   *)
(* action is the code between two awaits.  The functions wrapped in this   *)
(* repository (simulator.ts:120, 477) never go through a breaker           *)
(* themselves, so the early rethrow of a nested circuitOpen error          *)
(* (line 58) is unreachable and is left out.                               *)
(*                                                                         *)
(* The only use of the clock is the age of openedAt against recoveryTimeMs,*)
(* so openedAt is kept as its age, which stops counting at RecoveryTime.   *)
(***************************************************************************)
EXTENDS Integers, FiniteSets

CONSTANTS
  Callers,           \* the calls that can be in flight at the same time
  FailureThreshold,  \* failureThreshold, any integer the environment gives
  RecoveryTime,      \* recoveryTimeMs, in ticks of the model's clock
  MaxFailures        \* bound: the failure counter stops counting here

ASSUME BreakerAssumption ==
  /\ FailureThreshold \in Int
  /\ RecoveryTime \in Nat
  /\ MaxFailures \in Nat \ {0}
  /\ MaxFailures >= FailureThreshold

VARIABLES
  state,     \* this.state
  failures,  \* this.failures
  openedAt,  \* the age of this.openedAt, or Null
  call,      \* what each caller last saw of the breaker
  trial      \* history: the calls admitted in the present half-open period

vars == <<state, failures, openedAt, call, trial>>

Null == -1

States == {"closed", "open", "half-open"}

\* "running": fn() is awaited.  The rest are how the last call settled.
CallStates == {"none", "running", "rejected", "ok", "failed"}

TypeOK ==
  /\ state \in States
  /\ failures \in 0..MaxFailures
  /\ openedAt \in {Null} \cup (0..RecoveryTime)
  /\ call \in [Callers -> CallStates]
  /\ trial \subseteq Callers

Init ==
  /\ state = "closed"
  /\ failures = 0
  /\ openedAt = Null
  /\ call = [c \in Callers |-> "none"]
  /\ trial = {}

-----------------------------------------------------------------------------
(* The entry of call: reject, or let fn start. *)

RecoveryElapsed == openedAt >= RecoveryTime

\* The thrown error carries circuitOpen and retryAfter; nothing else changes.
Reject(c) ==
  /\ call[c] # "running"
  /\ state = "open"
  /\ ~RecoveryElapsed
  /\ call' = [call EXCEPT ![c] = "rejected"]
  /\ UNCHANGED <<state, failures, openedAt, trial>>

\* Mutant: the first caller after the recovery time is the only one let in.
AdmitOnlyOneProbe(c) ==
  /\ call[c] # "running"
  /\ \/ /\ state = "closed"
        /\ UNCHANGED <<state, trial>>
     \/ /\ state = "open" /\ RecoveryElapsed
        /\ state' = "half-open"
        /\ trial' = trial \cup {c}
  /\ call' = [call EXCEPT ![c] = "running"]
  /\ UNCHANGED <<failures, openedAt>>

Admit(c) ==
  /\ call[c] # "running"
  /\ \/ /\ state = "closed"
        /\ UNCHANGED <<state, trial>>
     \/ /\ state = "half-open" \/ (state = "open" /\ RecoveryElapsed)
        /\ state' = "half-open"
        /\ trial' = trial \cup {c}
  /\ call' = [call EXCEPT ![c] = "running"]
  /\ UNCHANGED <<failures, openedAt>>

-----------------------------------------------------------------------------
(* The settlement of fn, whatever the state the breaker has reached since. *)

\* Mutant: a success that meets an open breaker resets the counter only.
SucceedKeepingOpenedAt(c) ==
  /\ call[c] = "running"
  /\ state' = "closed"
  /\ failures' = 0
  /\ UNCHANGED openedAt
  /\ call' = [call EXCEPT ![c] = "ok"]
  /\ trial' = {}

\* Mutant: a success in half-open resets the counter and does not close.
SucceedWithoutClosing(c) ==
  /\ call[c] = "running"
  /\ failures' = 0
  /\ openedAt' = Null
  /\ call' = [call EXCEPT ![c] = "ok"]
  /\ trial' = {}
  /\ UNCHANGED state

\* onSuccess
Succeed(c) ==
  /\ call[c] = "running"
  /\ state' = "closed"
  /\ failures' = 0
  /\ openedAt' = Null
  /\ call' = [call EXCEPT ![c] = "ok"]
  /\ trial' = {}

CountFailure == IF failures < MaxFailures THEN failures + 1 ELSE failures

Trips == state = "half-open" \/ CountFailure >= FailureThreshold

\* Mutant: openedAt is stamped when the breaker opens and not when it reopens.
FailWithoutRestamp(c) ==
  /\ call[c] = "running"
  /\ failures' = CountFailure
  /\ IF Trips
       THEN /\ state' = "open"
            /\ openedAt' = IF openedAt = Null THEN 0 ELSE openedAt
       ELSE UNCHANGED <<state, openedAt>>
  /\ call' = [call EXCEPT ![c] = "failed"]
  /\ trial' = {}

\* onFailure
Fail(c) ==
  /\ call[c] = "running"
  /\ failures' = CountFailure
  /\ IF Trips
       THEN state' = "open" /\ openedAt' = 0
       ELSE UNCHANGED <<state, openedAt>>
  /\ call' = [call EXCEPT ![c] = "failed"]
  /\ trial' = {}

\* Date.now() advances.
Tick ==
  /\ openedAt \in 0..(RecoveryTime - 1)
  /\ openedAt' = openedAt + 1
  /\ UNCHANGED <<state, failures, call, trial>>

Next ==
  \/ \E c \in Callers : Reject(c) \/ Admit(c) \/ Succeed(c) \/ Fail(c)
  \/ Tick

Spec == Init /\ [][Next]_vars

-----------------------------------------------------------------------------
(* Safety *)

Running == {c \in Callers : call[c] = "running"}

\* The three fields of the breaker agree, whatever order the calls settle in:
\* it is closed exactly when openedAt is unset, and open or half-open only at
\* or above the threshold.  So the `openedAt ?? 0' of call (lines 37, 41) never
\* falls back to 0, which would let every call through, and getState reports a
\* retryAfter whenever it reports "open".
FieldsAgree ==
  /\ (state = "closed") <=> (openedAt = Null)
  /\ state = "closed" => failures = 0 \/ failures < FailureThreshold
  /\ state # "closed" => failures > 0 /\ failures >= FailureThreshold

\* A half-open breaker is being probed: a call admitted in this half-open
\* period is still awaited, so its settlement will move the breaker out of
\* half-open.  No interleaving of stale settlements leaves it half-open with
\* nobody to decide.
HalfOpenIsProbed ==
  /\ (state = "half-open") <=> (trial # {})
  /\ trial \subseteq Running

\* Half-open begins after the recovery time, and its openedAt is not set again.
HalfOpenIsInTime == state = "half-open" => RecoveryElapsed

BreakerInv == TypeOK /\ FieldsAgree /\ HalfOpenIsProbed /\ HalfOpenIsInTime

Gate == INSTANCE OutageGate WITH streak <- failures, quiet <- openedAt

\* The breaker admits and rejects as the gate of OutageGate allows, for every
\* interleaving of admissions, settlements and clock ticks: in an outage all
\* calls are turned away for RecoveryTime after the latest counted failure, and
\* outside an outage, or once that time is over and nobody is on trial, none
\* is.  It says nothing of how many are let through while a trial lasts.
ImplementsOutageGate == Gate!Spec

\* docs/adr/002-circuit-breaker.md:23: half-open "allows a single probe call".
\* The code tests for "open" only, so half-open lets every caller through.
HalfOpenAllowsOneProbe == state = "half-open" => Cardinality(trial) <= 1

-----------------------------------------------------------------------------
(* Liveness *)

\* When the RPC fails no more, the breaker ends up closed for good.  Whether it
\* does depends on the calls it gets: ReadinessGate sends them.
ClosesWhenRpcHeals ==
  <>[][\A c \in Callers : ~Fail(c)]_vars => <>[](state = "closed")
=============================================================================
