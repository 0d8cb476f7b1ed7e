---------------------------- MODULE ReadinessGate ---------------------------
(***************************************************************************)
(* The circuit breaker in its pod: the requests that call it, and the      *)
(* readiness probe through which it decides over those requests.  GET      *)
(* /health/ready draws its verdict from the breaker                        *)
(* (src/api/controllers.ts:88-93), and by the probe settings of            *)
(* k8s/deployment.yaml a pod that fails it leaves the Service's rotation.  *)
(* Out of rotation the pod gets no new request, so nothing but requests    *)
(* already accepted (a retry, a TTL lookup) calls the breaker; and only a  *)
(* call takes a breaker out of "open".  docker-compose.yml runs the        *)
(* service without a readiness probe: there the requests keep coming.      *)
(*                                                                         *)
(* The cache is taken to be healthy.                                       *)
(***************************************************************************)
EXTENDS CircuitBreaker

CONSTANTS
  Responsive,     \* the callers whose RPC is known to settle
  MaxFollowUps,   \* breaker calls of a request after its first one
  ProbePeriod,    \* periodSeconds, in ticks
  ProbeFailures   \* failureThreshold of the readiness probe

ASSUME GateAssumption ==
  /\ Responsive \subseteq Callers
  /\ MaxFollowUps \in Nat
  /\ ProbePeriod \in Nat \ {0}
  /\ ProbeFailures \in Nat \ {0}

VARIABLES
  probed,      \* is there a readiness probe?
  followUps,   \* the calls each accepted request may still make
  ready,       \* is the pod in rotation?
  strikes,     \* consecutive failed probes
  sinceProbe   \* ticks since the last probe

rotationVars == <<ready, strikes, sinceProbe>>
podVars == <<vars, probed, followUps, rotationVars>>

PodInit ==
  /\ Init
  /\ probed \in BOOLEAN
  /\ followUps = [c \in Callers |-> 0]
  /\ ready = TRUE
  /\ strikes = 0
  /\ sinceProbe = 0

-----------------------------------------------------------------------------

\* A request reaches the pod and makes its first call.
Arrive(c) ==
  /\ ready
  /\ \/ Admit(c) /\ followUps' = [followUps EXCEPT ![c] = MaxFollowUps]
     \/ Reject(c) /\ followUps' = [followUps EXCEPT ![c] = 0]
  /\ UNCHANGED <<probed, rotationVars>>

\* A request accepted before calls again: a retry, or the TTL lookup.
FollowUp(c) ==
  /\ call[c] \in {"ok", "failed"} /\ followUps[c] > 0
  /\ \/ Admit(c) /\ followUps' = [followUps EXCEPT ![c] = @ - 1]
     \/ Reject(c) /\ followUps' = [followUps EXCEPT ![c] = 0]
  /\ UNCHANGED <<probed, rotationVars>>

Settle(c) ==
  /\ Succeed(c) \/ Fail(c)
  /\ UNCHANGED <<probed, followUps, rotationVars>>

\* Mutant: only a closed breaker is healthy.
ProbeOnlyClosed ==
  /\ probed /\ sinceProbe = ProbePeriod
  /\ sinceProbe' = 0
  /\ IF state # "closed"
       THEN /\ strikes' = IF strikes < ProbeFailures THEN strikes + 1 ELSE strikes
            /\ ready' = (ready /\ strikes' < ProbeFailures)
       ELSE strikes' = 0 /\ ready' = TRUE
  /\ UNCHANGED <<vars, probed, followUps>>

\* The kubelet asks /api/v1/health/ready, the documented path; "half-open" counts
\* as healthy.
Probe ==
  /\ probed /\ sinceProbe = ProbePeriod
  /\ sinceProbe' = 0
  /\ IF state = "open"
       THEN /\ strikes' = IF strikes < ProbeFailures THEN strikes + 1 ELSE strikes
            /\ ready' = (ready /\ strikes' < ProbeFailures)
       ELSE strikes' = 0 /\ ready' = TRUE
  /\ UNCHANGED <<vars, probed, followUps>>

\* A tick of the clock that the breaker and the kubelet share
PodTick ==
  /\ Tick \/ (openedAt \notin 0..(RecoveryTime - 1) /\ UNCHANGED vars)
  /\ probed => sinceProbe < ProbePeriod
  /\ sinceProbe' = IF probed THEN sinceProbe + 1 ELSE sinceProbe
  /\ UNCHANGED <<probed, followUps, ready, strikes>>

PodNext ==
  \/ \E c \in Callers : Arrive(c) \/ FollowUp(c) \/ Settle(c)
  \/ Probe
  \/ PodTick

PodSpec == PodInit /\ [][PodNext]_podVars

\* Time passes, the kubelet probes, the RPCs of responsive callers settle and,
\* while the pod is in rotation, these callers' requests keep arriving.  Nothing
\* is assumed of the others: the SDK sets no timeout on its HTTP requests, so a
\* wrapped call may never return.  A request need not call a second time.
PodFairSpec ==
  /\ PodSpec
  /\ WF_podVars(PodTick)
  /\ WF_podVars(Probe)
  /\ \A c \in Responsive : WF_podVars(Arrive(c)) /\ WF_podVars(Settle(c))

-----------------------------------------------------------------------------
(* Liveness *)

\* As long as requests keep coming, the breaker closes for good once the RPC fails
\* no more, even if one of the calls that probe it hangs for ever: half-open lets
\* the next calls through too (circuitBreaker.ts:36-51 tests only for "open").
RecoversWhenRpcHeals == ~probed => ClosesWhenRpcHeals

\* A pod whose breaker has been given a call to decide on is never left out of
\* rotation, not even if that call hangs: /health/ready takes half-open for
\* healthy, which brings the next requests.
TrialOpensTheGate == state = "half-open" ~> ready \/ state = "open"

-----------------------------------------------------------------------------
(* What the documents say and the code does not do *)

\* docs/adr/002-circuit-breaker.md:53, "Automatic recovery: The half-open probe
\* removes the need for manual intervention when the RPC comes back online":
\* once RPCs fail no more the breaker closes for good, also behind the probe.
RecoversBehindReadiness == probed => ClosesWhenRpcHeals
=============================================================================
