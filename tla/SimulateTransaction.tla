------------------------- MODULE SimulateTransaction ------------------------
(***************************************************************************)
(* simulateTransaction (src/services/simulator.ts:384-737) for a set of    *)
(* concurrent requests of one process: the retry loop of withRetry         *)
(* (src/utils/retry.ts) around the shared circuit breaker around the RPC,  *)
(* then the TTL lookup (through the breaker, not retried, its failure      *)
(* swallowed) and the contract detection (not through the breaker) that    *)
(* run side by side before the answer.                                     *)
(*                                                                         *)
(* Every request misses the result cache: the only reachable `return' of a *)
(* successful simulation (line 558) precedes cache.set (line 733).         *)
(*                                                                         *)
(* The requests are the callers of the breaker: this module extends its    *)
(* specification, adds the requests' variables to its variables, and calls *)
(* its Admit, Reject, Succeed, Fail and Tick.                              *)
(***************************************************************************)
EXTENDS CircuitBreaker

CONSTANT MaxRetries  \* RPC_MAX_RETRIES

ASSUME SimulateAssumption ==
  /\ IsFiniteSet(Callers)
  /\ MaxRetries \in Nat

VARIABLES
  phase,    \* where each request stands
  attempt,  \* the loop variable of its withRetry
  detect,   \* its detectTokenContract: "none", "awaited" or "done"
  outcome,  \* how its simulateTransaction settled
  rpcs,     \* history: the breaker-guarded RPCs it has sent
  blamed    \* history: the failures counted since the last success, each as
            \* its request and the attempt

breakerVars == vars
requestVars == <<phase, attempt, detect, outcome, rpcs, blamed>>
simVars == <<breakerVars, requestVars>>

Phases == {"idle", "calling", "awaiting", "sleeping",
           "processing", "joining", "done"}

\* "failure" is a result with success: false; "shed" and "error" are thrown,
\* the first with circuitOpen set.
Outcomes == {"none", "success", "failure", "shed", "error"}

SimTypeOK ==
  /\ TypeOK
  /\ phase \in [Callers -> Phases]
  /\ attempt \in [Callers -> 0..MaxRetries]
  /\ detect \in [Callers -> {"none", "awaited", "done"}]
  /\ outcome \in [Callers -> Outcomes]
  /\ rpcs \in [Callers -> Nat]
  /\ blamed \subseteq Callers \X (0..MaxRetries)

SimInit ==
  /\ Init
  /\ phase = [r \in Callers |-> "idle"]
  /\ attempt = [r \in Callers |-> 0]
  /\ detect = [r \in Callers |-> "none"]
  /\ outcome = [r \in Callers |-> "none"]
  /\ rpcs = [r \in Callers |-> 0]
  /\ blamed = {}

-----------------------------------------------------------------------------

Goto(r, p) == phase' = [phase EXCEPT ![r] = p]

Settle(r, o) == Goto(r, "done") /\ outcome' = [outcome EXCEPT ![r] = o]

Continue(r, p) == Goto(r, p) /\ UNCHANGED outcome

SendRpc(r) == Admit(r) /\ rpcs' = [rpcs EXCEPT ![r] = @ + 1]

RpcFails(r) == Fail(r) /\ blamed' = blamed \cup {<<r, attempt[r]>>}

RpcSucceeds(r) == Succeed(r) /\ blamed' = {}

\* An envelope that does not parse throws; a classic transaction is refused
\* before any RPC; a Soroban one enters the retry loop.
Begin(r) ==
  /\ phase[r] = "idle"
  /\ \/ Settle(r, "error")
     \/ Settle(r, "failure")
     \/ Continue(r, "calling")
  /\ UNCHANGED <<breakerVars, attempt, detect, rpcs, blamed>>

CallSimulate(r) ==
  /\ phase[r] = "calling"
  /\ SendRpc(r)
  /\ Continue(r, "awaiting")
  /\ UNCHANGED <<attempt, detect, blamed>>

\* Mutant: the circuit-open error is retried like a transient one.
ShedSimulateRetrying(r) ==
  /\ phase[r] = "calling"
  /\ Reject(r)
  /\ IF attempt[r] < MaxRetries
       THEN Continue(r, "sleeping")
       ELSE Settle(r, "shed")
  /\ UNCHANGED <<attempt, detect, rpcs, blamed>>

\* "Circuit breaker is open" is not a transient error: it ends the loop.
ShedSimulate(r) ==
  /\ phase[r] = "calling"
  /\ Reject(r)
  /\ Settle(r, "shed")
  /\ UNCHANGED <<attempt, detect, rpcs, blamed>>

\* A simulation error, a restore preamble or a missing transactionData is an
\* answer of the RPC, a success to the breaker and a failure to the client.
SimulateAnswers(r) ==
  /\ phase[r] = "awaiting"
  /\ RpcSucceeds(r)
  /\ \/ Settle(r, "failure")
     \/ Continue(r, "processing")
  /\ UNCHANGED <<attempt, detect, rpcs>>

\* Mutant: the test before the last attempt is attempt > maxRetries.
SimulateFailsOneTooMany(r) ==
  /\ phase[r] = "awaiting"
  /\ RpcFails(r)
  /\ \/ attempt[r] <= MaxRetries /\ Continue(r, "sleeping")
     \/ Settle(r, "error")
  /\ UNCHANGED <<attempt, detect, rpcs>>

\* The error is transient, and retried after a delay, or it is thrown.
SimulateFails(r) ==
  /\ phase[r] = "awaiting"
  /\ RpcFails(r)
  /\ \/ attempt[r] < MaxRetries /\ Continue(r, "sleeping")
     \/ Settle(r, "error")
  /\ UNCHANGED <<attempt, detect, rpcs>>

\* The delay of 100 * 2^attempt ms is over.
Wake(r) ==
  /\ phase[r] = "sleeping"
  /\ attempt' = [attempt EXCEPT ![r] = @ + 1]
  /\ Continue(r, "calling")
  /\ UNCHANGED <<breakerVars, detect, rpcs, blamed>>

-----------------------------------------------------------------------------
(* _processSimulationResult: Promise.all of fetchTtlInfo and               *)
(* detectTokenContract, whose first halves run before either is awaited.   *)

\* An empty footprint needs neither; a known contract type needs no RPC.
StartDetection(r) ==
  \E d \in {"awaited", "done"} : detect' = [detect EXCEPT ![r] = d]

\* The request is answered when both halves of the Promise.all are done.
Join(r, d) ==
  IF d = "done" THEN Settle(r, "success") ELSE Continue(r, "joining")

NoTtlNeeded(r) ==
  /\ phase[r] = "processing" /\ detect[r] = "none"
  /\ Settle(r, "success")
  /\ detect' = [detect EXCEPT ![r] = "done"]
  /\ UNCHANGED <<breakerVars, attempt, rpcs, blamed>>

CallTtl(r) ==
  /\ phase[r] = "processing" /\ detect[r] = "none"
  /\ SendRpc(r)
  /\ StartDetection(r)
  /\ UNCHANGED <<phase, outcome, attempt, blamed>>

\* Mutant: fetchTtlInfo lets the circuit-open error through.
ShedTtlThrowing(r) ==
  /\ phase[r] = "processing" /\ detect[r] = "none"
  /\ Reject(r)
  /\ StartDetection(r)
  /\ Settle(r, "shed")
  /\ UNCHANGED <<attempt, rpcs, blamed>>

ShedTtl(r) ==
  /\ phase[r] = "processing" /\ detect[r] = "none"
  /\ Reject(r)
  /\ StartDetection(r)
  /\ Join(r, detect'[r])
  /\ UNCHANGED <<attempt, rpcs, blamed>>

\* The TTL lookup returns or throws; its catch block returns no TTLs.
TtlReturns(r) ==
  /\ phase[r] = "processing"
  /\ RpcSucceeds(r) \/ RpcFails(r)
  /\ Join(r, detect[r])
  /\ UNCHANGED <<attempt, detect, rpcs>>

\* Mutant: the detection alone answers the request.
DetectionReturnsAlone(r) ==
  /\ detect[r] = "awaited"
  /\ detect' = [detect EXCEPT ![r] = "done"]
  /\ Settle(r, "success")
  /\ UNCHANGED <<breakerVars, attempt, rpcs, blamed>>

\* Mutant: a detection that ends after the TTL lookup does not wake the request.
DetectionReturnsUnheard(r) ==
  /\ detect[r] = "awaited"
  /\ detect' = [detect EXCEPT ![r] = "done"]
  /\ UNCHANGED <<breakerVars, phase, outcome, attempt, rpcs, blamed>>

\* detectTokenContract catches every error too.
DetectionReturns(r) ==
  /\ detect[r] = "awaited"
  /\ detect' = [detect EXCEPT ![r] = "done"]
  /\ IF phase[r] = "joining"
       THEN Settle(r, "success")
       ELSE UNCHANGED <<phase, outcome>>
  /\ UNCHANGED <<breakerVars, attempt, rpcs, blamed>>

-----------------------------------------------------------------------------

SimTick == Tick /\ UNCHANGED requestVars

RpcReturns(r) == SimulateAnswers(r) \/ SimulateFails(r) \/ TtlReturns(r)

Proceed(r) ==
  \/ CallSimulate(r) \/ ShedSimulate(r) \/ Wake(r)
  \/ NoTtlNeeded(r) \/ CallTtl(r) \/ ShedTtl(r)

SimNext ==
  \/ \E r \in Callers :
       Begin(r) \/ Proceed(r) \/ RpcReturns(r) \/ DetectionReturns(r)
  \/ SimTick

SimSpec == SimInit /\ [][SimNext]_simVars

\* Timers fire, the event loop runs what is ready, every RPC settles.
SimFairSpec ==
  /\ SimSpec
  /\ WF_simVars(SimTick)
  /\ \A r \in Callers :
       /\ WF_simVars(Proceed(r))
       /\ WF_simVars(RpcReturns(r))
       /\ WF_simVars(DetectionReturns(r))

-----------------------------------------------------------------------------
(* Safety *)

\* A request sends the simulation at most once more than RPC_MAX_RETRIES and
\* the TTL lookup once, and it holds no RPC or detection once it is answered:
\* nothing it started is left running behind the answer.
WorkIsBounded ==
  \A r \in Callers :
    /\ rpcs[r] <= (MaxRetries + 1) + (IF detect[r] = "none" THEN 0 ELSE 1)
    /\ phase[r] = "done" => call[r] # "running" /\ detect[r] # "awaited"

\* The breaker opens on the failures of many requests, never on the retries of
\* a few: with N requests to blame, at most N * (maxRetries + 1) failures have
\* been counted.  With the defaults (3 retries, threshold 5) a single request
\* against a dead RPC cannot shed the others.
SheddingNeedsManyRequests ==
  state # "closed" =>
    Cardinality({b[1] : b \in blamed}) * (MaxRetries + 1) >= FailureThreshold

\* Once the simulation has answered with a footprint, nothing that happens to
\* the TTL lookup or to the detection, an open breaker included, turns the
\* request into a failure.
FootprintIsDelivered ==
  [][\A r \in Callers :
       phase[r] \in {"processing", "joining"} =>
         outcome'[r] \in {"none", "success"}]_simVars

\* A rejection by the breaker is final: the request that met it sends nothing
\* more through the breaker, and no retry of it waits for the recovery time.
ShedIsFinal ==
  \A r \in Callers :
    call[r] = "rejected" =>
      \/ phase[r] = "done" /\ outcome[r] \in {"shed", "success"}
      \/ phase[r] = "joining"

-----------------------------------------------------------------------------
(* Liveness *)

\* Every request that begins is answered: the retry loop and the Promise.all
\* end under any mixture of failures, shedding and recoveries.
EveryRequestSettles ==
  \A r \in Callers : phase[r] = "calling" ~> phase[r] = "done"
=============================================================================
