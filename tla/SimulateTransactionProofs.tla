---------------------- MODULE SimulateTransactionProofs ---------------------
(***************************************************************************)
(* For every set of concurrent calls, every failure threshold (also the    *)
(* zero and the negative ones CB_FAILURE_THRESHOLD may hold) and every     *)
(* recovery time: the fields of the breaker agree, a half-open breaker is  *)
(* being probed, and the breaker implements the gate of OutageGate.        *)
(*                                                                         *)
(* For every finite set of concurrent requests and every RPC_MAX_RETRIES:  *)
(* the requests use the breaker as CircuitBreaker says, a request's work   *)
(* is bounded, a rejection by the breaker is final, a footprint once       *)
(* obtained is delivered, and the breaker sheds load only after the        *)
(* failures of enough requests.                                            *)
(***************************************************************************)
EXTENDS SimulateTransaction, FiniteSetTheorems, TLAPS

-----------------------------------------------------------------------------
(* The breaker *)

\* onFailure's counter stays a natural number within the bound, grows, and is
\* at least one: the facts every use of CountFailure rests on.
LEMMA CountFailureInRange ==
  ASSUME failures \in 0..MaxFailures
  PROVE  /\ CountFailure \in 1..MaxFailures
         /\ failures < FailureThreshold \/ CountFailure >= FailureThreshold
BY BreakerAssumption DEF CountFailure

LEMMA BreakerInitInv == Init => BreakerInv
BY BreakerAssumption
   DEF Init, BreakerInv, TypeOK, FieldsAgree, HalfOpenIsProbed,
       HalfOpenIsInTime, Running, States, CallStates, Null

\* BreakerInv is inductive.  FieldsAgree needs the type of the counters;
\* HalfOpenIsProbed and HalfOpenIsInTime need no other part, but a reader thinks
\* of them as one picture of the breaker.
LEMMA BreakerStepInv == BreakerInv /\ [Next]_vars => BreakerInv'
<1> SUFFICES ASSUME BreakerInv, [Next]_vars
             PROVE  BreakerInv'
  OBVIOUS
<1> USE BreakerAssumption DEF BreakerInv
<1> USE DEF TypeOK, States, CallStates, Null
<1>1. ASSUME NEW c \in Callers, Reject(c)
      PROVE  BreakerInv'
  BY <1>1 DEF Reject, FieldsAgree, HalfOpenIsProbed, HalfOpenIsInTime,
              RecoveryElapsed, Running
<1>2. ASSUME NEW c \in Callers, Admit(c)
      PROVE  BreakerInv'
  <2>1. TypeOK'
    BY <1>2 DEF Admit
  <2>2. FieldsAgree'
    BY <1>2 DEF Admit, FieldsAgree, RecoveryElapsed
  <2>3. HalfOpenIsProbed' /\ HalfOpenIsInTime'
    BY <1>2 DEF Admit, HalfOpenIsProbed, HalfOpenIsInTime, RecoveryElapsed,
                Running
  <2>4. QED
    BY <2>1, <2>2, <2>3
<1>3. ASSUME NEW c \in Callers, Succeed(c)
      PROVE  BreakerInv'
  BY <1>3 DEF Succeed, FieldsAgree, HalfOpenIsProbed, HalfOpenIsInTime,
              RecoveryElapsed, Running
<1>4. ASSUME NEW c \in Callers, Fail(c)
      PROVE  BreakerInv'
  <2>1. /\ CountFailure \in 1..MaxFailures
        /\ failures < FailureThreshold \/ CountFailure >= FailureThreshold
    BY CountFailureInRange
  <2>2. TypeOK'
    BY <1>4, <2>1 DEF Fail
  <2>3. FieldsAgree'
    BY <1>4, <2>1 DEF Fail, Trips, FieldsAgree
  <2>4. HalfOpenIsProbed'
    BY <1>4 DEF Fail, Trips, HalfOpenIsProbed, Running
  <2>5. HalfOpenIsInTime'
    BY <1>4 DEF Fail, Trips, HalfOpenIsInTime, RecoveryElapsed
  <2>6. QED
    BY <2>2, <2>3, <2>4, <2>5
<1>5. CASE Tick
  BY <1>5 DEF Tick, FieldsAgree, HalfOpenIsProbed, HalfOpenIsInTime,
              RecoveryElapsed, Running
<1>6. CASE UNCHANGED vars
  BY <1>6 DEF vars, FieldsAgree, HalfOpenIsProbed, HalfOpenIsInTime,
              RecoveryElapsed, Running
<1>7. QED
  BY <1>1, <1>2, <1>3, <1>4, <1>5, <1>6 DEF Next

\* The inductive invariant holds of every behaviour.
THEOREM BreakerInvariant == Spec => []BreakerInv
<1>1. Init => BreakerInv
  BY BreakerInitInv
<1>2. BreakerInv /\ [Next]_vars => BreakerInv'
  BY BreakerStepInv
<1>3. QED
  BY <1>1, <1>2, PTL DEF Spec

\* The variables keep their types (circuitBreaker.ts:9-14).
THEOREM BreakerTypeCorrect == Spec => []TypeOK
<1>1. BreakerInv => TypeOK
  BY DEF BreakerInv
<1>2. QED
  BY <1>1, BreakerInvariant, PTL

\* openedAt is set exactly when the breaker is not closed, and the failure
\* count is on the matching side of the threshold, whatever the interleaving.
THEOREM FieldsAlwaysAgree == Spec => []FieldsAgree
<1>1. BreakerInv => FieldsAgree
  BY DEF BreakerInv
<1>2. QED
  BY <1>1, BreakerInvariant, PTL

\* A half-open breaker always has a call in flight that will decide its state.
THEOREM HalfOpenAlwaysProbed == Spec => []HalfOpenIsProbed
<1>1. BreakerInv => HalfOpenIsProbed
  BY DEF BreakerInv
<1>2. QED
  BY <1>1, BreakerInvariant, PTL

\* Every step of the breaker is a step of the gate, or leaves it unchanged.
LEMMA BreakerStepRefines ==
  BreakerInv /\ [Next]_vars => [Gate!Next]_(Gate!gateVars)
<1> SUFFICES ASSUME BreakerInv, [Next]_vars
             PROVE  [Gate!Next]_(Gate!gateVars)
  OBVIOUS
<1> USE BreakerAssumption
<1>a. Gate!Outage(failures) <=> state # "closed"
  BY DEF BreakerInv, TypeOK, FieldsAgree, Gate!Outage, States
<1>b. Gate!Shut <=> state = "open" /\ ~RecoveryElapsed
  BY <1>a DEF Gate!Shut, RecoveryElapsed, BreakerInv, TypeOK, FieldsAgree,
              HalfOpenIsInTime, States, Null
<1>1. ASSUME NEW c \in Callers, Reject(c)
      PROVE  Gate!TurnAway(c)
  BY <1>1, <1>b DEF Reject, Gate!TurnAway
<1>2. ASSUME NEW c \in Callers, Admit(c)
      PROVE  Gate!LetThrough(c)
  BY <1>2, <1>a, <1>b DEF Admit, Gate!LetThrough
<1>3. ASSUME NEW c \in Callers, Succeed(c)
      PROVE  Gate!SettleOk(c)
  BY <1>3 DEF Succeed, Gate!SettleOk, Null, Gate!Null
<1>4. ASSUME NEW c \in Callers, Fail(c)
      PROVE  Gate!SettleFailed(c)
  <2>1. /\ CountFailure \in 1..MaxFailures
        /\ failures < FailureThreshold \/ CountFailure >= FailureThreshold
    BY CountFailureInRange DEF BreakerInv, TypeOK
  <2>2. failures' = CountFailure
    BY <1>4 DEF Fail
  <2>3. Trips <=> Gate!Outage(CountFailure)
    BY <1>a, <2>1 DEF Trips, Gate!Outage, BreakerInv, TypeOK
  <2>4. ~Trips => openedAt = Gate!Null
    BY <2>1, <2>3, <1>a DEF Gate!Outage, Trips, BreakerInv, TypeOK, FieldsAgree,
                            Null, Gate!Null
  <2>5. openedAt' = IF Gate!Outage(failures') THEN 0 ELSE Gate!Null
    BY <1>4, <2>2, <2>3, <2>4 DEF Fail
  <2>6. QED
    BY <1>4, <2>5 DEF Fail, CountFailure, Gate!SettleFailed
<1>5. CASE Tick
  BY <1>5 DEF Tick, Gate!TimePasses, Gate!Next
<1>6. CASE UNCHANGED vars
  BY <1>6 DEF vars, Gate!gateVars
<1>7. QED
  BY <1>1, <1>2, <1>3, <1>4, <1>5, <1>6 DEF Next, Gate!Next

\* The breaker implements the gate: what a caller sees of it is decided by the
\* run of failures since the last success and the time since the latest one.
THEOREM BreakerImplementsGate == Spec => ImplementsOutageGate
<1>1. Init => Gate!Init
  BY DEF Init, Gate!Init, Null, Gate!Null
<1>2. BreakerInv /\ [Next]_vars => [Gate!Next]_(Gate!gateVars)
  BY BreakerStepRefines
<1>3. QED
  BY <1>1, <1>2, BreakerInvariant, PTL DEF Spec, ImplementsOutageGate, Gate!Spec

-----------------------------------------------------------------------------
(* The inductive invariant *)

\* What a request has sent and what it awaits, phase by phase.
SendsInTurn(r) ==
  /\ phase[r] = "idle" =>
       attempt[r] = 0 /\ rpcs[r] = 0 /\ detect[r] = "none" /\ call[r] = "none"
  /\ phase[r] = "calling" =>
       rpcs[r] <= attempt[r] /\ detect[r] = "none" /\ call[r] \in {"none", "failed"}
  /\ phase[r] = "awaiting" =>
       rpcs[r] <= attempt[r] + 1 /\ detect[r] = "none" /\ call[r] = "running"
  /\ phase[r] = "sleeping" =>
       /\ rpcs[r] <= attempt[r] + 1 /\ detect[r] = "none" /\ call[r] = "failed"
       /\ attempt[r] < MaxRetries
  /\ phase[r] = "processing" =>
       IF detect[r] = "none"
         THEN rpcs[r] <= attempt[r] + 1 /\ call[r] = "ok"
         ELSE rpcs[r] <= attempt[r] + 2 /\ call[r] = "running"
  /\ phase[r] = "joining" =>
       rpcs[r] <= attempt[r] + 2 /\ detect[r] = "awaited" /\ call[r] # "running"
  /\ phase[r] = "done" =>
       /\ rpcs[r] <= attempt[r] + (IF detect[r] = "none" THEN 1 ELSE 2)
       /\ detect[r] # "awaited" /\ call[r] # "running"

\* A request has an outcome only when it is answered, and one that the breaker
\* turned away is answered with the rejection, or with its footprint.
AnswersOnce(r) ==
  /\ phase[r] # "done" => outcome[r] = "none"
  /\ phase[r] = "done" /\ call[r] = "rejected" => outcome[r] \in {"shed", "success"}

\* A failure is blamed on the attempt it ended: a request that may still fail
\* has no failure of its present attempt on record.
BlamedAttemptsAreOver ==
  \A r \in Callers, a \in 0..MaxRetries :
    <<r, a>> \in blamed =>
      /\ a <= attempt[r]
      /\ phase[r] \notin {"sleeping", "joining", "done"} => a < attempt[r]

\* The breaker counts no failure that is not on record.
FailuresAreBlamed == failures <= Cardinality(blamed)

IInv ==
  /\ SimTypeOK
  /\ BreakerInv
  /\ \A r \in Callers : SendsInTurn(r) /\ AnswersOnce(r)
  /\ BlamedAttemptsAreOver
  /\ FailuresAreBlamed

Act(r) == Begin(r) \/ Proceed(r) \/ RpcReturns(r) \/ DetectionReturns(r)

-----------------------------------------------------------------------------
(* The requests and the breaker *)

\* A request touches the breaker only as one of its callers does.
LEMMA EveryStepIsTheBreakers == [SimNext]_simVars => [Next]_vars
<1> SUFFICES ASSUME [SimNext]_simVars
             PROVE  [Next]_vars
  OBVIOUS
<1> USE DEF breakerVars, vars
<1>1. ASSUME NEW r \in Callers, Act(r)
      PROVE  Next \/ UNCHANGED vars
  <2>1. CASE Begin(r) \/ Wake(r) \/ NoTtlNeeded(r) \/ DetectionReturns(r)
    BY <2>1 DEF Begin, Wake, NoTtlNeeded, DetectionReturns
  <2>2. CASE CallSimulate(r) \/ CallTtl(r)
    BY <2>2 DEF CallSimulate, CallTtl, SendRpc, Next
  <2>3. CASE ShedSimulate(r) \/ ShedTtl(r)
    BY <2>3 DEF ShedSimulate, ShedTtl, Next
  <2>4. CASE RpcReturns(r)
    BY <2>4 DEF RpcReturns, SimulateAnswers, SimulateFails, TtlReturns,
                RpcSucceeds, RpcFails, Next
  <2>5. QED
    BY <1>1, <2>1, <2>2, <2>3, <2>4 DEF Act, Proceed
<1>2. CASE SimTick
  BY <1>2 DEF SimTick, Next
<1>3. CASE UNCHANGED simVars
  BY <1>3 DEF simVars
<1>4. QED
  BY <1>1, <1>2, <1>3 DEF SimNext, Act

LEMMA BreakerKept == BreakerInv /\ [SimNext]_simVars => BreakerInv'
BY BreakerStepInv, EveryStepIsTheBreakers

\* The requests and the SDK's RPCs drive the breaker by its own specification:
\* what CircuitBreaker promises its callers, simulateTransaction gets.
THEOREM RequestsUseTheBreaker == SimSpec => Spec
<1>1. SimInit => Init
  BY DEF SimInit
<1>2. QED
  BY <1>1, EveryStepIsTheBreakers, PTL DEF SimSpec, Spec

-----------------------------------------------------------------------------
(* The steps of one request *)

\* A step of a request leaves the other requests where they are.
LEMMA Untouched ==
  ASSUME SimTypeOK, NEW r \in Callers, NEW q \in Callers, q # r, Act(r)
  PROVE  /\ phase'[q] = phase[q] /\ attempt'[q] = attempt[q]
         /\ detect'[q] = detect[q] /\ outcome'[q] = outcome[q]
         /\ rpcs'[q] = rpcs[q] /\ call'[q] = call[q]
<1> USE DEF SimTypeOK, TypeOK, Goto, Settle, Continue, Join, breakerVars, vars
<1>1. CASE Begin(r)
  BY <1>1 DEF Begin
<1>2. CASE CallSimulate(r)
  BY <1>2 DEF CallSimulate, SendRpc, Admit
<1>3. CASE ShedSimulate(r)
  BY <1>3 DEF ShedSimulate, Reject
<1>4. CASE Wake(r)
  BY <1>4 DEF Wake
<1>5. CASE NoTtlNeeded(r)
  BY <1>5 DEF NoTtlNeeded
<1>6. CASE CallTtl(r)
  BY <1>6 DEF CallTtl, SendRpc, StartDetection, Admit
<1>7. CASE ShedTtl(r)
  BY <1>7 DEF ShedTtl, StartDetection, Reject
<1>8. CASE SimulateAnswers(r)
  BY <1>8 DEF SimulateAnswers, RpcSucceeds, Succeed
<1>9. CASE SimulateFails(r)
  BY <1>9 DEF SimulateFails, RpcFails, Fail
<1>10. CASE TtlReturns(r)
  BY <1>10 DEF TtlReturns, RpcSucceeds, RpcFails, Succeed, Fail
<1>11. CASE DetectionReturns(r)
  BY <1>11 DEF DetectionReturns
<1>12. QED
  BY <1>1, <1>2, <1>3, <1>4, <1>5, <1>6, <1>7, <1>8, <1>9, <1>10, <1>11
     DEF Act, Proceed, RpcReturns

\* The variables of the requests keep their types; only Wake, which follows a
\* failure before the last attempt, raises attempt.
LEMMA TypesKept ==
  ASSUME SimTypeOK, BreakerInv', NEW r \in Callers, SendsInTurn(r), Act(r)
  PROVE  SimTypeOK'
<1> USE BreakerAssumption, SimulateAssumption
<1> USE DEF SimTypeOK, Goto, Settle, Continue, Join, Phases, Outcomes
<1>0. TypeOK'
  BY DEF BreakerInv
<1>1. CASE Begin(r)
  BY <1>0, <1>1 DEF Begin
<1>2. CASE CallSimulate(r)
  BY <1>0, <1>2 DEF CallSimulate, SendRpc
<1>3. CASE ShedSimulate(r)
  BY <1>0, <1>3 DEF ShedSimulate
<1>4. CASE Wake(r)
  BY <1>0, <1>4 DEF Wake, SendsInTurn
<1>5. CASE NoTtlNeeded(r)
  BY <1>0, <1>5 DEF NoTtlNeeded
<1>6. CASE CallTtl(r)
  BY <1>0, <1>6 DEF CallTtl, SendRpc, StartDetection
<1>7. CASE ShedTtl(r)
  BY <1>0, <1>7 DEF ShedTtl, StartDetection
<1>8. CASE SimulateAnswers(r)
  BY <1>0, <1>8 DEF SimulateAnswers, RpcSucceeds
<1>9. CASE SimulateFails(r)
  BY <1>0, <1>9 DEF SimulateFails, RpcFails
<1>10. CASE TtlReturns(r)
  BY <1>0, <1>10 DEF TtlReturns, RpcSucceeds, RpcFails
<1>11. CASE DetectionReturns(r)
  BY <1>0, <1>11 DEF DetectionReturns
<1>12. QED
  BY <1>1, <1>2, <1>3, <1>4, <1>5, <1>6, <1>7, <1>8, <1>9, <1>10, <1>11
     DEF Act, Proceed, RpcReturns

\* A request's own step takes it from one phase's picture to the next one's.
LEMMA PhasesKept ==
  ASSUME SimTypeOK, NEW r \in Callers, SendsInTurn(r), AnswersOnce(r), Act(r)
  PROVE  SendsInTurn(r)' /\ AnswersOnce(r)'
<1> USE BreakerAssumption, SimulateAssumption
<1> USE DEF SimTypeOK, TypeOK, Goto, Settle, Continue, Join, breakerVars, vars,
            SendsInTurn, AnswersOnce, Phases
<1>1. CASE Begin(r)
  BY <1>1 DEF Begin
<1>2. CASE CallSimulate(r)
  BY <1>2 DEF CallSimulate, SendRpc, Admit
<1>3. CASE ShedSimulate(r)
  BY <1>3 DEF ShedSimulate, Reject
<1>4. CASE Wake(r)
  BY <1>4 DEF Wake
<1>5. CASE NoTtlNeeded(r)
  BY <1>5 DEF NoTtlNeeded
<1>6. CASE CallTtl(r)
  BY <1>6 DEF CallTtl, SendRpc, StartDetection, Admit
<1>7. CASE ShedTtl(r)
  BY <1>7 DEF ShedTtl, StartDetection, Reject
<1>8. CASE SimulateAnswers(r)
  BY <1>8 DEF SimulateAnswers, RpcSucceeds, Succeed
<1>9. CASE SimulateFails(r)
  BY <1>9 DEF SimulateFails, RpcFails, Fail
<1>10. CASE TtlReturns(r)
  BY <1>10 DEF TtlReturns, RpcSucceeds, RpcFails, Succeed, Fail
<1>11. CASE DetectionReturns(r)
  BY <1>11 DEF DetectionReturns
<1>12. QED
  BY <1>1, <1>2, <1>3, <1>4, <1>5, <1>6, <1>7, <1>8, <1>9, <1>10, <1>11
     DEF Act, Proceed, RpcReturns

-----------------------------------------------------------------------------
(* The failures on record *)

LEMMA BlamedIsFinite ==
  ASSUME SimTypeOK
  PROVE  IsFiniteSet(blamed)
<1>1. IsFiniteSet(0..MaxRetries)
  BY BreakerAssumption, SimulateAssumption, FS_Interval
<1>2. IsFiniteSet(Callers \X (0..MaxRetries))
  BY <1>1, BreakerAssumption, SimulateAssumption, FS_Product
<1>3. QED
  BY <1>2, FS_Subset DEF SimTypeOK

\* A step of a request puts a new failure on record when it makes the breaker
\* count one, clears the record when the breaker clears its counter, and leaves
\* both alone otherwise.
LEMMA Recorded ==
  ASSUME SimTypeOK, NEW r \in Callers, Act(r)
  PROVE  \/ /\ RpcFails(r)
            /\ phase[r] \in {"awaiting", "processing"}
            /\ phase'[r] \in {"sleeping", "joining", "done"}
            /\ attempt' = attempt
         \/ RpcSucceeds(r)
         \/ UNCHANGED <<blamed, failures>>
<1> USE DEF SimTypeOK, Goto, Settle, Continue, Join, breakerVars, vars
<1>1. CASE Begin(r) \/ Wake(r) \/ NoTtlNeeded(r) \/ DetectionReturns(r)
  BY <1>1 DEF Begin, Wake, NoTtlNeeded, DetectionReturns
<1>2. CASE CallSimulate(r) \/ CallTtl(r)
  BY <1>2 DEF CallSimulate, CallTtl, SendRpc, Admit
<1>3. CASE ShedSimulate(r) \/ ShedTtl(r)
  BY <1>3 DEF ShedSimulate, ShedTtl, Reject
<1>4. CASE SimulateAnswers(r)
  BY <1>4 DEF SimulateAnswers
<1>5. CASE SimulateFails(r)
  BY <1>5 DEF SimulateFails
<1>6. CASE TtlReturns(r)
  BY <1>6 DEF TtlReturns
<1>7. QED
  BY <1>1, <1>2, <1>3, <1>4, <1>5, <1>6 DEF Act, Proceed, RpcReturns

\* A failure on record stays one of an attempt that is over: attempt only grows,
\* and it grows before the request may fail again.
LEMMA PastStaysPast ==
  ASSUME SimTypeOK, NEW r \in Callers, Act(r), NEW a \in 0..MaxRetries,
         a <= attempt[r],
         phase[r] \notin {"sleeping", "joining", "done"} => a < attempt[r]
  PROVE  /\ a <= attempt'[r]
         /\ phase'[r] \notin {"sleeping", "joining", "done"} => a < attempt'[r]
<1> USE BreakerAssumption, SimulateAssumption
<1> USE DEF SimTypeOK, Goto, Settle, Continue, Join
<1>1. CASE Begin(r)
  BY <1>1 DEF Begin
<1>2. CASE CallSimulate(r) \/ CallTtl(r)
  BY <1>2 DEF CallSimulate, CallTtl
<1>3. CASE ShedSimulate(r) \/ ShedTtl(r)
  BY <1>3 DEF ShedSimulate, ShedTtl
<1>4. CASE Wake(r)
  BY <1>4 DEF Wake
<1>5. CASE NoTtlNeeded(r)
  BY <1>5 DEF NoTtlNeeded
<1>6. CASE SimulateAnswers(r)
  BY <1>6 DEF SimulateAnswers
<1>7. CASE SimulateFails(r) \/ TtlReturns(r)
  BY <1>7 DEF SimulateFails, TtlReturns
<1>8. CASE DetectionReturns(r)
  BY <1>8 DEF DetectionReturns
<1>9. QED
  BY <1>1, <1>2, <1>3, <1>4, <1>5, <1>6, <1>7, <1>8 DEF Act, Proceed, RpcReturns

\* The record keeps being of the past, and keeps explaining the counter: what a
\* failing request adds is new, because its present attempt had not failed.
LEMMA RecordKept ==
  ASSUME SimTypeOK, TypeOK, BlamedAttemptsAreOver, FailuresAreBlamed,
         NEW r \in Callers, Act(r)
  PROVE  BlamedAttemptsAreOver' /\ FailuresAreBlamed'
<1> USE BreakerAssumption, SimulateAssumption
<1>1. ASSUME NEW q \in Callers, NEW a \in 0..MaxRetries, <<q, a>> \in blamed
      PROVE  /\ a <= attempt'[q]
             /\ phase'[q] \notin {"sleeping", "joining", "done"} => a < attempt'[q]
  <2>1. /\ a <= attempt[q]
        /\ phase[q] \notin {"sleeping", "joining", "done"} => a < attempt[q]
    BY <1>1 DEF BlamedAttemptsAreOver
  <2>2. CASE q = r
    BY <2>1, <2>2, PastStaysPast
  <2>3. CASE q # r
    BY <2>1, <2>3, Untouched
  <2>4. QED
    BY <2>2, <2>3
<1>2. IsFiniteSet(blamed)
  BY BlamedIsFinite
<1>3. ASSUME RpcFails(r), phase[r] \in {"awaiting", "processing"},
             phase'[r] \in {"sleeping", "joining", "done"}, attempt' = attempt
      PROVE  BlamedAttemptsAreOver' /\ FailuresAreBlamed'
  <2>1. attempt[r] \in 0..MaxRetries
    BY DEF SimTypeOK
  <2>2. blamed' = blamed \cup {<<r, attempt[r]>>}
    BY <1>3 DEF RpcFails
  <2>3. BlamedAttemptsAreOver'
    BY <1>1, <1>3, <2>1, <2>2 DEF BlamedAttemptsAreOver
  <2>4. <<r, attempt[r]>> \notin blamed
    BY <1>3, <2>1 DEF BlamedAttemptsAreOver
  <2>5. Cardinality(blamed') = Cardinality(blamed) + 1
    BY <1>2, <2>2, <2>4, FS_AddElement
  <2>6. failures' <= failures + 1
    BY <1>3 DEF RpcFails, Fail, CountFailure, TypeOK
  <2>7. Cardinality(blamed) \in Nat /\ failures \in Nat /\ failures' \in Nat
    BY <1>2, <1>3, FS_CardinalityType
       DEF RpcFails, Fail, CountFailure, TypeOK
  <2>8. FailuresAreBlamed'
    BY <2>5, <2>6, <2>7 DEF FailuresAreBlamed
  <2>9. QED
    BY <2>3, <2>8
<1>4. CASE RpcSucceeds(r)
  <2>1. blamed' = {} /\ failures' = 0
    BY <1>4 DEF RpcSucceeds, Succeed
  <2>2. Cardinality({}) = 0
    BY FS_EmptySet
  <2>3. QED
    BY <2>1, <2>2 DEF BlamedAttemptsAreOver, FailuresAreBlamed
<1>5. CASE UNCHANGED <<blamed, failures>>
  BY <1>1, <1>5 DEF BlamedAttemptsAreOver, FailuresAreBlamed
<1>6. QED
  BY <1>3, <1>4, <1>5, Recorded

-----------------------------------------------------------------------------
(* The invariant *)

LEMMA InitIInv == SimInit => IInv
<1> SUFFICES ASSUME SimInit
             PROVE  IInv
  OBVIOUS
<1> USE BreakerAssumption, SimulateAssumption DEF SimInit, Init
<1>1. BreakerInv
  BY BreakerInitInv
<1>2. SimTypeOK
  BY <1>1 DEF SimTypeOK, BreakerInv, Phases, Outcomes
<1>3. \A r \in Callers : SendsInTurn(r) /\ AnswersOnce(r)
  BY DEF SendsInTurn, AnswersOnce
<1>4. BlamedAttemptsAreOver /\ FailuresAreBlamed
  BY FS_EmptySet DEF BlamedAttemptsAreOver, FailuresAreBlamed
<1>5. QED
  BY <1>1, <1>2, <1>3, <1>4 DEF IInv

LEMMA StepIInv == IInv /\ [SimNext]_simVars => IInv'
<1> SUFFICES ASSUME IInv, [SimNext]_simVars
             PROVE  IInv'
  OBVIOUS
<1>0. BreakerInv'
  BY BreakerKept DEF IInv
<1>1. ASSUME NEW r \in Callers, Act(r)
      PROVE  IInv'
  <2>1. SimTypeOK'
    BY <1>0, <1>1, TypesKept DEF IInv
  <2>2. ASSUME NEW q \in Callers
        PROVE  SendsInTurn(q)' /\ AnswersOnce(q)'
    <3>1. CASE q = r
      BY <1>1, <3>1, PhasesKept DEF IInv
    <3>2. CASE q # r
      BY <1>1, <3>2, Untouched DEF IInv, SendsInTurn, AnswersOnce
    <3>3. QED
      BY <3>1, <3>2
  <2>3. BlamedAttemptsAreOver' /\ FailuresAreBlamed'
    BY <1>1, RecordKept DEF IInv, SimTypeOK
  <2>4. QED
    BY <1>0, <2>1, <2>2, <2>3 DEF IInv
<1>2. CASE SimTick
  <2>1. UNCHANGED <<requestVars, failures, call>>
    BY <1>2 DEF SimTick, Tick
  <2>2. QED
    BY <1>0, <2>1 DEF IInv, SimTypeOK, BreakerInv, SendsInTurn, AnswersOnce,
                      BlamedAttemptsAreOver, FailuresAreBlamed, requestVars
<1>3. CASE UNCHANGED simVars
  BY <1>0, <1>3 DEF IInv, SimTypeOK, BreakerInv, SendsInTurn, AnswersOnce,
                    BlamedAttemptsAreOver, FailuresAreBlamed, simVars, requestVars,
                    breakerVars, vars
<1>4. QED
  BY <1>1, <1>2, <1>3 DEF SimNext, Act

LEMMA Invariance == SimSpec => []IInv
BY InitIInv, StepIInv, PTL DEF SimSpec

-----------------------------------------------------------------------------
(* The results *)

\* The variables keep their types; in particular attempt never passes
\* RPC_MAX_RETRIES (retry.ts:74).
THEOREM SimulationsTypeCorrect == SimSpec => []SimTypeOK
<1>1. IInv => SimTypeOK
  BY DEF IInv
<1>2. QED
  BY <1>1, Invariance, PTL

\* A request sends at most RPC_MAX_RETRIES + 2 RPCs through the breaker, and
\* leaves nothing running behind its answer (retry.ts:74-97, simulator.ts:340-346).
THEOREM WorkStaysBounded == SimSpec => []WorkIsBounded
<1>1. IInv => WorkIsBounded
  BY BreakerAssumption, SimulateAssumption
     DEF IInv, SimTypeOK, Phases, SendsInTurn, WorkIsBounded
<1>2. QED
  BY <1>1, Invariance, PTL

\* The "circuit open" error ends the request, or loses only the TTLs: it is
\* never retried (retry.ts:35-49, simulator.ts:117-153).
THEOREM SheddingIsFinal == SimSpec => []ShedIsFinal
<1>1. IInv => ShedIsFinal
  BY DEF IInv, SimTypeOK, Phases, SendsInTurn, AnswersOnce, ShedIsFinal
<1>2. QED
  BY <1>1, Invariance, PTL

\* N requests cannot open the breaker by themselves unless their
\* N * (RPC_MAX_RETRIES + 1) attempts reach the threshold.
THEOREM SheddingTakesManyRequests == SimSpec => []SheddingNeedsManyRequests
<1>1. ASSUME IInv, state # "closed"
      PROVE  Cardinality({b[1] : b \in blamed}) * (MaxRetries + 1) >= FailureThreshold
  <2> DEFINE R == {b[1] : b \in blamed}
             Attempts == 0..MaxRetries
  <2> USE BreakerAssumption, SimulateAssumption
  <2>1. blamed \subseteq R \X Attempts /\ R \subseteq Callers
    BY <1>1 DEF IInv, SimTypeOK
  <2>2. IsFiniteSet(Attempts) /\ Cardinality(Attempts) = MaxRetries + 1
    BY FS_Interval
  <2>3. IsFiniteSet(R)
    BY <2>1, FS_Subset
  <2> HIDE DEF R, Attempts
  <2>4. /\ IsFiniteSet(R \X Attempts)
        /\ Cardinality(R \X Attempts) = Cardinality(R) * Cardinality(Attempts)
    BY <2>2, <2>3, FS_Product
  <2>5. Cardinality(blamed) <= Cardinality(R \X Attempts)
    BY <2>1, <2>4, FS_Subset
  <2>6. failures <= Cardinality(blamed) /\ failures >= FailureThreshold
    BY <1>1 DEF IInv, FailuresAreBlamed, BreakerInv, FieldsAgree
  <2>7. /\ failures \in Nat /\ Cardinality(blamed) \in Nat
        /\ Cardinality(R \X Attempts) \in Nat
    BY <1>1, <2>4, BlamedIsFinite, FS_CardinalityType
       DEF IInv, BreakerInv, TypeOK
  <2>8. Cardinality(R \X Attempts) >= FailureThreshold
    BY <2>5, <2>6, <2>7
  <2>9. Cardinality(R) * (MaxRetries + 1) >= FailureThreshold
    BY <2>2, <2>4, <2>8
  <2>10. QED
    BY <2>9 DEF R
<1>2. IInv => SheddingNeedsManyRequests
  BY <1>1 DEF SheddingNeedsManyRequests
<1>3. QED
  BY <1>2, Invariance, PTL

\* Once the simulation has answered with a footprint, neither the TTL lookup nor
\* the detection turns the request into a failure (simulator.ts:104-153, 340-346).
THEOREM FootprintsAreDelivered == SimSpec => FootprintIsDelivered
<1> DEFINE Delivered == \A r \in Callers :
                          phase[r] \in {"processing", "joining"} =>
                            outcome'[r] \in {"none", "success"}
<1>1. ASSUME IInv, SimNext
      PROVE  Delivered
  <2>1. ASSUME NEW q \in Callers, NEW r \in Callers, Act(q),
               phase[r] \in {"processing", "joining"}
        PROVE  outcome'[r] \in {"none", "success"}
    <3>1. outcome[r] = "none" /\ SimTypeOK /\ SendsInTurn(r)
      BY <1>1, <2>1 DEF IInv, AnswersOnce
    <3>2. CASE q # r
      BY <2>1, <3>1, <3>2, Untouched
    <3>3. CASE q = r
      <4> USE <2>1, <3>1, <3>3 DEF SimTypeOK, Settle, Continue, Join
      <4>1. CASE Begin(r) \/ CallSimulate(r) \/ ShedSimulate(r) \/ Wake(r)
        BY <4>1 DEF Begin, CallSimulate, ShedSimulate, Wake
      <4>2. CASE NoTtlNeeded(r) \/ CallTtl(r) \/ ShedTtl(r)
        BY <4>2 DEF NoTtlNeeded, CallTtl, ShedTtl
      <4>3. CASE SimulateAnswers(r) \/ SimulateFails(r) \/ TtlReturns(r)
        BY <4>3 DEF SimulateAnswers, SimulateFails, TtlReturns
      <4>4. CASE DetectionReturns(r)
        BY <4>4 DEF DetectionReturns
      <4>5. QED
        BY <4>1, <4>2, <4>3, <4>4 DEF Act, Proceed, RpcReturns
    <3>4. QED
      BY <3>2, <3>3
  <2>2. CASE SimTick
    BY <1>1, <2>2 DEF SimTick, requestVars, IInv, AnswersOnce
  <2>3. QED
    BY <1>1, <2>1, <2>2 DEF SimNext, Act
<1>2. ASSUME IInv, [SimNext]_simVars
      PROVE  [Delivered]_simVars
  BY <1>1, <1>2
<1>3. QED
  BY <1>2, Invariance, PTL DEF SimSpec, FootprintIsDelivered
=============================================================================
