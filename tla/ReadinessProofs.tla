--------------------------- MODULE ReadinessProofs --------------------------
(***************************************************************************)
(* The readiness probe, for every number of overlapping probes, every      *)
(* lifetime of their key and every length of the clock: nothing is left    *)
(* behind, and the 503 of a probe on its own is right.                     *)
(***************************************************************************)
EXTENDS Readiness, TLAPS

\* A probe that has not answered has met no fault yet.
Undecided ==
  \A p \in Probes :
    step[p] # "done" => verdict[p] = 0 /\ p \notin failed \cup tripped

\* Probes that overlap know it.
OverlapIsExcused ==
  \A p, q \in InProgress : p # q => p \in excused

\* The key of a probe on its own is there, with the life it has left, until that
\* is over.
LoneKeyLives ==
  \A p \in Probes :
    /\ step[p] = "get" => stamp[p] <= now
    /\ step[p] = "get" /\ p \notin excused /\ now - stamp[p] < Lifetime
         => key = stamp[p] /\ left = Lifetime - (now - stamp[p])

\* What such a probe has read is its own value.
LoneReadIsOwn ==
  \A p \in Probes :
    step[p] = "delete" /\ p \notin excused => seen[p] = stamp[p]

IInv ==
  /\ TypeOK /\ NothingLeftBehind /\ LoneProbeIsRight
  /\ Undecided /\ OverlapIsExcused /\ LoneKeyLives /\ LoneReadIsOwn

-----------------------------------------------------------------------------

LEMMA Initially == Init => IInv
<1> SUFFICES ASSUME Init PROVE IInv
  OBVIOUS
<1>1. TypeOK
  <2>1. outage \in BOOLEAN
    BY Zenon DEF Init
  <2> QED
    BY <2>1, ReadinessAssumption DEF Init, TypeOK, Values
<1>2. Undecided /\ OverlapIsExcused /\ LoneKeyLives /\ LoneReadIsOwn
  BY DEF Init, Undecided, OverlapIsExcused, LoneKeyLives, LoneReadIsOwn, InProgress
<1>3. NothingLeftBehind /\ LoneProbeIsRight
  BY DEF Init, NothingLeftBehind, LoneProbeIsRight
<1> QED
  BY <1>1, <1>2, <1>3 DEF IInv

\* The variables keep their types.
LEMMA TypesKept == TypeOK /\ [Next]_vars => TypeOK'
<1> SUFFICES ASSUME TypeOK, [Next]_vars PROVE TypeOK'
  OBVIOUS
<1> USE ReadinessAssumption DEF TypeOK, Values
<1>1. ASSUME NEW p \in Probes, SetKey(p) PROVE TypeOK'
  BY <1>1 DEF SetKey, Share, InProgress
<1>2. ASSUME NEW p \in Probes, GetKey(p) PROVE TypeOK'
  BY <1>2 DEF GetKey
<1>3. ASSUME NEW p \in Probes, DeleteKey(p) PROVE TypeOK'
  BY <1>3 DEF DeleteKey, Answer
<1>4. ASSUME NEW p \in Probes, CommandFails(p) PROVE TypeOK'
  BY <1>4 DEF CommandFails, Answer
<1>5. ASSUME NEW p \in Probes, LoseReply(p) PROVE TypeOK'
  BY <1>5 DEF LoseReply, Answer, Share, InProgress
<1>6. ASSUME NEW p \in Probes, ProbeMemory(p) PROVE TypeOK'
  BY <1>6 DEF ProbeMemory, Answer
<1>7. ASSUME NEW p \in Probes, Crash(p) PROVE TypeOK'
  BY <1>7 DEF Crash
<1>8. CASE FlushCache
  BY <1>8 DEF FlushCache
<1>10. CASE RedisTurns
  BY <1>10 DEF RedisTurns
<1>11. CASE UNCHANGED vars
  BY <1>11 DEF vars
<1>9. CASE Tick
  BY <1>9 DEF Tick
<1> QED
  BY <1>1, <1>2, <1>3, <1>4, <1>5, <1>6, <1>7, <1>8, <1>9,
     <1>10, <1>11 DEF Next

\* Answered(p): the probe is answered, and the others are left alone.
Answered(p) ==
  /\ step' = [step EXCEPT ![p] = "done"]
  /\ verdict'[p] \in {200, 503}
  /\ tripped \subseteq tripped' /\ tripped' \subseteq tripped \cup {p}
  /\ \A q \in Probes \ {p} : verdict'[q] = verdict[q]

\* The overlaps that count as such
LEMMA Sharing ==
  ASSUME NEW p \in Probes, Share(p)
  PROVE  /\ excused \subseteq excused'
         /\ InProgress # {} => InProgress \cup {p} \subseteq excused'
BY DEF Share

LEMMA OverlapKept == IInv /\ [Next]_vars => OverlapIsExcused'
<1> SUFFICES ASSUME IInv, [Next]_vars PROVE OverlapIsExcused'
  OBVIOUS
<1> USE DEF IInv, OverlapIsExcused
<1>1. ASSUME NEW p \in Probes, SetKey(p) PROVE OverlapIsExcused'
  <2>1. InProgress' = InProgress \cup {p}
    BY <1>1 DEF SetKey, InProgress, TypeOK
  <2> QED
    BY <1>1, <2>1, Sharing DEF SetKey
<1>2. CASE \E p \in Probes : GetKey(p)
  <2>1. InProgress' = InProgress /\ excused \subseteq excused'
    BY <1>2 DEF GetKey, InProgress, TypeOK
  <2> QED
    BY <2>1
<1>3. ASSUME NEW p \in Probes,
             \/ DeleteKey(p) \/ CommandFails(p) \/ LoseReply(p) \/ ProbeMemory(p)
             \/ Crash(p)
      PROVE  OverlapIsExcused'
  <2>1. step' = [step EXCEPT ![p] = "done"]
    BY <1>3 DEF DeleteKey, CommandFails, LoseReply, ProbeMemory, Crash, Answer
  <2>2. InProgress' \subseteq InProgress
    BY <2>1 DEF InProgress, TypeOK
  <2>3. excused \subseteq excused'
    BY <1>3, Sharing DEF DeleteKey, CommandFails, LoseReply, ProbeMemory, Crash
  <2> QED
    BY <2>2, <2>3
<1>4. CASE FlushCache \/ RedisTurns \/ Tick \/ UNCHANGED vars
  <2>1. InProgress' = InProgress /\ excused \subseteq excused'
    BY <1>4 DEF FlushCache, RedisTurns, Tick, vars, InProgress
  <2> QED
    BY <2>1
<1> QED
  BY <1>1, <1>2, <1>3, <1>4 DEF Next

\* Only what shares the key with a probe disturbs it.
LEMMA LoneKept == IInv /\ [Next]_vars => LoneKeyLives' /\ LoneReadIsOwn'
<1> SUFFICES ASSUME IInv, [Next]_vars PROVE LoneKeyLives' /\ LoneReadIsOwn'
  OBVIOUS
<1> USE DEF IInv, TypeOK, Values, LoneKeyLives, LoneReadIsOwn
<1>1. ASSUME NEW p \in Probes, SetKey(p) PROVE LoneKeyLives' /\ LoneReadIsOwn'
  <2>1. \A q \in InProgress : q \in excused'
    BY <1>1, Sharing DEF SetKey
  <2>2. excused \subseteq excused'
    BY <1>1, Sharing DEF SetKey
  <2> QED
    BY <1>1, <2>1, <2>2, ReadinessAssumption DEF SetKey, InProgress
<1>2. ASSUME NEW p \in Probes, GetKey(p) PROVE LoneKeyLives' /\ LoneReadIsOwn'
  BY <1>2, ReadinessAssumption DEF GetKey
<1>3. ASSUME NEW p \in Probes, DeleteKey(p) PROVE LoneKeyLives' /\ LoneReadIsOwn'
  <2>1. \A q \in Probes : q # p /\ step[q] = "get" => q \in excused
    BY <1>3 DEF DeleteKey, OverlapIsExcused, InProgress
  <2>2. step' = [step EXCEPT ![p] = "done"]
    BY <1>3 DEF DeleteKey, Answer
  <2> QED
    BY <1>3, <2>1, <2>2 DEF DeleteKey
<1>4. ASSUME NEW p \in Probes, LoseReply(p) PROVE LoneKeyLives' /\ LoneReadIsOwn'
  <2>1. \A q \in InProgress : q \in excused'
    BY <1>4, Sharing DEF LoseReply
  <2>2. excused \subseteq excused'
    BY <1>4, Sharing DEF LoseReply
  <2>3. step' = [step EXCEPT ![p] = "done"]
    BY <1>4 DEF LoseReply, Answer
  <2> QED
    BY <1>4, <2>1, <2>2, <2>3 DEF LoseReply, InProgress
<1>5. ASSUME NEW p \in Probes, CommandFails(p) \/ ProbeMemory(p) \/ Crash(p)
      PROVE  LoneKeyLives' /\ LoneReadIsOwn'
  <2>1. step' = [step EXCEPT ![p] = "done"]
    BY <1>5 DEF CommandFails, ProbeMemory, Crash, Answer
  <2>2. \A q \in Probes : q # p => stamp'[q] = stamp[q] /\ seen'[q] = seen[q]
    BY <1>5 DEF CommandFails, ProbeMemory, Crash, Answer
  <2>3. UNCHANGED <<now, key, left, excused>>
    BY Zenon, <1>5 DEF CommandFails, ProbeMemory, Crash
  <2> QED
    BY <2>1, <2>2, <2>3
<1>6. CASE FlushCache
  BY <1>6 DEF FlushCache
<1>7. CASE Tick
  <2>1. \A p \in Probes : step[p] = "get" => stamp[p] <= now'
    BY <1>7 DEF Tick
  <2>2. ASSUME NEW p \in Probes, step[p] = "get", p \notin excused,
               now' - stamp[p] < Lifetime
        PROVE  key' = stamp[p] /\ left' = Lifetime - (now' - stamp[p])
    <3>1. key = stamp[p] /\ left = Lifetime - (now - stamp[p])
      BY <1>7, <2>2, ReadinessAssumption DEF Tick
    <3>2. left > 1
      BY <1>7, <2>2, <3>1, ReadinessAssumption DEF Tick
    <3> QED
      BY <1>7, <3>1, <3>2, ReadinessAssumption DEF Tick
  <2> QED
    BY <1>7, <2>1, <2>2 DEF Tick
<1>8. CASE RedisTurns \/ UNCHANGED vars
  BY <1>8 DEF RedisTurns, vars
<1> QED
  BY <1>1, <1>2, <1>3, <1>4, <1>5, <1>6, <1>7, <1>8 DEF Next

\* An answer is given once, for the reasons that hold when it is given.
LEMMA VerdictsKept ==
  IInv /\ [Next]_vars => Undecided' /\ LoneProbeIsRight'
<1> DEFINE Verdicts == Undecided /\ LoneProbeIsRight
<1> SUFFICES ASSUME IInv, [Next]_vars PROVE Verdicts'
  BY DEF Undecided, LoneProbeIsRight
<1> USE DEF IInv, TypeOK, Undecided, LoneProbeIsRight
<1>1. ASSUME NEW p \in Probes, SetKey(p) \/ GetKey(p) PROVE Verdicts'
  <2>1. step[p] # "done" /\ excused \subseteq excused'
    BY <1>1, Sharing DEF SetKey, GetKey
  <2>2. \A q \in Probes : step[q] = "done" => step'[q] = "done"
                           /\ stamp'[q] = stamp[q] /\ seen'[q] = seen[q]
    BY <1>1 DEF SetKey, GetKey
  <2>3. \A q \in Probes : step'[q] = "done" => step[q] = "done"
    BY <1>1 DEF SetKey, GetKey
  <2>4. UNCHANGED <<verdict, failed, tripped>>
    BY <1>1 DEF SetKey, GetKey
  <2> QED
    BY <2>1, <2>2, <2>3, <2>4
<1>2. ASSUME NEW p \in Probes, DeleteKey(p) PROVE Verdicts'
  <2>1. Answered(p)
    BY <1>2 DEF DeleteKey, Answer, Answered
  <2>2. /\ verdict'[p] = 200 => seen[p] = stamp[p] /\ p \notin tripped'
        /\ verdict'[p] = 503 => seen[p] # stamp[p] \/ p \in tripped'
    BY <1>2 DEF DeleteKey, Answer
  <2> QED
    BY <1>2, <2>1, <2>2 DEF Answered, DeleteKey, LoneReadIsOwn
<1>3. ASSUME NEW p \in Probes, CommandFails(p) PROVE Verdicts'
  <2>1. Answered(p)
    BY <1>3 DEF CommandFails, Answer, Answered
  <2>2. verdict'[p] = 503
    BY <1>3 DEF CommandFails, Answer
  <2> QED
    BY <1>3, <2>1, <2>2 DEF Answered, CommandFails
<1>4. ASSUME NEW p \in Probes, LoseReply(p) PROVE Verdicts'
  <2>1. Answered(p)
    BY <1>4 DEF LoseReply, Answer, Answered
  <2>2. verdict'[p] = 503 /\ excused \subseteq excused'
    BY <1>4, Sharing DEF LoseReply, Answer
  <2> QED
    BY <1>4, <2>1, <2>2 DEF Answered, LoseReply
<1>5. ASSUME NEW p \in Probes, ProbeMemory(p) PROVE Verdicts'
  <2>1. Answered(p)
    BY <1>5 DEF ProbeMemory, Answer, Answered
  <2>2. /\ verdict'[p] = 200 => p \notin tripped'
        /\ verdict'[p] = 503 => p \in tripped'
    BY <1>5 DEF ProbeMemory, Answer
  <2> QED
    BY <1>5, <2>1, <2>2 DEF Answered, ProbeMemory
<1>6. ASSUME NEW p \in Probes, Crash(p) PROVE Verdicts'
  BY <1>6 DEF Crash
<1>7. CASE FlushCache \/ RedisTurns \/ Tick \/ UNCHANGED vars
  <2>1. UNCHANGED <<step, stamp, seen, verdict, failed, tripped>>
    BY <1>7 DEF FlushCache, RedisTurns, Tick, vars
  <2>2. excused \subseteq excused'
    BY <1>7 DEF FlushCache, RedisTurns, Tick, vars
  <2> QED
    BY <2>1, <2>2
<1> HIDE DEF Verdicts
<1> QED
  BY <1>1, <1>2, <1>3, <1>4, <1>5, <1>6, <1>7 DEF Next

LEMMA NothingLeftKept == IInv /\ [Next]_vars => NothingLeftBehind'
<1> SUFFICES ASSUME IInv, [Next]_vars, key' # None
             PROVE  InProgress' # {} \/ failed' # {}
  BY DEF NothingLeftBehind
<1> USE DEF IInv, TypeOK, NothingLeftBehind
<1>1. ASSUME NEW p \in Probes, SetKey(p) \/ GetKey(p) PROVE p \in InProgress'
  BY <1>1 DEF SetKey, GetKey, InProgress
<1>2. ASSUME NEW p \in Probes, DeleteKey(p) PROVE FALSE
  BY <1>2 DEF DeleteKey
<1>3. ASSUME NEW p \in Probes, CommandFails(p) \/ LoseReply(p) \/ Crash(p)
      PROVE  p \in failed'
  <2>1. failed' = failed \cup {p}
    BY Zenon, <1>3 DEF CommandFails, LoseReply, Crash
  <2> QED
    BY <2>1
<1>4. ASSUME NEW p \in Probes, ProbeMemory(p)
      PROVE  key # None /\ InProgress \subseteq InProgress' /\ failed' = failed
  <2>1. key' = key /\ failed' = failed /\ step' = [step EXCEPT ![p] = "done"]
    BY <1>4 DEF ProbeMemory, Answer
  <2>2. step[p] = "new"
    BY <1>4 DEF ProbeMemory
  <2> QED
    BY <2>1, <2>2 DEF InProgress
<1>5. CASE FlushCache \/ RedisTurns \/ Tick \/ UNCHANGED vars
  <2>1. key # None /\ UNCHANGED <<step, failed>>
    BY <1>5 DEF FlushCache, RedisTurns, Tick, vars
  <2> QED
    BY <2>1 DEF InProgress
<1> QED
  BY <1>1, <1>2, <1>3, <1>4, <1>5 DEF Next

\* The inductive invariant holds of every behaviour.
LEMMA Invariance == Spec => []IInv
<1>1. IInv /\ [Next]_vars => IInv'
  BY TypesKept, OverlapKept, LoneKept, VerdictsKept, NothingLeftKept DEF IInv
<1> QED
  BY <1>1, Initially, PTL DEF Spec

-----------------------------------------------------------------------------

\* The variables of the probes and of Redis keep their types.
THEOREM ProbesTypeCorrect == Spec => []TypeOK
<1>1. IInv => TypeOK
  BY DEF IInv
<1> QED
  BY <1>1, Invariance, PTL

\* However probes overlap and Redis is flushed, fails and returns, the key
\* survives only probes in progress and failures (controllers.ts:66-79).
THEOREM ProbesCleanUp == Spec => []NothingLeftBehind
<1>1. IInv => NothingLeftBehind
  BY DEF IInv
<1> QED
  BY <1>1, Invariance, PTL

\* A 503 of a probe that shared the key with no other one, and was in time, means
\* a failed command or an open breaker (controllers.ts:66-104).
THEOREM LoneProbeIsBelieved == Spec => []LoneProbeIsRight
<1>1. IInv => LoneProbeIsRight
  BY DEF IInv
<1> QED
  BY <1>1, Invariance, PTL
=============================================================================
