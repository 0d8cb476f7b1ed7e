------------------------- MODULE SimulationApiProofs ------------------------
(***************************************************************************)
(* The batches, for every number of requests, every BATCH_MAX_SIZE and     *)
(* every BATCH_CONCURRENCY: whatever order simulations settle in and       *)
(* timers fire, each result belongs to its transaction, the gauge counts   *)
(* the running batches, and each request is answered once.                 *)
(***************************************************************************)
EXTENDS SimulationApi, TLAPS, SequenceTheorems, FiniteSetTheorems

-----------------------------------------------------------------------------
(* The chunks *)

\* Launching a chunk leaves the transactions outside it as they are.
LEMMA Launching ==
  ASSUME NEW txs \in Seq(TxStates), NEW i \in Nat \ {0}
  PROVE  /\ Launch(txs, i) \in Seq(TxStates)
         /\ Len(Launch(txs, i)) = Len(txs)
         /\ \A t \in 1..Len(txs) :
              IF i <= t /\ t < i + BatchConcurrency
                THEN Launch(txs, i)[t] \in {"threw", "inflight"}
                ELSE Launch(txs, i)[t] = txs[t]
<1>1. /\ DOMAIN txs = 1..Len(txs) /\ Len(txs) \in Nat
      /\ \A t \in 1..Len(txs) : txs[t] \in TxStates
  BY LenProperties
<1>2. /\ Launch(txs, i) = [t \in 1..Len(txs) |-> Launch(txs, i)[t]]
      /\ \A t \in 1..Len(txs) : Launch(txs, i)[t] \in TxStates
  BY <1>1 DEF Launch, TxStates, Outcomes
<1>3. Launch(txs, i) \in [1..Len(txs) -> TxStates]
  BY <1>2
<1>4. Launch(txs, i) \in Seq(TxStates) /\ Len(Launch(txs, i)) = Len(txs)
  BY <1>1, <1>3
<1> QED
  BY <1>1, <1>4, ApiAssumption DEF Launch, Chunk

\* A chunk that starts at a transaction of the batch is an interval, cut off at the
\* end of the batch.
ChunkEnd(txs, i) ==
  IF i + BatchConcurrency <= Len(txs) THEN i + BatchConcurrency - 1 ELSE Len(txs)

LEMMA ChunkIsInterval ==
  ASSUME NEW txs \in Seq(TxStates), NEW i \in 1..Len(txs)
  PROVE  /\ Chunk(txs, i) = i..ChunkEnd(txs, i)
         /\ ChunkEnd(txs, i) \in i..Len(txs)
         /\ Cardinality(Chunk(txs, i)) = ChunkEnd(txs, i) - i + 1
<1>1. DOMAIN txs = 1..Len(txs) /\ Len(txs) \in Nat
  BY LenProperties
<1>2. ChunkEnd(txs, i) \in i..Len(txs)
  BY <1>1, ApiAssumption DEF ChunkEnd
<1>3. Chunk(txs, i) = i..ChunkEnd(txs, i)
  BY <1>1, ApiAssumption DEF ChunkEnd, Chunk
<1> QED
  BY <1>1, <1>2, <1>3, FS_Interval

\* The outcomes of a chunk are those of its transactions, in their order.
LEMMA Collecting ==
  ASSUME NEW txs \in Seq(TxStates), NEW i \in 1..Len(txs),
         \A t \in Chunk(txs, i) : txs[t] \in Outcomes
  PROVE  /\ ChunkOutcomes(txs, i) \in Seq(Outcomes)
         /\ Len(ChunkOutcomes(txs, i)) = ChunkEnd(txs, i) - i + 1
         /\ \A j \in 1..(ChunkEnd(txs, i) - i + 1) :
              ChunkOutcomes(txs, i)[j] = txs[i + j - 1]
<1> DEFINE end == ChunkEnd(txs, i)
<1>1. i \in Nat \ {0} /\ end \in Int /\ i <= end
  BY ChunkIsInterval, LenProperties
<1>2. Chunk(txs, i) = i..end /\ Cardinality(Chunk(txs, i)) = end - i + 1
  BY ChunkIsInterval
<1> HIDE DEF end
<1>3. ChunkOutcomes(txs, i) = SubSeq(txs, i, end)
  <2>1. i + Cardinality(Chunk(txs, i)) - 1 = end
    BY <1>1, <1>2
  <2> QED
    BY <2>1 DEF ChunkOutcomes
<1>4. \A t \in i..end : txs[t] \in Outcomes
  BY <1>2
<1>5. /\ SubSeq(txs, i, end) \in Seq(Outcomes)
      /\ Len(SubSeq(txs, i, end)) = end - i + 1
      /\ \A j \in 1..(end - i + 1) : SubSeq(txs, i, end)[j] = txs[i + j - 1]
  BY <1>1, <1>4, SubSeqProperties
<1> QED
  BY <1>3, <1>5 DEF end

-----------------------------------------------------------------------------
(* The inductive invariant *)

Statuses == {0, 200, 400, 500, 504}

\* Before the handler runs there is no batch; before the timer is armed, no answer.
Fresh(r) ==
  /\ phase[r] \in {"new", "waiting"} => tx[r] = <<>> /\ settled[r] = <<>> /\ next[r] = 1
  /\ phase[r] = "new" => response[r] = 0 /\ ~timer[r]

\* The chunks before the present one are settled, those behind it not launched.
InTurn(r) ==
  phase[r] = "running" =>
    /\ next[r] <= Len(tx[r]) /\ Len(settled[r]) = next[r] - 1
    /\ \A t \in 1..Len(tx[r]) :
         /\ t < next[r] => tx[r][t] \in Outcomes
         /\ next[r] <= t /\ t < next[r] + BatchConcurrency
              => tx[r][t] \in Outcomes \cup {"inflight"}
         /\ next[r] + BatchConcurrency <= t => tx[r][t] \in {"waiting", "blank"}

\* Nothing of a request is left to settle once its handler has ended.
Ended(r) ==
  phase[r] = "done" =>
    /\ Len(settled[r]) = Len(tx[r])
    /\ \A t \in 1..Len(tx[r]) : tx[r][t] \in Outcomes

\* The outcomes collected are those of the transactions, and none changes any more.
Matched(r) ==
  /\ Len(settled[r]) <= Len(tx[r])
  /\ \A i \in 1..Len(settled[r]) : settled[r][i] = tx[r][i] /\ tx[r][i] \in Outcomes

BatchInv == \A r \in Requests : Fresh(r) /\ InTurn(r) /\ Ended(r) /\ Matched(r)

IInv == TypeOK /\ BatchInv /\ OneResponse /\ GaugeIsBalanced

LEMMA Initially == Init => IInv
<1> SUFFICES ASSUME Init PROVE IInv
  OBVIOUS
<1>1. TypeOK
  <2>1. 0 \in 0..Cardinality(Requests)
    BY ApiAssumption, FS_CardinalityType
  <2>2. <<>> \in Seq(TxStates) /\ <<>> \in Seq(Outcomes) /\ Len(<<>>) = 0
    OBVIOUS
  <2> QED
    BY <2>1, <2>2, ApiAssumption DEF Init, TypeOK, Statuses
<1>2. BatchInv
  BY DEF Init, BatchInv, Fresh, InTurn, Ended, Matched
<1>3. OneResponse
  BY DEF Init, OneResponse
<1>4. GaugeIsBalanced
  <2>1. {r \in Requests : phase[r] = "running"} = {}
    BY DEF Init
  <2> QED
    BY <2>1, FS_EmptySet DEF Init, GaugeIsBalanced
<1> QED
  BY <1>1, <1>2, <1>3, <1>4 DEF IInv

\* What collecting the present chunk adds to the outcomes
LEMMA Awaited ==
  ASSUME TypeOK, BatchInv, NEW r \in Requests, ChunkDone(r)
  PROVE  LET more == ChunkOutcomes(tx[r], next[r])
             end == ChunkEnd(tx[r], next[r])
         IN  /\ end \in next[r]..Len(tx[r])
             /\ settled[r] \o more \in Seq(Outcomes)
             /\ Len(settled[r] \o more) = end
             /\ \A i \in 1..end :
                  (settled[r] \o more)[i] = tx[r][i] /\ tx[r][i] \in Outcomes
<1> DEFINE more == ChunkOutcomes(tx[r], next[r])
           end == ChunkEnd(tx[r], next[r])
<1>1. /\ tx[r] \in Seq(TxStates) /\ next[r] \in 1..Len(tx[r])
      /\ settled[r] \in Seq(Outcomes) /\ Len(settled[r]) = next[r] - 1
  BY DEF TypeOK, BatchInv, InTurn, ChunkDone
<1>2. \A t \in Chunk(tx[r], next[r]) : tx[r][t] \in Outcomes
  BY DEF ChunkDone
<1>3. /\ more \in Seq(Outcomes) /\ Len(more) = end - next[r] + 1
      /\ \A j \in 1..(end - next[r] + 1) : more[j] = tx[r][next[r] + j - 1]
  BY <1>1, <1>2, Collecting
<1>4. end \in next[r]..Len(tx[r]) /\ Len(tx[r]) \in Nat
      /\ Chunk(tx[r], next[r]) = next[r]..end
  BY <1>1, ChunkIsInterval, LenProperties
<1>5. \A i \in 1..(next[r] - 1) : settled[r][i] = tx[r][i] /\ tx[r][i] \in Outcomes
  BY <1>1 DEF BatchInv, Matched
<1> HIDE DEF more, end
<1>6. /\ settled[r] \o more \in Seq(Outcomes)
      /\ Len(settled[r] \o more) = end
      /\ \A i \in 1..end : (settled[r] \o more)[i] =
           IF i <= next[r] - 1 THEN settled[r][i] ELSE more[i - (next[r] - 1)]
  <2>1. /\ settled[r] \o more \in Seq(Outcomes)
        /\ Len(settled[r] \o more) = Len(settled[r]) + Len(more)
        /\ \A i \in 1..(Len(settled[r]) + Len(more)) : (settled[r] \o more)[i] =
             IF i <= Len(settled[r]) THEN settled[r][i] ELSE more[i - Len(settled[r])]
    BY <1>1, <1>3, ConcatProperties
  <2>2. Len(settled[r]) + Len(more) = end
    BY <1>1, <1>3, <1>4
  <2> QED
    BY <1>1, <2>1, <2>2
<1>7. ASSUME NEW i \in 1..end
      PROVE  (settled[r] \o more)[i] = tx[r][i] /\ tx[r][i] \in Outcomes
  <2>1. CASE i <= next[r] - 1
    BY <1>1, <1>4, <1>5, <1>6, <1>7, <2>1
  <2>2. CASE next[r] <= i
    <3>1. i - (next[r] - 1) \in 1..(end - next[r] + 1)
      BY <1>1, <1>4, <1>7, <2>2
    <3>2. more[i - (next[r] - 1)] = tx[r][i]
      <4>1. next[r] + (i - (next[r] - 1)) - 1 = i
        BY <1>1, <1>4, <1>7
      <4>2. more[i - (next[r] - 1)] = tx[r][next[r] + (i - (next[r] - 1)) - 1]
        BY Zenon, <1>3, <3>1
      <4> QED
        BY <4>1, <4>2
    <3>3. (settled[r] \o more)[i] = more[i - (next[r] - 1)]
      <4>1. ~(i <= next[r] - 1)
        BY <1>1, <1>4, <2>2
      <4> QED
        BY Zenon, <1>6, <1>7, <4>1
    <3> QED
      <4>1. i \in Chunk(tx[r], next[r])
        BY <1>1, <1>4, <1>7, <2>2
      <4> QED
        BY <1>2, <3>2, <3>3, <4>1
  <2>3. i <= next[r] - 1 \/ next[r] <= i
    BY <1>1, <1>4, <1>7
  <2> QED
    BY <2>1, <2>2, <2>3
<1> QED
  BY <1>4, <1>6, <1>7 DEF more, end

-----------------------------------------------------------------------------
(* The steps *)

\* What the first chunk of a new batch becomes
LEMMA Starting ==
  ASSUME TypeOK, NEW r \in Requests, StartBatch(r)
  PROVE  \E first \in Seq(TxStates) :
           /\ tx' = [tx EXCEPT ![r] = first]
           /\ Len(first) \in 1..BatchMaxSize
           /\ \A t \in 1..Len(first) :
                IF t < 1 + BatchConcurrency THEN first[t] \in {"threw", "inflight"}
                ELSE first[t] \in {"waiting", "blank"}
<1>1. PICK n \in 1..BatchMaxSize : \E txs \in [1..n -> {"waiting", "blank"}] :
        tx' = [tx EXCEPT ![r] = Launch(txs, 1)]
  BY DEF StartBatch
<1>2. PICK txs \in [1..n -> {"waiting", "blank"}] :
        tx' = [tx EXCEPT ![r] = Launch(txs, 1)]
  BY <1>1
<1>3. txs \in Seq(TxStates) /\ Len(txs) = n
  BY ApiAssumption DEF TxStates, Outcomes
<1>4. /\ Launch(txs, 1) \in Seq(TxStates)
      /\ Len(Launch(txs, 1)) = n
      /\ \A t \in 1..n :
           IF 1 <= t /\ t < 1 + BatchConcurrency
             THEN Launch(txs, 1)[t] \in {"threw", "inflight"}
             ELSE Launch(txs, 1)[t] = txs[t]
  <2>1. 1 \in Nat \ {0}
    OBVIOUS
  <2>2. /\ Launch(txs, 1) \in Seq(TxStates)
        /\ Len(Launch(txs, 1)) = Len(txs)
        /\ \A t \in 1..Len(txs) :
             IF 1 <= t /\ t < 1 + BatchConcurrency
               THEN Launch(txs, 1)[t] \in {"threw", "inflight"}
               ELSE Launch(txs, 1)[t] = txs[t]
    BY Zenon, <1>3, <2>1, Launching
  <2> QED
    BY <1>3, <2>2
<1>5. \A t \in 1..n : IF t < 1 + BatchConcurrency
                        THEN Launch(txs, 1)[t] \in {"threw", "inflight"}
                        ELSE Launch(txs, 1)[t] \in {"waiting", "blank"}
  BY <1>4
<1> QED
  BY <1>2, <1>4, <1>5

\* The ways in which a request ends before its batch starts
Ends(r) == Refuse(r) \/ SimulateOne(r) \/ ThrowOnNull(r)

\* Such a request is over, whether or not the timeout has answered it already.
LEMMA Ending ==
  ASSUME NEW r \in Requests, Ends(r)
  PROVE  /\ phase[r] = "waiting" /\ phase' = [phase EXCEPT ![r] = "done"]
         /\ UNCHANGED <<tx, next, settled, closed, active>>
         /\ Fail(r, 400) \/ Fail(r, 500)
         /\ counted' = counted \/ counted' = [counted EXCEPT ![r] = @ + 1]
<1>1. CASE Refuse(r)
  BY <1>1 DEF Refuse, End
<1>2. CASE SimulateOne(r)
  BY <1>2 DEF SimulateOne, End
<1>3. CASE ThrowOnNull(r)
  BY <1>3 DEF ThrowOnNull, End
<1> QED
  BY <1>1, <1>2, <1>3 DEF Ends

\* The gauge goes up and down with the handlers.
LEMMA GaugeKept == TypeOK /\ GaugeIsBalanced /\ [Next]_vars => GaugeIsBalanced'
<1> SUFFICES ASSUME TypeOK, GaugeIsBalanced, [Next]_vars PROVE GaugeIsBalanced'
  OBVIOUS
<1> DEFINE Running == {r \in Requests : phase[r] = "running"}
<1>1. IsFiniteSet(Running) /\ active = Cardinality(Running) /\ active \in Nat
  BY ApiAssumption, FS_Subset, FS_CardinalityType DEF GaugeIsBalanced
<1>2. ASSUME active' = Cardinality(Running') PROVE GaugeIsBalanced'
  BY <1>2 DEF GaugeIsBalanced
<1>3. ASSUME NEW r \in Requests, StartBatch(r) PROVE GaugeIsBalanced'
  <2>1. Running' = Running \cup {r} /\ r \notin Running
    BY <1>3 DEF StartBatch, TypeOK
  <2> HIDE DEF Running
  <2>2. Cardinality(Running') = active + 1
    BY <1>1, <2>1, FS_AddElement
  <2> QED
    BY <1>2, <1>3, <2>2 DEF StartBatch
<1>4. ASSUME NEW r \in Requests, Finish(r) PROVE GaugeIsBalanced'
  <2>1. Running' = Running \ {r} /\ r \in Running
    BY <1>4 DEF Finish, ChunkDone, TypeOK
  <2> HIDE DEF Running
  <2>2. Cardinality(Running') = active - 1
    BY <1>1, <2>1, FS_RemoveElement
  <2> QED
    BY <1>2, <1>4, <2>2 DEF Finish
<1>5. ASSUME NEW r \in Requests, Arrive(r) \/ Ends(r) PROVE GaugeIsBalanced'
  <2>1. Running' = Running /\ active' = active
    <3>1. CASE Arrive(r)
      BY <3>1 DEF Arrive, TypeOK
    <3>2. CASE Ends(r)
      BY <3>2, Ending DEF TypeOK
    <3> QED
      BY <1>5, <3>1, <3>2
  <2> HIDE DEF Running
  <2> QED
    BY <1>1, <1>2, <2>1
<1>6. CASE UNCHANGED <<phase, active>>
  BY <1>6 DEF GaugeIsBalanced
<1>7. ASSUME NEW r \in Requests,
             Settles(r) \/ NextChunk(r) \/ Timeout(r) \/ ClientCloses(r)
      PROVE  UNCHANGED <<phase, active>>
  BY Zenon, <1>7 DEF Settles, SimulationSettles, NextChunk, Timeout, ClientCloses
<1> QED
  BY <1>3, <1>4, <1>5, <1>6, <1>7 DEF Next, Handle, Ends, vars

LEMMA TypesKept ==
  TypeOK /\ BatchInv /\ GaugeIsBalanced /\ [Next]_vars => TypeOK'
<1> SUFFICES ASSUME TypeOK, BatchInv, GaugeIsBalanced, [Next]_vars
             PROVE  TypeOK'
  OBVIOUS
<1> DEFINE Txs == /\ tx \in [Requests -> Seq(TxStates)]
                  /\ \A r \in Requests : Len(tx[r]) <= BatchMaxSize
           Answers == /\ response \in [Requests -> Statuses]
                      /\ timer \in [Requests -> BOOLEAN]
                      /\ closed \subseteq Requests
           Rest == /\ phase \in [Requests -> {"new", "waiting", "running", "done"}]
                   /\ settled \in [Requests -> Seq(Outcomes)]
                   /\ counted \in [Requests -> Nat]
                   /\ next \in [Requests -> Nat \ {0}]
<1>1. Txs /\ Answers /\ Rest
  BY DEF TypeOK, Statuses
<1>2. Txs'
  <2>1. ASSUME NEW r \in Requests, StartBatch(r) PROVE Txs'
    <3>1. PICK first \in Seq(TxStates) :
            tx' = [tx EXCEPT ![r] = first] /\ Len(first) \in 1..BatchMaxSize
      BY <2>1, Starting
    <3> QED
      BY <1>1, <3>1, ApiAssumption
  <2>2. ASSUME NEW r \in Requests, NEW t, SimulationSettles(r, t) PROVE Txs'
    <3>1. PICK o \in Outcomes : tx' = [tx EXCEPT ![r][t] = o]
      BY <2>2 DEF SimulationSettles
    <3>2. t \in 1..Len(tx[r]) /\ tx[r] \in Seq(TxStates) /\ o \in TxStates
      BY <1>1, <2>2, <3>1, LenProperties DEF SimulationSettles, TxStates
    <3>3. /\ [tx[r] EXCEPT ![t] = o] \in Seq(TxStates)
          /\ Len([tx[r] EXCEPT ![t] = o]) = Len(tx[r])
      BY <3>2, ExceptSeq
    <3>4. tx' = [tx EXCEPT ![r] = [tx[r] EXCEPT ![t] = o]]
      BY <3>1
    <3> QED
      BY <1>1, <3>3, <3>4
  <2>3. ASSUME NEW r \in Requests, NextChunk(r) PROVE Txs'
    <3>1. next'[r] \in Nat \ {0} /\ tx[r] \in Seq(TxStates)
      BY <1>1, <2>3, ApiAssumption DEF NextChunk
    <3>2. /\ Launch(tx[r], next'[r]) \in Seq(TxStates)
          /\ Len(Launch(tx[r], next'[r])) = Len(tx[r])
      BY <3>1, Launching
    <3> QED
      BY <1>1, <2>3, <3>2 DEF NextChunk
  <2>4. ASSUME NEW r \in Requests,
               Arrive(r) \/ Ends(r) \/ Finish(r) \/ Timeout(r) \/ ClientCloses(r)
        PROVE  tx' = tx
    BY <2>4, Ending DEF Arrive, Finish, Timeout, ClientCloses
  <2>5. CASE UNCHANGED vars
    BY <1>1, <2>5 DEF vars
  <2> HIDE DEF Txs
  <2>6. ASSUME tx' = tx PROVE Txs'
    BY <1>1, <2>6 DEF Txs
  <2> QED
    BY <2>1, <2>2, <2>3, <2>4, <2>5, <2>6 DEF Next, Handle, Ends, Settles
<1>3. Answers'
  <2>1. ASSUME NEW r \in Requests, NEW s \in Statuses, Respond(r, s)
        PROVE  response' \in [Requests -> Statuses] /\ timer' \in [Requests -> BOOLEAN]
    BY <1>1, <2>1 DEF Respond
  <2>2. ASSUME NEW r \in Requests, Ends(r) PROVE Answers'
    <3>1. closed' = closed /\ (Fail(r, 400) \/ Fail(r, 500))
      BY <2>2, Ending
    <3>2. Respond(r, 400) \/ Respond(r, 500) \/ UNCHANGED <<response, timer>>
      BY <3>1 DEF Fail
    <3> QED
      BY <1>1, <2>1, <3>1, <3>2 DEF Statuses
  <2>3. ASSUME NEW r \in Requests, Arrive(r) PROVE Answers'
    BY <1>1, <2>3 DEF Arrive
  <2>4. ASSUME NEW r \in Requests, Finish(r) PROVE Answers'
    <3>1. closed' = closed
      BY <2>4 DEF Finish
    <3>2. CASE Respond(r, 200)
      BY <1>1, <2>1, <3>1, <3>2 DEF Statuses
    <3>3. CASE UNCHANGED <<response, timer>>
      BY <1>1, <3>1, <3>3
    <3> QED
      BY <2>4, <3>2, <3>3 DEF Finish
  <2>5. ASSUME NEW r \in Requests, Timeout(r) PROVE Answers'
    <3>1. (IF response[r] = 0 THEN 504 ELSE response[r]) \in Statuses
      BY <1>1 DEF Statuses
    <3> QED
      BY <1>1, <2>5, <2>1, <3>1 DEF Timeout
  <2>6. ASSUME NEW r \in Requests, ClientCloses(r) PROVE Answers'
    BY <1>1, <2>6 DEF ClientCloses
  <2>7. ASSUME NEW r \in Requests, StartBatch(r) \/ Settles(r) \/ NextChunk(r)
        PROVE  UNCHANGED <<response, timer, closed>>
    BY Zenon, <2>7 DEF StartBatch, Settles, SimulationSettles, NextChunk
  <2>8. CASE UNCHANGED <<response, timer, closed>>
    BY <1>1, <2>8
  <2>9. CASE UNCHANGED vars
    BY <2>8, <2>9 DEF vars
  <2> HIDE DEF Answers
  <2> QED
    BY <2>2, <2>3, <2>4, <2>5, <2>6, <2>7, <2>8, <2>9 DEF Next, Handle, Ends
<1>4. Rest'
  <2>1. ASSUME NEW r \in Requests, NextChunk(r) \/ Finish(r) PROVE Rest'
    <3>1. ChunkDone(r)
      BY <2>1 DEF NextChunk, Finish
    <3>2. settled' = [settled EXCEPT ![r] = @ \o ChunkOutcomes(tx[r], next[r])]
      BY Zenon, <2>1 DEF NextChunk, Finish
    <3>3. settled' \in [Requests -> Seq(Outcomes)]
      BY <1>1, <3>1, <3>2, Awaited
    <3>4. phase' \in [Requests -> {"new", "waiting", "running", "done"}]
      BY <1>1, <2>1 DEF NextChunk, Finish
    <3>5. next' \in [Requests -> Nat \ {0}]
      <4>1. CASE NextChunk(r)
        <5>1. next[r] + BatchConcurrency \in Nat \ {0}
          BY <1>1, ApiAssumption
        <5> QED
          BY <1>1, <4>1, <5>1 DEF NextChunk
      <4>2. CASE Finish(r)
        BY <1>1, <4>2 DEF Finish
      <4> QED
        BY <2>1, <4>1, <4>2
    <3>6. counted' \in [Requests -> Nat]
      <4>1. Len(tx[r]) \in Nat
        BY <1>1, LenProperties
      <4>2. \/ counted' = counted
            \/ counted' = [counted EXCEPT ![r] = @ + Len(tx[r])]
            \/ counted' = [counted EXCEPT ![r] = @ + Len(tx[r]) + 1]
        BY Zenon, <2>1 DEF NextChunk, Finish
      <4>3. /\ counted \in [Requests -> Nat]
            /\ counted[r] + Len(tx[r]) \in Nat /\ counted[r] + Len(tx[r]) + 1 \in Nat
        BY <1>1, <4>1
      <4> QED
        BY <4>2, <4>3
    <3> QED
      BY <3>3, <3>4, <3>5, <3>6
  <2>2. ASSUME NEW r \in Requests,
               Arrive(r) \/ Handle(r) \/ Settles(r) \/ Timeout(r) \/ ClientCloses(r)
        PROVE  Rest'
    <3>1. /\ UNCHANGED <<settled, next>>
          /\ counted' = counted \/ counted' = [counted EXCEPT ![r] = @ + 1]
          /\ \/ phase' = phase
             \/ phase' = [phase EXCEPT ![r] = "waiting"]
             \/ phase' = [phase EXCEPT ![r] = "running"]
             \/ phase' = [phase EXCEPT ![r] = "done"]
      <4>1. CASE Ends(r)
        BY <4>1, Ending
      <4>2. CASE Arrive(r) \/ StartBatch(r) \/ Settles(r) \/ Timeout(r) \/ ClientCloses(r)
        BY Zenon, <4>2 DEF Arrive, StartBatch, Settles, SimulationSettles, Timeout,
                           ClientCloses
      <4> QED
        BY <2>2, <4>1, <4>2 DEF Handle, Ends
    <3>2. counted' \in [Requests -> Nat]
      <4>1. counted \in [Requests -> Nat] /\ counted[r] + 1 \in Nat
        BY <1>1
      <4> QED
        BY <3>1, <4>1
    <3> QED
      BY <1>1, <3>1, <3>2
  <2>3. CASE UNCHANGED vars
    BY <1>1, <2>3 DEF vars
  <2> HIDE DEF Rest
  <2> QED
    BY <2>1, <2>2, <2>3 DEF Next
<1>5. active' \in 0..Cardinality(Requests)
  <2>1. GaugeIsBalanced'
    BY GaugeKept
  <2>2. {r \in Requests : phase'[r] = "running"} \in SUBSET Requests
    OBVIOUS
  <2> QED
    BY <2>1, <2>2, ApiAssumption, FS_Subset, FS_CardinalityType DEF GaugeIsBalanced
<1> QED
  BY <1>2, <1>3, <1>4, <1>5 DEF TypeOK, Statuses

\* One request's part of the invariant depends on its own variables only.
LEMMA Untouched ==
  ASSUME BatchInv, NEW q \in Requests,
         phase'[q] = phase[q], tx'[q] = tx[q], next'[q] = next[q],
         settled'[q] = settled[q], response'[q] = response[q], timer'[q] = timer[q]
  PROVE  Fresh(q)' /\ InTurn(q)' /\ Ended(q)' /\ Matched(q)'
<1>1. Fresh(q)'
  BY Zenon DEF BatchInv, Fresh
<1>2. InTurn(q)'
  BY DEF BatchInv, InTurn
<1>3. Ended(q)'
  BY DEF BatchInv, Ended
<1>4. Matched(q)'
  BY DEF BatchInv, Matched
<1> QED
  BY <1>1, <1>2, <1>3, <1>4

\* The batches stay in turn, whatever happens to their answers.
LEMMA BatchKept == TypeOK /\ BatchInv /\ [Next]_vars => BatchInv'
<1> SUFFICES ASSUME TypeOK, BatchInv, [Next]_vars PROVE BatchInv'
  OBVIOUS
<1>1. ASSUME NEW r \in Requests, Fresh(r)', InTurn(r)', Ended(r)', Matched(r)',
             \A q \in Requests \ {r} :
               /\ phase'[q] = phase[q] /\ tx'[q] = tx[q] /\ next'[q] = next[q]
               /\ settled'[q] = settled[q] /\ response'[q] = response[q]
               /\ timer'[q] = timer[q]
      PROVE  BatchInv'
  <2>1. ASSUME NEW q \in Requests \ {r}
        PROVE  Fresh(q)' /\ InTurn(q)' /\ Ended(q)' /\ Matched(q)'
    BY <1>1, <2>1, Untouched
  <2> QED
    BY <1>1, <2>1 DEF BatchInv
<1>2. ASSUME NEW r \in Requests, Ends(r) PROVE BatchInv'
  <2>1. /\ phase' = [phase EXCEPT ![r] = "done"] /\ UNCHANGED <<tx, next, settled>>
        /\ Fail(r, 400) \/ Fail(r, 500)
    BY <1>2, Ending
  <2>2. phase[r] = "waiting" /\ tx[r] = <<>> /\ settled[r] = <<>>
    BY <1>2, Ending DEF BatchInv, Fresh
  <2>3. phase'[r] = "done" /\ tx'[r] = <<>> /\ settled'[r] = <<>>
    BY <2>1, <2>2 DEF TypeOK
  <2>4. Fresh(r)' /\ InTurn(r)' /\ Ended(r)' /\ Matched(r)'
    BY <2>3 DEF Fresh, InTurn, Ended, Matched
  <2>5. \A q \in Requests \ {r} :
          /\ phase'[q] = phase[q] /\ tx'[q] = tx[q] /\ next'[q] = next[q]
          /\ settled'[q] = settled[q] /\ response'[q] = response[q]
          /\ timer'[q] = timer[q]
    BY <2>1 DEF Fail, Respond, TypeOK
  <2> QED
    BY <1>1, <2>4, <2>5
<1>3. ASSUME NEW r \in Requests, StartBatch(r) PROVE BatchInv'
  <2>1. PICK first \in Seq(TxStates) :
          /\ tx' = [tx EXCEPT ![r] = first]
          /\ Len(first) \in 1..BatchMaxSize
          /\ \A t \in 1..Len(first) :
               IF t < 1 + BatchConcurrency THEN first[t] \in {"threw", "inflight"}
               ELSE first[t] \in {"waiting", "blank"}
    BY <1>3, Starting
  <2>2. next[r] = 1 /\ settled[r] = <<>>
    BY <1>3 DEF StartBatch, BatchInv, Fresh
  <2>3. phase'[r] = "running" /\ tx'[r] = first /\ next'[r] = 1 /\ settled'[r] = <<>>
    BY <1>3, <2>1, <2>2 DEF StartBatch, TypeOK
  <2>4. InTurn(r)'
    BY <2>1, <2>3, ApiAssumption DEF InTurn, Outcomes
  <2>5. Fresh(r)' /\ Ended(r)' /\ Matched(r)'
    BY <2>1, <2>3, ApiAssumption DEF Fresh, Ended, Matched
  <2>6. \A q \in Requests \ {r} :
          /\ phase'[q] = phase[q] /\ tx'[q] = tx[q] /\ next'[q] = next[q]
          /\ settled'[q] = settled[q] /\ response'[q] = response[q]
          /\ timer'[q] = timer[q]
    BY <1>3, <2>1 DEF StartBatch, TypeOK
  <2> QED
    BY <1>1, <2>4, <2>5, <2>6
<1>4. ASSUME NEW r \in Requests, NEW t, SimulationSettles(r, t) PROVE BatchInv'
  <2>1. PICK o \in Outcomes : tx' = [tx EXCEPT ![r][t] = o]
    BY <1>4 DEF SimulationSettles
  <2>2. t \in 1..Len(tx[r]) /\ tx[r][t] = "inflight" /\ tx[r] \in Seq(TxStates)
    BY <1>4, LenProperties DEF SimulationSettles, TypeOK
  <2>3. /\ Len(tx'[r]) = Len(tx[r])
        /\ \A j \in 1..Len(tx[r]) : tx'[r][j] = IF j = t THEN o ELSE tx[r][j]
    <3>1. tx'[r] = [tx[r] EXCEPT ![t] = o] /\ o \in TxStates
      BY <2>1 DEF TypeOK, TxStates
    <3> QED
      BY <2>2, <3>1, ExceptSeq
  <2>4. UNCHANGED <<phase, next, settled, response, timer>>
    BY <1>4 DEF SimulationSettles
  <2>5. Fresh(r)'
    <3>1. phase[r] \notin {"new", "waiting"}
      BY <2>2, EmptySeq DEF BatchInv, Fresh
    <3> QED
      BY <2>4, <3>1 DEF Fresh
  <2>6. InTurn(r)'
    BY <2>1, <2>2, <2>3, <2>4 DEF BatchInv, InTurn, Outcomes
  <2>7. Ended(r)'
    BY <2>1, <2>2, <2>3, <2>4 DEF BatchInv, Ended
  <2>8. Matched(r)'
    <3>1. Len(settled[r]) \in Nat /\ Len(tx[r]) \in Nat
      BY LenProperties DEF TypeOK
    <3> QED
      BY <2>1, <2>2, <2>3, <2>4, <3>1 DEF BatchInv, Matched, Outcomes
  <2>9. \A q \in Requests \ {r} : tx'[q] = tx[q]
    BY <2>1 DEF TypeOK
  <2> QED
    BY <1>1, <2>4, <2>5, <2>6, <2>7, <2>8, <2>9
<1>5. ASSUME NEW r \in Requests, NextChunk(r) PROVE BatchInv'
  <2> DEFINE end == ChunkEnd(tx[r], next[r])
  <2>1. ChunkDone(r) /\ ~LastChunk(r) /\ UNCHANGED <<phase, response, timer>>
    BY <1>5 DEF NextChunk
  <2>2. /\ tx[r] \in Seq(TxStates) /\ Len(tx[r]) \in Nat
        /\ next[r] \in Nat \ {0} /\ phase[r] = "running"
    BY <2>1, LenProperties DEF TypeOK, ChunkDone
  <2>3. next'[r] = next[r] + BatchConcurrency /\ next'[r] \in Nat \ {0}
    BY <1>5, <2>2, ApiAssumption DEF NextChunk, TypeOK
  <2>4. end = next'[r] - 1 /\ next'[r] <= Len(tx[r])
    BY <2>1, <2>2, <2>3, ApiAssumption DEF LastChunk, ChunkEnd
  <2>5. /\ Len(settled'[r]) = end
        /\ \A i \in 1..end : settled'[r][i] = tx[r][i] /\ tx[r][i] \in Outcomes
    <3>1. settled'[r] = settled[r] \o ChunkOutcomes(tx[r], next[r])
      BY <1>5 DEF NextChunk, TypeOK
    <3> QED
      BY <2>1, <3>1, Awaited
  <2> HIDE DEF end
  <2>6. /\ Len(tx'[r]) = Len(tx[r])
        /\ \A t \in 1..Len(tx[r]) :
             IF next'[r] <= t /\ t < next'[r] + BatchConcurrency
               THEN tx'[r][t] \in {"threw", "inflight"}
               ELSE tx'[r][t] = tx[r][t]
    <3>1. tx'[r] = Launch(tx[r], next'[r])
      BY <1>5 DEF NextChunk, TypeOK
    <3>2. /\ Len(Launch(tx[r], next'[r])) = Len(tx[r])
          /\ \A t \in 1..Len(tx[r]) :
               IF next'[r] <= t /\ t < next'[r] + BatchConcurrency
                 THEN Launch(tx[r], next'[r])[t] \in {"threw", "inflight"}
                 ELSE Launch(tx[r], next'[r])[t] = tx[r][t]
      BY Zenon, <2>2, <2>3, Launching
    <3> QED
      BY Zenon, <3>1, <3>2
  <2>7. \A t \in 1..Len(tx[r]) :
          next[r] + BatchConcurrency <= t => tx[r][t] \in {"waiting", "blank"}
    BY <2>2 DEF BatchInv, InTurn
  <2>8. InTurn(r)'
    <3>1. next'[r] <= Len(tx'[r]) /\ Len(settled'[r]) = next'[r] - 1
      BY <2>4, <2>5, <2>6
    <3>2. ASSUME NEW t \in 1..Len(tx[r])
          PROVE  /\ t < next'[r] => tx'[r][t] \in Outcomes
                 /\ next'[r] <= t /\ t < next'[r] + BatchConcurrency
                      => tx'[r][t] \in Outcomes \cup {"inflight"}
                 /\ next'[r] + BatchConcurrency <= t => tx'[r][t] \in {"waiting", "blank"}
      <4>1. CASE t < next'[r]
        <5>1. t \in 1..end /\ ~(next'[r] <= t) /\ ~(next'[r] + BatchConcurrency <= t)
          BY <2>2, <2>3, <2>4, <3>2, <4>1, ApiAssumption
        <5> QED
          BY <2>5, <2>6, <3>2, <5>1
      <4>2. CASE next'[r] <= t /\ t < next'[r] + BatchConcurrency
        BY <2>2, <2>3, <2>6, <3>2, <4>2, ApiAssumption DEF Outcomes
      <4>3. CASE next'[r] + BatchConcurrency <= t
        BY <2>2, <2>3, <2>6, <2>7, <3>2, <4>3, ApiAssumption
      <4> QED
        BY <2>2, <2>3, <3>2, <4>1, <4>2, <4>3, ApiAssumption
    <3> QED
      BY <2>6, <3>1, <3>2 DEF InTurn
  <2>9. Matched(r)'
    <3>1. ASSUME NEW i \in 1..Len(settled'[r])
          PROVE  settled'[r][i] = tx'[r][i] /\ tx'[r][i] \in Outcomes
      <4>1. i \in 1..end /\ i \in 1..Len(tx[r]) /\ ~(next'[r] <= i)
        BY <2>2, <2>3, <2>4, <2>5, <3>1
      <4> QED
        BY <2>5, <2>6, <4>1
    <3>2. Len(settled'[r]) <= Len(tx'[r])
      BY <2>2, <2>3, <2>4, <2>5, <2>6
    <3> QED
      BY <3>1, <3>2 DEF Matched
  <2>10. Fresh(r)' /\ Ended(r)'
    BY <2>1, <2>2 DEF Fresh, Ended
  <2>11. \A q \in Requests \ {r} :
           next'[q] = next[q] /\ settled'[q] = settled[q] /\ tx'[q] = tx[q]
    BY <1>5 DEF NextChunk, TypeOK
  <2> QED
    BY <1>1, <2>1, <2>8, <2>9, <2>10, <2>11
<1>6. ASSUME NEW r \in Requests, Finish(r) PROVE BatchInv'
  <2> DEFINE end == ChunkEnd(tx[r], next[r])
  <2>1. ChunkDone(r) /\ LastChunk(r) /\ UNCHANGED <<tx, next>>
    BY <1>6 DEF Finish
  <2>2. /\ tx[r] \in Seq(TxStates) /\ Len(tx[r]) \in Nat /\ next[r] \in Nat \ {0}
    BY <2>1, LenProperties DEF TypeOK
  <2>3. end = Len(tx[r])
    BY <2>1, <2>2, ApiAssumption DEF LastChunk, ChunkEnd
  <2>4. /\ Len(settled'[r]) = end
        /\ \A i \in 1..end : settled'[r][i] = tx[r][i] /\ tx[r][i] \in Outcomes
    <3>1. settled'[r] = settled[r] \o ChunkOutcomes(tx[r], next[r])
      BY <1>6 DEF Finish, TypeOK
    <3> QED
      BY <2>1, <3>1, Awaited
  <2>5. phase'[r] = "done"
    BY <1>6 DEF Finish, TypeOK
  <2> HIDE DEF end
  <2>6. Fresh(r)' /\ InTurn(r)' /\ Ended(r)' /\ Matched(r)'
    BY <2>1, <2>2, <2>3, <2>4, <2>5 DEF Fresh, InTurn, Ended, Matched
  <2>7. \A q \in Requests \ {r} : phase'[q] = phase[q] /\ settled'[q] = settled[q]
    BY <1>6 DEF Finish, TypeOK
  <2>8. \A q \in Requests \ {r} : response'[q] = response[q] /\ timer'[q] = timer[q]
    BY <1>6 DEF Finish, Respond, TypeOK
  <2> QED
    BY <1>1, <2>1, <2>6, <2>7, <2>8
<1>7. ASSUME NEW r \in Requests, Timeout(r) PROVE BatchInv'
  <2>1. UNCHANGED <<phase, tx, next, settled>>
    BY <1>7 DEF Timeout
  <2>2. phase[r] # "new"
    BY Zenon, <1>7 DEF Timeout, BatchInv, Fresh
  <2>3. Fresh(r)' /\ InTurn(r)' /\ Ended(r)' /\ Matched(r)'
    BY <2>1, <2>2 DEF BatchInv, Fresh, InTurn, Ended, Matched
  <2>4. \A q \in Requests \ {r} : response'[q] = response[q] /\ timer'[q] = timer[q]
    BY <1>7 DEF Timeout, Respond, TypeOK
  <2> QED
    BY <1>1, <2>1, <2>3, <2>4
<1>10. ASSUME NEW r \in Requests, Arrive(r) PROVE BatchInv'
  <2>1. /\ phase[r] = "new" /\ phase'[r] = "waiting"
        /\ UNCHANGED <<tx, next, settled, response>>
        /\ \A q \in Requests \ {r} : phase'[q] = phase[q] /\ timer'[q] = timer[q]
    BY <1>10 DEF Arrive, TypeOK
  <2>2. Fresh(r)' /\ InTurn(r)' /\ Ended(r)' /\ Matched(r)'
    BY <2>1 DEF BatchInv, Fresh, InTurn, Ended, Matched
  <2> QED
    BY <1>1, <2>1, <2>2
<1>8. CASE UNCHANGED <<phase, tx, next, settled, response, timer>>
  BY <1>8, Untouched DEF BatchInv
<1>9. ASSUME NEW r \in Requests, ClientCloses(r)
      PROVE  UNCHANGED <<phase, tx, next, settled, response, timer>>
  BY <1>9 DEF ClientCloses
<1> QED
  BY <1>2, <1>3, <1>4, <1>5, <1>6, <1>7, <1>8, <1>9, <1>10
  DEF Next, Handle, Ends, Settles, vars

\* The handler ends.
Leaves(r) == phase' = [phase EXCEPT ![r] = "done"] /\ closed' = closed

\* A handler that ends with an answer leaves the timer to a client that has gone.
LEMMA Answering ==
  ASSUME TypeOK, OneResponse, NEW r \in Requests, NEW s \in {200, 400, 500},
         Respond(r, s), Leaves(r)
  PROVE  OneResponse'
<1>1. response'[r] = s /\ s # 0 /\ phase'[r] = "done" /\ closed' = closed
  BY DEF Respond, Leaves, TypeOK
<1>3. timer'[r] => r \in closed
  <2>1. timer \in [Requests -> BOOLEAN] /\ timer' = [timer EXCEPT ![r] = timer[r] /\ r \in closed]
    BY DEF Respond, TypeOK
  <2>2. timer'[r] = (timer[r] /\ r \in closed)
    BY <2>1
  <2> QED
    BY Zenon, <2>2
<1>2. \A q \in Requests \ {r} :
        phase'[q] = phase[q] /\ response'[q] = response[q] /\ timer'[q] = timer[q]
  BY DEF Respond, Leaves, TypeOK
<1> QED
  BY <1>1, <1>2, <1>3 DEF OneResponse

\* The handler and the timer race for the answer: whoever comes second finds it
\* given, and the timer is off unless the client has gone.
LEMMA ResponseKept ==
  TypeOK /\ BatchInv /\ OneResponse /\ [Next]_vars => OneResponse'
<1> SUFFICES ASSUME TypeOK, BatchInv, OneResponse, [Next]_vars PROVE OneResponse'
  OBVIOUS
<1> USE DEF OneResponse
<1>1. ASSUME NEW r \in Requests, Ends(r) PROVE OneResponse'
  <2>1. /\ phase[r] = "waiting" /\ phase' = [phase EXCEPT ![r] = "done"]
        /\ closed' = closed /\ (Fail(r, 400) \/ Fail(r, 500))
    BY <1>1, Ending
  <2>2. CASE response[r] = 0
    <3>1. PICK s \in {200, 400, 500} : Respond(r, s)
      BY <2>1, <2>2 DEF Fail
    <3>2. Leaves(r)
      BY <2>1 DEF Leaves
    <3> HIDE DEF OneResponse
    <3> QED
      BY <3>1, <3>2, Answering
  <2>3. CASE response[r] # 0
    BY <2>1, <2>3 DEF Fail, TypeOK
  <2> QED
    BY <2>2, <2>3
<1>2. ASSUME NEW r \in Requests, Arrive(r) PROVE OneResponse'
  BY <1>2 DEF Arrive, BatchInv, Fresh, TypeOK
<1>7. ASSUME NEW r \in Requests, StartBatch(r) PROVE OneResponse'
  BY <1>7 DEF StartBatch, TypeOK
<1>8. ASSUME NEW r \in Requests, ClientCloses(r) PROVE OneResponse'
  BY <1>8 DEF ClientCloses
<1>3. ASSUME NEW r \in Requests, Finish(r) PROVE OneResponse'
  <2>1. phase' = [phase EXCEPT ![r] = "done"]
    BY <1>3 DEF Finish
  <2>2. CASE response[r] = 0
    <3>1. PICK s \in {200, 400, 500} : Respond(r, s)
      BY <1>3, <2>2 DEF Finish
    <3>2. Leaves(r)
      BY <1>3, <2>1 DEF Finish, Leaves
    <3> HIDE DEF OneResponse
    <3> QED
      BY <3>1, <3>2, Answering
  <2>3. CASE response[r] # 0
    BY <1>3, <2>1, <2>3 DEF Finish, TypeOK
  <2> QED
    BY <2>2, <2>3
<1>4. ASSUME NEW r \in Requests, Timeout(r) PROVE OneResponse'
  BY <1>4 DEF Timeout, Respond, TypeOK
<1>5. CASE UNCHANGED <<phase, response, timer, closed>>
  BY Zenon, <1>5
<1>6. ASSUME NEW r \in Requests, Settles(r) \/ NextChunk(r)
      PROVE  UNCHANGED <<phase, response, timer, closed>>
  BY Zenon, <1>6 DEF Settles, SimulationSettles, NextChunk
<1> QED
  BY <1>1, <1>2, <1>3, <1>4, <1>5, <1>6, <1>7, <1>8 DEF Next, Handle, Ends, vars

\* The inductive invariant holds of every behaviour.
LEMMA Invariance == Spec => []IInv
<1>1. IInv /\ [Next]_vars => IInv'
  BY TypesKept, BatchKept, ResponseKept, GaugeKept DEF IInv
<1> QED
  BY <1>1, Initially, PTL DEF Spec

-----------------------------------------------------------------------------

\* The variables of the requests and the metrics keep their types.
THEOREM RequestsTypeCorrect == Spec => []TypeOK
<1>1. IInv => TypeOK
  BY DEF IInv
<1> QED
  BY <1>1, Invariance, PTL

\* Each result is its transaction's, and a batch that has ended has them all
\* (controllers.ts:251-285).
THEOREM ResultsAreMatched == Spec => []ResultsMatchTransactions
<1>1. IInv => ResultsMatchTransactions
  <2> SUFFICES ASSUME IInv, NEW r \in Requests
               PROVE  /\ Len(settled[r]) <= Len(tx[r])
                      /\ \A i \in 1..Len(settled[r]) : settled[r][i] = tx[r][i]
                      /\ phase[r] = "done" => Len(settled[r]) = Len(tx[r])
    BY DEF ResultsMatchTransactions
  <2> QED
    BY DEF IInv, BatchInv, Matched, Ended
<1> QED
  BY <1>1, Invariance, PTL

\* The gauge counts the running batches (controllers.ts:238, 311-313).
THEOREM GaugeCountsBatches == Spec => []GaugeIsBalanced
<1>1. IInv => GaugeIsBalanced
  BY DEF IInv
<1> QED
  BY <1>1, Invariance, PTL

\* A request without an answer has its timer running and its handler ahead of its
\* end, and a timer outlives an answer only if the client has gone
\* (middleware/timeout.ts, errorHandler.ts, controllers.ts:212-315).
THEOREM AnsweredOnce == Spec => []OneResponse
<1>1. IInv => OneResponse
  BY DEF IInv
<1> QED
  BY <1>1, Invariance, PTL

\* No step gives a second answer: not the timer that a gone client has left running
\* (timeout.ts:16), not a handler that starts or ends after the 504.
THEOREM AnsweredForGood == Spec => AnswerIsFinal
<1> DEFINE Kept == \A r \in Requests : response[r] # 0 => response'[r] = response[r]
<1>1. TypeOK /\ OneResponse /\ [Next]_vars => Kept
  <2> SUFFICES ASSUME TypeOK, OneResponse, [Next]_vars PROVE Kept
    OBVIOUS
  <2>1. ASSUME NEW r \in Requests, Ends(r) PROVE Kept
    <3>1. Fail(r, 400) \/ Fail(r, 500)
      BY <2>1, Ending
    <3> QED
      BY <3>1 DEF Fail, Respond, TypeOK
  <2>2. ASSUME NEW r \in Requests, Finish(r) PROVE Kept
    BY <2>2 DEF Finish, Respond, TypeOK
  <2>3. ASSUME NEW r \in Requests, Timeout(r) PROVE Kept
    BY <2>3 DEF Timeout, TypeOK
  <2>4. CASE response' = response
    BY <2>4
  <2>5. ASSUME NEW r \in Requests,
               \/ Arrive(r) \/ StartBatch(r) \/ Settles(r) \/ NextChunk(r) \/ ClientCloses(r)
        PROVE  response' = response
    BY Zenon, <2>5 DEF Arrive, StartBatch, Settles, SimulationSettles, NextChunk,
                       ClientCloses
  <2> QED
    BY <2>1, <2>2, <2>3, <2>4, <2>5 DEF Next, Handle, Ends, vars
<1>2. IInv => TypeOK /\ OneResponse
  BY DEF IInv
<1>3. Kept => [Kept]_vars
  OBVIOUS
<1>4. AnswerIsFinal <=> [][Kept]_vars
  BY DEF AnswerIsFinal
<1> QED
  BY <1>1, <1>2, <1>4, Invariance, PTL DEF Spec

\* A batch holds no more than BATCH_CONCURRENCY simulations, all of one chunk
\* (controllers.ts:251-257).
THEOREM OneChunkAtATime == Spec => []OneChunkInFlight
<1>1. IInv => OneChunkInFlight
  <2> SUFFICES ASSUME IInv, NEW r \in Requests
               PROVE  /\ InFlight(r) \subseteq Chunk(tx[r], next[r])
                      /\ Cardinality(InFlight(r)) <= BatchConcurrency
    BY DEF OneChunkInFlight
  <2>1. /\ tx[r] \in Seq(TxStates) /\ DOMAIN tx[r] = 1..Len(tx[r])
        /\ next[r] \in Nat \ {0} /\ phase[r] \in {"new", "waiting", "running", "done"}
    BY LenProperties DEF IInv, TypeOK
  <2>2. CASE phase[r] = "running"
    <3> DEFINE end == ChunkEnd(tx[r], next[r])
    <3>1. InFlight(r) \subseteq Chunk(tx[r], next[r])
      <4> SUFFICES ASSUME NEW t \in DOMAIN tx[r], tx[r][t] = "inflight"
                   PROVE  next[r] <= t /\ t < next[r] + BatchConcurrency
        BY Zenon DEF InFlight, Chunk
      <4>1. /\ t < next[r] => tx[r][t] \in Outcomes
            /\ next[r] + BatchConcurrency <= t => tx[r][t] \in {"waiting", "blank"}
        BY <2>1, <2>2, Zenon DEF IInv, BatchInv, InTurn
      <4>2. ~(t < next[r]) /\ ~(next[r] + BatchConcurrency <= t)
        BY <4>1 DEF Outcomes
      <4>3. t \in Nat /\ next[r] \in Nat
        <5>1. t \in 1..Len(tx[r]) /\ Len(tx[r]) \in Nat
          BY <2>1, LenProperties, Zenon
        <5> QED
          BY <2>1, <5>1
      <4> QED
        BY <4>2, <4>3, ApiAssumption
    <3>2. next[r] \in 1..Len(tx[r])
      BY <2>1, <2>2 DEF IInv, BatchInv, InTurn
    <3>3. /\ Chunk(tx[r], next[r]) = next[r]..end /\ end \in next[r]..Len(tx[r])
          /\ Cardinality(Chunk(tx[r], next[r])) = end - next[r] + 1
      BY <2>1, <3>2, ChunkIsInterval
    <3>4. Cardinality(Chunk(tx[r], next[r])) <= BatchConcurrency
      BY <2>1, <3>2, <3>3, LenProperties, ApiAssumption DEF ChunkEnd
    <3>5. IsFiniteSet(Chunk(tx[r], next[r]))
      BY <2>1, <3>2, <3>3, LenProperties, FS_Interval
    <3> QED
      BY <3>1, <3>4, <3>5, FS_Subset, FS_CardinalityType, ApiAssumption
  <2>3. CASE phase[r] # "running"
    <3>1. InFlight(r) = {}
      BY <2>1, <2>3 DEF IInv, BatchInv, Fresh, Ended, InFlight, Outcomes
    <3> QED
      BY <3>1, FS_EmptySet, ApiAssumption
  <2> QED
    BY <2>2, <2>3
<1> QED
  BY <1>1, Invariance, PTL
=============================================================================
