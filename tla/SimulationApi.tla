---------------------------- MODULE SimulationApi ---------------------------
(***************************************************************************)
(* POST /simulate and POST /simulate/batch                                 *)
(* (src/api/controllers.ts:118-315) under the timeout middleware           *)
(* (src/middleware/timeout.ts) and the error handler, for a set of         *)
(* requests that share one process and its metrics.                        *)
(*                                                                         *)
(* simulateTransaction is seen from outside: it returns a result with      *)
(* success true or false, or it throws.  It ignores the abort signal: the  *)
(* SDK takes the options object that carries it for resource options.  No  *)
(* code reads that signal otherwise, and it is left out.                   *)
(*                                                                         *)
(* The timer of a request is armed before the brute force middleware waits *)
(* for its store, and the handler runs after that: the 504 may precede it. *)
(***************************************************************************)
EXTENDS Integers, Sequences, FiniteSets

CONSTANTS
  Requests,
  BatchMaxSize,      \* BATCH_MAX_SIZE
  BatchConcurrency   \* BATCH_CONCURRENCY

ASSUME ApiAssumption ==
  /\ IsFiniteSet(Requests)
  /\ BatchMaxSize \in Nat \ {0}
  /\ BatchConcurrency \in Nat \ {0}

VARIABLES
  phase,     \* "new", "waiting" (for the middleware behind the timer),
             \* "running" (the batch loop) or "done"
  tx,        \* the transactions of each batch and where each one stands
  next,      \* i, the start of the batch's present chunk, counted from 1
  settled,   \* the outcomes of the chunks awaited so far
  response,  \* the status sent to the client, 0 before that
  timer,     \* is the request's timeout armed?
  closed,    \* the requests whose client has closed its connection
  active,    \* active_simulations
  counted    \* simulate_requests_total, by the request that incremented it

vars == <<phase, tx, next, settled, response, timer, closed, active, counted>>

Outcomes == {"success", "failure", "threw"}

\* A blank entry has no xdr: its task rejects without simulating anything.
TxStates == Outcomes \cup {"waiting", "blank", "inflight"}

TypeOK ==
  /\ phase \in [Requests -> {"new", "waiting", "running", "done"}]
  /\ tx \in [Requests -> Seq(TxStates)]
  /\ \A r \in Requests : Len(tx[r]) <= BatchMaxSize
  /\ settled \in [Requests -> Seq(Outcomes)]
  /\ counted \in [Requests -> Nat]
  /\ next \in [Requests -> Nat \ {0}]
  /\ response \in [Requests -> {0, 200, 400, 500, 504}]
  /\ timer \in [Requests -> BOOLEAN]
  /\ closed \subseteq Requests
  /\ active \in 0..Cardinality(Requests)

Init ==
  /\ phase = [r \in Requests |-> "new"]
  /\ tx = [r \in Requests |-> <<>>]
  /\ next = [r \in Requests |-> 1]
  /\ settled = [r \in Requests |-> <<>>]
  /\ response = [r \in Requests |-> 0]
  /\ timer = [r \in Requests |-> FALSE]
  /\ closed = {}
  /\ active = 0
  /\ counted = [r \in Requests |-> 0]

-----------------------------------------------------------------------------

\* tasks.slice(i, i + concurrency)
Chunk(txs, i) ==
  {t \in DOMAIN txs : i <= t /\ t < i + BatchConcurrency}

\* Calling the chunk's tasks sends the simulations and rejects the blank ones.
Launch(txs, i) ==
  [t \in DOMAIN txs |->
     IF t \notin Chunk(txs, i) THEN txs[t]
     ELSE IF txs[t] = "blank" THEN "threw" ELSE "inflight"]

\* Promise.allSettled keeps the order of the chunk.
ChunkOutcomes(txs, i) ==
  SubSeq(txs, i, i + Cardinality(Chunk(txs, i)) - 1)

\* Mutant: nothing clears the timer when the answer is sent.
RespondKeepingTimer(r, s) ==
  /\ response' = [response EXCEPT ![r] = s]
  /\ UNCHANGED timer

\* res.status(s).json(...): 'finish' clears the timer, unless the connection is
\* gone: nothing is written to it then, and 'finish' is never emitted.
Respond(r, s) ==
  /\ response' = [response EXCEPT ![r] = s]
  /\ timer' = [timer EXCEPT ![r] = @ /\ r \in closed]

\* next(new AppError(..., s)) and the error handler, which throws when an answer
\* has been sent.
Fail(r, s) ==
  IF response[r] = 0 THEN Respond(r, s) ELSE UNCHANGED <<response, timer>>

-----------------------------------------------------------------------------

\* The timeout middleware arms the timer and passes the request on to the brute
\* force middleware, which awaits its store.
Arrive(r) ==
  /\ phase[r] = "new"
  /\ phase' = [phase EXCEPT ![r] = "waiting"]
  /\ timer' = [timer EXCEPT ![r] = TRUE]
  /\ UNCHANGED <<tx, next, settled, response, closed, active, counted>>

\* The handler does not get as far as its batch: the request fails with s.
End(r, s) ==
  /\ phase[r] = "waiting"
  /\ phase' = [phase EXCEPT ![r] = "done"]
  /\ Fail(r, s)
  /\ UNCHANGED <<tx, next, settled, closed, active>>

\* Validation fails.
Refuse(r) == End(r, 400) /\ UNCHANGED counted

\* simulate: the test `ledgerSequence !== undefined' on line 147 reads a name
\* nothing declares; the ReferenceError reaches the error handler.
SimulateOne(r) == End(r, 500) /\ UNCHANGED counted

\* simulateBatch with a transaction that is null: taking its xdr throws before
\* any task exists.  The catch block counts a failure, and the gauge, which has
\* just been raised, is lowered again.
ThrowOnNull(r) == End(r, 500) /\ counted' = [counted EXCEPT ![r] = @ + 1]

\* simulateBatch up to its first await, whether or not the 504 has been sent.
StartBatch(r) ==
  /\ phase[r] = "waiting"
  /\ phase' = [phase EXCEPT ![r] = "running"]
  /\ \E n \in 1..BatchMaxSize :
       \E txs \in [1..n -> {"waiting", "blank"}] :
         tx' = [tx EXCEPT ![r] = Launch(txs, 1)]
  /\ active' = active + 1
  /\ UNCHANGED <<next, settled, response, timer, closed, counted>>

SimulationSettles(r, t) ==
  /\ t \in DOMAIN tx[r] /\ tx[r][t] = "inflight"
  /\ \E o \in Outcomes : tx' = [tx EXCEPT ![r][t] = o]
  /\ UNCHANGED <<phase, next, settled, response, timer, closed, active, counted>>

ChunkDone(r) ==
  /\ phase[r] = "running"
  /\ \A t \in Chunk(tx[r], next[r]) : tx[r][t] \in Outcomes

LastChunk(r) == next[r] + BatchConcurrency > Len(tx[r])

\* Mutant: the chunk size is added to i once more after slicing.
NextChunkSkipping(r) ==
  /\ ChunkDone(r)
  /\ ~LastChunk(r)
  /\ settled' = [settled EXCEPT ![r] = @ \o ChunkOutcomes(tx[r], next[r])]
  /\ next' = [next EXCEPT ![r] = @ + BatchConcurrency + 1]
  /\ tx' = [tx EXCEPT ![r] = Launch(tx[r], next'[r])]
  /\ UNCHANGED <<phase, response, timer, closed, active, counted>>

\* The loop goes on, whatever has become of the request in the meantime.
NextChunk(r) ==
  /\ ChunkDone(r)
  /\ ~LastChunk(r)
  /\ settled' = [settled EXCEPT ![r] = @ \o ChunkOutcomes(tx[r], next[r])]
  /\ next' = [next EXCEPT ![r] = @ + BatchConcurrency]
  /\ tx' = [tx EXCEPT ![r] = Launch(tx[r], next'[r])]
  /\ UNCHANGED <<phase, response, timer, closed, active, counted>>

\* Mutant: the gauge is lowered on the success path only.
FinishWithoutFinally(r) ==
  /\ ChunkDone(r)
  /\ LastChunk(r)
  /\ phase' = [phase EXCEPT ![r] = "done"]
  /\ settled' = [settled EXCEPT ![r] = @ \o ChunkOutcomes(tx[r], next[r])]
  /\ IF response[r] = 0
       THEN /\ counted' = [counted EXCEPT ![r] = @ + Len(tx[r])]
            /\ active' = active - 1
            /\ Respond(r, 200)
       ELSE /\ counted' = [counted EXCEPT ![r] = @ + Len(tx[r]) + 1]
            /\ UNCHANGED <<response, timer, active>>
  /\ UNCHANGED <<tx, next, closed>>

\* Mutant: the catch block lowers the gauge as well as the finally block.
FinishLoweringTwice(r) ==
  /\ ChunkDone(r)
  /\ LastChunk(r)
  /\ phase' = [phase EXCEPT ![r] = "done"]
  /\ settled' = [settled EXCEPT ![r] = @ \o ChunkOutcomes(tx[r], next[r])]
  /\ IF response[r] = 0
       THEN /\ counted' = [counted EXCEPT ![r] = @ + Len(tx[r])]
            /\ active' = active - 1
            /\ Respond(r, 200)
       ELSE /\ counted' = [counted EXCEPT ![r] = @ + Len(tx[r]) + 1]
            /\ active' = active - 2
            /\ UNCHANGED <<response, timer>>
  /\ UNCHANGED <<tx, next, closed>>

\* The end of the batch: every outcome is counted, then the results are sent.
\* When the 504 has gone out, setHeader throws: the catch block counts one more
\* failure, and the error handler, which cannot answer either, throws again.
Finish(r) ==
  /\ ChunkDone(r)
  /\ LastChunk(r)
  /\ phase' = [phase EXCEPT ![r] = "done"]
  /\ settled' = [settled EXCEPT ![r] = @ \o ChunkOutcomes(tx[r], next[r])]
  /\ active' = active - 1
  /\ IF response[r] = 0
       THEN /\ counted' = [counted EXCEPT ![r] = @ + Len(tx[r])]
            /\ Respond(r, 200)
       ELSE /\ counted' = [counted EXCEPT ![r] = @ + Len(tx[r]) + 1]
            /\ UNCHANGED <<response, timer>>
  /\ UNCHANGED <<tx, next, closed>>

\* Mutant: the timeout aborts and leaves the answer to the handler.
TimeoutOnlyAborts(r) ==
  /\ timer[r]
  /\ timer' = [timer EXCEPT ![r] = FALSE]
  /\ UNCHANGED <<phase, tx, next, settled, response, closed, active, counted>>

\* Mutant: the timeout answers without the test of headersSent.
TimeoutWithoutTest(r) ==
  /\ timer[r]
  /\ timer' = [timer EXCEPT ![r] = FALSE]
  /\ response' = [response EXCEPT ![r] = 504]
  /\ UNCHANGED <<phase, tx, next, settled, closed, active, counted>>

\* The timer fires: 504 if no answer has been sent.
Timeout(r) ==
  /\ timer[r]
  /\ timer' = [timer EXCEPT ![r] = FALSE]
  /\ response' = [response EXCEPT ![r] = IF @ = 0 THEN 504 ELSE @]
  /\ UNCHANGED <<phase, tx, next, settled, closed, active, counted>>

\* The client closes its connection, which stops neither timer nor handler.
ClientCloses(r) ==
  /\ phase[r] \in {"waiting", "running"} /\ r \notin closed
  /\ closed' = closed \cup {r}
  /\ UNCHANGED <<phase, tx, next, settled, response, timer, active, counted>>

Handle(r) == Refuse(r) \/ SimulateOne(r) \/ ThrowOnNull(r) \/ StartBatch(r)

Settles(r) == \E t \in 1..BatchMaxSize : SimulationSettles(r, t)

Next ==
  \E r \in Requests :
    \/ Arrive(r) \/ Handle(r) \/ Settles(r) \/ NextChunk(r) \/ Finish(r)
    \/ Timeout(r) \/ ClientCloses(r)

Spec == Init /\ [][Next]_vars

\* Timers fire and the event loop runs the handler's ready code.  No simulation
\* is assumed to settle, and no request to get past the middleware.
FairSpec ==
  /\ Spec
  /\ \A r \in Requests :
       WF_vars(Timeout(r)) /\ WF_vars(NextChunk(r) \/ Finish(r))

-----------------------------------------------------------------------------
(* Safety *)

InFlight(r) == {t \in DOMAIN tx[r] : tx[r][t] = "inflight"}

\* One batch never holds more than BATCH_CONCURRENCY simulations in flight, and
\* the ones it holds belong to one chunk: no later transaction is started while
\* an earlier chunk is awaited.
OneChunkInFlight ==
  \A r \in Requests :
    /\ InFlight(r) \subseteq Chunk(tx[r], next[r])
    /\ Cardinality(InFlight(r)) <= BatchConcurrency

\* results[i] is the outcome of transactions[i], and a finished batch has one
\* result per transaction: none is skipped or reported twice at a chunk
\* boundary, whatever order the simulations of a chunk settle in.
ResultsMatchTransactions ==
  \A r \in Requests :
    /\ Len(settled[r]) <= Len(tx[r])
    /\ \A i \in 1..Len(settled[r]) : settled[r][i] = tx[r][i]
    /\ phase[r] = "done" => Len(settled[r]) = Len(tx[r])

\* active_simulations counts the batches whose handler has not ended, so it
\* returns to zero when they all have, timed out and abandoned ones included.
GaugeIsBalanced == active = Cardinality({r \in Requests : phase[r] = "running"})

\* The timeout and the handler race for one answer, and one of them always gives
\* it: as long as there is none, the timer runs and the handler has not ended.
\* A timer outlives the answer only if the client has gone.
OneResponse ==
  \A r \in Requests :
    /\ response[r] = 0 /\ phase[r] # "new" => timer[r] /\ phase[r] # "done"
    /\ response[r] # 0 /\ timer[r] => r \in closed

\* What has been answered is never answered again: neither by a handler that
\* starts or ends after the 504, nor by the timer of a client that has gone,
\* which fires after the answer (the error it would throw ends the process).
AnswerIsFinal ==
  [][\A r \in Requests : response[r] # 0 => response'[r] = response[r]]_vars

-----------------------------------------------------------------------------
(* Liveness *)

\* Every request is answered, with results or with a 504, even if the store of
\* the middleware or the RPC behind its batch never answers.
EveryRequestIsAnswered ==
  \A r \in Requests : phase[r] # "new" ~> response[r] # 0
=============================================================================
