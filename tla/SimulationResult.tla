--------------------------- MODULE SimulationResult -------------------------
(***************************************************************************)
(* What a successful simulation is turned into (src/services/simulator.ts, *)
(* _processSimulationResult): the data beside the control of               *)
(* SimulateTransaction.  Concurrent requests share the contract types that *)
(* detectTokenContract remembers for the life of the process.  The client  *)
(* may also ask what a transaction of a given cost would pay.              *)
(***************************************************************************)
EXTENDS FootprintData, FeeEstimator, FiniteSets

CONSTANTS
  Requests,      \* the requests
  Footprints,    \* the footprints a simulation may return
  Codes,         \* the ids that are hashes of contract code
  Wasms,         \* the Wasm of each code
  LatestLedger,  \* the ledger the lifetimes are counted from
  Costs          \* the cpu, mem and p50 that a fee may be asked for

Keys(fp) == fp.readOnly \o fp.readWrite

\* A contract's data is found by the contract's address, which is no hash of code.
ASSUME ResultAssumption ==
  /\ LatestLedger \in Nat
  /\ None \notin Codes
  /\ \A fp \in Footprints, list \in {"readOnly", "readWrite"} :
       /\ fp[list] \in Seq(ToSet(fp[list]))
       /\ \A e \in ToSet(fp[list]) :
            /\ e.live \in Nat /\ e.text \in Seq(Nat)
            /\ e.type = "ContractData" => e.id # None
            /\ e.id \in Codes => e.type = "ContractCode"
  /\ \A c \in Costs : c.cpu \in Nat /\ c.mem \in Nat /\ c.p50 \in Nat \cup {NoFee}

VARIABLES
  footprint,  \* the footprint of each request's simulation, None before it
  existing,   \* the entries the TTL lookup finds, "asked" or "failed"
  type,       \* the contractType found, "asked" while it is awaited
  typeCache,  \* contractTypeCache
  cost        \* what a fee estimate was asked of, None if none was

vars == <<footprint, existing, type, typeCache, cost>>

Ids == (UNION {{e.id : e \in ToSet(Keys(fp))} : fp \in Footprints}) \ {None}

Init ==
  /\ footprint = [r \in Requests |-> None]
  /\ existing = [r \in Requests |-> <<"new">>]
  /\ type = [r \in Requests |-> "new"]
  /\ typeCache = [c \in Ids |-> None]
  /\ cost = [r \in Requests |-> None]

Unused(r) == footprint[r] = None /\ cost[r] = None

-----------------------------------------------------------------------------

\* Mutant: the first contract's code is preferred to what comes before it.
DetectionTargetCode(keys) ==
  LET ids == extractContracts(keys)
  IN  CHOOSE c \in ToSet(ids) : c \in Codes \/ ToSet(ids) \cap Codes = {}

\* contracts[0]
DetectionTarget(keys) == extractContracts(keys)[1]

\* Mutant: the cache is written and never read.
StartDetectionAlways(r, keys) ==
  type' = [type EXCEPT ![r] = IF extractContracts(keys) = <<>> THEN "unknown" ELSE "asked"]

StartDetection(r, keys) ==
  type' = [type EXCEPT ![r] =
    IF extractContracts(keys) = <<>> THEN "unknown"
    ELSE IF typeCache[DetectionTarget(keys)] # None THEN typeCache[DetectionTarget(keys)]
    ELSE "asked"]

\* _processSimulationResult up to its Promise.all; there is nothing to look up
\* for an empty footprint.
Process(r) ==
  /\ Unused(r)
  /\ \E fp \in Footprints :
       /\ footprint' = [footprint EXCEPT ![r] = fp]
       /\ StartDetection(r, Keys(fp))
       /\ existing' = [existing EXCEPT ![r] =
                         IF Keys(fp) = <<>> THEN <<"found", {}>> ELSE <<"asked">>]
  /\ UNCHANGED <<typeCache, cost>>

\* detectTokenContract asks for the contract code whose hash is the id: there is
\* none when the id is a contract's address.  No entry, and any error, count as
\* "unknown" and are remembered too.
DetectionReturns(r) ==
  LET c == DetectionTarget(Keys(footprint[r]))
  IN  /\ type[r] = "asked"
      /\ \E result \in {"unknown"} \cup
             (IF c \in Codes /\ LooksLikeToken(Wasms[c]) THEN {"token"} ELSE {}) :
           /\ type' = [type EXCEPT ![r] = result]
           /\ typeCache' = [typeCache EXCEPT ![c] = result]
      /\ UNCHANGED <<footprint, existing, cost>>

\* getLedgerEntries returns the entries that exist, in the order of the keys.
TtlReturns(r) ==
  /\ existing[r] = <<"asked">>
  /\ existing' \in {[existing EXCEPT ![r] = <<"found", S>>] :
                      S \in SUBSET ToSet(Keys(footprint[r]))}
  /\ UNCHANGED <<footprint, type, typeCache, cost>>

\* The lookup fails, or the breaker is open: no lifetimes.
TtlFails(r) ==
  /\ existing[r] = <<"asked">>
  /\ existing' = [existing EXCEPT ![r] = <<"failed">>]
  /\ UNCHANGED <<footprint, type, typeCache, cost>>

\* POST /estimate-fee, GET /simulate/cost-breakdown with well-formed input
EstimateFee(r) ==
  /\ Unused(r)
  /\ cost' \in {[cost EXCEPT ![r] = c] : c \in Costs}
  /\ UNCHANGED <<footprint, existing, type, typeCache>>

Next ==
  \E r \in Requests :
    \/ Process(r) \/ DetectionReturns(r) \/ TtlReturns(r) \/ TtlFails(r)
    \/ EstimateFee(r)

Spec == Init /\ [][Next]_vars

-----------------------------------------------------------------------------

\* The optimizer takes every read-only entry that is also read-write out, keeps
\* the others in their order, and loses one that nothing replaces only if its
\* hash is that of a read-write entry: the polynomial in 31 of its characters,
\* of which nothing is lost until in the end it is wrapped and its sign folded
\* (services/optimizer.ts:26-53).
OptimizerLosesOnlyCollisions ==
  LET Polynomial(s) == FoldLeft(LAMBDA value, c : 31 * value + c, 0, s)
      Hash(s) == Magnitude(Wrap(Polynomial(s)))
      Collides(e, S) == \E f \in S : Hash(e.text) = Hash(f.text)
  IN  \A r \in Requests : footprint[r] # None =>
        LET ro == footprint[r].readOnly
            rw == ToSet(footprint[r].readWrite)
        IN  optimizeFootprint(ro, footprint[r].readWrite)
              = Select(ro, {e \in ToSet(ro) : e \notin rw /\ ~Collides(e, rw)})

Found(r) == existing[r][1] = "found"

Returned(r) == Select(Keys(footprint[r]), existing[r][2])

Ttl(r) == TtlMap(Keys(footprint[r]), Returned(r), LatestLedger)

\* For a footprint that names no entry twice, lifetimes are right for the keys
\* before the first one that does not exist, and however they are attributed after
\* it, as many entries are warned about as expire within 100 ledgers
\* (services/simulator.ts:122-139, 155-163).
TtlIsAttributed ==
  \A r \in Requests :
    footprint[r] # None /\ Found(r) /\ IsInjective(Keys(footprint[r])) =>
    LET keys == Keys(footprint[r])
        right(e) == IF e.live = 0 THEN e \notin DOMAIN Ttl(r)
                    ELSE e \in DOMAIN Ttl(r) /\ Ttl(r)[e] = e.live - LatestLedger
        expiring == {e \in existing[r][2] : e.live # 0 /\ e.live - LatestLedger < 100}
    IN  /\ \A i \in DOMAIN keys :
             (\A j \in 1..i : keys[j] \in existing[r][2]) => right(keys[i])
        /\ Cardinality(buildTtlWarnings(Ttl(r))) = Cardinality(expiring)

\* "token" is only ever said of a contract whose code comes before every contract
\* data entry of the footprint, and in whose text six of a token's names occur,
\* whichever request has asked for it first; a contract whose data comes first is
\* never recognised (services/footprintParser.ts:172-212, simulator.ts:340-345).
TokenIsEarned ==
  \A r \in Requests : type[r] = "token" =>
    \E i \in DOMAIN Keys(footprint[r]) :
      LET e == Keys(footprint[r])[i]
      IN  /\ e.type = "ContractCode"
          /\ \A j \in 1..(i - 1) : Keys(footprint[r])[j].type # "ContractData"
          /\ LooksLikeToken(Wasms[e.id])

\* Detections of one contract that overlap may disagree, and the last one to
\* return decides; once none is in flight its type is final, right or wrong, and
\* the RPC is not asked again (services/footprintParser.ts:186-217).
SettledTypeIsFinal ==
  [][\A c \in Ids :
       LET InFlight == \E r \in Requests :
             type[r] = "asked" /\ DetectionTarget(Keys(footprint[r])) = c
       IN  typeCache[c] # None /\ ~InFlight =>
             typeCache'[c] = typeCache[c] /\ ~InFlight']_vars

\* The two estimates agree on every amount, the text in lumens reads back as the
\* total, the breakdown adds up, and the CPU fee pays for every started 10,000
\* instructions and no more (services/feeEstimator.ts:45-170).
FeesAgree ==
  \A r \in Requests : cost[r] # None =>
    LET c == cost[r]
        plain == estimateFee(c.cpu, c.mem, c.p50)
        full == estimateFeeDetailed(c.cpu, c.mem, c.p50)
        b == full.breakdown
        increments == b.cpuFee \div 25
    IN  /\ plain.base = full.inclusion /\ plain.base > 0
        /\ plain.resource = full.resource /\ plain.total = full.total
        /\ plain.total = full.inclusion + b.cpuFee + b.memoryFee + b.readFee + b.overheadFee
        /\ plain.xlm = full.xlm
        /\ FoldLeft(LAMBDA n, d : 10 * n + d, plain.xlm.whole, plain.xlm.digits) = plain.total
        /\ (increments - 1) * INSTRUCTION_INCREMENT < c.cpu
        /\ c.cpu <= increments * INSTRUCTION_INCREMENT
=============================================================================
