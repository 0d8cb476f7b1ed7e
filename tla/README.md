# Stellar Footprint Service: specifications

TLA+ specifications of the Stellar Footprint Service, an Express 5 server that
simulates Soroban transactions against a Stellar RPC node and returns their
footprints. The modules model the service's own logic (`src/`), TLC checks them
on small instances, and TLAPS proves theorems about them for every value of
their constants. Paths below are relative to the root of the repository.

* [The system](#the-system) – components, state, interaction, what is hard
* [The modules](#the-modules) – which module models what, and how
* [The runs](#the-runs) – what is checked, on which instances, and why they are enough
* [Fairness](#fairness)
* [The proofs](#the-proofs)
* [What the documents say and the code does not do](#what-the-documents-say-and-the-code-does-not-do)
* [What is not modelled](#what-is-not-modelled)
* [Plan](#plan)

## The system

One Node.js process serves each pod; the pods of a deployment share a Redis
when `REDIS_URL` is set. Within a process handlers run one at a time and
interleave at every `await`, so the unit of interleaving in all modules is the
code between two awaits.

| component | source | state it keeps | operations | hard parts | what makes it correct |
|---|---|---|---|---|---|
| circuit breaker | `src/utils/circuitBreaker.ts` | `state`, `failures`, `openedAt`, one instance per process | `call`, `getState` | any number of calls between admission and settlement; calls that never settle | fields agree, rejections only during an outage, recovery |
| retry loop | `src/utils/retry.ts` | the loop variable of each call | `withRetry` | wraps the breaker, sleeps between attempts | bounded, does not retry a rejection |
| simulator | `src/services/simulator.ts` | none of its own: breaker, caches | `simulateTransaction` | two RPCs side by side after the first; one may fail | a footprint found is delivered |
| token detection | `src/services/footprintParser.ts` | `contractTypeCache` | `detectTokenContract` | a failure is cached; overlapping detections | a token is one; a settled type is final |
| simulation API | `src/api/controllers.ts:118-315` | gauge and counters, batch progress | `simulate`, `simulateBatch` | chunks, races with the timeout | one answer, results in order, gauge balanced |
| request timeout | `src/middleware/timeout.ts` | a timer and an abort signal per request | timer, `finish`, `close` | races the handler, from before it begins | one answer |
| brute force protection | `src/middleware/bruteForce.ts`, `counterStore.ts` | a record per address, in memory or Redis | `recordFailure`, the middleware | read, await, write; Redis fallback | counts are sound, only overlaps lose failures |
| memory caches | `src/services/cache.ts:44-186` | a `Map` in insertion order | get, set, delete, flush | eviction, expiry on read | never serves a dead value |
| Redis cache and fallback | `src/services/cache.ts:192-298` | the `_cache` variable | `getCache`, the client's `error` event | failure of Redis, swap to memory, flush between the awaits of others | readiness and counters survive it |
| readiness | `src/api/controllers.ts:60-116` | one Redis key, shared by all pods | `readiness` | overlapping probes | no key is left behind, a 503 of a probe on its own is real |
| pod in rotation | `k8s/deployment.yaml` | the kubelet's strike count | readiness probe | readiness and breaker wait for each other | traffic returns after an outage |
| network status | `src/services/networkStatus.ts` | a cached answer per network | `getNetworkStatus` | concurrent misses, late answers, one silent network | answers are fresh, the RPC is spared, queries settle |
| RPC pool | `src/config/stellar.ts` | a server per network | `getRpcServer` | expiry under use | – |
| webhook | `src/services/webhook.ts` | jobs | `createJob`, `deliverWebhook` | retries, duplicates | see the plan |
| middleware chain, routing | `src/index.ts`, `api/routes.ts`, `middleware/` | – | the chain, the redirect, the routes | the store the chain awaits; redirects of redirects | no way around the key, every request settles |
| shutdown | `src/index.ts` | – | `shutdown` | drain against forced exit, repeated signals | the process exits |
| footprint data | `optimizer.ts`, `footprintParser.ts`, `simulator.ts:102-161` | – | functions on data | hash collisions, missing entries | nothing else is lost, lifetimes are attributed |
| fee estimator | `feeEstimator.ts` | – | two estimates | rounding, duplicated formula | they agree and add up |
| conversions | `decoder.ts`, `validator.ts`, `restorer.ts`, `xdrParser.ts`, `footprintDiff.ts` | – | functions on data | the SDK's | – |

How they interact: a request passes the middleware chain of `src/index.ts`
(body parser, address filter, timeout, brute force, content type, API key), then a controller. `simulateBatch` calls
`simulateTransaction` for each transaction, a chunk at a time; each call goes
retry loop → breaker → RPC, then TTL lookup (through the same breaker) beside
the token detection (past the breaker). Everything in the process shares the
breaker, the caches and the metrics; `DELETE /cache` flushes the Redis database that all pods,
their readiness probes and their brute force counters share. The kubelet's probe reads cache and
breaker, and decides whether the pod gets traffic at all.

The hazards of the code, each at its line and with the properties that would
catch it, are listed in `PROJECT.json`.

## The modules

| module | models | uses |
|---|---|---|
| `CircuitBreaker` | the breaker, for concurrent callers | refines `OutageGate` |
| `OutageGate` | what the breaker promises, without its three-state flag | |
| `SimulateTransaction` | retry loop, breaker, RPCs of concurrent requests | EXTENDS `CircuitBreaker` |
| `SimulateTransactionProofs` | theorems about `CircuitBreaker` and `SimulateTransaction` | EXTENDS both |
| `SimulationApi` | `simulate`, `simulateBatch`, timeout, error handler, counters | |
| `SimulationApiProofs` | theorems about `SimulationApi` | EXTENDS it |
| `BruteForce` | `recordFailure` and the admission test over both stores | |
| `BruteForceProofs` | theorems about `BruteForce` | EXTENDS it |
| `LruCache` | the memory caches | refines `ExpiringMap` |
| `ExpiringMap` | what a memory cache promises | |
| `LruCacheProofs` | theorems about `LruCache` | EXTENDS it |
| `Readiness` | overlapping readiness probes over one Redis | |
| `ReadinessProofs` | theorems about `Readiness` | EXTENDS it |
| `NetworkStatus` | queries for the status of one network or all, and their cache | |
| `NetworkStatusProofs` | theorems about `NetworkStatus` | EXTENDS it |
| `FootprintData` | optimizer, contract ids, token test, attribution of lifetimes, as operators | |
| `FeeEstimator` | the fee arithmetic, as operators | |
| `SimulationResult` | what a simulation's footprint becomes, for concurrent requests | EXTENDS the two |
| `SimulationResultProofs` | theorems about the three | EXTENDS them |
| `Server` | middleware chain, routes, redirect, time limit, shutdown | |
| `ServerProofs` | theorems about `Server` | EXTENDS it |
| `ReadinessGate` | the breaker in its pod, with or without the deployment's readiness probe | EXTENDS `CircuitBreaker` |

Each has an `MC…` module with the sets of a small instance; abstract modules
are checked through the one that refines them. `PROJECT.json` maps every
definition that models code to its lines.

**CircuitBreaker.** `state`, `failures`, `openedAt` are the fields of the class.
`openedAt` is kept as its age, because its only use is its age against
`recoveryTimeMs`; the age stops at `RecoveryTime` and the failure counter at
`MaxFailures`, above the threshold, where nothing depends on them any more.
`Reject`/`Admit` are the entry of `call`, `Succeed`/`Fail` what follows the
settlement of `fn` (`onSuccess`, `onFailure`), `Tick` the clock. `call` records
what each caller last saw and `trial` which calls were admitted in the present
half-open period; the code has neither. Definitions marked *Mutant* state a
plausible bug: no specification uses them, they show that a property notices.

**OutageGate.** An outage is a run of `FailureThreshold` or more failures without
a success. During one, callers are turned away until `RecoveryTime` has passed
since its latest failure. Then one is let through; whether the others are let
through as well, until one of them settles, is left open, for ADR 002 allows a
single probe and the code lets them all pass (`single_probe`). The mapping is `streak <- failures`, `quiet <- openedAt`; the flag `state` is gone,
which is the point: it has to be redundant.

**SimulateTransaction.** `phase` is the place of a request in
`simulateTransaction`, `attempt` the loop variable of `withRetry`, `detect` the
state of its `detectTokenContract`. `Begin` is everything up to the retry loop;
`CallSimulate`/`ShedSimulate` an attempt; `SimulateAnswers`/`SimulateFails` its
settlement; `Wake` the end of the backoff delay; `NoTtlNeeded`, `CallTtl`,
`ShedTtl`, `TtlReturns`, `DetectionReturns` the `Promise.all` of
`_processSimulationResult`. Whether an error is transient is a choice, except
that the breaker's rejection is not (its message matches no pattern of
`retry.ts`). The requests are the `Callers` of the breaker, whose variables and actions the module
extends; `SimInit`, `SimNext` and `SimSpec` are its own. Every request misses the cache: the success path returns on line 558,
before `cache.set` on line 733, so that no result is ever stored.

**SimulationApi.** `simulateTransaction` seen from outside, with three outcomes.
`Arrive` arms the timer and leaves the request in the middleware behind it, which
awaits the counter store (`phase` "waiting"), so that the 504 may go out before the
handler begins; `Fail` is the error handler, which cannot answer then. `tx` holds a
batch and where each transaction stands, `next` the loop variable `i`, `settled` the
array of the same name, `active` and `counted` the two metrics. `Respond` disarms the
timer, except on a connection its client has closed: Node emits no `finish` there, and
the timer fires later. `simulate` itself is one action, because the code never gets
further: line 147 reads the undeclared `ledgerSequence` and the `ReferenceError`
becomes a 500. (`tsc` reports the name, and emits the code all the same:
`noEmitOnError` is not set.) A transaction that is null makes `simulateBatch` throw
before its first task (`ThrowOnNull`). When the error handler throws after a 504,
Express's last handler destroys the socket; the answer has been given, and this is left out.

**BruteForce.** One address. Calls of `recordFailure` read the record, await, and
write. The in-memory store returns the object itself and Redis a copy, which makes
all the difference to overlapping calls: records are named by the call that
created them, `heap` maps names to records, `store` is the name the store holds.
`disturbed` records the calls that overlapped another or that a flush hit; the
failures of the others are `Sure`.
`backend` is the store captured when the module loads, either one. `FlushCache` is `DELETE /cache`, whose `flushdb` takes the counters with it. With Redis,
commands are served one by one, may be lost while it is down, and the reply to a
`SET` may be lost. At this commit only tests call `recordFailure`
(ADR 003 says callers invoke it after a simulation error): the module models the
exported functions as those tests use them.

**LruCache.** `order` and `entry` are the JavaScript `Map`: keys in insertion order
and their entries; `expiresAt` is kept as the time left. `Miss`, `MissExpired`,
`Hit`, `HitWithMeta`, `Set`, `Delete`, `Flush` are the operations, none of which
awaits anything. `ExpiringMap` is what a caller may rely on; the mapping forgets
the order and the stale mark.

**Readiness.** Each probe is on a pod of its own and runs `SetKey`, `GetKey`,
`DeleteKey` on the shared Redis; a command may fail (`CommandFails`), or run and
lose its reply (`LoseReply`), and a pod whose client has reported an error uses a
memory cache from then on (`ProbeMemory`), until it is restarted (`Crash`). `FlushCache` is
`DELETE /cache` on any pod. The breaker's verdict is a choice.

**ReadinessGate.** `Arrive` gives a call to the breaker only while the pod is in
rotation (`openapi.yaml:74`); `FollowUp` is a later call of a request accepted
before; `Probe` is the kubelet's, with the strikes of `k8s/deployment.yaml`. Without a
probe (`probed` is false), as in `docker-compose.yml`, the pod stays in rotation and what
is left is the breaker with its callers. The cache is taken to be healthy and the probe to
reach the handler, as it does on the documented `/api/v1/health/ready`; on the path of
`k8s/deployment.yaml` it does not (see `probe_route`).

**NetworkStatus.** `cache` is the `Map` of `services/networkStatus.ts`, `call` one `getNetworkStatus` for
each query and network: when it entered (its `now`), and whether it was a hit, is waiting, has a
ledger or has failed. `Ask` runs a query to its first await; `Reply` and `RpcFails` settle one fetch and,
with the last one, the query (`Verdict`). The RPC closes a ledger at each tick, so a ledger is named by
its time and its age can be compared with the TTL. `overwritten` records which fetches a slower,
older one has overwritten.

**FootprintData, FeeEstimator, SimulationResult.** The first two are the pure functions, under their
names in the code. An entry is what the code finds out about it: type, contract id, lifetime, and its
text, which matters to the hash only. A Wasm is the words its decoded text holds: the names it exports,
and strings among its data. `NamesIn` says which of the twelve names of a token occur in a word, since the code searches the
whole text (`footprintParser.ts:204`): `set_name` contains `name`, and so may any string. `FeeEstimator` is the BigInt arithmetic; the decimal text in lumens
is its digits. `SimulationResult` runs them: `Process` is `_processSimulationResult` up to its `Promise.all`,
`TtlReturns`/`TtlFails` and `DetectionReturns` settle the two lookups in either order, and `typeCache` is
`contractTypeCache`, shared by the requests. The control around it (retries, breaker) is
`SimulateTransaction`'s. Folds come from the community modules.

**Server.** A request is what it asks for (method and path), what it `lacks` (a body that parses, a permitted
address, a JSON content type, a key) and where it is: waiting for the brute force store, in a handler,
redirected, done. `Proceed` is the chain behind the store in its order: the docs of a server in `Development`, the metrics, the
key, the routes, the redirect. GET routes serve HEAD. The key is not asked for on paths whose next name begins with
health: `HealthNames` are those. `Redirect` inserts `/v1` and
joins the segments by commas, as Express 5 makes an array of a wildcard and the template string joins it.
A client follows as many redirects as `MaxHops`. The store is Redis, up or down, and holds no record since
nothing records a failure. `Signal`, `Drain`, `ForceExit` are `shutdown`, the callback of `server.close` and
the timer.

## The runs

All passing runs explore their whole state space. Symmetry is used for sets of
interchangeable callers and keys, and never with a liveness property.

| run | instance | properties | result |
|---|---|---|---|
| `breaker` | 3 callers, one of which may hang; threshold 2, recovery 3, counter to 4; with and without a probe, three strikes two ticks apart | `FieldsAgree`, `HalfOpenIsProbed`, `ImplementsOutageGate`, `RecoversWhenRpcHeals`, `TrialOpensTheGate` | pass |
| `gate_stuck` | the same, none hangs | `RecoversBehindReadiness` | violated |
| `single_probe` | 3 callers of the breaker alone, recovery 2 | `HalfOpenAllowsOneProbe` | violated |
| `simulate` | 3 requests, 1 retry, threshold 3, recovery 2 | `SimTypeOK`, `WorkIsBounded`, `SheddingNeedsManyRequests`, `ShedIsFinal`, `FootprintIsDelivered`, `EveryRequestSettles` | pass |
| `api` | 2 requests, batches to 3 in chunks of 2 | `TypeOK`, `ResultsMatchTransactions`, `GaugeIsBalanced`, `OneResponse`, `AnswerIsFinal`, `EveryRequestIsAnswered` | pass |
| `brute` | 4 calls, both stores, threshold 2, window 1, block 3, clock to 3 | `TypeOK`, `CountIsSound`, `SequentialCountIsExact`, `OnlyOverlapsAreLost` | pass |
| `lru` | 3 keys, 2 values, room for 2, lifetimes 1 and 2, stale time 1 | `TypeOK`, `NewestSurvives`, `ImplementsExpiringMap` | pass |
| `readiness` | 3 probes, clock to 2, key lifetime 1 | `TypeOK`, `NothingLeftBehind`, `LoneProbeIsRight` | pass |
| `queries` | 3 queries; 2 networks with a URL, one of them may be silent, and one without; TTL 2, clock to 2 | `TypeOK`, `AnswersAreFresh`, `AskedAgainOnlyIfOverwritten`, `QueriesSettle` | pass |
| `result` | 2 requests; footprints of up to 3 of 4 entries; hash of 11 bits; 36 costs | `OptimizerLosesOnlyCollisions`, `TtlIsAttributed`, `TokenIsEarned`, `FeesAgree`, `SettledTypeIsFinal` | pass |
| `server` | 2 clients, 7 requests with at most one fault, 2 redirects, time limit 1, forced exit after 1; a development server | `KeylessReachesOnlyOpenPaths`, `RedirectServesOneSegment`, `RequestsSettle`, `SignalLeadsToExit` | pass |
| `probe_route` | the same | `LivenessProbeIsServed` | violated |

Why the bounds are enough. *Breaker*: three callers are the least with which a
call admitted while closed, one admitted half-open and one rejected exist
together; a recovery time of two or three lets a call settle before, at and after its end, and
three strikes, two ticks apart, take the pod out of rotation on either side of it.
*Simulate*: with one retry and a threshold of three, one request cannot open the
breaker and two can. *API*: three transactions in chunks of two give a full chunk
followed by a partial one; two requests share the gauge. *Brute force*: with a
threshold of two, the second and the third failure both block, so that a
block set twice is met; with four calls, two that overlap no other go before two that overlap each
other and may bring back what they read. A clock of three outlasts the window and, for the earliest call, reaches
the end of the block. *LRU*: three keys in room for two make every insertion a
possible eviction. *Readiness*: three probes give overwriting and deletion by
different probes; two ticks let time stamps differ and the key expire.
*Queries*: two fetches that overlap and a third query that meets what they left are the
least for `AskedAgainOnlyIfOverwritten`; a clock as long as the TTL lets an entry expire (the theorems
cover every length). *Result*: two of the texts collide with every `Modulus` of the hash, two only
with 2^11, which the second character reaches (the code's is 2^32, and the theorems hold for every one); lifetimes end 99 and 100 ledgers
away, the costs lie on both sides of an increment and of a whole lumen, and of the Wasms one exports a single
function of a token and has six names of one in its text, the other has five. *Server*: the redirect of a single
segment takes one hop, and two hops show that the redirect of its own target is no route either.
A development server serves the docs as well, which production does not; `healthz` begins with health and is no
route. Time limit and forced exit are in either order for requests that start at different times.
Bounds that cap a counter or a clock (`MaxFailures`, `MaxNow`, `MaxHops`) are constants of the modules.

What the properties mean is said in a comment above each. For every property of a
passing run `PROJECT.json` names a mutant: a definition of the code changed the way a
plausible bug would change it, with which TLC finds the property violated.

## Fairness

* Time passes (`WF(Tick)`, `WF(PodTick)`), timers fire (`Wake`, `Timeout`) and the event loop
  runs what is ready (`NextChunk`, `Finish`): Node guarantees all three unless the
  process dies.
* RPCs: the SDK sets no timeout on its HTTP requests. `breaker`
  therefore assumes only that *responsive* callers' RPCs settle; one caller may hang
  for ever. `api` assumes nothing of the simulations, nor that a request gets past the middleware that
  waits for its store: the answer comes from the timer. `simulate` asks whether the loop ends when its RPCs do, and
  assumes that they settle.
* Requests keep arriving from responsive callers in `breaker` and
  `gate_stuck`, as long as the pod is in rotation: without calls the breaker never leaves "open", since nothing but
  `call` moves it.
* `queries`: the RPCs of responsive networks reply; the others need not. `server`: timers fire and a
  redirected client goes on or gives up; neither the counter store nor any handler is assumed to
  answer, and no connection to end.
* The kubelet keeps probing (`WF(Probe)`); a request need not make a follow-up call.

## The proofs

Each proof module states its theorems for every value of the constants that satisfies the
assumption of the module it is about; TLC evaluates the assumption on each run, and has checked each
inductive invariant on the run's instance before it was proved. Inductive invariants are named
`IInv` (`BreakerInv` for the breaker, `ResultInv` for the results of simulations), and `Invariance` is `Spec => []IInv`.

`SimulateTransactionProofs` proves of the breaker, for every set of callers, every integer threshold,
every natural recovery time and every counter bound at or above the threshold (`BreakerAssumption`):

| theorem | statement |
|---|---|
| `BreakerInvariant` | `Spec => []BreakerInv` |
| `BreakerTypeCorrect` | `Spec => []TypeOK` |
| `FieldsAlwaysAgree` | `Spec => []FieldsAgree` |
| `HalfOpenAlwaysProbed` | `Spec => []HalfOpenIsProbed` |
| `BreakerImplementsGate` | `Spec => ImplementsOutageGate` |

The argument. `BreakerInv` adds to `TypeOK`, `FieldsAgree` and `HalfOpenIsProbed` that half-open is
reached only when the recovery time is over (`HalfOpenIsInTime`), and is inductive: `FieldsAgree` ties `openedAt` and `failures` to `state`, without which
`Fail` could not be shown to open at or above the threshold, and `HalfOpenIsProbed`
ties half-open to a call in flight. `CountFailureInRange` bounds the capped
counter, `BreakerInitInv` and `BreakerStepInv` are the induction, one step for each action.
For the refinement, `BreakerStepRefines` shows that under the invariant every step of the
breaker is a step of the gate: `FieldsAgree` makes `state # "closed"` the same as an
outage, `HalfOpenIsInTime` gives a caller let through in half-open a gate that is not `Shut`, and a
caller turned away finds the recovery time not over. The run checks these properties in a pod, whose actions
call on the breaker's or leave its variables alone.

It proves of the requests, for every finite set of them and every number of retries (`SimulateAssumption`):

| theorem | statement |
|---|---|
| `RequestsUseTheBreaker` | `SimSpec => Spec`, the breaker's |
| `SimulationsTypeCorrect` | `SimSpec => []SimTypeOK` |
| `WorkStaysBounded` | `SimSpec => []WorkIsBounded` |
| `SheddingIsFinal` | `SimSpec => []ShedIsFinal` |
| `SheddingTakesManyRequests` | `SimSpec => []SheddingNeedsManyRequests` |
| `FootprintsAreDelivered` | `SimSpec => FootprintIsDelivered` |

The argument. Every step of a request is a step of the breaker or leaves it alone
(`EveryStepIsTheBreakers`), so the requests inherit `BreakerInv` (`BreakerKept`) and every theorem about the
breaker. `SendsInTurn` says for each phase
how many RPCs the request has sent, which of its calls runs and where the detection stands; the bound
on the work and the finality of a rejection follow. For the shedding, `blamed` records a failure by
request and attempt: `BlamedAttemptsAreOver` says that a request about to fail has not failed
in its present attempt, so each failure the breaker counts adds a pair (`FailuresAreBlamed`), and *n* requests have at
most *n* · (`MaxRetries` + 1) pairs. An open breaker has counted `FailureThreshold` failures (`FieldsAgree`).

`SimulationResultProofs` proves, for all requests, footprints of any length, contracts, ledgers, costs and
moduli of the hash (`ResultAssumption`, `DataAssumption`):

| theorem | statement |
|---|---|
| `ResultInvariant` | `Spec => []ResultInv` |
| `SettledTypesAreFinal` | `Spec => SettledTypeIsFinal` |
| `TokensAreEarned` | `Spec => []TokenIsEarned` |
| `OnlyCollisionsAreLost` | `Spec => []OptimizerLosesOnlyCollisions` |
| `TtlIsAlwaysAttributed` | `Spec => []TtlIsAttributed` |
| `FeesAlwaysAgree` | `Spec => []FeesAgree` |

The argument. `ResultInv` says that the lookup of lifetimes finds only keys it asked for
(`FoundAreKeys`), that the cache calls a contract a token only if six of the names occur in the text of its code (`CacheIsEarned`),
and that so does a request (`TypesAreEarned`): what a request says of a token comes from the cache or from the code. The rest is about what the loops of
the code compute. A fold of the community modules is a recursive function over sets of indexes,
chosen by its defining equation, so the proofs first show that this function exists (`FoldExists`) and then
turn it into the chain of the values after each element (`FoldIsChain`), which ordinary arithmetic can follow. Induction
is over a set of numbers: `Least` takes the least counterexample from well-foundedness, and `Induction` follows from it.
With that, `simpleHash`, which wraps at every character, is the wrap of the polynomial in 31 (`HashIsPolynomial`, by
residues), so an entry that nothing replaces is lost only by a collision of polynomials; the digits of a fee read
back as the fee (`TextReadsBack`); selecting from keys without repetition keeps each once and the leading ones in place (`SelectIs`), whence
the lifetimes (`TtlOfEach`); the contract asked about is the first key with an id (`Target`).

`TtlIsAttributed` speaks of footprints that name no key twice. Without that premise it fails: of the keys *a*, *x*, *a*, *b*,
where *x* does not exist, the second *a* is given the lifetime of *b*. The instance is too small for it (three entries), the proof
attempt found it.

`NetworkStatusProofs` proves, for every number of queries, every set of networks, every TTL
and every length of the clock (`QueriesAssumption`):

| theorem | statement |
|---|---|
| `QueriesTypeCorrect` | `Spec => []TypeOK` |
| `FreshAnswers` | `Spec => []AnswersAreFresh` |
| `FetchesAreSpared` | `Spec => AskedAgainOnlyIfOverwritten` |

The argument. A hit is as fresh as its entry, so `AnswersAreFresh` is not inductive: `EntriesAreTimed`
says that an entry's ledger is no older than its stamp, and its stamp in the past. `EntriesAreKept`
says that the entry is as new as any fetch that is not known to be overwritten; with it a query
that finds no fresh entry shows every such fetch to be older than the TTL, which is `FetchesAreSpared`.
`Entering` states what reading an entry yields, and `Asking`, `Replying` and `Failing` are the induction
steps of the actions that change a call.

`ServerProofs` proves, for every set of clients, every set of
requests they may send (paths are sequences of segments with at least one name: `ServerAssumption`) and every number of redirects:

| theorem | statement |
|---|---|
| `TheKeyIsAskedFor` | `Spec => []KeylessReachesOnlyOpenPaths` |
| `TheRedirectServesOneSegment` | `Spec => []RedirectServesOneSegment` |

The argument. The first theorem uses no assumption on a constant. Its invariant `IInv`
adds to the property that every request keeps its fields and has no answer while it is on its way (otherwise a
redirect could carry an old 200 along to a path that asks for the key). `Reshaping` says that an
update keeps the fields, and `Ending`, `Moving` and `Arriving` what an answer, a step along the
chain and an arrival preserve; `Proceeding`, `Following`, `Starting`, `Answering`
and `Rebuilding` apply them to the actions. The second adds `TInv`, which ties the present path to the one asked for:
a request still has the path it asked for, or one that the redirect made. Such a path is `api`, `v1` and one more segment, which is all that came
after `api`, joined (`Redirecting`, `Hopping`); joined segments have at least as many names as there were segments
(`Flattening`, by the same induction as for the folds), and a route's segment there has one name (`RouteIsOneName`).

`SimulationApiProofs` proves, for every finite set of requests, every batch size and every chunk
size (`ApiAssumption`):

| theorem | statement |
|---|---|
| `RequestsTypeCorrect` | `Spec => []TypeOK` |
| `ResultsAreMatched` | `Spec => []ResultsMatchTransactions` |
| `GaugeCountsBatches` | `Spec => []GaugeIsBalanced` |
| `AnsweredOnce` | `Spec => []OneResponse` |
| `AnsweredForGood` | `Spec => AnswerIsFinal` |
| `OneChunkAtATime` | `Spec => []OneChunkInFlight` |

The argument. `InTurn` cuts a running batch in three: what precedes the present chunk has settled, the
chunk is in flight or settled, nothing behind it has been launched. `Matched` says of the results collected
that they are the final outcomes of their transactions. `Launching`, `ChunkIsInterval` and `Collecting` are
what `Launch`, `Chunk` and `ChunkOutcomes` do to a sequence, and `Awaited` applies them at the
end of a chunk. `OneResponse` needs `Fresh`: a request that
has not arrived has neither a timer nor an answer; `AnswerIsFinal` follows action by action. The gauge is a cardinality, which `GaugeKept` follows through each change of `phase`. `OneChunkInFlight`
is checked by no run: it is a consequence of `InTurn`.

`BruteForceProofs` proves, for every finite set of failures, every window and block time, and every
integer threshold (`BruteForceAssumption`):

| theorem | statement |
|---|---|
| `CountersTypeCorrect` | `Spec => []TypeOK` |
| `CountsAreSound` | `Spec => []CountIsSound` |
| `SequentialCountsAreExact` | `Spec => []SequentialCountIsExact` |
| `OnlyOverlappingFailuresAreLost` | `Spec => []OnlyOverlapsAreLost` |

The argument. `CountIsSound` speaks of the record in the store, but a call under way may put back
one that has left it, so `RecordsAreSound` says the same of every record there is. A count grows only
by a call that has written nothing before (`NamesAreOwned`), so the set of failures grows with it, which needs the
call's time to be in the record's window (`DatesArePast` and the guard of `Counted`). Exactness without overlap needs to
know that the one call in progress has read what is stored and began after the stored window
(`OneAtATime`), and that a failure recorded before the window opened is older than it
(`RecordedUpToTheWindow`): only then does a new window begin with a count of one.

For `OnlyOverlapsAreLost` calls do overlap, and what must not be lost are the `Sure` failures. Calls in progress together
are known to overlap (`OverlapIsKnown`), so a failure becomes sure only when its call was alone, and it came before
every call still in progress (`SureCameFirst`). What any call has read, and may bring back, counts all sure failures of
its window (`ReadIsComplete`), and so does the record in the store (`StoreIsComplete`): a call that starts a new window finds
the sure failures older than it, one that adds to a record keeps its window (`WrittenIsComplete`), and steps
that write nothing only make failures less sure (`NothingSurer`).

`LruCacheProofs` proves, for every finite set of keys, all values, lifetimes, stale times and sizes
(`LruAssumption`):

| theorem | statement |
|---|---|
| `CacheTypeCorrect` | `Spec => []TypeOK` |
| `KeysInUseSurvive` | `Spec => []NewestSurvives` |
| `CacheImplementsMap` | `Spec => ImplementsExpiringMap` |

The argument. `TypeOK` says that `order` lists the keys that have an entry and is as long as there are
such keys. To keep that, a list must not repeat a key (`Unrepeated`): otherwise removing one occurrence would
leave another behind. `NewestSurvives` follows from `NewestIsLast`: in a list of two or more, the
last is not the first. The lemmas about lists (`WithoutProperties`, `AppendedProperties`,
`TailKeepsTheRest`) say what the helpers return; `ErasureKeeps`, `MoveKeeps`, `SetKeeps`, `FlushKeeps` and `TickKeeps`
are the induction, and `MissRefines` to `TickRefines` map each operation to its counterpart of `ExpiringMap`.
Only `SetRefines` needs the list: the key evicted is one that is held.

`ReadinessProofs` proves, for every finite set of probes, every lifetime of the key and every length of the
clock (`ReadinessAssumption`):

| theorem | statement |
|---|---|
| `ProbesTypeCorrect` | `Spec => []TypeOK` |
| `ProbesCleanUp` | `Spec => []NothingLeftBehind` |
| `LoneProbeIsBelieved` | `Spec => []LoneProbeIsRight` |

The argument. `NothingLeftBehind` follows from the types alone: whatever ends a probe that is in progress
either takes the key along or leaves the probe among the failed. For `LoneProbeIsRight`, two probes
in progress know of each other (`OverlapIsExcused`), so the key of a probe on its own is touched by
none but itself and lives as long as it should (`LoneKeyLives`), and what that probe reads is what it has
written (`LoneReadIsOwn`). `Undecided` says that a probe without an answer has met no fault.

Only model-checked is liveness (`RecoversWhenRpcHeals`, `TrialOpensTheGate`, `EveryRequestSettles`, `EveryRequestIsAnswered`,
`QueriesSettle`, `RequestsSettle`, `SignalLeadsToExit`): fairness and ENABLED are beyond the prover. Every other property of a passing run has a theorem.

No module declares a RECURSIVE operator.

## What the documents say and the code does not do

Three disagreements are runs that TLC finds violated; `PROJECT.json` quotes the sentence.

| run | the document | the code |
|---|---|---|
| `gate_stuck` | automatic recovery (ADR 002) | an open breaker out of rotation gets no call to recover by |
| `single_probe` | a half-open breaker allows a single probe call (ADR 002) | every caller is let through until one of them settles |
| `probe_route` | the liveness probe is `GET /api/health/live` (Kubernetes guide) | the path is redirected from one that does not exist to the next |

The models contain others, which no run singles out. The first five are serious:

* A valid `POST /simulate` is always answered 500: line 147 of the controllers reads the undeclared
  `ledgerSequence` (`SimulateOne`), where an integration test expects 200.
* While the Redis of the counters is down, every request that gets as far as the brute force
  middleware is answered 500, the health routes included (`StoreFails`). The log line promises a
  fall back to memory; `bruteForce.ts` keeps the Redis store it captured at load (`RedisFails`).
* Lifetimes are misattributed from the first entry that does not exist onwards: the i-th entry returned is
  matched with the i-th key asked for (`TtlMap`; `TtlIsAttributed` says what still holds).
* A contract is recognised as a token only if its code comes first: the id of a `ContractData`
  entry is the address of a contract, for which there is no code to find (`DetectionReturns`). An RPC
  error is remembered as "unknown" for the life of the process. And code is taken for a token's when six
  of twelve names occur anywhere in its text, in the names of other functions or in its data (`Includes`).
* `bruteForce.test.ts:67` starts four failures of an address at once and expects them to block it. They overlap,
  none finds a record, each leaves one with a count of one, and the address is not blocked (`Write`). `OnlyOverlapsAreLost`
  says that no failure but these is lost.
* The architecture document says the timeout aborts requests; a batch starts further chunks after its
  504 (`NextChunk`).
* `DELETE /cache` also empties the brute force counters and takes the readiness probes' key, of all
  pods, unless `BRUTE_FORCE_REDIS_URL` separates the counters (`FlushCache`).
* An unversioned path of several segments is redirected to no route, for every route of the API
  (`RedirectServesOneSegment`).
* ADR 002 has no transition from open to closed; `Succeed` closes an open breaker when
  a call admitted before it opened succeeds.
* ADR 002 says the breaker wraps every RPC call; the token detection goes past it
  (`StartDetection`).
* ADR 002 says calls are rejected with a 503; in a batch a rejection becomes an entry
  of a 200 answer (`Finish`).
* A batch that has timed out adds one more failure to `simulate_requests_total` than it has
  transactions, and counts as one in `active_simulations` whatever it has in flight (`Finish`,
  `StartBatch`).
* ADR 003 says a block lasts `BRUTE_FORCE_BLOCK_MS`; the middleware tests the window first,
  so it ends with the window (`Admission`).
* ADR 001 says the cache evicts the least recently used item; writing a key again leaves it
  where it was in the order (`Set`).
* `openapi.yaml` says a 503 of `/health/ready` means cache or RPC unhealthy; overlapping probes of
  two pods disturb each other's key: one replaces or deletes what the other has set (`LoneProbeIsRight` says when a 503 can be believed).

## What is not modelled

* The counters of the rate limiter are a library's; decoder, validator, restorer and XDR parser are
  stateless conversions done by the Stellar SDK; logging, request ids, HTTP metrics,
  translations and error codes carry no state that a property could tell apart.
* `rpcClient.ts` and `footprintExtractor.ts` are imported by nothing that runs, `hmacVerify.ts` is
  installed nowhere, and `footprintDiff.ts` is not called: its controller answers 501.
* Lines 584-737 of `simulator.ts` cannot be reached: `results` has at most one element.
* The history of simulations (`GET /simulate/history`): nothing calls `recordHistory`, so it is always
  empty. OPTIONS requests, the conditional answers of `httpCache.ts`, the
  matching of addresses against CIDR blocks, what Swagger's pages say, and the required signers and
  statistics of a footprint.
* The abort signal of the timeout, which nothing reads, and the socket that Express destroys when an error
  comes after a 504.
* The stale mark of the memory cache is modelled and constrained by its type only: no caller in `src/` uses it.
* The servers of the RPC pool are interchangeable: nothing can tell an old one from a new one.
* A negative `RPC_MAX_RETRIES`, with which the retry loop throws `undefined`.
* `webhook.ts`: no route reaches it (see the plan).

## Plan

1. `Webhook`: retries, lost answers and duplicates, once a route creates jobs.
2. A negative `RPC_MAX_RETRIES` in `SimulateTransaction`.
