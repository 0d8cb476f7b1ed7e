------------------------------ MODULE BruteForce ----------------------------
(***************************************************************************)
(* The failure counter of one client address (src/middleware/bruteForce.ts)*)
(* over its store (src/middleware/counterStore.ts): concurrent calls of    *)
(* recordFailure, each of which reads the record, awaits, and writes it    *)
(* back, and the admission test of bruteForceMiddleware.                   *)
(*                                                                         *)
(* The in-memory store hands out the record object itself, Redis a copy of *)
(* it.  A record is named here by the call that created it: a write to     *)
(* memory updates the object that was read, a write to Redis stores a new  *)
(* one.  The Redis entry outlives both the window and the block (TTL_MS),  *)
(* so its expiry cannot be told from that of the window and is left out.   *)
(***************************************************************************)
EXTENDS Integers, FiniteSets

CONSTANTS
  Calls,           \* the calls of recordFailure for this address
  Window,          \* BRUTE_FORCE_WINDOW_MS
  BlockTime,       \* BRUTE_FORCE_BLOCK_MS
  DelayThreshold,  \* BRUTE_FORCE_DELAY_THRESHOLD
  BlockThreshold,  \* BRUTE_FORCE_BLOCK_THRESHOLD
  MaxNow,          \* bound on the clock
  None             \* no record

ASSUME BruteForceAssumption ==
  /\ IsFiniteSet(Calls)
  /\ {Window, BlockTime, MaxNow} \subseteq Nat
  /\ {DelayThreshold, BlockThreshold} \subseteq Int
  /\ None \notin Calls

VARIABLES
  now,       \* Date.now()
  phase,     \* "new", "sent" (Redis GET under way), "read", "done", "failed"
  start,     \* now of each call, taken before its await
  read,      \* the record it has read, by name
  heap,      \* the records
  store,     \* the record the store holds
  redis,     \* "up" or "down"
  backend,   \* the store captured at module load: "memory" or "redis"
  wrote,     \* history: the record each call has written
  disturbed  \* history: the calls that overlapped another, or that a flush hit

vars == <<now, phase, start, read, heap, store, redis, backend, wrote, disturbed>>

\* A block ends at most BLOCK_MS after the failure that set it.
Records ==
  [count : 0..Cardinality(Calls), windowStart : 0..MaxNow,
   blockedUntil : 0..(MaxNow + BlockTime)]

Blank == [count |-> 0, windowStart |-> 0, blockedUntil |-> 0]

Phases == {"new", "sent", "read", "done", "failed"}

InProgress == {c \in Calls : phase[c] \in {"sent", "read"}}

TypeOK ==
  /\ now \in 0..MaxNow
  /\ phase \in [Calls -> Phases]
  /\ start \in [Calls -> 0..MaxNow]
  /\ read \in [Calls -> Calls \cup {None}]
  /\ heap \in [Calls -> Records]
  /\ store \in Calls \cup {None}
  /\ redis \in {"up", "down"}
  /\ backend \in {"memory", "redis"}
  /\ wrote \in [Calls -> Calls \cup {None}]
  /\ disturbed \subseteq Calls

Init ==
  /\ now = 0
  /\ phase = [c \in Calls |-> "new"]
  /\ start = [c \in Calls |-> 0]
  /\ read = [c \in Calls |-> None]
  /\ heap = [c \in Calls |-> Blank]
  /\ store = None
  /\ redis = "up"
  /\ backend \in {"memory", "redis"}
  /\ wrote = [c \in Calls |-> None]
  /\ disturbed = {}

-----------------------------------------------------------------------------
(* recordFailure up to its await: in memory the record is read at once, in  *)
(* Redis when the GET is served; with Redis down the GET rejects.          *)

Begin(c) ==
  /\ phase[c] = "new"
  /\ start' = [start EXCEPT ![c] = now]
  /\ disturbed' = IF InProgress = {} THEN disturbed
                 ELSE disturbed \cup InProgress \cup {c}
  /\ IF backend = "memory"
       THEN /\ phase' = [phase EXCEPT ![c] = "read"]
            /\ read' = [read EXCEPT ![c] = store]
       ELSE /\ phase' = [phase EXCEPT ![c] =
                            IF redis = "up" THEN "sent" ELSE "failed"]
            /\ UNCHANGED read
  /\ UNCHANGED <<now, heap, store, redis, backend, wrote>>

ServeGet(c) ==
  /\ phase[c] = "sent" /\ redis = "up"
  /\ phase' = [phase EXCEPT ![c] = "read"]
  /\ read' = [read EXCEPT ![c] = store]
  /\ UNCHANGED <<now, start, heap, store, redis, backend, wrote, disturbed>>

LoseGet(c) ==
  /\ phase[c] = "sent" /\ redis = "down"
  /\ phase' = [phase EXCEPT ![c] = "failed"]
  /\ UNCHANGED <<now, start, read, heap, store, redis, backend, wrote, disturbed>>

\* Mutant: the window of the record is not tested.
NeedsNewWindowIfNone(c) == read[c] = None

\* Mutant: a call that finds its record replaced in the meantime starts afresh.
NeedsNewWindowOnConflict(c) ==
  \/ read[c] = None \/ read[c] # store
  \/ start[c] - heap[read[c]].windowStart > Window

\* !record || now - record.windowStart > WINDOW_MS
NeedsNewWindow(c) ==
  read[c] = None \/ start[c] - heap[read[c]].windowStart > Window

\* Mutant: a failure during a block prolongs the block.
CountedProlonging(record, t) ==
  [record EXCEPT
     !.count = @ + 1,
     !.blockedUntil = IF record.count + 1 >= BlockThreshold
                        THEN (IF @ = 0 THEN t ELSE @) + BlockTime ELSE @]

\* Mutant: every failure starts the window afresh, without resetting the count.
CountedSliding(record, t) ==
  [record EXCEPT
     !.count = @ + 1,
     !.windowStart = t,
     !.blockedUntil = IF record.count + 1 >= BlockThreshold
                        THEN t + BlockTime ELSE @]

Counted(record, t) ==
  [record EXCEPT
     !.count = @ + 1,
     !.blockedUntil = IF record.count + 1 >= BlockThreshold
                        THEN t + BlockTime ELSE @]

\* The record the call leaves in the store.
Target(c) == IF NeedsNewWindow(c) \/ backend = "redis" THEN c ELSE read[c]

\* The rest of recordFailure.  The reply of the Redis SET may be lost: the call
\* rejects although its record is stored.
Write(c) ==
  /\ phase[c] = "read" /\ (backend = "redis" => redis = "up")
  /\ \E p \in {"done"} \cup (IF backend = "redis" THEN {"failed"} ELSE {}) :
       phase' = [phase EXCEPT ![c] = p]
  /\ heap' = [heap EXCEPT ![Target(c)] =
       IF NeedsNewWindow(c)
         THEN [count |-> 1, windowStart |-> start[c], blockedUntil |-> 0]
         ELSE Counted(heap[read[c]], start[c])]
  /\ store' = Target(c)
  /\ wrote' = [wrote EXCEPT ![c] = Target(c)]
  /\ UNCHANGED <<now, start, read, redis, backend, disturbed>>

LoseSet(c) ==
  /\ phase[c] = "read" /\ backend = "redis" /\ redis = "down"
  /\ phase' = [phase EXCEPT ![c] = "failed"]
  /\ UNCHANGED <<now, start, read, heap, store, redis, backend, wrote, disturbed>>

-----------------------------------------------------------------------------
(* The environment. *)

\* DELETE /cache of any pod: flushdb empties the database, which the counters
\* share with the cache unless BRUTE_FORCE_REDIS_URL is set.
FlushCache ==
  /\ backend = "redis" /\ redis = "up"
  /\ store' = None
  /\ disturbed' = disturbed \cup {c \in Calls : phase[c] # "new"}
  /\ UNCHANGED <<now, phase, start, read, heap, redis, backend, wrote>>

\* The 'error' event of the client replaces _store, which nothing reads again:
\* the store this module captured on line 16 stays the Redis one.
RedisFails ==
  /\ backend = "redis" /\ redis = "up"
  /\ redis' = "down"
  /\ UNCHANGED <<now, phase, start, read, heap, store, backend, wrote, disturbed>>

RedisReturns ==
  /\ redis = "down"
  /\ redis' = "up"
  /\ UNCHANGED <<now, phase, start, read, heap, store, backend, wrote, disturbed>>

Tick ==
  /\ now < MaxNow
  /\ now' = now + 1
  /\ UNCHANGED <<phase, start, read, heap, store, redis, backend, wrote, disturbed>>

Next ==
  \/ \E c \in Calls :
       Begin(c) \/ ServeGet(c) \/ LoseGet(c) \/ Write(c) \/ LoseSet(c)
  \/ RedisFails \/ RedisReturns \/ FlushCache \/ Tick

Spec == Init /\ [][Next]_vars

-----------------------------------------------------------------------------
(* bruteForceMiddleware: what a request that reads the record now is given. *)

Admission(record) ==
  IF now - record.windowStart > Window THEN "next"
  ELSE IF now < record.blockedUntil THEN "blocked"
  ELSE IF record.count >= DelayThreshold THEN "delayed" ELSE "next"

-----------------------------------------------------------------------------
(* Safety *)

Recorded == {c \in Calls : wrote[c] # None}

\* The failures that belong to the window of a record.
FailuresOf(record) == {c \in Recorded : start[c] - record.windowStart <= Window}

\* A client is never held for failures it did not make: the stored count is at
\* most the number of failures recorded up to the end of its window, and an
\* address is blocked only when that reaches the threshold, however calls
\* interleave, whichever of them is the last to write, and also when one brings
\* back the record that a flush of the cache has just removed.
CountIsSound ==
  store # None =>
    LET record == heap[store] IN
    /\ record.count <= Cardinality(FailuresOf(record))
    /\ Admission(record) = "blocked" =>
         Cardinality(FailuresOf(record)) >= BlockThreshold

\* As long as no two calls overlap and the cache is not flushed, every failure
\* recorded since the window began is counted, in memory and in Redis.
SequentialCountIsExact ==
  disturbed = {} /\ store # None =>
    LET record == heap[store] IN
    record.count =
      Cardinality({c \in Recorded : start[c] >= record.windowStart})

\* The failures recorded by calls that overlapped no other, since the last flush
Sure == Recorded \ disturbed

\* A failure is lost only to an overlap or a flush: one recorded by a call that
\* overlapped no other is counted for as long as the stored window goes back to
\* it, although calls before and after it overlap, bring back records that others
\* have replaced, or lose their replies (bruteForce.ts:18-34).
OnlyOverlapsAreLost ==
  /\ Sure # {} => store # None
  /\ store # None =>
       LET record == heap[store] IN
       record.count >= Cardinality({c \in Sure : start[c] >= record.windowStart})

=============================================================================
