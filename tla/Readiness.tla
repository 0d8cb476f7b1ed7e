------------------------------ MODULE Readiness -----------------------------
(***************************************************************************)
(* GET /health/ready (src/api/controllers.ts:60-116) asked of the pods of  *)
(* one deployment at the same time.  Each probe sets, gets and deletes the *)
(* key "__health_check__" in the Redis the pods share, with an await after *)
(* each command; an action is the execution of a command by Redis together *)
(* with the code up to the next one.  Over the in-memory cache there is no *)
(* I/O between the three and nothing to interleave.                        *)
(***************************************************************************)
EXTENDS Integers, FiniteSets

CONSTANTS
  Probes,    \* the probes in progress, on any of the pods
  Lifetime,  \* the 5000 ms the key is set for
  MaxNow,    \* bound on the clock
  None       \* no value

ASSUME ReadinessAssumption ==
  /\ IsFiniteSet(Probes)
  /\ Lifetime \in Nat \ {0}
  /\ MaxNow \in Nat
  /\ None \notin Int

VARIABLES
  now,      \* Date.now(), equal on all pods
  key,      \* the value of the key in Redis
  left,     \* its remaining life
  redis,    \* "up" or "down"
  outage,   \* has a connection to Redis ever failed?
  step,     \* the command each probe is at
  stamp,    \* its testValue
  seen,     \* its retrieved
  verdict,  \* its answer: 200, 503, 0 before that
  failed,   \* history: a command of the probe failed, or its pod
  tripped,  \* history: the probe found its pod's breaker open
  excused   \* history: the probe shared the key, read it too late,
            \* or lost it to a flush

vars == <<now, key, left, redis, outage, step, stamp, seen, verdict, failed,
          tripped, excused>>

Values == 0..MaxNow

TypeOK ==
  /\ now \in Values
  /\ key \in Values \cup {None}
  /\ left \in 0..Lifetime
  /\ redis \in {"up", "down"}
  /\ outage \in BOOLEAN
  /\ step \in [Probes -> {"new", "get", "delete", "done"}]
  /\ stamp \in [Probes -> Values]
  /\ seen \in [Probes -> Values \cup {None}]
  /\ verdict \in [Probes -> {0, 200, 503}]
  /\ failed \subseteq Probes
  /\ tripped \subseteq Probes
  /\ excused \subseteq Probes

Init ==
  /\ now = 0
  /\ key = None
  /\ left = 0
  /\ redis = "up"
  /\ outage = FALSE
  /\ step = [p \in Probes |-> "new"]
  /\ stamp = [p \in Probes |-> 0]
  /\ seen = [p \in Probes |-> None]
  /\ verdict = [p \in Probes |-> 0]
  /\ failed = {}
  /\ tripped = {}
  /\ excused = {}

-----------------------------------------------------------------------------

\* The breaker is read after the cache checks; the answer is 200 when both are
\* healthy.
Answer(p, cacheHealthy) ==
  /\ step' = [step EXCEPT ![p] = "done"]
  /\ \E open \in BOOLEAN :
       /\ tripped' = IF open THEN tripped \cup {p} ELSE tripped
       /\ verdict' = [verdict EXCEPT ![p] =
                        IF cacheHealthy /\ ~open THEN 200 ELSE 503]

InProgress == {p \in Probes : step[p] \in {"get", "delete"}}

Share(p) ==
  excused' = IF InProgress = {} THEN excused ELSE excused \cup InProgress \cup {p}

\* Mutant: the lifetime is given in seconds.
SetKeySeconds(p) ==
  /\ step[p] = "new" /\ redis = "up"
  /\ step' = [step EXCEPT ![p] = "get"]
  /\ stamp' = [stamp EXCEPT ![p] = now]
  /\ key' = now
  /\ left' = 1000 * Lifetime
  /\ Share(p)
  /\ UNCHANGED <<now, redis, outage, seen, verdict, failed, tripped>>

\* await cache.set(testKey, testValue, 5000)
SetKey(p) ==
  /\ step[p] = "new" /\ redis = "up"
  /\ step' = [step EXCEPT ![p] = "get"]
  /\ stamp' = [stamp EXCEPT ![p] = now]
  /\ key' = now
  /\ left' = Lifetime
  /\ Share(p)
  /\ UNCHANGED <<now, redis, outage, seen, verdict, failed, tripped>>

\* Mutant: the key is deleted before it is read.
GetKeyDeleted(p) ==
  /\ step[p] = "get" /\ redis = "up"
  /\ step' = [step EXCEPT ![p] = "delete"]
  /\ seen' = [seen EXCEPT ![p] = None]
  /\ key' = None
  /\ left' = 0
  /\ UNCHANGED <<now, redis, outage, stamp, verdict, failed, tripped, excused>>

\* const retrieved = await cache.get(testKey)
GetKey(p) ==
  /\ step[p] = "get" /\ redis = "up"
  /\ step' = [step EXCEPT ![p] = "delete"]
  /\ seen' = [seen EXCEPT ![p] = key]
  /\ excused' = IF now - stamp[p] >= Lifetime THEN excused \cup {p} ELSE excused
  /\ UNCHANGED <<now, key, left, redis, outage, stamp, verdict, failed, tripped>>

\* Mutant: the key is left to expire.
DeleteKeyNever(p) ==
  /\ step[p] = "delete" /\ redis = "up"
  /\ Answer(p, seen[p] = stamp[p])
  /\ UNCHANGED <<now, key, left, redis, outage, stamp, seen, failed, excused>>

\* await cache.delete(testKey), and the answer
DeleteKey(p) ==
  /\ step[p] = "delete" /\ redis = "up"
  /\ key' = None
  /\ left' = 0
  /\ Answer(p, seen[p] = stamp[p])
  /\ UNCHANGED <<now, redis, outage, stamp, seen, failed, excused>>

\* A command rejects: the catch block skips the ones after it.
CommandFails(p) ==
  /\ step[p] # "done" /\ redis = "down"
  /\ failed' = failed \cup {p}
  /\ Answer(p, FALSE)
  /\ UNCHANGED <<now, key, left, redis, outage, stamp, seen, excused>>

\* Redis has run the command, and the connection breaks before its reply.
LoseReply(p) ==
  /\ step[p] \in {"new", "delete"} /\ redis = "up"
  /\ failed' = failed \cup {p}
  /\ outage' = TRUE
  /\ key' = IF step[p] = "new" THEN now ELSE None
  /\ left' = IF step[p] = "new" THEN Lifetime ELSE 0
  /\ Answer(p, FALSE)
  /\ Share(p)
  /\ UNCHANGED <<now, redis, stamp, seen>>

\* The 'error' event of the client has replaced the pod's cache by a memory
\* cache, for good: the probe's commands all succeed there.
ProbeMemory(p) ==
  /\ step[p] = "new" /\ outage
  /\ stamp' = [stamp EXCEPT ![p] = now]
  /\ seen' = [seen EXCEPT ![p] = now]
  /\ Answer(p, TRUE)
  /\ UNCHANGED <<now, key, left, redis, outage, failed, excused>>

\* DELETE /cache of any pod: flushdb takes the key of the probes with the rest.
FlushCache ==
  /\ redis = "up"
  /\ key' = None
  /\ left' = 0
  /\ excused' = excused \cup {p \in Probes : step[p] = "get"}
  /\ UNCHANGED <<now, redis, outage, step, stamp, seen, verdict, failed, tripped>>

\* The probe's pod stops before it has answered.  The pod that takes its place
\* starts with Redis again: SetKey stays possible after an outage.
Crash(p) ==
  /\ step[p] \in {"get", "delete"}
  /\ step' = [step EXCEPT ![p] = "done"]
  /\ failed' = failed \cup {p}
  /\ UNCHANGED <<now, key, left, redis, outage, stamp, seen, verdict, tripped,
                 excused>>

\* Redis stops or starts to answer; it keeps its data.
RedisTurns ==
  /\ redis' \in {"up", "down"} \ {redis}
  /\ outage' = TRUE
  /\ UNCHANGED <<now, key, left, step, stamp, seen, verdict, failed, tripped, excused>>

Tick ==
  /\ now < MaxNow
  /\ now' = now + 1
  /\ left' = IF left = 0 THEN 0 ELSE left - 1
  /\ key' = IF left' = 0 THEN None ELSE key
  /\ UNCHANGED <<redis, outage, step, stamp, seen, verdict, failed, tripped, excused>>

Next ==
  \/ \E p \in Probes :
       \/ SetKey(p) \/ GetKey(p) \/ DeleteKey(p)
       \/ CommandFails(p) \/ LoseReply(p) \/ ProbeMemory(p) \/ Crash(p)
  \/ FlushCache
  \/ RedisTurns
  \/ Tick

Spec == Init /\ [][Next]_vars

-----------------------------------------------------------------------------
(* Safety *)

\* The probes clean up after themselves however they overlap: the key is there
\* only while a probe that may have set it is in progress, or after a failed
\* command or the end of its pod kept one from deleting it.
NothingLeftBehind ==
  key # None => InProgress # {} \/ failed # {}

\* A probe that has the key to itself, and reads it within its lifetime and before
\* any flush, is right: it answers 503 only if a command failed or the breaker was
\* open.
LoneProbeIsRight ==
  \A p \in Probes :
    verdict[p] = 503 /\ p \notin excused => p \in failed \cup tripped
=============================================================================
