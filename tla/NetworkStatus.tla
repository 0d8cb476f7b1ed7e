----------------------------- MODULE NetworkStatus --------------------------
(***************************************************************************)
(* GET /network/status, of one network or of all that are configured      *)
(* (src/api/controllers.ts:317-384), over getNetworkStatus and its cache   *)
(* (src/services/networkStatus.ts).  A query runs to its first await in    *)
(* one step; the replies of the RPC nodes arrive in any order, or not.     *)
(***************************************************************************)
EXTENDS Integers, FiniteSets

CONSTANTS
  MaxRequests, \* bound on the queries, numbered as they come in
  Networks,    \* mainnet, testnet, futurenet
  Configured,  \* the networks whose RPC URL is set
  Responsive,  \* the networks whose RPC answers in the end
  Ttl,         \* NETWORK_STATUS_TTL_MS
  MaxNow,      \* bound on the clock
  None         \* no value

ASSUME QueriesAssumption ==
  /\ Configured \subseteq Networks
  /\ Responsive \subseteq Networks
  /\ Ttl \in Nat \ {0}
  /\ MaxNow \in Nat /\ MaxRequests \in Nat
  /\ None \notin Int /\ None \notin [ledger : Nat, stamp : Nat]

VARIABLES
  now,          \* Date.now()
  cache,        \* the cached ledger of each network and its time stamp
  kind,         \* what each request asks for
  call,         \* its getNetworkStatus for each network
  answer,       \* the HTTP status it was answered, 0 before that
  overwritten   \* history: the fetches a slower, older one has overwritten

vars == <<now, cache, kind, call, answer, overwritten>>

Requests == 1..MaxRequests

Times == 0..MaxNow

Call == [at : {"idle", "sent", "got", "hit", "failed"},
         entered : Times, ledger : Times]

Idle == [at |-> "idle", entered |-> 0, ledger |-> 0]

TypeOK ==
  /\ now \in Times
  /\ cache \in [Networks -> [ledger : Times, stamp : Times] \cup {None}]
  /\ kind \in [Requests -> {"new", "one", "all", "invalid"}]
  /\ call \in [Requests -> [Networks -> Call]]
  /\ answer \in [Requests -> {0, 200, 400, 500}]
  /\ overwritten \subseteq Requests \X Networks

Init ==
  /\ now = 0
  /\ cache = [n \in Networks |-> None]
  /\ kind = [r \in Requests |-> "new"]
  /\ call = [r \in Requests |-> [n \in Networks |-> Idle]]
  /\ answer = [r \in Requests |-> 0]
  /\ overwritten = {}

-----------------------------------------------------------------------------

Fresh(n) == cache[n] # None /\ now - cache[n].stamp < Ttl

\* getNetworkStatus up to its await; without a URL getNetworkConfig throws.
GetNetworkStatus(n) ==
  IF Fresh(n) THEN [at |-> "hit", entered |-> now, ledger |-> cache[n].ledger]
  ELSE [at |-> IF n \in Configured THEN "sent" ELSE "failed",
        entered |-> now, ledger |-> 0]

\* The answer once nothing is awaited any more.  Promise.all awaits every
\* network, and a failure becomes an entry of the answer.
Verdict(k, calls) ==
  IF \E n \in Networks : calls[n].at = "sent" THEN 0
  ELSE IF k = "one" /\ \E n \in Networks : calls[n].at = "failed" THEN 500
  ELSE 200

Settle(r, k, calls) ==
  /\ call' = [call EXCEPT ![r] = calls]
  /\ answer' = [answer EXCEPT ![r] = Verdict(k, calls)]

IsNext(r) == kind[r] = "new" /\ \A q \in 1..(r - 1) : kind[q] # "new"

Ask(r, k, S) ==
  /\ IsNext(r)
  /\ kind' = [kind EXCEPT ![r] = k]
  /\ Settle(r, k, [n \in Networks |-> IF n \in S THEN GetNetworkStatus(n) ELSE Idle])
  /\ UNCHANGED <<now, cache, overwritten>>

AskOne(r, n) == Ask(r, "one", {n})

AskAll(r) == Ask(r, "all", Configured)

\* A network that is none of the three
AskInvalid(r) ==
  /\ IsNext(r)
  /\ kind' = [kind EXCEPT ![r] = "invalid"]
  /\ answer' = [answer EXCEPT ![r] = 400]
  /\ UNCHANGED <<now, cache, call, overwritten>>

\* Mutant: the entry is stamped when the reply arrives.
StoreStampedLate(n, ledger, entered) ==
  cache' = [cache EXCEPT ![n] = [ledger |-> ledger, stamp |-> now]]

\* Mutant: an entry is never replaced.
StoreOnce(n, ledger, entered) ==
  cache' = [cache EXCEPT ![n] =
    IF @ = None THEN [ledger |-> ledger, stamp |-> entered] ELSE @]

\* Mutant: the entry is stamped with the time it expires.
StoreStampedAhead(n, ledger, entered) ==
  cache' = [cache EXCEPT ![n] = [ledger |-> ledger, stamp |-> entered + Ttl]]

\* cache.set(network, { data: result, timestamp: now }): the stamp is the time
\* the query entered, whatever the cache holds by now.
Store(n, ledger, entered) ==
  cache' = [cache EXCEPT ![n] =
    [ledger |-> ledger, stamp |-> entered]]

\* The fetches of n that began after r's and were answered before it
Overtook(r, n) ==
  {q \in Requests : call[q][n].at = "got" /\ call[q][n].entered > call[r][n].entered}

\* The RPC, which closes a ledger at each tick, has read its latest at some
\* time since the query was sent.
Reply(r, n) ==
  /\ call[r][n].at = "sent"
  /\ \E ledger \in call[r][n].entered..now :
       /\ Settle(r, kind[r], [call[r] EXCEPT ![n].at = "got", ![n].ledger = ledger])
       /\ Store(n, ledger, call[r][n].entered)
  /\ overwritten' = overwritten \cup (Overtook(r, n) \X {n})
  /\ UNCHANGED <<now, kind>>

\* Mutant: the rejection is not handled.
RpcFailsUnheard(r, n) ==
  /\ call[r][n].at = "sent"
  /\ call' = [call EXCEPT ![r][n].at = "idle"]
  /\ UNCHANGED <<now, cache, kind, answer, overwritten>>

\* The RPC fails, or its reply is lost.
RpcFails(r, n) ==
  /\ call[r][n].at = "sent"
  /\ Settle(r, kind[r], [call[r] EXCEPT ![n].at = "failed"])
  /\ UNCHANGED <<now, cache, kind, overwritten>>

Tick ==
  /\ now < MaxNow
  /\ now' = now + 1
  /\ UNCHANGED <<cache, kind, call, answer, overwritten>>

Next ==
  \/ \E r \in Requests :
       \/ AskAll(r) \/ AskInvalid(r)
       \/ \E n \in Networks : AskOne(r, n) \/ Reply(r, n) \/ RpcFails(r, n)
  \/ Tick

Fairness ==
  \A r \in Requests, n \in Responsive : WF_vars(Reply(r, n))

Spec == Init /\ [][Next]_vars /\ Fairness

-----------------------------------------------------------------------------

\* No query, hit or miss, is given a ledger as old as the TTL when it came in,
\* however late the answers arrive that fill the cache and in whatever order
\* they overwrite each other (services/networkStatus.ts:27-49).
AnswersAreFresh ==
  \A r \in Requests, n \in Networks :
    call[r][n].at \in {"hit", "got"}
      => call[r][n].ledger > call[r][n].entered - Ttl

\* The RPC is asked for a ledger again within the TTL of a fetch that has
\* succeeded only if a fetch that began before that one, but was answered after
\* it, has overwritten it: failures and other networks do not spend the cache.
AskedAgainOnlyIfOverwritten ==
  [][\A r, q \in Requests, n \in Networks :
       /\ call[r][n].at = "idle" /\ call'[r][n].at = "sent"
       /\ call[q][n].at = "got"
       => now - call[q][n].entered >= Ttl \/ <<q, n>> \in overwritten]_vars

\* A query is answered when the networks it waits for all answer: it never
\* waits for another query's fetch.  (One silent network holds up a query for
\* all of them.)
QueriesSettle ==
  \A r \in Requests :
    kind[r] # "new" /\ (\A n \in Networks : call[r][n].at # "idle" => n \in Responsive)
      ~> answer[r] # 0
=============================================================================
