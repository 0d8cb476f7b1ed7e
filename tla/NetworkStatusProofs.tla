-------------------------- MODULE NetworkStatusProofs ------------------------
(***************************************************************************)
(* What the network status cache promises, for any number of queries,      *)
(* networks, TTL and length of time.  All of it follows from how an entry  *)
(* relates to the clock and to the fetches that have been answered.        *)
(***************************************************************************)
EXTENDS NetworkStatus, TLAPS

\* An entry is stamped in the past, with a ledger closed since.
EntriesAreTimed ==
  \A n \in Networks : cache[n] # None =>
    cache[n].stamp <= now /\ cache[n].stamp <= cache[n].ledger

CallsAreTimed ==
  \A r \in Requests, n \in Networks :
    /\ call[r][n].entered <= now
    /\ call[r][n].at \in {"hit", "got"}
         => call[r][n].ledger > call[r][n].entered - Ttl

\* The entry is as new as any fetch that is not known to be overwritten.
EntriesAreKept ==
  \A q \in Requests, n \in Networks : call[q][n].at = "got" =>
    /\ cache[n] # None
    /\ cache[n].stamp >= call[q][n].entered \/ <<q, n>> \in overwritten

IInv == TypeOK /\ EntriesAreTimed /\ CallsAreTimed /\ EntriesAreKept

-----------------------------------------------------------------------------

\* Reading an entry: what getNetworkStatus leaves before its await has the type
\* of a call, is timed, and is a fetch only if there is no fresh entry.
LEMMA Entering ==
  ASSUME IInv, NEW n \in Networks
  PROVE  /\ GetNetworkStatus(n) \in Call
         /\ GetNetworkStatus(n).entered = now
         /\ GetNetworkStatus(n).at # "got"
         /\ GetNetworkStatus(n).at \in {"hit", "got"}
              => GetNetworkStatus(n).ledger > now - Ttl
         /\ GetNetworkStatus(n).at = "sent" => ~Fresh(n)
<1>1. now \in Nat /\ now \in Times
  BY QueriesAssumption DEF IInv, TypeOK, Times
<1>2. CASE Fresh(n)
  <2>1. /\ cache[n] # None
        /\ cache[n] \in [ledger : Times, stamp : Times]
    BY <1>2 DEF Fresh, IInv, TypeOK
  <2>2. cache[n].ledger > now - Ttl
    BY <1>1, <1>2, <2>1, QueriesAssumption DEF Fresh, IInv, EntriesAreTimed, Times
  <2> QED
    BY <1>1, <1>2, <2>1, <2>2 DEF GetNetworkStatus, Call
<1>3. CASE ~Fresh(n)
  BY <1>1, <1>3, QueriesAssumption DEF GetNetworkStatus, Call, Times
<1> QED
  BY <1>2, <1>3

\* The states a query is in before any reply
LEMMA Asking ==
  ASSUME IInv, NEW r \in Requests, NEW k \in {"one", "all"},
         NEW S \in SUBSET Networks, Ask(r, k, S)
  PROVE  IInv'
<1> DEFINE calls == [n \in Networks |-> IF n \in S THEN GetNetworkStatus(n) ELSE Idle]
<1>1. /\ now \in Times /\ now \in Nat
      /\ UNCHANGED <<now, cache, overwritten>>
      /\ kind' = [kind EXCEPT ![r] = k]
      /\ call' = [call EXCEPT ![r] = calls]
      /\ answer' = [answer EXCEPT ![r] = Verdict(k, calls)]
  BY QueriesAssumption DEF Ask, Settle, IInv, TypeOK, Times
<1>2. calls \in [Networks -> Call]
  BY Entering, QueriesAssumption DEF Call, Idle, Times
<1>3. \A n \in Networks :
        /\ calls[n].at # "got"
        /\ calls[n].entered <= now
        /\ calls[n].at \in {"hit", "got"} => calls[n].ledger > calls[n].entered - Ttl
  BY <1>1, Entering DEF Idle
<1>4. TypeOK'
  BY <1>1, <1>2 DEF IInv, TypeOK, Verdict
<1>5. call' \in [Requests -> [Networks -> Call]]
  BY <1>4 DEF TypeOK
<1>6. EntriesAreTimed'
  BY <1>1 DEF IInv, EntriesAreTimed
<1>7. CallsAreTimed'
  BY <1>1, <1>3 DEF IInv, TypeOK, CallsAreTimed
<1>8. EntriesAreKept'
  BY <1>1, <1>3 DEF IInv, TypeOK, EntriesAreKept
<1> QED
  BY <1>4, <1>6, <1>7, <1>8 DEF IInv

\* A reply stores an entry as old as its query, and records what that overwrites.
LEMMA Replying ==
  ASSUME IInv, NEW r \in Requests, NEW m \in Networks, Reply(r, m)
  PROVE  IInv'
<1>1. PICK ledger \in call[r][m].entered..now :
        /\ Settle(r, kind[r], [call[r] EXCEPT ![m].at = "got", ![m].ledger = ledger])
        /\ Store(m, ledger, call[r][m].entered)
  BY DEF Reply
<1> DEFINE calls == [call[r] EXCEPT ![m].at = "got", ![m].ledger = ledger]
           old == call[r][m]
<1>2. /\ now \in Times
      /\ old \in Call /\ old.at = "sent" /\ old.entered <= now
      /\ call[r] \in [Networks -> Call]
      /\ ledger \in Times
  BY QueriesAssumption DEF IInv, TypeOK, CallsAreTimed, Reply, Call, Times
<1>3. /\ UNCHANGED <<now, kind>>
      /\ call' = [call EXCEPT ![r] = calls]
      /\ answer' = [answer EXCEPT ![r] = Verdict(kind[r], calls)]
      /\ cache' = [cache EXCEPT ![m] = [ledger |-> ledger, stamp |-> old.entered]]
      /\ overwritten' = overwritten \cup (Overtook(r, m) \X {m})
  BY <1>1 DEF Reply, Settle, Store
<1>4. /\ calls \in [Networks -> Call]
      /\ calls[m] = [at |-> "got", entered |-> old.entered, ledger |-> ledger]
      /\ \A n \in Networks \ {m} : calls[n] = call[r][n]
  BY <1>2 DEF Call
<1>5. TypeOK'
  BY <1>2, <1>3, <1>4 DEF IInv, TypeOK, Verdict, Overtook, Call
<1>6. EntriesAreTimed'
  BY <1>2, <1>3 DEF IInv, TypeOK, EntriesAreTimed, Times, Call
<1>7. CallsAreTimed'
  <2> SUFFICES ASSUME NEW q \in Requests, NEW n \in Networks
               PROVE  /\ call'[q][n].entered <= now'
                      /\ call'[q][n].at \in {"hit", "got"}
                           => call'[q][n].ledger > call'[q][n].entered - Ttl
    BY DEF CallsAreTimed
  <2>1. CASE q = r /\ n = m
    <3>1. call'[q][n] = [at |-> "got", entered |-> old.entered, ledger |-> ledger]
      BY <2>1, <1>3, <1>4 DEF IInv, TypeOK
    <3>2. /\ old.entered \in Nat /\ old.entered <= ledger /\ ledger \in Nat
          /\ Ttl \in Nat \ {0}
      BY <1>2, QueriesAssumption DEF Call, Times
    <3> QED
      BY <3>1, <3>2, <1>2, <1>3
  <2>2. CASE q # r \/ n # m
    <3>1. call'[q][n] = call[q][n]
      BY <2>2, <1>3, <1>4 DEF IInv, TypeOK
    <3> QED
      BY <3>1, <1>3 DEF IInv, CallsAreTimed
  <2> QED
    BY <2>1, <2>2
<1>8. EntriesAreKept'
  <2> SUFFICES ASSUME NEW q \in Requests, NEW n \in Networks, call'[q][n].at = "got"
               PROVE  /\ cache'[n] # None
                      /\ cache'[n].stamp >= call'[q][n].entered \/ <<q, n>> \in overwritten'
    BY DEF EntriesAreKept
  <2>1. CASE n # m
    BY <2>1, <1>2, <1>3, <1>4 DEF IInv, TypeOK, EntriesAreKept
  <2>2. CASE n = m /\ q = r
    BY <2>2, <1>2, <1>3, <1>4, QueriesAssumption DEF IInv, TypeOK, Times, Call
  <2>3. CASE n = m /\ q # r
    <3>1. /\ call'[q][n] = call[q][n] /\ call[q][n] \in Call
          /\ cache'[n] = [ledger |-> ledger, stamp |-> old.entered]
      BY <2>3, <1>3 DEF IInv, TypeOK
    <3>2. cache'[n] # None
      BY <3>1, <1>2, QueriesAssumption DEF Times, Call
    <3>3. CASE call[q][n].entered > old.entered
      BY <2>3, <3>1, <3>2, <3>3, <1>3 DEF Overtook
    <3>4. CASE ~(call[q][n].entered > old.entered)
      BY <3>1, <3>2, <3>4, <1>2 DEF Call, Times
    <3> QED
      BY <3>3, <3>4
  <2> QED
    BY <2>1, <2>2, <2>3
<1> QED
  BY <1>5, <1>6, <1>7, <1>8 DEF IInv

\* A failed fetch leaves the cache alone.
LEMMA Failing ==
  ASSUME IInv, NEW r \in Requests, NEW m \in Networks, RpcFails(r, m)
  PROVE  IInv'
<1> DEFINE calls == [call[r] EXCEPT ![m].at = "failed"]
<1>1. /\ UNCHANGED <<now, cache, kind, overwritten>>
      /\ call' = [call EXCEPT ![r] = calls]
      /\ answer' = [answer EXCEPT ![r] = Verdict(kind[r], calls)]
  BY DEF RpcFails, Settle
<1>2. /\ calls \in [Networks -> Call]
      /\ calls[m].at = "failed" /\ calls[m].entered = call[r][m].entered
      /\ \A n \in Networks \ {m} : calls[n] = call[r][n]
  <2>1. call[r] \in [Networks -> Call] /\ call[r][m] \in Call
    BY DEF IInv, TypeOK
  <2>2. [call[r][m] EXCEPT !.at = "failed"] \in Call
    BY <2>1 DEF Call
  <2> QED
    BY <2>1, <2>2 DEF Call
<1>3. TypeOK'
  BY <1>1, <1>2 DEF IInv, TypeOK, Verdict
<1>4. EntriesAreTimed' /\ CallsAreTimed' /\ EntriesAreKept'
  BY <1>1, <1>2 DEF IInv, TypeOK, EntriesAreTimed, CallsAreTimed, EntriesAreKept
<1> QED
  BY <1>3, <1>4 DEF IInv

LEMMA Initially == Init => IInv
BY QueriesAssumption
  DEF Init, IInv, TypeOK, EntriesAreTimed, CallsAreTimed, EntriesAreKept,
      Idle, Call, Times

LEMMA Inductive == IInv /\ [Next]_vars => IInv'
<1> SUFFICES ASSUME IInv, [Next]_vars PROVE IInv'
  OBVIOUS
<1>1. CASE \E r \in Requests : AskAll(r)
  BY <1>1, Asking, QueriesAssumption DEF AskAll
<1>2. CASE \E r \in Requests : AskInvalid(r)
  BY <1>2 DEF AskInvalid, IInv, TypeOK, EntriesAreTimed, CallsAreTimed, EntriesAreKept
<1>3. CASE \E r \in Requests, n \in Networks : AskOne(r, n)
  BY <1>3, Asking DEF AskOne
<1>4. CASE \E r \in Requests, n \in Networks : Reply(r, n)
  BY <1>4, Replying
<1>5. CASE \E r \in Requests, n \in Networks : RpcFails(r, n)
  BY <1>5, Failing
<1>6. CASE Tick
  <2>1. TypeOK'
    BY <1>6, QueriesAssumption DEF Tick, IInv, TypeOK, Times
  <2>2. EntriesAreTimed'
    BY <1>6, QueriesAssumption DEF Tick, IInv, TypeOK, EntriesAreTimed, Times
  <2>3. CallsAreTimed'
    BY <1>6, QueriesAssumption DEF Tick, IInv, TypeOK, CallsAreTimed, Times, Call
  <2>4. EntriesAreKept'
    BY <1>6 DEF Tick, IInv, EntriesAreKept
  <2> QED
    BY <2>1, <2>2, <2>3, <2>4 DEF IInv
<1>7. CASE UNCHANGED vars
  BY <1>7 DEF vars, IInv, TypeOK, EntriesAreTimed, CallsAreTimed, EntriesAreKept
<1> QED
  BY <1>1, <1>2, <1>3, <1>4, <1>5, <1>6, <1>7 DEF Next

LEMMA Invariance == Spec => []IInv
BY Initially, Inductive, PTL DEF Spec

-----------------------------------------------------------------------------

\* The state of the cache and of every query stays in its type
\* (services/networkStatus.ts:20-51).
THEOREM QueriesTypeCorrect == Spec => []TypeOK
<1>1. IInv => TypeOK
  BY DEF IInv
<1> QED
  BY <1>1, Invariance, PTL

\* No query is answered with a ledger as old as the TTL when it came in, for any
\* number of overlapping queries (services/networkStatus.ts:27-49).
THEOREM FreshAnswers == Spec => []AnswersAreFresh
<1>1. IInv => AnswersAreFresh
  BY DEF IInv, CallsAreTimed, AnswersAreFresh
<1> QED
  BY <1>1, Invariance, PTL

\* A fetch that has succeeded spares the RPC the next ones for the TTL, unless an
\* older one overwrote it (services/networkStatus.ts:27-31).
THEOREM FetchesAreSpared == Spec => AskedAgainOnlyIfOverwritten
<1> DEFINE Spared ==
      \A r, q \in Requests, n \in Networks :
        /\ call[r][n].at = "idle" /\ call'[r][n].at = "sent"
        /\ call[q][n].at = "got"
        => now - call[q][n].entered >= Ttl \/ <<q, n>> \in overwritten
<1>1. IInv /\ [Next]_vars => [Spared]_vars
  <2> SUFFICES ASSUME IInv, Next,
                      NEW r \in Requests, NEW q \in Requests, NEW n \in Networks,
                      call[r][n].at = "idle", call'[r][n].at = "sent",
                      call[q][n].at = "got", <<q, n>> \notin overwritten
               PROVE  now - call[q][n].entered >= Ttl
    OBVIOUS
  <2>1. PICK k \in {"one", "all"}, S \in SUBSET Networks : Ask(r, k, S)
    <3>1. ASSUME NEW p \in Requests, NEW m \in Networks, Reply(p, m) \/ RpcFails(p, m)
          PROVE  FALSE
      <4>1. call[p][m].at = "sent" /\ call \in [Requests -> [Networks -> Call]]
        BY <3>1 DEF Reply, RpcFails, IInv, TypeOK
      <4>2. p # r \/ m # n
        BY <4>1
      <4>3. PICK x : call' = [call EXCEPT ![p] = [call[p] EXCEPT ![m] = x]]
        <5>1. CASE RpcFails(p, m)
          BY <5>1 DEF RpcFails, Settle
        <5>2. CASE Reply(p, m)
          <6>1. PICK l : Settle(p, kind[p], [call[p] EXCEPT ![m].at = "got", ![m].ledger = l])
            BY <5>2 DEF Reply
          <6> QED
            BY <6>1 DEF Settle
        <5> QED
          BY <3>1, <5>1, <5>2
      <4>4. call'[r][n] = call[r][n]
        BY <4>1, <4>2, <4>3
      <4> QED
        BY <4>4
    <3>2. \A p \in Requests, k \in {"one", "all"}, S \in SUBSET Networks :
            Ask(p, k, S) /\ p # r => call'[r] = call[r]
      BY DEF Ask, Settle, IInv, TypeOK
    <3>3. ~Tick /\ \A p \in Requests : ~AskInvalid(p)
      BY DEF AskInvalid, Tick
    <3>4. PICK p \in Requests : AskAll(p) \/ \E m \in Networks : AskOne(p, m)
      BY Zenon, <3>1, <3>3 DEF Next
    <3>5. PICK k \in {"one", "all"}, S \in SUBSET Networks : Ask(p, k, S)
      <4>1. CASE AskAll(p)
        BY <4>1, QueriesAssumption DEF AskAll
      <4>2. CASE \E m \in Networks : AskOne(p, m)
        BY <4>2 DEF AskOne
      <4> QED
        BY <3>4, <4>1, <4>2
    <3>6. p = r
      BY <3>2, <3>5
    <3> QED
      BY <3>5, <3>6
  <2>2. ~Fresh(n)
    BY <2>1, Entering DEF Ask, Settle, IInv, TypeOK, Idle
  <2>3. cache[n] # None /\ cache[n].stamp >= call[q][n].entered
    BY DEF IInv, EntriesAreKept
  <2>4. /\ now \in Nat /\ cache[n].stamp \in Nat /\ call[q][n].entered \in Nat
        /\ Ttl \in Nat
    BY <2>3, QueriesAssumption DEF IInv, TypeOK, Times, Call
  <2> QED
    BY <2>2, <2>3, <2>4 DEF Fresh
<1>2. Spec => [][Spared]_vars
  BY <1>1, Invariance, PTL DEF Spec
<1> QED
  BY <1>2 DEF AskedAgainOnlyIfOverwritten
=============================================================================
