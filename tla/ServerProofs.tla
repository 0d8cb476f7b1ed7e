----------------------------- MODULE ServerProofs ----------------------------
(***************************************************************************)
(* The API key cannot be walked around, and the redirect serves paths of   *)
(* one segment only: for any clients, any requests they may send, and any  *)
(* number of redirects.                                                    *)
(***************************************************************************)
EXTENDS Server, SequenceTheorems, WellFoundedInduction, TLAPS

\* Path names.  The provers do not know that a constant like "api" is a STRING.
Name == STRING \cup {"api", "v1"}
Segment == Seq(Name) \ {<<>>}

Fields == {"at", "asked", "path", "lacks", "hops", "age", "status"}

\* A request is a record of these fields.
Shaped(q) == q = [x \in Fields |-> q[x]]

Exempt(q) == IsMetrics(q) \/ BeginsWithHealth(q) \/ IsDocs(q)

\* Where there is something that serves the request
Served(q) == IsDocs(q) \/ IsMetrics(q) \/ IsRoute(q)

\* A request that is on its way has no answer yet; one that lacks a key is in a
\* handler, or answered by one or by its limiter, only where no key is asked for.
Guarded(q) ==
  /\ Shaped(q)
  /\ q.at \in {"idle", "store", "handler", "redirected"} => q.status = 0
  /\ "key" \in q.lacks /\ (q.at = "handler" \/ q.status \in {200, 429}) => Exempt(q)

IInv == DOMAIN request = Clients /\ \A c \in Clients : Guarded(request[c])

-----------------------------------------------------------------------------

\* Updating a field keeps the fields.
LEMMA Reshaping ==
  ASSUME NEW q, Shaped(q), NEW field \in Fields, NEW value
  PROVE  Shaped([q EXCEPT ![field] = value])
<1>1. DOMAIN q = Fields
  BY DEF Shaped
<1> QED
  BY <1>1 DEF Shaped

\* The requests that arrive, first or by a redirect, are not answered by a handler.
LEMMA Arriving ==
  ASSUME NEW c \in Clients, NEW q, IInv, Shaped(q), q.status = 0, Arrive(c, q)
  PROVE  IInv'
<1> DEFINE refused == [q EXCEPT !.at = "done", !.status = 400]
           forbidden == [q EXCEPT !.at = "done", !.status = 403]
           waiting == [q EXCEPT !.at = "store", !.age = 0]
<1>1. Guarded(refused)
  <2>1. Shaped(refused)
    <3> DEFINE moved == [q EXCEPT !.at = "done"]
    <3>1. Shaped(moved)
      BY Reshaping DEF Fields
    <3>2. refused = [moved EXCEPT !.status = 400]
      OBVIOUS
    <3> HIDE DEF moved, refused
    <3> QED
      BY <3>1, <3>2, Reshaping DEF Fields
  <2>2. refused.at = "done" /\ refused.status = 400
    BY DEF Shaped, Fields
  <2> HIDE DEF refused
  <2> QED
    BY <2>1, <2>2 DEF Guarded
<1>2. Guarded(forbidden)
  <2>1. Shaped(forbidden)
    <3> DEFINE moved == [q EXCEPT !.at = "done"]
    <3>1. Shaped(moved)
      BY Reshaping DEF Fields
    <3>2. forbidden = [moved EXCEPT !.status = 403]
      OBVIOUS
    <3> HIDE DEF moved, forbidden
    <3> QED
      BY <3>1, <3>2, Reshaping DEF Fields
  <2>2. forbidden.at = "done" /\ forbidden.status = 403
    BY DEF Shaped, Fields
  <2> HIDE DEF forbidden
  <2> QED
    BY <2>1, <2>2 DEF Guarded
<1>3. Guarded(waiting)
  <2>1. Shaped(waiting)
    <3> DEFINE moved == [q EXCEPT !.at = "store"]
    <3>1. Shaped(moved)
      BY Reshaping DEF Fields
    <3>2. waiting = [moved EXCEPT !.age = 0]
      OBVIOUS
    <3> HIDE DEF moved, waiting
    <3> QED
      BY <3>1, <3>2, Reshaping DEF Fields
  <2>2. waiting.at = "store" /\ waiting.status = 0
    BY DEF Shaped, Fields
  <2> HIDE DEF waiting
  <2> QED
    BY <2>1, <2>2 DEF Guarded
<1>4. \/ request' = [request EXCEPT ![c] = refused]
      \/ request' = [request EXCEPT ![c] = forbidden]
      \/ request' = [request EXCEPT ![c] = waiting]
  <2>1. CASE "body" \in q.lacks
    <3>1. request' = [request EXCEPT ![c] = refused]
      BY <2>1 DEF Arrive
    <3> QED
      BY <3>1
  <2>2. CASE "body" \notin q.lacks /\ Forbidden(q)
    <3>1. request' = [request EXCEPT ![c] = forbidden]
      BY <2>2 DEF Arrive
    <3> QED
      BY <3>1
  <2>3. CASE "body" \notin q.lacks /\ ~Forbidden(q)
    <3>1. request' = [request EXCEPT ![c] = waiting]
      BY <2>3 DEF Arrive
    <3> QED
      BY <3>1
  <2> QED
    BY <2>1, <2>2, <2>3
<1> HIDE DEF refused, forbidden, waiting
<1>5. ASSUME NEW new, Guarded(new), request' = [request EXCEPT ![c] = new]
      PROVE  IInv'
  BY <1>5 DEF IInv
<1> QED
  BY <1>1, <1>2, <1>3, <1>4, <1>5

\* An answer keeps what was asked; only 200 and 429 are a handler's or a limiter's.
LEMMA Ending ==
  ASSUME NEW c \in Clients, NEW status, IInv, End(c, status),
         "key" \in request[c].lacks /\ status \in {200, 429} => Exempt(request[c])
  PROVE  IInv'
<1> DEFINE new == [request[c] EXCEPT !.at = "done", !.status = status, !.age = 0]
<1>1. request' = [request EXCEPT ![c] = new]
  BY DEF End, IInv
<1>2. Guarded(new)
  <2>1. Shaped(request[c])
    BY DEF IInv, Guarded
  <2>2. Shaped(new)
    BY <2>1 DEF Shaped, Fields
  <2>3. new.at = "done" /\ new.status = status
    BY <2>1 DEF Shaped, Fields
  <2>4. new.lacks = request[c].lacks /\ new.asked = request[c].asked
          /\ new.path = request[c].path
    BY <2>1 DEF Shaped, Fields
  <2> HIDE DEF new
  <2> QED
    BY <2>2, <2>3, <2>4 DEF Guarded, Exempt, IsMetrics, Method, BeginsWithHealth, IsDocs
<1> HIDE DEF new
<1> QED
  BY <1>1, <1>2 DEF IInv

\* Moving a request on without an answer
LEMMA Moving ==
  ASSUME NEW c \in Clients, NEW place, IInv,
         request' = [request EXCEPT ![c].at = place],
         request[c].status = 0,
         place = "handler" /\ "key" \in request[c].lacks => Exempt(request[c])
  PROVE  IInv'
<1> DEFINE new == [request[c] EXCEPT !.at = place]
<1>1. request' = [request EXCEPT ![c] = new]
  BY DEF IInv
<1>2. Guarded(new)
  BY DEF IInv, Guarded, Shaped, Fields, Exempt, IsMetrics, Method, BeginsWithHealth, IsDocs
<1> QED
  BY <1>1, <1>2 DEF IInv

\* The chain behind the store asks for the key wherever no exemption holds.
LEMMA Proceeding ==
  ASSUME NEW c \in Clients, IInv, Proceed(c)
  PROVE  IInv'
<1> DEFINE q == request[c]
<1>1. q.at = "store" /\ q.status = 0
  BY DEF Proceed, IInv, Guarded
<1>2. CASE LacksType(q) /\ End(c, 415)
  BY <1>2, Ending
<1>3. CASE End(c, 401) \/ End(c, 404)
  BY <1>3, Ending
<1>4. CASE /\ IsDocs(q) \/ IsMetrics(q) \/ (IsRoute(q) /\ ~LacksKey(q))
           /\ request' = [request EXCEPT ![c].at = "handler"] \/ Limit(c)
  <2>1. "key" \in q.lacks => Exempt(q)
    BY <1>4 DEF LacksKey, Exempt
  <2>2. CASE request' = [request EXCEPT ![c].at = "handler"]
    BY <1>1, <2>1, <2>2, Moving
  <2>3. CASE Limit(c)
    BY <2>1, <2>3, Ending DEF Limit
  <2> QED
    BY <1>4, <2>2, <2>3
<1>5. CASE request' = [request EXCEPT ![c].at = "redirected"]
  BY <1>1, <1>5, Moving
<1> QED
  BY <1>2, <1>3, <1>4, <1>5 DEF Proceed

\* A redirected request arrives anew without an answer, or its client gives up.
LEMMA Following ==
  ASSUME NEW c \in Clients, IInv, Follow(c)
  PROVE  IInv'
<1> DEFINE q == request[c]
           next == [q EXCEPT !.path = Redirect(q.path), !.hops = q.hops + 1]
<1>1. q.status = 0 /\ Shaped(q)
  BY DEF Follow, IInv, Guarded
<1>2. Shaped(next) /\ next.status = 0
  BY <1>1 DEF Shaped, Fields
<1>3. CASE Arrive(c, next)
  BY <1>2, <1>3, Arriving
<1>4. CASE request' = [request EXCEPT ![c].at = "abandoned"]
  BY <1>1, <1>4, Moving
<1> QED
  BY <1>3, <1>4 DEF Follow

\* A handler has been reached already.
LEMMA Answering ==
  ASSUME NEW c \in Clients, IInv, HandlerAnswers(c)
  PROVE  IInv'
<1>1. "key" \in request[c].lacks => Exempt(request[c])
  BY DEF IInv, Guarded, HandlerAnswers
<1> QED
  BY <1>1, Ending DEF HandlerAnswers

\* The forced exit and the clock leave alone what a request asks and its answer.
LEMMA Rebuilding ==
  ASSUME IInv, ForceExit \/ Tick
  PROVE  IInv'
<1> SUFFICES ASSUME NEW c \in Clients
             PROVE  Guarded(request'[c])
  BY DEF IInv, ForceExit, Tick
<1>1. Guarded(request[c])
  BY DEF IInv
<1>2. Guarded([request[c] EXCEPT !.at = "lost"])
  BY <1>1 DEF Guarded, Shaped, Fields, Exempt, IsMetrics, Method, BeginsWithHealth, IsDocs
<1>3. Guarded([request[c] EXCEPT !.age = @ + 1])
  BY <1>1 DEF Guarded, Shaped, Fields, Exempt, IsMetrics, Method, BeginsWithHealth, IsDocs
<1>4. CASE ForceExit
  BY <1>1, <1>2, <1>4 DEF ForceExit
<1>5. CASE Tick
  BY <1>1, <1>3, <1>5 DEF Tick
<1> QED
  BY <1>4, <1>5

\* A client's first request arrives without an answer.
LEMMA Starting ==
  ASSUME NEW c \in Clients, IInv, Send(c)
  PROVE  IInv'
<1>1. PICK ask \in Asked, lacks \in {{}} \cup {{f} : f \in Faults} :
        Arrive(c, [NotSent EXCEPT !.asked = ask, !.path = ask[2], !.lacks = lacks])
  BY DEF Send
<1> DEFINE q == [NotSent EXCEPT !.asked = ask, !.path = ask[2], !.lacks = lacks]
<1>2. Shaped(q) /\ q.status = 0
  BY DEF Shaped, Fields, NotSent
<1> HIDE DEF q
<1> QED
  BY <1>1, <1>2, Arriving DEF q

-----------------------------------------------------------------------------

\* No request has been sent.
LEMMA Initially == Init => IInv
<1>1. Guarded(NotSent)
  BY DEF Guarded, Shaped, Fields, NotSent
<1> QED
  BY <1>1 DEF Init, IInv

\* Every step keeps the requests guarded.
LEMMA Inductive == IInv /\ [Next]_vars => IInv'
<1> SUFFICES ASSUME IInv, [Next]_vars PROVE IInv'
  OBVIOUS
<1>1. ASSUME NEW c \in Clients, Send(c) PROVE IInv'
  BY <1>1, Starting
<1>2. ASSUME NEW c \in Clients, Proceed(c) PROVE IInv'
  BY <1>2, Proceeding
<1>3. ASSUME NEW c \in Clients, StoreFails(c) PROVE IInv'
  BY <1>3, Ending DEF StoreFails
<1>4. ASSUME NEW c \in Clients, HandlerAnswers(c) PROVE IInv'
  BY <1>4, Answering
<1>5. ASSUME NEW c \in Clients, Timeout(c) PROVE IInv'
  BY <1>5, Ending DEF Timeout
<1>6. ASSUME NEW c \in Clients, Follow(c) PROVE IInv'
  BY <1>6, Following
<1>7. CASE Signal \/ Drain \/ StoreTurns \/ UNCHANGED vars
  <2>1. request' = request
    BY <1>7 DEF Signal, Drain, StoreTurns, vars
  <2> QED
    BY <2>1 DEF IInv
<1>8. CASE ForceExit \/ Tick
  BY <1>8, Rebuilding
<1> QED
  BY <1>1, <1>2, <1>3, <1>4, <1>5, <1>6, <1>7, <1>8 DEF Next

\* Whatever is asked and however often it is redirected, in development or not, a
\* request without a key gets to no handler but the metrics, those whose path begins
\* with health, and in development the Swagger UI (middleware/apiKeyAuth.ts,
\* index.ts:103-142).
THEOREM TheKeyIsAskedFor == Spec => []KeylessReachesOnlyOpenPaths
<1>1. IInv => KeylessReachesOnlyOpenPaths
  BY DEF IInv, Guarded, Exempt, KeylessReachesOnlyOpenPaths
<1> QED
  BY <1>1, Initially, Inductive, PTL DEF Spec

-----------------------------------------------------------------------------

\* A set of natural numbers that is not empty has a least element,
LEMMA Least ==
  ASSUME NEW T, T \subseteq Nat, T # {}
  PROVE  \E n \in T : \A m \in T : n <= m
<1> DEFINE below == {ss \in Nat \X Nat : ss[1] < ss[2]}
<1>1. IsWellFoundedOn(below, Nat)
  BY NatLessThanWellFounded DEF OpToRel
<1>2. \A m, n \in T : <<m, n>> \notin below => n <= m
  OBVIOUS
<1> HIDE DEF below
<1>3. PICK n \in T : \A m \in T : ~ (<<m, n>> \in below)
  BY <1>1, WFMin, Zenon
<1> QED
  BY <1>2, <1>3

\* and one that has 0 and the successor of each of its elements has them all.
LEMMA Induction ==
  ASSUME NEW S, 0 \in S, \A n \in Nat : n \in S => n + 1 \in S
  PROVE  Nat \subseteq S
<1> SUFFICES ASSUME Nat \ S # {} PROVE FALSE
  OBVIOUS
<1>1. PICK n \in Nat \ S : \A m \in Nat \ S : n <= m
  BY Least
<1>2. n - 1 \in Nat /\ n - 1 \in S
  BY <1>1
<1> QED
  BY <1>1, <1>2

\* Joined by commas, the segments of a path are one segment with at least as many
\* names: FlattenSeq's recursive function exists, and then is what it says.
LEMMA Flattening ==
  ASSUME NEW seqs \in Seq(Segment), Len(seqs) > 0
  PROVE  FlattenSeq(seqs) \in Segment /\ Len(FlattenSeq(seqs)) >= Len(seqs)
<1> DEFINE N == Len(seqs)
           Flat(f, n) == f = [i \in 1..n |-> IF i = 1 THEN seqs[i] ELSE f[i-1] \o seqs[i]]
<1>1. N \in Nat /\ N > 0 /\ \A i \in 1..N : seqs[i] \in Segment /\ Len(seqs[i]) \in Nat /\ Len(seqs[i]) > 0
  BY DEF Segment
<1> HIDE DEF N, Flat
<1>2. \E f : Flat(f, N)
  <2> DEFINE S == {n \in Nat : n <= N => \E f : Flat(f, n)}
  <2>1. 0 \in S
    <3>1. Flat([i \in 1..0 |-> 0], 0)
      BY DEF Flat
    <3> QED
      BY <3>1
  <2>2. ASSUME NEW n \in Nat, n \in S PROVE n + 1 \in S
    <3> SUFFICES ASSUME n + 1 <= N PROVE \E f : Flat(f, n + 1)
      OBVIOUS
    <3>1. PICK f : Flat(f, n)
      BY <2>2, <1>1
    <3> DEFINE g == [i \in 1..(n + 1) |-> IF i \in 1..n THEN f[i] ELSE IF i = 1 THEN seqs[i] ELSE f[i-1] \o seqs[i]]
    <3>2. ASSUME NEW i \in 1..(n + 1) PROVE g[i] = IF i = 1 THEN seqs[i] ELSE g[i-1] \o seqs[i]
      <4>1. CASE i = 1
        BY <3>1, <4>1 DEF Flat
      <4>2. CASE i # 1 /\ i \in 1..n
        <5>1. i - 1 \in 1..n /\ i - 1 \in 1..(n + 1)
          BY <4>2
        <5>2. f[i] = f[i-1] \o seqs[i]
          BY <3>1, <4>2 DEF Flat
        <5> QED
          BY <5>1, <5>2, <4>2
      <4>3. CASE i # 1 /\ i \notin 1..n
        <5>1. i - 1 \in 1..n /\ i - 1 \in 1..(n + 1)
          BY <4>3
        <5> QED
          BY <5>1, <4>3
      <4> QED
        BY <4>1, <4>2, <4>3
    <3>3. Flat(g, n + 1)
      <4> DEFINE e == [i \in 1..(n + 1) |-> IF i = 1 THEN seqs[i] ELSE g[i-1] \o seqs[i]]
      <4>1. \A i \in 1..(n + 1) : g[i] = e[i]
        BY <3>2
      <4>2. g = [i \in 1..(n + 1) |-> g[i]]
        OBVIOUS
      <4> HIDE DEF g
      <4>3. e = [i \in 1..(n + 1) |-> e[i]]
        OBVIOUS
      <4> HIDE DEF e
      <4>4. g = e
        BY <4>1, <4>2, <4>3, Zenon
      <4> QED
        BY <4>4 DEF e, Flat
    <3> HIDE DEF g
    <3> QED
      BY <3>3
  <2> HIDE DEF S
  <2>3. N \in S
    BY <1>1, <2>1, <2>2, Induction
  <2> QED
    BY <1>1, <2>3 DEF S
<1>3. PICK f : Flat(f, N) /\ FlattenSeq(seqs) = f[N]
  <2>1. N # 0
    BY <1>1
  <2> QED
    BY <1>2, <2>1, Zenon DEF FlattenSeq, N, Flat
<1>4. \A i \in 1..N : f[i] = IF i = 1 THEN seqs[i] ELSE f[i-1] \o seqs[i]
  BY <1>3 DEF Flat
<1> DEFINE T == {n \in Nat : n \in 1..N => f[n] \in Segment /\ Len(f[n]) >= n}
<1>5. 0 \in T
  OBVIOUS
<1>6. ASSUME NEW n \in Nat, n \in T PROVE n + 1 \in T
  <2> SUFFICES ASSUME n + 1 \in 1..N
               PROVE  f[n + 1] \in Segment /\ Len(f[n + 1]) >= n + 1
    OBVIOUS
  <2>1. CASE n = 0
    BY <1>1, <1>4, <2>1
  <2>2. CASE n # 0
    <3>1. n \in 1..N /\ (n + 1) - 1 = n /\ n + 1 # 1
      BY <1>1, <2>2
    <3>2. f[n] \in Segment /\ Len(f[n]) >= n
      BY <1>6, <3>1
    <3>3. f[n + 1] = f[n] \o seqs[n + 1]
      BY <1>4, <3>1
    <3>4. seqs[n + 1] \in Segment /\ Len(seqs[n + 1]) > 0
      BY <1>1
    <3>5. f[n + 1] \in Seq(Name) /\ Len(f[n + 1]) = Len(f[n]) + Len(seqs[n + 1])
      BY <3>2, <3>3, <3>4 DEF Segment
    <3>6. Len(f[n]) \in Nat /\ Len(seqs[n + 1]) \in Nat
      BY <3>2, <3>4 DEF Segment
    <3>7. \A a, b \in Nat : a >= n /\ b > 0 => a + b >= n + 1 /\ a + b # 0
      OBVIOUS
    <3>8. Len(f[n + 1]) >= n + 1 /\ Len(f[n + 1]) # 0
      BY <3>2, <3>4, <3>5, <3>6, <3>7
    <3>9. f[n + 1] # <<>>
      BY <3>8
    <3> QED
      BY <3>5, <3>8, <3>9 DEF Segment
  <2> QED
    BY <2>1, <2>2
<1> HIDE DEF T
<1>7. N \in T
  BY <1>1, <1>5, <1>6, Induction
<1> QED
  BY <1>1, <1>3, <1>7 DEF T, N
-----------------------------------------------------------------------------

Reached(q) == q.at = "handler" \/ q.status \in {200, 429}

\* Until it is redirected a request has the path that was asked for; from then on
\* one segment below /api/v1, of a single name only if there was one to join.
Tracked(q) ==
  /\ q.hops \in Nat
  /\ q.path \in Seq(Segment) /\ q.asked[2] \in Seq(Segment)
  /\ q.hops = 0 => q.path = q.asked[2]
  /\ q.hops > 0 =>
       /\ IsPrefix(Api, q.asked[2])
       /\ \E s \in Segment :
            /\ q.path = ApiV1 \o <<s>>
            /\ Len(s) = 1 => Len(q.asked[2]) = 2 /\ q.hops = 1

Redirectable(q) == IsPrefix(Api, q.path) /\ Len(q.path) > 1

Traced(q) ==
  q.at # "idle" =>
    /\ Tracked(q)
    /\ q.at = "redirected" => Redirectable(q)
    /\ Reached(q) /\ q.hops > 0 => Len(q.asked[2]) = 2 /\ q.hops = 1

TInv == \A c \in Clients : Traced(request[c])

\* Sequences of one element, as the provers need them stated
LEMMA Single ==
  ASSUME NEW S, NEW e \in S
  PROVE  <<e>> \in Seq(S) /\ Len(<<e>>) = 1 /\ <<e>>[1] = e /\ <<e>> # <<>>
OBVIOUS

LEMMA SubSeqSingle ==
  ASSUME NEW S, NEW s \in Seq(S), NEW m \in 1..Len(s)
  PROVE  SubSeq(s, m, m) = <<s[m]>>
<1>1. \A i \in m..m : s[i] \in S
  <2>1. s[m] \in S /\ \A i \in m..m : i = m
    OBVIOUS
  <2> QED
    BY <2>1, Zenon
<1>2. m \in Int
  OBVIOUS
<1>3. SubSeq(s, m, m) \in Seq(S)
  BY <1>1, <1>2, SubSeqProperties, Zenon
<1>4. SubSeq(s, m, m)[1] = s[m] /\ Len(SubSeq(s, m, m)) = 1
  OBVIOUS
<1>5. ASSUME NEW t \in Seq(S), Len(t) = 1 PROVE t = <<t[1]>>
  BY <1>5
<1> QED
  BY <1>3, <1>4, <1>5

LEMMA ConcatSingle ==
  ASSUME NEW S, NEW s \in Seq(S), Len(s) = 2, NEW e \in S
  PROVE  s \o <<e>> \in Seq(S) /\ Len(s \o <<e>>) = 3 /\ (s \o <<e>>)[3] = e
<1> DEFINE t == <<e>>
<1>1. t \in Seq(S) /\ Len(t) = 1 /\ t[1] = e
  BY Single
<1> HIDE DEF t
<1>2. /\ s \o t \in Seq(S)
      /\ Len(s \o t) = Len(s) + Len(t)
      /\ \A i \in 1..Len(s) + Len(t) :
           (s \o t)[i] = IF i <= Len(s) THEN s[i] ELSE t[i - Len(s)]
  BY <1>1, ConcatProperties, Zenon
<1>3. Len(s \o t) = 3
  BY <1>1, <1>2
<1>4. 3 \in 1..Len(s) + Len(t) /\ ~(3 <= Len(s)) /\ 3 - Len(s) = 1
  BY <1>1
<1>5. (s \o t)[3] = e
  BY <1>1, <1>2, <1>4, Zenon
<1> QED
  BY <1>2, <1>3, <1>5 DEF t

\* The two prefixes, and a path of one segment below the longer one
LEMMA Bases ==
  /\ Len(Api) = 1
  /\ ApiV1 \in Seq(Segment) /\ Len(ApiV1) = 2 /\ ApiV1[2] = <<"v1">>
<1>1. ASSUME NEW name \in Name PROVE <<name>> \in Segment
  BY Single, Zenon DEF Segment
<1>2. "api" \in Name /\ "v1" \in Name
  BY DEF Name
<1>3. ApiV1 = <<<<"api">>, <<"v1">>>> /\ Api = <<<<"api">>>>
  BY DEF ApiV1, Api, Names
<1>4. ASSUME NEW a \in Segment, NEW b \in Segment
      PROVE  <<a, b>> \in Seq(Segment) /\ Len(<<a, b>>) = 2 /\ <<a, b>>[2] = b
  OBVIOUS
<1>5. Len(Api) = 1
  BY <1>1, <1>2, <1>3, Single, Zenon
<1> QED
  BY <1>1, <1>2, <1>3, <1>4, <1>5, Zenon

LEMMA BelowV1 ==
  ASSUME NEW s \in Segment
  PROVE  /\ ApiV1 \o <<s>> \in Seq(Segment) /\ Len(ApiV1 \o <<s>>) = 3
         /\ Below(ApiV1, ApiV1 \o <<s>>) = <<s>>
         /\ (ApiV1 \o <<s>>)[2] = <<"v1">>
<1> DEFINE path == ApiV1 \o <<s>>
<1>1. path \in Seq(Segment) /\ Len(path) = 3 /\ path[3] = s /\ path[2] = ApiV1[2]
  <2>1. ApiV1 \in Seq(Segment) /\ Len(ApiV1) = 2
    BY Bases
  <2>2. path \in Seq(Segment) /\ Len(path) = 3
    BY <2>1, ConcatSingle, Zenon
  <2>3. path[3] = s
    BY <2>1, ConcatSingle, Zenon
  <2>4. path[2] = ApiV1[2]
    <3> DEFINE t == <<s>>
    <3>1. t \in Seq(Segment)
      BY Single, Zenon
    <3>4. Len(t) = 1
      BY Single, Zenon
    <3> HIDE DEF t
    <3>3. \A i \in 1..Len(ApiV1) + Len(t) :
            (ApiV1 \o t)[i] = IF i <= Len(ApiV1) THEN ApiV1[i] ELSE t[i - Len(ApiV1)]
      BY <2>1, <3>1, ConcatProperties, Zenon
    <3>5. 2 \in 1..Len(ApiV1) + Len(t) /\ 2 <= Len(ApiV1)
      BY <2>1, <3>4
    <3>2. (ApiV1 \o t)[2] = ApiV1[2]
      BY <3>3, <3>5, Zenon
    <3> QED
      BY <3>2 DEF t
  <2> QED
    BY <2>2, <2>3, <2>4
<1>5. path[2] = <<"v1">>
  BY <1>1, Bases
<1> HIDE DEF path
<1>2. Below(ApiV1, path) = SubSeq(path, 3, 3)
  BY <1>1, Bases DEF Below
<1>3. 3 \in 1..Len(path)
  BY <1>1
<1>4. Below(ApiV1, path) = <<s>>
  BY <1>1, <1>2, <1>3, SubSeqSingle, Zenon
<1> QED
  BY <1>1, <1>4, <1>5, Zenon DEF path

\* A segment below /api/v1 is a route only if it is a single name.
LEMMA RouteIsOneName ==
  ASSUME NEW method, NEW s \in Segment,
         <<method, Below(ApiV1, ApiV1 \o <<s>>)>> \in Routes
  PROVE  Len(s) = 1
<1>1. Below(ApiV1, ApiV1 \o <<s>>) = <<s>>
  BY BelowV1
<1>2. ASSUME NEW p, <<s>> = Names(p) PROVE Len(s) = 1
  <2>1. 1 \in DOMAIN Names(p) /\ Names(p)[1] = s
    BY <1>2
  <2> QED
    BY <2>1 DEF Names
<1>3. \E p : <<s>> = Names(p)
  BY <1>1, Zenon DEF Routes, LimitedRoutes
<1> QED
  BY <1>2, <1>3

\* The redirect leads to one segment below /api/v1 with at least as many names as
\* the path had segments below /api.
LEMMA Redirecting ==
  ASSUME NEW path \in Seq(Segment), Len(path) > 1
  PROVE  \E s \in Segment : Redirect(path) = ApiV1 \o <<s>> /\ Len(s) >= Len(path) - 1
<1> DEFINE below == Below(Api, path)
<1>1. Len(Api) = 1
  BY Bases
<1>2. below = SubSeq(path, 2, Len(path))
  BY <1>1 DEF Below
<1>3. below \in Seq(Segment) /\ Len(below) = Len(path) - 1
  BY <1>2
<1> HIDE DEF below
<1>4. FlattenSeq(below) \in Segment /\ Len(FlattenSeq(below)) >= Len(path) - 1
  BY <1>3, Flattening
<1> QED
  BY <1>4 DEF Redirect, below

\* What a redirect makes of a tracked path
LEMMA Hopping ==
  ASSUME NEW q, Shaped(q), Tracked(q), Redirectable(q), NEW next,
         next = [q EXCEPT !.path = Redirect(q.path), !.hops = q.hops + 1]
  PROVE  Tracked(next)
<1>1. /\ next.path = Redirect(q.path) /\ next.hops = q.hops + 1
      /\ next.asked = q.asked
  BY DEF Shaped, Fields
<1>2. q.hops \in Nat /\ q.path \in Seq(Segment) /\ q.asked[2] \in Seq(Segment)
  BY DEF Tracked
<1>3. PICK s \in Segment :
        Redirect(q.path) = ApiV1 \o <<s>> /\ Len(s) >= Len(q.path) - 1
  BY <1>2, Redirecting DEF Redirectable
<1>4. ApiV1 \o <<s>> \in Seq(Segment)
  BY BelowV1
<1>5. /\ Len(q.path) \in Nat /\ Len(q.path) > 1 /\ Len(s) \in Nat
      /\ q.hops = 0 \/ q.hops > 0
  BY <1>2 DEF Segment, Redirectable
<1>6. next.hops \in Nat /\ next.hops > 0 /\ next.hops # 0
  BY <1>1, <1>2
<1>7. IsPrefix(Api, q.asked[2]) /\ (Len(s) = 1 => Len(q.asked[2]) = 2 /\ next.hops = 1)
  <2>1. CASE q.hops = 0
    <3>1. q.path = q.asked[2]
      BY <2>1 DEF Tracked
    <3>2. Len(s) = 1 => Len(q.path) = 2
      <4>1. \A a, b \in Nat : b >= a - 1 /\ a > 1 => (b = 1 => a = 2)
        OBVIOUS
      <4> QED
        BY <1>3, <1>5, <4>1, Zenon
    <3>3. next.hops = 1
      BY <1>1, <2>1
    <3> QED
      BY <3>1, <3>2, <3>3, Zenon DEF Redirectable
  <2>2. CASE q.hops > 0
    <3>1. IsPrefix(Api, q.asked[2])
      BY <2>2, Zenon DEF Tracked
    <3>2. PICK r \in Segment : q.path = ApiV1 \o <<r>>
      BY <2>2, Zenon DEF Tracked
    <3>3. Len(q.path) = 3
      BY <3>2, BelowV1, Zenon
    <3>4. Len(s) # 1
      <4>1. \A a, b \in Nat : b >= a - 1 /\ a = 3 => b # 1
        OBVIOUS
      <4> QED
        BY <1>3, <1>5, <3>3, <4>1, Zenon
    <3> QED
      BY <3>1, <3>4
  <2> QED
    BY <1>5, <2>1, <2>2
<1> QED
  BY <1>1, <1>2, <1>3, <1>4, <1>6, <1>7, Zenon DEF Tracked

\* A request on its way to a handler has been redirected once, from a path of one
\* segment after /api, or not at all.
LEMMA Serving ==
  ASSUME NEW q, Tracked(q), q.hops > 0, Served(q)
  PROVE  Len(q.asked[2]) = 2 /\ q.hops = 1
<1>1. PICK s \in Segment :
        /\ q.path = ApiV1 \o <<s>>
        /\ Len(s) = 1 => Len(q.asked[2]) = 2 /\ q.hops = 1
  BY DEF Tracked
<1>2. CASE IsRoute(q)
  <2> DEFINE method == IF Method(q) = "HEAD" THEN "GET" ELSE Method(q)
  <2>1. <<method, Below(ApiV1, ApiV1 \o <<s>>)>> \in Routes
    BY <1>1, <1>2 DEF IsRoute, Route
  <2> HIDE DEF method
  <2> QED
    BY <1>1, <2>1, RouteIsOneName
<1>3. CASE IsMetrics(q)
  <2>1. q.asked[2] = Names(<<"metrics">>) /\ IsPrefix(Api, q.asked[2])
    BY <1>3 DEF IsMetrics, Tracked
  <2>2. FALSE
    BY <2>1 DEF IsPrefix, Names, Api
  <2> QED
    BY <2>2
<1>4. CASE IsDocs(q)
  <2>1. q.path[2] = <<"v1">>
    BY <1>1, BelowV1
  <2>2. q.path[2] = <<"docs">>
    BY <1>4 DEF IsDocs, IsPrefix, ApiDocs, Names
  <2> QED
    BY <2>1, <2>2
<1> QED
  BY <1>2, <1>3, <1>4 DEF Served

-----------------------------------------------------------------------------

\* A request that keeps its path, and gets no nearer to a handler than it may
LEMMA Keeping ==
  ASSUME NEW q, NEW new, Traced(q), q.at # "idle",
         new.asked = q.asked, new.path = q.path, new.hops = q.hops,
         new.at = "redirected" => q.at = "redirected" \/ Redirectable(q),
         Reached(new) => Reached(q) \/ Served(q)
  PROVE  Traced(new)
<1>1. Tracked(new)
  BY DEF Traced, Tracked
<1>2. new.at = "redirected" => Redirectable(new)
  BY DEF Traced, Redirectable
<1>3. ASSUME Reached(new), new.hops > 0
      PROVE  Len(new.asked[2]) = 2 /\ new.hops = 1
  BY <1>3, Serving DEF Traced
<1> QED
  BY <1>1, <1>2, <1>3 DEF Traced

\* A request that arrives is tracked already.
LEMMA ArrivingTraced ==
  ASSUME NEW c \in Clients, NEW q, IInv, TInv, Shaped(q), q.status = 0, Tracked(q),
         Arrive(c, q)
  PROVE  TInv'
<1>1. PICK new :
        /\ request' = [request EXCEPT ![c] = new]
        /\ Tracked(new) /\ new.at # "redirected" /\ ~Reached(new)
  <2> DEFINE refused == [q EXCEPT !.at = "done", !.status = 400]
             forbidden == [q EXCEPT !.at = "done", !.status = 403]
             waiting == [q EXCEPT !.at = "store", !.age = 0]
  <2>1. Tracked(refused) /\ refused.at # "redirected" /\ ~Reached(refused)
    <3>1. refused.at = "done" /\ refused.status = 400
      BY DEF Shaped, Fields
    <3>2. refused.path = q.path /\ refused.asked = q.asked /\ refused.hops = q.hops
      BY DEF Shaped, Fields
    <3> HIDE DEF refused
    <3>3. Tracked(refused)
      BY <3>2 DEF Tracked
    <3> QED
      BY <3>1, <3>3 DEF Reached
  <2>2. Tracked(forbidden) /\ forbidden.at # "redirected" /\ ~Reached(forbidden)
    <3>1. forbidden.at = "done" /\ forbidden.status = 403
      BY DEF Shaped, Fields
    <3>2. forbidden.path = q.path /\ forbidden.asked = q.asked /\ forbidden.hops = q.hops
      BY DEF Shaped, Fields
    <3> HIDE DEF forbidden
    <3>3. Tracked(forbidden)
      BY <3>2 DEF Tracked
    <3> QED
      BY <3>1, <3>3 DEF Reached
  <2>3. Tracked(waiting) /\ waiting.at # "redirected" /\ ~Reached(waiting)
    <3>1. waiting.at = "store" /\ waiting.status = 0
      BY DEF Shaped, Fields
    <3>2. waiting.path = q.path /\ waiting.asked = q.asked /\ waiting.hops = q.hops
      BY DEF Shaped, Fields
    <3> HIDE DEF waiting
    <3>3. Tracked(waiting)
      BY <3>2 DEF Tracked
    <3> QED
      BY <3>1, <3>3 DEF Reached
  <2>4. \/ request' = [request EXCEPT ![c] = refused]
        \/ request' = [request EXCEPT ![c] = forbidden]
        \/ request' = [request EXCEPT ![c] = waiting]
    <3>1. CASE "body" \in q.lacks
      <4>1. request' = [request EXCEPT ![c] = refused]
        BY <3>1 DEF Arrive
      <4> QED
        BY <4>1
    <3>2. CASE "body" \notin q.lacks /\ Forbidden(q)
      <4>1. request' = [request EXCEPT ![c] = forbidden]
        BY <3>2 DEF Arrive
      <4> QED
        BY <4>1
    <3>3. CASE "body" \notin q.lacks /\ ~Forbidden(q)
      <4>1. request' = [request EXCEPT ![c] = waiting]
        BY <3>3 DEF Arrive
      <4> QED
        BY <4>1
    <3> QED
      BY <3>1, <3>2, <3>3
  <2> HIDE DEF refused, forbidden, waiting
  <2> QED
    BY <2>1, <2>2, <2>3, <2>4
<1>2. Traced(new)
  BY <1>1 DEF Traced
<1> QED
  BY <1>1, <1>2 DEF TInv, IInv

\* An answer, of a handler or a limiter only where there is one
LEMMA EndingTraced ==
  ASSUME NEW c \in Clients, NEW status, IInv, TInv, End(c, status),
         request[c].at # "idle",
         status \in {200, 429} =>
           Reached(request[c]) \/ Served(request[c])
  PROVE  TInv'
<1> DEFINE new == [request[c] EXCEPT !.at = "done", !.status = status, !.age = 0]
<1>1. request' = [request EXCEPT ![c] = new]
  BY DEF End, IInv
<1>2. /\ new.at = "done" /\ new.status = status
      /\ new.asked = request[c].asked /\ new.path = request[c].path
      /\ new.hops = request[c].hops
  BY DEF IInv, Guarded, Shaped, Fields
<1> HIDE DEF new
<1>3. Traced(new)
  BY <1>2, Keeping DEF TInv, Reached
<1> QED
  BY <1>1, <1>3 DEF TInv, IInv

\* Moving a request on, to a handler only where there is one
LEMMA MovingTraced ==
  ASSUME NEW c \in Clients, NEW place, IInv, TInv,
         request' = [request EXCEPT ![c].at = place],
         request[c].at # "idle",
         place = "redirected" => Redirectable(request[c]),
         place = "handler" => Served(request[c])
  PROVE  TInv'
<1> DEFINE new == [request[c] EXCEPT !.at = place]
<1>1. request' = [request EXCEPT ![c] = new]
  BY DEF IInv
<1>2. /\ new.at = place /\ new.status = request[c].status
      /\ new.asked = request[c].asked /\ new.path = request[c].path
      /\ new.hops = request[c].hops
  BY DEF IInv, Guarded, Shaped, Fields
<1> HIDE DEF new
<1>3. Traced(new)
  BY <1>2, Keeping DEF TInv, Reached
<1> QED
  BY <1>1, <1>3 DEF TInv, IInv

\* The chain behind the store lets a request to a handler only by its route.
LEMMA ProceedingTraced ==
  ASSUME NEW c \in Clients, IInv, TInv, Proceed(c)
  PROVE  TInv'
<1> DEFINE q == request[c]
<1>1. q.at = "store"
  BY DEF Proceed
<1>2. CASE End(c, 415) \/ End(c, 401) \/ End(c, 404)
  BY <1>1, <1>2, EndingTraced
<1>3. CASE /\ IsDocs(q) \/ IsMetrics(q) \/ (IsRoute(q) /\ ~LacksKey(q))
           /\ request' = [request EXCEPT ![c].at = "handler"] \/ Limit(c)
  <2>3. Served(q)
    BY <1>3 DEF Served
  <2>1. CASE request' = [request EXCEPT ![c].at = "handler"]
    <3>1. "handler" # "redirected" /\ q.at # "idle"
      BY <1>1
    <3> QED
      BY <2>1, <2>3, <3>1, MovingTraced, Zenon
  <2>2. CASE Limit(c)
    BY <1>1, <2>2, <2>3, EndingTraced DEF Limit
  <2> QED
    BY <1>3, <2>1, <2>2
<1>4. CASE /\ IsPrefix(Api, q.path) /\ Len(q.path) > 1
           /\ request' = [request EXCEPT ![c].at = "redirected"]
  <2>1. Redirectable(q) /\ "redirected" # "handler" /\ q.at # "idle"
    BY <1>1, <1>4 DEF Redirectable
  <2> QED
    BY <1>4, <2>1, MovingTraced, Zenon
<1> QED
  BY <1>2, <1>3, <1>4 DEF Proceed

\* A client follows the redirect or gives up.
LEMMA FollowingTraced ==
  ASSUME NEW c \in Clients, IInv, TInv, Follow(c)
  PROVE  TInv'
<1> DEFINE q == request[c]
           next == [q EXCEPT !.path = Redirect(q.path), !.hops = q.hops + 1]
<1>1. q.at = "redirected"
  BY DEF Follow
<1>2. q.status = 0 /\ Shaped(q) /\ Tracked(q) /\ Redirectable(q)
  BY <1>1 DEF IInv, Guarded, TInv, Traced
<1>3. Tracked(next)
  BY <1>2, Hopping
<1>4. Shaped(next) /\ next.status = 0
  BY <1>2 DEF Shaped, Fields
<1>5. CASE Arrive(c, next)
  BY <1>3, <1>4, <1>5, ArrivingTraced
<1>6. CASE request' = [request EXCEPT ![c].at = "abandoned"]
  <2>1. "abandoned" # "redirected" /\ "abandoned" # "handler" /\ q.at # "idle"
    BY <1>1
  <2> QED
    BY <1>6, <2>1, MovingTraced, Zenon
<1> QED
  BY <1>5, <1>6 DEF Follow

\* A first request has the path that it asks for.
LEMMA StartingTraced ==
  ASSUME NEW c \in Clients, IInv, TInv, Send(c)
  PROVE  TInv'
<1>1. PICK ask \in Asked, lacks \in {{}} \cup {{f} : f \in Faults} :
        Arrive(c, [NotSent EXCEPT !.asked = ask, !.path = ask[2], !.lacks = lacks])
  BY DEF Send
<1> DEFINE q == [NotSent EXCEPT !.asked = ask, !.path = ask[2], !.lacks = lacks]
<1>2. Shaped(q) /\ q.status = 0
  BY DEF Shaped, Fields, NotSent
<1>3. q.hops = 0 /\ q.path = ask[2] /\ q.asked = ask
  BY DEF NotSent
<1>4. ask[2] \in Seq(Segment)
  <2>1. ask[2] \in Seq(Seq(STRING) \ {<<>>})
    BY ServerAssumption
  <2>2. Seq(STRING) \subseteq Seq(Name)
    <3>1. STRING \subseteq Name
      BY Zenon DEF Name
    <3> QED
      BY <3>1, SeqMonotonic, Zenon
  <2>3. Seq(STRING) \ {<<>>} \subseteq Segment
    BY <2>2, Zenon DEF Segment
  <2> QED
    BY <2>1, <2>3, SeqMonotonic, Zenon
<1> HIDE DEF q
<1>5. Tracked(q)
  BY <1>3, <1>4 DEF Tracked
<1> QED
  BY <1>1, <1>2, <1>5, ArrivingTraced DEF q

\* The forced exit and the clock take no request nearer to a handler.
LEMMA RebuildingTraced ==
  ASSUME IInv, TInv, ForceExit \/ Tick
  PROVE  TInv'
<1> SUFFICES ASSUME NEW c \in Clients
             PROVE  Traced(request'[c])
  BY DEF TInv
<1> DEFINE q == request[c]
           lost == [q EXCEPT !.at = "lost"]
           older == [q EXCEPT !.age = @ + 1]
<1>1. Traced(q)
  BY DEF TInv
<1>2. CASE InFlight(c)
  <2>1. q.at # "idle"
    BY <1>2 DEF InFlight
  <2>2. /\ lost.at = "lost" /\ lost.status = q.status /\ lost.asked = q.asked
        /\ lost.path = q.path /\ lost.hops = q.hops
    BY DEF IInv, Guarded, Shaped, Fields
  <2>3. /\ older.at = q.at /\ older.status = q.status /\ older.asked = q.asked
        /\ older.path = q.path /\ older.hops = q.hops
    BY DEF IInv, Guarded, Shaped, Fields
  <2>4. request'[c] \in {q, lost, older}
    BY DEF ForceExit, Tick
  <2> HIDE DEF q, lost, older
  <2>5. Traced(lost)
    BY <1>1, <2>1, <2>2, Keeping DEF Reached
  <2>6. Traced(older)
    BY <1>1, <2>1, <2>3, Keeping DEF Reached
  <2> QED
    BY <1>1, <2>4, <2>5, <2>6
<1>3. CASE ~InFlight(c)
  <2>1. request'[c] = q
    BY <1>3 DEF ForceExit, Tick
  <2> QED
    BY <1>1, <2>1
<1> QED
  BY <1>2, <1>3

\* Every step keeps the requests traced.
LEMMA InductiveTraced == IInv /\ TInv /\ [Next]_vars => TInv'
<1> SUFFICES ASSUME IInv, TInv, [Next]_vars PROVE TInv'
  OBVIOUS
<1>1. ASSUME NEW c \in Clients, Send(c) PROVE TInv'
  BY <1>1, StartingTraced
<1>2. ASSUME NEW c \in Clients, Proceed(c) PROVE TInv'
  BY <1>2, ProceedingTraced
<1>3. ASSUME NEW c \in Clients, StoreFails(c) PROVE TInv'
  BY <1>3, EndingTraced DEF StoreFails
<1>4. ASSUME NEW c \in Clients, HandlerAnswers(c) PROVE TInv'
  BY <1>4, EndingTraced DEF HandlerAnswers, Reached
<1>5. ASSUME NEW c \in Clients, Timeout(c) PROVE TInv'
  BY <1>5, EndingTraced DEF Timeout, InFlight
<1>6. ASSUME NEW c \in Clients, Follow(c) PROVE TInv'
  BY <1>6, FollowingTraced
<1>7. CASE Signal \/ Drain \/ StoreTurns \/ UNCHANGED vars
  <2>1. request' = request
    BY <1>7 DEF Signal, Drain, StoreTurns, vars
  <2> QED
    BY <2>1 DEF TInv
<1>8. CASE ForceExit \/ Tick
  BY <1>8, RebuildingTraced
<1> QED
  BY <1>1, <1>2, <1>3, <1>4, <1>5, <1>6, <1>7, <1>8 DEF Next

\* The redirect of unversioned paths serves those with one segment after /api and
\* no others, whatever is asked and however many redirects a client follows
\* (index.ts:135-142).
THEOREM TheRedirectServesOneSegment == Spec => []RedirectServesOneSegment
<1>1. Init => IInv /\ TInv
  BY Initially DEF Init, TInv, Traced, NotSent
<1>2. IInv /\ TInv /\ [Next]_vars => (IInv /\ TInv)'
  BY Inductive, InductiveTraced
<1>3. IInv /\ TInv => RedirectServesOneSegment
  BY DEF IInv, Guarded, TInv, Traced, Reached, RedirectServesOneSegment
<1> QED
  BY <1>1, <1>2, <1>3, PTL DEF Spec
=============================================================================
