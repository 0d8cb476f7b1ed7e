-------------------------------- MODULE Server ------------------------------
(***************************************************************************)
(* The way of a request through src/index.ts: the middleware chain, the    *)
(* routes, the redirect of paths nothing else matches, the time limit, and *)
(* the shutdown, which lets requests in flight finish and then exits.      *)
(*                                                                         *)
(* A path is a sequence of segments and a segment a sequence of names,     *)
(* because the redirect joins the segments of a path into one by commas:   *)
(* /api/v1/health,live is <<<<"api">>, <<"v1">>, <<"health", "live">>>>.   *)
(* OPTIONS, which cors answers in front of the chain, is left out.         *)
(***************************************************************************)
EXTENDS Integers, Sequences, SequencesExt

CONSTANTS
  Clients,      \* each sends one request and follows its redirects
  Asked,        \* the requests they may send, as <<method, path>>
  HealthNames,  \* the names that begin with "health"
  Development,  \* is NODE_ENV anything but production?
  TimeLimit,    \* SIMULATE_TIMEOUT_MS
  ForceAfter,   \* the 10 s after which the process exits
  MaxHops       \* bound: a client gives up after as many redirects

ASSUME ServerAssumption ==
  /\ Asked \subseteq {"GET", "HEAD", "POST", "DELETE"} \X Seq(Seq(STRING) \ {<<>>})
  /\ "health" \in HealthNames /\ Development \in BOOLEAN
  /\ TimeLimit \in Nat \ {0} /\ ForceAfter \in Nat /\ MaxHops \in Nat

VARIABLES
  process,  \* "running", "draining", "drained" (exit 0) or "killed" (exit 1)
  since,    \* the time since the first signal
  store,    \* the brute force counters' Redis: "up" or "down"
  request   \* each client's request

vars == <<process, since, store, request>>

\* What a request may lack: a body that parses, a permitted address, the content
\* type a POST needs, an API key where keys are configured.
Faults == {"body", "address", "json", "key"}

NotSent == [at |-> "idle", asked |-> <<>>, path |-> <<>>, lacks |-> {},
            hops |-> 0, age |-> 0, status |-> 0]

Init ==
  /\ process = "running"
  /\ since = 0
  /\ store = "up"
  /\ request = [c \in Clients |-> NotSent]

Names(path) == [i \in DOMAIN path |-> <<path[i]>>]

\* src/api/routes.ts
LimitedRoutes ==
  {<<"POST", Names(<<"simulate">>)>>, <<"GET", Names(<<"decode">>)>>,
   <<"POST", Names(<<"estimate-fee">>)>>}

Routes == LimitedRoutes \cup
  ({"GET"} \X
     {Names(p) : p \in {<<"health">>, <<"health", "live">>, <<"health", "ready">>,
        <<"simulate", "supported-networks">>, <<"simulate", "history">>,
        <<"simulate", "cost-breakdown">>, <<"network", "status">>, <<"openapi.json">>}})
  \cup
  ({"POST"} \X
     {Names(p) : p \in {<<"simulate", "dry-run">>, <<"simulate", "batch">>,
        <<"footprint", "diff">>, <<"validate">>, <<"restore">>}})
  \cup {<<"DELETE", Names(<<"cache">>)>>}

Api == Names(<<"api">>)
ApiV1 == Names(<<"api", "v1">>)
ApiDocs == Names(<<"api", "docs">>)
Below(prefix, path) == SubSeq(path, Len(prefix) + 1, Len(path))

\* Mutant: the version is inserted and the segments are kept.
RedirectKeeping(path) == ApiV1 \o Below(Api, path)

\* `/api/v1/${req.params.path}`: the wildcard's segments, joined by commas
Redirect(path) == ApiV1 \o <<FlattenSeq(Below(Api, path))>>

-----------------------------------------------------------------------------

InFlight(c) == request[c].at \in {"store", "handler"}

End(c, status) ==
  request' = [request EXCEPT ![c].at = "done", ![c].status = status, ![c].age = 0]

\* ipFilterMiddleware: the address is blocked, or there is a list it is not on.
Forbidden(q) == "address" \in q.lacks

\* express.json and the address filter answer at once; the others wait for the
\* brute force middleware's store, within the time limit.
Arrive(c, q) ==
  request' = [request EXCEPT ![c] =
    IF "body" \in q.lacks THEN [q EXCEPT !.at = "done", !.status = 400]
    ELSE IF Forbidden(q) THEN [q EXCEPT !.at = "done", !.status = 403]
    ELSE [q EXCEPT !.at = "store", !.age = 0]]

Send(c) ==
  /\ process = "running" /\ request[c].at = "idle"
  /\ \E ask \in Asked, lacks \in {{}} \cup {{f} : f \in Faults} :
       Arrive(c, [NotSent EXCEPT !.asked = ask, !.path = ask[2], !.lacks = lacks])
  /\ UNCHANGED <<process, since, store>>

Method(q) == q.asked[1]

LacksType(q) == Method(q) = "POST" /\ "json" \in q.lacks

\* Mutant: a request that was redirected is not asked for its key again.
LacksKeyUnlessRedirected(q) == "key" \in q.lacks /\ q.hops = 0

\* req.path, below /api/v1, starts with /health.
BeginsWithHealth(q) == Len(q.path) > 2 /\ q.path[3][1] \in HealthNames

\* apiKeyAuth
LacksKey(q) == "key" \in q.lacks /\ ~BeginsWithHealth(q)

UnderV1(q) == IsPrefix(ApiV1, q.path)

\* Express serves HEAD by the route of GET.
Route(q) ==
  <<IF Method(q) = "HEAD" THEN "GET" ELSE Method(q), Below(ApiV1, q.path)>>

IsRoute(q) == UnderV1(q) /\ Route(q) \in Routes

\* The Swagger UI, in development only: any method, any path below /api/docs
IsDocs(q) == Development /\ IsPrefix(ApiDocs, q.path)

IsMetrics(q) == Method(q) \in {"GET", "HEAD"} /\ q.asked[2] = Names(<<"metrics">>)

\* A rate limiter in front of the route may answer for it; its counters are the
\* library's.
Limit(c) ==
  /\ UnderV1(request[c]) /\ Route(request[c]) \in LimitedRoutes
  /\ End(c, 429)

\* The store has answered: it holds no records, because nothing records a
\* failure.  Then the content type, the docs and /metrics, the API key, the routes
\* with their rate limit, and the redirect.
Proceed(c) ==
  LET q == request[c]
  IN  /\ q.at = "store" /\ store = "up"
      /\ \/ LacksType(q) /\ End(c, 415)
         \/ /\ ~LacksType(q) /\ UnderV1(q) /\ LacksKey(q)
            /\ End(c, 401)
         \/ /\ ~LacksType(q)
            /\ IsDocs(q) \/ IsMetrics(q) \/ (IsRoute(q) /\ ~LacksKey(q))
            /\ request' = [request EXCEPT ![c].at = "handler"] \/ Limit(c)
         \/ /\ ~LacksType(q) /\ ~IsRoute(q) /\ ~(UnderV1(q) /\ LacksKey(q))
            /\ ~IsDocs(q) /\ IsPrefix(Api, q.path) /\ Len(q.path) > 1
            /\ request' = [request EXCEPT ![c].at = "redirected"]
         \/ /\ ~LacksType(q) /\ ~IsMetrics(q)
            /\ ~IsPrefix(Api, q.path) \/ Len(q.path) = 1
            /\ End(c, 404)
      /\ UNCHANGED <<process, since, store>>

\* The store rejects, and Express 5 passes the rejection to the error handler,
\* whatever the path.
StoreFails(c) ==
  /\ request[c].at = "store" /\ store = "down"
  /\ End(c, 500)
  /\ UNCHANGED <<process, since, store>>

\* The handler's own answer, here 200
HandlerAnswers(c) ==
  /\ request[c].at = "handler"
  /\ End(c, 200)
  /\ UNCHANGED <<process, since, store>>

\* Mutant: the time limit starts behind the store.
TimeoutInHandler(c) ==
  /\ request[c].at = "handler" /\ request[c].age = TimeLimit
  /\ End(c, 504)
  /\ UNCHANGED <<process, since, store>>

\* What still runs for the request afterwards can no longer answer it.
Timeout(c) ==
  /\ InFlight(c) /\ request[c].age = TimeLimit
  /\ End(c, 504)
  /\ UNCHANGED <<process, since, store>>

\* The client follows a redirect with the same method and body.  Once the server
\* is closing it is refused, unless its connection is still open.
Follow(c) ==
  LET q == request[c]
  IN  /\ q.at = "redirected"
      /\ \/ /\ q.hops < MaxHops /\ process \in {"running", "draining"}
            /\ Arrive(c, [q EXCEPT !.path = Redirect(q.path), !.hops = q.hops + 1])
         \/ /\ q.hops = MaxHops \/ process # "running"
            /\ request' = [request EXCEPT ![c].at = "abandoned"]
      /\ UNCHANGED <<process, since, store>>

-----------------------------------------------------------------------------

\* Mutant: each signal replaces the timer of the one before.
SignalRestarting ==
  /\ process \in {"running", "draining"}
  /\ process' = "draining"
  /\ since' = 0
  /\ UNCHANGED <<store, request>>

\* SIGTERM or SIGINT: server.close and a timer.  A later signal adds a timer that
\* is never the first to fire.
Signal ==
  /\ process \in {"running", "draining"}
  /\ process' = "draining"
  /\ UNCHANGED <<since, store, request>>

\* The last connection has ended, which may be later than its last request.
Drain ==
  /\ process = "draining"
  /\ \A c \in Clients : ~InFlight(c)
  /\ process' = "drained"
  /\ UNCHANGED <<since, store, request>>

\* Forced exit after timeout
ForceExit ==
  /\ process = "draining" /\ since = ForceAfter
  /\ process' = "killed"
  /\ request' = [c \in Clients |->
       IF InFlight(c) THEN [request[c] EXCEPT !.at = "lost"] ELSE request[c]]
  /\ UNCHANGED <<since, store>>

StoreTurns ==
  /\ store' \in {"up", "down"} \ {store}
  /\ UNCHANGED <<process, since, request>>

Tick ==
  /\ since' = IF process = "draining" /\ since < ForceAfter THEN since + 1 ELSE since
  /\ request' = [c \in Clients |->
       IF InFlight(c) /\ request[c].age < TimeLimit
         THEN [request[c] EXCEPT !.age = @ + 1] ELSE request[c]]
  /\ UNCHANGED <<process, store>>

Next ==
  \/ \E c \in Clients :
       \/ Send(c) \/ Proceed(c) \/ StoreFails(c) \/ HandlerAnswers(c)
       \/ Timeout(c) \/ Follow(c)
  \/ Signal \/ Drain \/ ForceExit \/ StoreTurns \/ Tick

Fairness ==
  /\ WF_vars(Tick) /\ WF_vars(ForceExit)
  /\ \A c \in Clients : WF_vars(Timeout(c)) /\ WF_vars(Follow(c))

Spec == Init /\ [][Next]_vars /\ Fairness

-----------------------------------------------------------------------------

\* Without a key, directly or by way of redirects, a request gets to no handler
\* but the metrics, those whose path begins with health, and in development the
\* Swagger UI: no route of the API is open to a path that the key's check and the
\* router read differently (middleware/apiKeyAuth.ts, index.ts:103-142).
KeylessReachesOnlyOpenPaths ==
  \A c \in Clients :
    LET q == request[c]
    IN  "key" \in q.lacks /\ (q.at = "handler" \/ q.status \in {200, 429})
          => IsMetrics(q) \/ BeginsWithHealth(q) \/ IsDocs(q)

\* The redirect of unversioned paths takes a request to its handler only if
\* there is one segment after /api; the segments of a longer path are joined, and
\* the client is sent from one path that does not exist to the next until it
\* gives up (index.ts:135-142).
RedirectServesOneSegment ==
  \A c \in Clients :
    LET q == request[c]
    IN  q.hops > 0 /\ (q.at = "handler" \/ q.status \in {200, 429})
          => Len(q.asked[2]) = 2 /\ q.hops = 1

\* A request that has been accepted is answered, or its client gives up on
\* redirects or loses it to the end of the process, also when the counter store
\* or a handler never answers (middleware/timeout.ts, index.ts:100).
RequestsSettle ==
  \A c \in Clients :
    request[c].at # "idle" ~> request[c].at \in {"done", "abandoned", "lost"}

\* After a signal the process exits, whatever requests, connections and further
\* signals there are (index.ts:167-179).
SignalLeadsToExit ==
  process = "draining" ~> process \in {"drained", "killed"}

\* docs/guides/kubernetes.md:176, "| Liveness | `GET /api/health/live` |": a probe
\* of that path, which the deployment configures and the kubelet follows through
\* its redirects, is served by a process that runs.
LivenessProbeIsServed ==
  \A c \in Clients :
    LET q == request[c]
    IN  q.asked = <<"GET", Names(<<"api", "health", "live">>)>> /\ q.lacks = {}
          => q.at # "abandoned" \/ process # "running"
=============================================================================
