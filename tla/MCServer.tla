------------------------------- MODULE MCServer -----------------------------
(* Two clients; a limited route behind a redirect, one that needs neither  *)
(* key nor redirect, a path whose redirects do not end, metrics, the docs, *)
(* a path that only begins with health, one outside the API.  Clients      *)
(* follow two redirects.                                                   *)
EXTENDS Server

CONSTANTS c1, c2

MCClients == {c1, c2}

MCAsked ==
  {<<"POST", Names(<<"api", "simulate">>)>>,
   <<"GET", Names(<<"api", "v1", "health", "ready">>)>>,
   <<"GET", Names(<<"api", "health", "live">>)>>,
   <<"GET", Names(<<"api", "docs", "simulate">>)>>,
   <<"GET", Names(<<"api", "healthz">>)>>,
   <<"HEAD", Names(<<"metrics">>)>>,
   <<"GET", Names(<<"favicon.ico">>)>>}
=============================================================================
