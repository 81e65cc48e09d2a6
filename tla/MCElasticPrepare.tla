-------------------------- MODULE MCElasticPrepare --------------------------
(* A small instance of ElasticPrepare for TLC. *)
EXTENDS ElasticPrepare, TLC

CONSTANTS server, proxy

Provider(types, daily, create, valid) ==
  [types |-> types, daily |-> daily, create |-> create, valid |-> valid]

\* The server has two providers, of daily and of plain indices, and creates
\* what they need.  The proxy races with it for the first one's objects and
\* has create off in the second, which it can only check.
MCPlans ==
  server :> <<Provider(<<"str">>, TRUE, TRUE, TRUE),
              Provider(<<"json">>, FALSE, TRUE, TRUE)>> @@
  proxy :> <<Provider(<<"str">>, TRUE, TRUE, TRUE),
             Provider(<<"json">>, FALSE, FALSE, TRUE)>>
=============================================================================
