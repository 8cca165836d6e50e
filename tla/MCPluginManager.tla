--------------------------- MODULE MCPluginManager ---------------------------
(* Three plugins: docker and monitoring-like plugins without dependencies   *)
(* and dependents, in the shapes the panel's own plugins have (appstore and *)
(* database on docker), a chain, and a cycle.                               *)
EXTENDS PluginManager, TLC

CONSTANTS docker, database, monitoring

MCPlugin == {docker, database, monitoring}

Needs(p, ds) == [q \in MCPlugin |-> IF q = p THEN ds ELSE {}]

MCDepGraphs ==
    { Needs(database, {docker}),
      Needs(docker, {database}),
      [Needs(database, {docker}) EXCEPT ![docker] = {database}] }

(* database is to come before docker by priority, after it by dependency. *)
MCPriority == (docker :> 10) @@ (database :> 5) @@ (monitoring :> 10)
=============================================================================
