-------------------------- MODULE MCMySQLProvision --------------------------
(* Small instances of MySQLProvision for TLC. *)
EXTENDS MySQLProvision

CONSTANTS server1, server2, server3, init

\* Server nodes of one HA cluster started at once, nothing before them.
NoGates == [n \in Nodes |-> {}]

\* compose.yaml: both services wait for the init container.
ComposeGates == [n \in Nodes |-> IF n = init THEN {} ELSE {init}]
=============================================================================
