--------------------------- MODULE MCPgProvision ---------------------------
(* A small instance of PgProvision for TLC: a schema file of two           *)
(* transactions, the extension, and one more file.                         *)
EXTENDS PgProvision

CONSTANTS n1, n2, n3
=============================================================================
