------------------------ MODULE MCClickHousePrepare ------------------------
(* Small instances of ClickHousePrepare for TLC. *)
EXTENDS ClickHousePrepare, TLC

CONSTANTS server, proxy, r1, r2

\* For instances in which both containers have the same configuration.
NodeSymmetry == Permutations({server, proxy})
=============================================================================
