--------------------------- MODULE MCQueryService ---------------------------
(***************************************************************************)
(* TLC instance of the query path: two callers, one connection, and a      *)
(* clock of a few seconds.                                                 *)
(***************************************************************************)
EXTENDS QueryService

CONSTANTS c1, c2
=============================================================================
