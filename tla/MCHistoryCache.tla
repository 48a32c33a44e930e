--------------------------- MODULE MCHistoryCache ---------------------------
(***************************************************************************)
(* TLC instances of the query-history cache: a few queries, a row ceiling  *)
(* of one or two, and a clock of a few seconds.                            *)
(***************************************************************************)
EXTENDS HistoryCache, TLC

CONSTANTS q1, q2, q3, q4, w1, w2

Symmetry == Permutations(Queries) \union Permutations(Writers)
=============================================================================
