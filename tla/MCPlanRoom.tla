----------------------------- MODULE MCPlanRoom -----------------------------
(***************************************************************************)
(* TLC instances of the plan room.                                         *)
(***************************************************************************)
EXTENDS PlanRoom, TLC

Symmetry == Permutations(Users)
=============================================================================
