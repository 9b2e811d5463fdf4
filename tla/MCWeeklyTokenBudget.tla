------------------------- MODULE MCWeeklyTokenBudget -------------------------
(* Instances of WeeklyTokenBudget for TLC. *)
EXTENDS WeeklyTokenBudget
=============================================================================
