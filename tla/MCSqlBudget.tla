------------------------------ MODULE MCSqlBudget -----------------------------
(* SqlBudget for TLC: every constant is a set of model values or a number. *)
EXTENDS SqlBudget
=============================================================================
