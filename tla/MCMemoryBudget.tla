--------------------------- MODULE MCMemoryBudget ---------------------------
(***************************************************************************)
(* MemoryBudget with a budget of 4: 1 and 2 fit together *)
(* in many ways, 3 fits beside 1 only, and 6 is oversized.                 *)
(***************************************************************************)
EXTENDS MemoryBudget

MCAmounts == {1, 2, 3, 6}
=============================================================================
