---------------------------- MODULE MCBudgetTree ----------------------------
(* Model values for BudgetTree: sessions and proposals are interchangeable. *)
EXTENDS BudgetTree, TLC

MCSymmetry == Permutations(Child) \cup Permutations(Proposal)
=============================================================================
