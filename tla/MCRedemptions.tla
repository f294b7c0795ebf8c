--------------------------- MODULE MCRedemptions ---------------------------
(* Model-checking instance of Redemptions. *)
EXTENDS Redemptions, TLC

MCAmount == {3}
MCCost == {-1, 2}

Symmetry == Permutations(Txn) \cup Permutations(Redemption) \cup Permutations(Reviewer)
=============================================================================
