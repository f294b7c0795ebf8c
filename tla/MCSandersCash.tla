--------------------------- MODULE MCSandersCash ---------------------------
(* Model-checking instance of SandersCash. *)
EXTENDS SandersCash, TLC

MCAmount == {-1, 2}

Symmetry == Permutations(Account) \cup Permutations(Txn) \cup Permutations(Client)

\* Stale edits can move a balance without end: stop once the effect of one row
\* leaves this range, which two overlapping edits of the row are enough to do.
MaxEffect == 4
EffectBounded == \A t \in Txn : applied[t] \in -MaxEffect..MaxEffect
=============================================================================
