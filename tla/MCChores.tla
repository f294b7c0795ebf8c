------------------------------ MODULE MCChores ------------------------------
(* Model-checking instance of Chores. *)
EXTENDS Chores, TLC

MCAmount == {}
FreeOrPaid == {0, 2}
AlwaysPaid == {2}

Symmetry == Permutations(Account) \cup Permutations(Txn) \cup Permutations(Task)
                \cup Permutations(Template)
=============================================================================
