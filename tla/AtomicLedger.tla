---------------------------- MODULE AtomicLedger ----------------------------
(***************************************************************************)
(* What the currency promises: accounts and ledger rows, each request one  *)
(* indivisible step, and a balance that is never stored but always the sum *)
(* of the account's rows.                                                  *)
(***************************************************************************)
EXTENDS Integers, Functions

CONSTANTS Account, Txn

VARIABLES
    open,      \* accounts that exist
    rows,      \* id -> [account, type, amount]
    shown      \* account -> the balance reported to readers

ledgerVars == <<open, rows, shown>>

RowsOf(r, a) == {t \in DOMAIN r : r[t].account = a}
Total(r, a) == SumFunctionOnSet([t \in RowsOf(r, a) |-> r[t].amount], RowsOf(r, a))

Shows(acc, r) == [a \in acc |-> Total(r, a)]

Init == open = Account /\ rows = [t \in {} |-> 0] /\ shown = Shows(open, rows)

Insert(t) ==
    /\ t \in Txn \ DOMAIN rows
    /\ DOMAIN rows' = DOMAIN rows \cup {t}
    /\ Restrict(rows', DOMAIN rows) = rows
    /\ rows'[t].account \in open
    /\ rows'[t].type = "spend" => Total(rows, rows'[t].account) + rows'[t].amount >= 0
    /\ open' = open

Delete(t) ==
    /\ t \in DOMAIN rows
    /\ rows' = Restrict(rows, DOMAIN rows \ {t})
    /\ open' = open

Amend(t) ==
    /\ t \in DOMAIN rows /\ DOMAIN rows' = DOMAIN rows
    /\ rows' = [rows EXCEPT ![t].amount = rows'[t].amount]
    /\ open' = open

CloseAccount(a) ==
    /\ a \in open
    /\ open' = open \ {a}
    /\ rows' = Restrict(rows, DOMAIN rows \ RowsOf(rows, a))

Next ==
    /\ \/ \E t \in Txn : Insert(t) \/ Delete(t) \/ Amend(t)
       \/ \E a \in Account : CloseAccount(a)
    /\ shown' = Shows(open', rows')

Spec == Init /\ [][Next]_ledgerVars
=============================================================================
