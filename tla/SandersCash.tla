---------------------------- MODULE SandersCash ----------------------------
(***************************************************************************)
(* The household currency (server/internal/service/sanders_cash.go): one   *)
(* account row per kid with a stored balance, and one ledger row per       *)
(* transaction.  The database handle holds a single connection, so every   *)
(* SQL statement, and every BEGIN..COMMIT block, is one atomic step.       *)
(*                                                                         *)
(* CreateTransaction reads the balance inside its BEGIN..COMMIT block.     *)
(* DeleteTransaction and UpdateTransaction read the row BEFORE theirs, so  *)
(* each is two steps with other requests in between; `edits' holds the     *)
(* requests that have read and not yet committed.                          *)
(***************************************************************************)
EXTENDS Integers, FiniteSets, Functions

CONSTANTS
    Account,   \* account ids (sanders_cash_accounts.id, one per kid)
    Txn,       \* transaction ids (uuids: never reused)
    Client,    \* HTTP requests that may be in flight at the same time
    Amount     \* amounts a request may carry, in cents

ASSUME AmountAssumption == Amount \subseteq Int

VARIABLES
    balance,   \* sanders_cash_accounts: account id -> balance
    ledger,    \* sanders_cash_transactions: id -> [account, type, amount]
    used,      \* transaction ids already drawn
    edits,     \* delete and update requests between their read and their commit
    applied,   \* history: net amount each row has moved its account's balance by
    raced,     \* history: rows on which a stale edit has committed
    corrected  \* history: accounts moved by an edit, an adjustment or a
               \* negative award, and not only by awards and spends

cashVars == <<balance, ledger, used, edits, applied, raced, corrected>>

TxType == {"earn", "spend", "adjust"}
Row  == [account : Account, type : TxType, amount : Int]
Edit == [client : Client, op : {"delete", "update"}, txn : Txn,
         account : Account, read : Int, new : Int]

(***************************************************************************)
(* The tables.                                                             *)
(***************************************************************************)
Idle(c) == \A e \in edits : e.client # c

\* UPDATE .. SET balance = balance + d WHERE id = a: no row, no effect.
Credit(a, d) ==
    balance' = [x \in DOMAIN balance |-> balance[x] + IF x = a THEN d ELSE 0]

Moved(t, a, d) ==
    applied' = [applied EXCEPT ![t] = @ + IF a \in DOMAIN balance THEN d ELSE 0]

Signed(type, amt) == IF type = "spend" /\ amt > 0 THEN -amt ELSE amt

\* Mutant: the overdraft check is gone.
SpendUnchecked(a, type, d) == TRUE

\* The overdraft check, made on the balance read inside the transaction.
SpendAllowed(a, type, d) == type = "spend" => balance[a] + d >= 0

\* The BEGIN..COMMIT block of CreateTransaction.
Post(t, a, type, amt) ==
    LET d == Signed(type, amt) IN
    /\ t \in Txn \ used
    /\ a \in DOMAIN balance
    /\ SpendAllowed(a, type, d)
    /\ ledger' = [x \in DOMAIN ledger \cup {t} |->
                    IF x = t THEN [account |-> a, type |-> type, amount |-> d]
                             ELSE ledger[x]]
    /\ used' = used \cup {t}
    /\ Credit(a, d)
    /\ Moved(t, a, d)
    /\ corrected' = IF type # "spend" /\ d < 0 THEN corrected \cup {a} ELSE corrected
    /\ UNCHANGED <<edits, raced>>

\* The row an edit is about is no longer what the edit read.
Stale(e) ==
    \/ e.txn \notin DOMAIN ledger
    \/ ledger[e.txn].amount # e.read

Close(e) ==
    /\ edits' = edits \ {e}
    /\ raced' = IF Stale(e) /\ e.account \in DOMAIN balance
                THEN raced \cup {e.txn} ELSE raced
    /\ corrected' = corrected \cup {e.account}

(***************************************************************************)
(* The handlers.                                                           *)
(***************************************************************************)
CreateTransaction(t, a, type, amt) ==
    /\ amt # 0
    /\ Post(t, a, type, amt)

\* One-tap award: the same insert, with no check on the amount.
QuickAward(t, a, amt) == Post(t, a, "earn", amt)

BeginDelete(c, t) ==
    /\ Idle(c)
    /\ t \in DOMAIN ledger
    /\ edits' = edits \cup {[client |-> c, op |-> "delete", txn |-> t,
                             account |-> ledger[t].account,
                             read |-> ledger[t].amount, new |-> 0]}
    /\ UNCHANGED <<balance, ledger, used, applied, raced, corrected>>

\* Mutant: the row goes, the balance stays.
CommitDeleteOnly(e) ==
    /\ e \in edits /\ e.op = "delete"
    /\ ledger' = Restrict(ledger, DOMAIN ledger \ {e.txn})
    /\ Close(e)
    /\ UNCHANGED <<balance, applied, used>>

\* The DELETE may match no row; the balance is corrected all the same.
CommitDelete(e) ==
    /\ e \in edits /\ e.op = "delete"
    /\ ledger' = Restrict(ledger, DOMAIN ledger \ {e.txn})
    /\ Credit(e.account, -e.read)
    /\ Moved(e.txn, e.account, -e.read)
    /\ Close(e)
    /\ UNCHANGED used

BeginUpdate(c, t, amt) ==
    /\ Idle(c)
    /\ t \in DOMAIN ledger
    /\ edits' = edits \cup {[client |-> c, op |-> "update", txn |-> t,
                             account |-> ledger[t].account,
                             read |-> ledger[t].amount, new |-> amt]}
    /\ UNCHANGED <<balance, ledger, used, applied, raced, corrected>>

\* Mutant: the balance moves by the new amount, not by the difference.
CommitUpdateWhole(e) ==
    /\ e \in edits /\ e.op = "update"
    /\ ledger' = [x \in DOMAIN ledger |->
                    IF x = e.txn THEN [ledger[x] EXCEPT !.amount = e.new]
                                 ELSE ledger[x]]
    /\ Credit(e.account, e.new)
    /\ Moved(e.txn, e.account, e.new)
    /\ Close(e)
    /\ UNCHANGED used

\* The amount is written as is, whatever the row's type; the balance moves by
\* the difference to the amount that was READ.
CommitUpdate(e) ==
    /\ e \in edits /\ e.op = "update"
    /\ ledger' = [x \in DOMAIN ledger |->
                    IF x = e.txn THEN [ledger[x] EXCEPT !.amount = e.new]
                                 ELSE ledger[x]]
    /\ Credit(e.account, e.new - e.read)
    /\ Moved(e.txn, e.account, e.new - e.read)
    /\ Close(e)
    /\ UNCHANGED used

\* The request dies between its read and its commit (rollback, crash).
AbandonEdit(e) ==
    /\ e \in edits
    /\ edits' = edits \ {e}
    /\ UNCHANGED <<balance, ledger, used, applied, raced, corrected>>

\* Mutant: account_id has no ON DELETE CASCADE.
RemoveKidOnly(a) ==
    /\ a \in DOMAIN balance
    /\ balance' = Restrict(balance, DOMAIN balance \ {a})
    /\ UNCHANGED <<ledger, used, edits, applied, raced, corrected>>

\* A kid is deleted: account and rows go by ON DELETE CASCADE.
RemoveKid(a) ==
    /\ a \in DOMAIN balance
    /\ balance' = Restrict(balance, DOMAIN balance \ {a})
    /\ ledger' = Restrict(ledger, {t \in DOMAIN ledger : ledger[t].account # a})
    /\ applied' = [t \in Txn |->
                     IF t \in DOMAIN ledger /\ ledger[t].account = a
                     THEN 0 ELSE applied[t]]
    /\ UNCHANGED <<used, edits, raced, corrected>>

-----------------------------------------------------------------------------
CashInit ==
    /\ balance = [a \in Account |-> 0]
    /\ ledger = [t \in {} |-> 0]
    /\ used = {}
    /\ edits = {}
    /\ applied = [t \in Txn |-> 0]
    /\ raced = {}
    /\ corrected = {}

EditStep ==
    \/ \E c \in Client, t \in Txn : BeginDelete(c, t)
    \/ \E c \in Client, t \in Txn, amt \in Amount : BeginUpdate(c, t, amt)
    \/ \E e \in edits : CommitDelete(e) \/ CommitUpdate(e) \/ AbandonEdit(e)

CashNext ==
    \/ \E t \in Txn, a \in Account, type \in TxType, amt \in Amount :
         CreateTransaction(t, a, type, amt)
    \/ \E t \in Txn, a \in Account, amt \in Amount : QuickAward(t, a, amt)
    \/ EditStep
    \/ \E a \in Account : RemoveKid(a)

CashSpec == CashInit /\ [][CashNext]_cashVars

-----------------------------------------------------------------------------
(***************************************************************************)
(* Properties.                                                             *)
(***************************************************************************)
\* FOREIGN KEY (account_id): a ledger row belongs to an existing account.
ForeignKey == \A t \in DOMAIN ledger : ledger[t].account \in DOMAIN balance

\* Every variable has the shape of its table, and the tables fit together.
CashTypeOK ==
    /\ DOMAIN balance \subseteq Account
    /\ balance \in [DOMAIN balance -> Int]
    /\ DOMAIN ledger \subseteq Txn
    /\ ledger \in [DOMAIN ledger -> Row]
    /\ used \subseteq Txn
    /\ DOMAIN ledger \subseteq used
    /\ edits \subseteq Edit
    /\ applied \in [Txn -> Int]
    /\ raced \subseteq Txn
    /\ corrected \subseteq Account
    /\ ForeignKey

Rows(a) == {t \in DOMAIN ledger : ledger[t].account = a}
LedgerSum(a) == SumFunctionOnSet([t \in Rows(a) |-> ledger[t].amount], Rows(a))

RowAmount(t) == IF t \in DOMAIN ledger THEN ledger[t].amount ELSE 0

\* A row has moved its account's balance by exactly the amount it now shows
\* (nothing once deleted), unless an edit that had read another amount, or a
\* row since deleted, has committed on it.
RowEffectExact == \A t \in Txn \ raced : applied[t] = RowAmount(t)

\* The stored balance of an account is the sum of its ledger rows as long as
\* no stale edit has touched a row of that account.
BalanceMatchesLedger ==
    \A a \in DOMAIN balance :
        raced = {} => balance[a] = LedgerSum(a)

\* An account moved by awards and spends alone is never overdrawn, however
\* many spends are in flight: the balance check and the insert are one step.
Solvent == \A a \in DOMAIN balance \ corrected : balance[a] >= 0

Abstract == INSTANCE AtomicLedger WITH
    open <- DOMAIN balance, rows <- ledger, shown <- balance

\* Until a stale edit commits, the stored balances are, step by step, the
\* balances of the atomic ledger, whatever requests overlap.
ImplementsAtomicLedger ==
    /\ Abstract!Init
    /\ [][raced' = {} => Abstract!Next]_<<DOMAIN balance, ledger, balance>>
=============================================================================
