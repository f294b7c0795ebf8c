------------------------- MODULE SandersCashProofs -------------------------
(***************************************************************************)
(* Proofs about SandersCash, for any sets of accounts, transactions,       *)
(* clients and integer amounts.                                            *)
(***************************************************************************)
EXTENDS SandersCash, FiniteSetTheorems, WellFoundedInduction, TLAPS

(***************************************************************************)
(* Sums over finite sets.  SumFunctionOnSet is defined by a function that  *)
(* calls itself; its equations are proved by taking, among the subsets on  *)
(* which one fails, a minimal one.                                         *)
(***************************************************************************)
\* Induction over the subsets of a finite set.
LEMMA SetInduction ==
  ASSUME NEW S, IsFiniteSet(S), NEW Good \in SUBSET SUBSET S,
         \A T \in SUBSET S : (\A U \in SUBSET T : U # T => U \in Good) => T \in Good
  PROVE  \A T \in SUBSET S : T \in Good
<1> SUFFICES ASSUME (SUBSET S) \ Good # {} PROVE FALSE
  OBVIOUS
<1>1. IsWellFoundedOn(StrictSubsetOrdering(S), SUBSET S)
  <2>1. FiniteSubsetsOf(S) = SUBSET S
    BY FS_FiniteSubsetsOfFinite
  <2>2. IsWellFoundedOn(StrictSubsetOrdering(S), FiniteSubsetsOf(S))
    BY FS_StrictSubsetOrderingWellFounded
  <2> QED
    BY <2>1, <2>2
<1> DEFINE Bad == (SUBSET S) \ Good
           R == StrictSubsetOrdering(S)
<1>2. \E T \in Bad : \A U \in Bad : ~(<<U, T>> \in R)
  <2>1. Bad \subseteq SUBSET S /\ Bad # {} /\ IsWellFoundedOn(R, SUBSET S)
    BY <1>1
  <2> HIDE DEF Bad, R
  <2> QED
    BY <2>1, WFMin
<1>4. PICK T \in Bad : \A U \in Bad : <<U, T>> \notin R
  BY <1>2
<1>3. \A U \in SUBSET T : U # T => U \in Good
  BY <1>4 DEF StrictSubsetOrdering
<1> QED
  BY <1>4, <1>3

\* The equation that defines a sum of the values of f, by the elements CHOOSE picks.
First(s) == CHOOSE x \in s : TRUE
IsSum(f, g, S) ==
    g = [s \in SUBSET S |-> IF s = {} THEN 0 ELSE f[First(s)] + g[s \ {First(s)}]]

\* The library's sum is the one value that IsSum describes.
LEMMA SumIsChosen ==
  ASSUME NEW f, NEW S
  PROVE  SumFunctionOnSet(f, S) = (CHOOSE g : IsSum(f, g, S))[S]
  BY DEF SumFunctionOnSet, FoldFunctionOnSet, MapThenFoldSet, IsSum, First

\* What is taken out of a set first is in it.
LEMMA FirstIsIn == ASSUME NEW s, s # {} PROVE First(s) \in s
  BY DEF First

\* Unfolding IsSum at one subset.
LEMMA IsSumAt ==
  ASSUME NEW f, NEW g, NEW S, IsSum(f, g, S)
  PROVE  \A s \in SUBSET S : g[s] = IF s = {} THEN 0 ELSE f[First(s)] + g[s \ {First(s)}]
<1> DEFINE h == [s \in SUBSET S |-> IF s = {} THEN 0 ELSE f[First(s)] + g[s \ {First(s)}]]
<1>1. g = h
  BY DEF IsSum
<1>2. \A s \in SUBSET S : h[s] = IF s = {} THEN 0 ELSE f[First(s)] + g[s \ {First(s)}]
  OBVIOUS
<1> HIDE DEF h
<1> QED
  BY <1>1, <1>2

\* Two functions that are sums of the same values agree on every subset.
LEMMA SumsAgree ==
  ASSUME NEW S, IsFiniteSet(S), NEW T, S \subseteq T, NEW e, NEW f, \A x \in S : e[x] = f[x],
         NEW g, IsSum(e, g, S), NEW h, IsSum(f, h, T)
  PROVE  \A U \in SUBSET S : g[U] = h[U]
<1> DEFINE Good == {U \in SUBSET S : g[U] = h[U]}
<1>1. Good \in SUBSET SUBSET S
  OBVIOUS
<1>2. ASSUME NEW U \in SUBSET S, \A V \in SUBSET U : V # U => V \in Good
      PROVE  U \in Good
  <2>1. g[U] = IF U = {} THEN 0 ELSE e[First(U)] + g[U \ {First(U)}]
    <3>1. \A s \in SUBSET S : g[s] = IF s = {} THEN 0 ELSE e[First(s)] + g[s \ {First(s)}]
      BY IsSumAt
    <3> QED
      BY <3>1
  <2>2. h[U] = IF U = {} THEN 0 ELSE f[First(U)] + h[U \ {First(U)}]
    <3>1. U \in SUBSET T
      OBVIOUS
    <3> QED
      BY <3>1, IsSumAt
  <2>3. CASE U = {}
    BY <2>1, <2>2, <2>3
  <2>4. CASE U # {}
    <3>1. First(U) \in U
      BY <2>4, FirstIsIn
    <3>2. U \ {First(U)} \in Good /\ e[First(U)] = f[First(U)]
      BY <1>2, <3>1
    <3> QED
      BY <2>1, <2>2, <2>4, <3>2
  <2> QED
    BY <2>3, <2>4
<1>3. \A U \in SUBSET S : (\A V \in SUBSET U : V # U => V \in Good) => U \in Good
  BY <1>2
<1> HIDE DEF Good
<1>4. \A U \in SUBSET S : U \in Good
  BY <1>1, <1>3, SetInduction
<1> QED
  BY <1>4 DEF Good

\* A finite set of integers has a sum.
LEMMA SumExists ==
  ASSUME NEW S, IsFiniteSet(S), NEW f
  PROVE  \A T \in SUBSET S : IsSum(f, CHOOSE g : IsSum(f, g, T), T)
<1> DEFINE G(T) == CHOOSE g : IsSum(f, g, T)
           Good == {T \in SUBSET S : IsSum(f, G(T), T)}
<1>1. Good \in SUBSET SUBSET S
  OBVIOUS
<1>2. ASSUME NEW T \in SUBSET S, \A U \in SUBSET T : U # T => U \in Good
      PROVE  T \in Good
  <2> DEFINE g == [U \in SUBSET T |-> IF U = {} THEN 0
                                      ELSE f[First(U)] + G(U \ {First(U)})[U \ {First(U)}]]
  <2>1. ASSUME NEW U \in SUBSET T, U # T
        PROVE  g[U] = G(U)[U]
    <3>1. IsSum(f, G(U), U)
      BY <1>2, <2>1
    <3>2. G(U)[U] = IF U = {} THEN 0 ELSE f[First(U)] + G(U)[U \ {First(U)}]
      <4> HIDE DEF G
      <4> QED BY <3>1, IsSumAt
    <3>3. CASE U = {}
      BY <3>2, <3>3
    <3>4. CASE U # {}
      <4> DEFINE V == U \ {First(U)}
      <4>1. First(U) \in U
        BY <3>4, FirstIsIn
      <4>2. V \in SUBSET U /\ V # T /\ IsFiniteSet(V)
        BY <4>1, FS_Subset
      <4>3. IsSum(f, G(V), V)
        BY <1>2, <4>2
      <4>4. G(V)[V] = G(U)[V]
        <5> HIDE DEF G, V
        <5> QED BY <3>1, <4>2, <4>3, SumsAgree
      <4> QED
        BY <3>2, <3>4, <4>4
    <3> QED
      BY <3>3, <3>4
  <2>2. ASSUME NEW U \in SUBSET T, U # {}
        PROVE  g[U] = f[First(U)] + g[U \ {First(U)}]
    <3>1. First(U) \in U
      BY <2>2, FirstIsIn
    <3>2. g[U \ {First(U)}] = G(U \ {First(U)})[U \ {First(U)}]
      <4> HIDE DEF g, G
      <4> QED BY <3>1, <2>1
    <3> QED
      BY <2>2, <3>2
  <2>3. IsSum(f, g, T)
    <3> DEFINE h == [s \in SUBSET T |-> IF s = {} THEN 0 ELSE f[First(s)] + g[s \ {First(s)}]]
    <3>1. \A U \in SUBSET T : g[U] = h[U]
      <4>1. g[{}] = 0 /\ h[{}] = 0
        OBVIOUS
      <4>2. \A U \in SUBSET T : U # {} => h[U] = f[First(U)] + g[U \ {First(U)}]
        <5> HIDE DEF g
        <5> QED OBVIOUS
      <4> HIDE DEF g, h
      <4> QED BY <4>1, <4>2, <2>2
    <3>2. g = [U \in SUBSET T |-> g[U]] /\ h = [U \in SUBSET T |-> h[U]]
      OBVIOUS
    <3>3. g = h
      <4> HIDE DEF g, h
      <4> QED BY <3>1, <3>2
    <3> HIDE DEF g
    <3> QED BY <3>3 DEF IsSum
  <2> HIDE DEF g
  <2> QED
    BY <2>3
<1>3. \A T \in SUBSET S : (\A U \in SUBSET T : U # T => U \in Good) => T \in Good
  BY <1>2
<1> HIDE DEF Good
<1>4. \A T \in SUBSET S : T \in Good
  BY <1>1, <1>3, SetInduction
<1> QED
  BY <1>4 DEF Good

\* Nothing adds up to nothing.
LEMMA SumEmpty == ASSUME NEW f PROVE SumFunctionOnSet(f, {}) = 0
<1> DEFINE g == CHOOSE g : IsSum(f, g, {})
<1>1. IsFiniteSet({}) /\ {} \in SUBSET {}
  BY FS_EmptySet
<1>2. IsSum(f, g, {})
  BY <1>1, SumExists
<1>3. g[{}] = 0
  <2> HIDE DEF g
  <2> QED
    BY <1>1, <1>2, IsSumAt
<1> QED
  BY <1>3, SumIsChosen

\* The sum, with the element the definition takes out first.
LEMMA SumFirst ==
  ASSUME NEW f, NEW S, IsFiniteSet(S), S # {}
  PROVE  SumFunctionOnSet(f, S) = f[First(S)] + SumFunctionOnSet(f, S \ {First(S)})
<1> DEFINE V == S \ {First(S)}
           g(T) == CHOOSE g : IsSum(f, g, T)
<1>1. V \in SUBSET S /\ IsFiniteSet(V)
  BY FS_Subset
<1>2. IsSum(f, g(S), S) /\ IsSum(f, g(V), V)
  BY <1>1, SumExists
<1>3. SumFunctionOnSet(f, S) = g(S)[S] /\ SumFunctionOnSet(f, V) = g(V)[V]
  BY SumIsChosen
<1>4. g(S)[S] = f[First(S)] + g(S)[V]
  <2> HIDE DEF g
  <2> QED BY <1>2, IsSumAt
<1>5. g(V)[V] = g(S)[V]
  <2> HIDE DEF g, V
  <2>1. \A U \in SUBSET V : g(V)[U] = g(S)[U]
    BY <1>1, <1>2, SumsAgree
  <2> QED
    BY <2>1
<1> HIDE DEF g
<1> QED
  BY <1>3, <1>4, <1>5

\* The sum depends on the values only.
LEMMA SumSame ==
  ASSUME NEW e, NEW f, NEW S, IsFiniteSet(S), \A x \in S : e[x] = f[x]
  PROVE  SumFunctionOnSet(e, S) = SumFunctionOnSet(f, S)
<1> DEFINE g(F) == CHOOSE g : IsSum(F, g, S)
<1>1. IsSum(e, g(e), S) /\ IsSum(f, g(f), S)
  BY SumExists
<1>2. SumFunctionOnSet(e, S) = g(e)[S] /\ SumFunctionOnSet(f, S) = g(f)[S]
  BY SumIsChosen
<1> HIDE DEF g
<1>3. \A U \in SUBSET S : g(e)[U] = g(f)[U]
  BY <1>1, SumsAgree
<1> QED
  BY <1>2, <1>3

\* The sum of integers is an integer, whichever element is taken out first.
LEMMA SumRemove ==
  ASSUME NEW f, NEW S, IsFiniteSet(S), \A x \in S : f[x] \in Int
  PROVE  /\ SumFunctionOnSet(f, S) \in Int
         /\ \A x \in S : SumFunctionOnSet(f, S) = f[x] + SumFunctionOnSet(f, S \ {x})
<1> DEFINE Sum(T) == SumFunctionOnSet(f, T)
           Good == {T \in SUBSET S : /\ Sum(T) \in Int
                                     /\ \A x \in T : Sum(T) = f[x] + Sum(T \ {x})}
<1>1. Good \in SUBSET SUBSET S
  OBVIOUS
<1>2. Sum({}) = 0
  BY SumEmpty
<1>3. \A T \in SUBSET S : T # {} => Sum(T) = f[First(T)] + Sum(T \ {First(T)})
  BY SumFirst, FS_Subset
<1>4. \A T \in SUBSET S : T # {} => First(T) \in T
  BY FirstIsIn
<1> HIDE DEF Sum
<1>5. ASSUME NEW T \in SUBSET S, \A U \in SUBSET T : U # T => U \in Good
      PROVE  T \in Good
  <2>1. CASE T = {}
    BY <1>2, <2>1
  <2>2. CASE T # {}
    <3> DEFINE a == First(T)
               V == T \ {a}
    <3>1. a \in T
      BY <1>4, <2>2
    <3> HIDE DEF a
    <3>2. V \in SUBSET T /\ V # T /\ f[a] \in Int
      BY <3>1
    <3>3. Sum(V) \in Int /\ \A x \in V : Sum(V) = f[x] + Sum(V \ {x})
      BY <1>5, <3>2
    <3>4. Sum(T) = f[a] + Sum(V)
      BY <1>3, <2>2 DEF a
    <3>5. ASSUME NEW x \in T
          PROVE  Sum(T) = f[x] + Sum(T \ {x})
      <4>1. CASE x = a
        BY <3>4, <4>1
      <4>2. CASE x # a
        <5> DEFINE W == T \ {x}
                   Z == V \ {x}
        <5>1. W \in SUBSET T /\ W # T /\ a \in W /\ W \ {a} = Z /\ x \in V /\ f[x] \in Int
          BY <3>1, <4>2
        <5>2. Sum(W) = f[a] + Sum(W \ {a})
          BY <1>5, <5>1
        <5>3. Z \in SUBSET T /\ Z # T
          BY <5>1
        <5>4. Sum(Z) \in Int
          BY <1>5, <5>3
        <5>5. Sum(V) = f[x] + Sum(Z)
          BY <3>3, <5>1
        <5>6. f[a] \in Int /\ f[x] \in Int
          BY <3>1
        <5>7. Sum(W) = f[a] + Sum(Z)
          BY <5>1, <5>2
        <5> HIDE DEF W, Z, V
        <5>8. Sum(T) = f[x] + Sum(W)
          BY <3>4, <5>4, <5>5, <5>6, <5>7
        <5> QED
          BY <5>8 DEF W
      <4> QED
        BY <4>1, <4>2
    <3>6. Sum(T) \in Int
      BY <3>2, <3>3, <3>4
    <3> QED
      BY <3>5, <3>6
  <2> QED
    BY <2>1, <2>2
<1>6. \A T \in SUBSET S : (\A U \in SUBSET T : U # T => U \in Good) => T \in Good
  BY <1>5
<1> HIDE DEF Good
<1>7. S \in Good
  BY <1>1, <1>6, SetInduction
<1> QED
  BY <1>7 DEF Good, Sum

-----------------------------------------------------------------------------

\* A request in flight remembers the account of the row it read.
EditOwner ==
    \A e \in edits : /\ e.txn \in used
                     /\ e.txn \in DOMAIN ledger => ledger[e.txn].account = e.account

\* The inductive invariant.
CashIInv ==
    /\ CashTypeOK
    /\ ForeignKey
    /\ EditOwner
    /\ RowEffectExact
    /\ Solvent

LEMMA CashInitIInv == CashInit => CashIInv
  BY DEF CashInit, CashIInv, CashTypeOK, ForeignKey, EditOwner,
         RowEffectExact, RowAmount, Solvent

\* The body of CreateTransaction keeps the invariant, whoever calls it.
LEMMA PostIInv ==
  ASSUME CashIInv, NEW t \in Txn, NEW a \in Account, NEW type \in TxType,
         NEW amt \in Int, Post(t, a, type, amt)
  PROVE  CashIInv'
<1> DEFINE d == Signed(type, amt)
<1>1. d \in Int
  BY DEF Signed
<1>2. /\ t \in Txn \ used /\ a \in DOMAIN balance
      /\ SpendAllowed(a, type, d)
      /\ ledger' = [x \in DOMAIN ledger \cup {t} |->
                      IF x = t THEN [account |-> a, type |-> type, amount |-> d]
                               ELSE ledger[x]]
      /\ used' = used \cup {t}
      /\ Credit(a, d) /\ Moved(t, a, d)
      /\ corrected' = IF type # "spend" /\ d < 0 THEN corrected \cup {a} ELSE corrected
      /\ edits' = edits /\ raced' = raced
  BY DEF Post
<1> HIDE DEF d
<1>4. ForeignKey'
  BY <1>2 DEF CashIInv, CashTypeOK, ForeignKey, Credit
<1>3. CashTypeOK'
  BY <1>1, <1>2, <1>4 DEF CashIInv, CashTypeOK, Row, Credit, Moved
<1>5. EditOwner'
  BY <1>2 DEF CashIInv, CashTypeOK, EditOwner, Edit
<1>6. RowEffectExact'
  BY <1>1, <1>2 DEF CashIInv, CashTypeOK, RowEffectExact, RowAmount, Moved, Row
<1>7. Solvent'
  BY <1>1, <1>2 DEF CashIInv, CashTypeOK, Solvent, Credit, SpendAllowed
<1> QED
  BY <1>3, <1>4, <1>5, <1>6, <1>7 DEF CashIInv

\* A delete or update request that reads a row keeps the invariant.
LEMMA BeginIInv ==
  ASSUME CashIInv, NEW c \in Client, NEW t \in Txn, NEW amt \in Int,
         BeginDelete(c, t) \/ BeginUpdate(c, t, amt)
  PROVE  CashIInv'
<1>1. /\ t \in DOMAIN ledger
      /\ UNCHANGED <<balance, ledger, used, applied, raced, corrected>>
      /\ \E op \in {"delete", "update"}, new \in Int :
            edits' = edits \cup {[client |-> c, op |-> op, txn |-> t,
                                  account |-> ledger[t].account,
                                  read |-> ledger[t].amount, new |-> new]}
  BY DEF BeginDelete, BeginUpdate
<1>2. CashTypeOK'
  BY <1>1 DEF CashIInv, CashTypeOK, Edit, Row, ForeignKey
<1>3. EditOwner'
  BY <1>1 DEF CashIInv, CashTypeOK, EditOwner
<1> QED
  BY <1>1, <1>2, <1>3 DEF CashIInv, ForeignKey, RowEffectExact, RowAmount, Solvent

\* Both commits, in the form in which they move the balance.
LEMMA CommitIInv ==
  ASSUME CashIInv, NEW e \in edits, CommitDelete(e) \/ CommitUpdate(e)
  PROVE  CashIInv'
<1>1. e \in Edit
  BY DEF CashIInv, CashTypeOK
<1> DEFINE d == IF e.op = "delete" THEN -e.read ELSE e.new - e.read
<1>2. /\ d \in Int
      /\ Credit(e.account, d) /\ Moved(e.txn, e.account, d)
      /\ Close(e) /\ used' = used
      /\ DOMAIN ledger' \subseteq DOMAIN ledger
      /\ \A t \in DOMAIN ledger : t # e.txn => t \in DOMAIN ledger' /\ ledger'[t] = ledger[t]
      /\ e.op = "delete" => e.txn \notin DOMAIN ledger'
      /\ e.op = "update" /\ e.txn \in DOMAIN ledger =>
            /\ e.txn \in DOMAIN ledger'
            /\ ledger'[e.txn] = [ledger[e.txn] EXCEPT !.amount = e.new]
      /\ ledger' = [t \in DOMAIN ledger' |-> ledger'[t]]
  BY <1>1 DEF CommitDelete, CommitUpdate, Restrict, Edit
<1> HIDE DEF d
<1>4. ForeignKey'
  <2>1. DOMAIN balance' = DOMAIN balance
    BY <1>2 DEF Credit
  <2>2. \A t \in DOMAIN ledger' : t \in DOMAIN ledger
                                /\ ledger'[t].account = ledger[t].account
    BY <1>1, <1>2 DEF CashIInv, CashTypeOK, Row, Edit
  <2> QED
    BY <2>1, <2>2 DEF CashIInv, ForeignKey
<1>3. CashTypeOK'
  BY <1>1, <1>2, <1>4 DEF CashIInv, CashTypeOK, Row, Edit, Credit, Moved, Close
<1>5. EditOwner'
  BY <1>1, <1>2 DEF CashIInv, CashTypeOK, EditOwner, Row, Edit, Close
<1>6. RowEffectExact'
  <2>1. ASSUME NEW t \in Txn, t \notin raced', t # e.txn
        PROVE  applied'[t] = RowAmount(t)'
    BY <1>1, <1>2, <2>1 DEF CashIInv, CashTypeOK, RowEffectExact, RowAmount,
                            Moved, Close, Edit
  <2>2. ASSUME e.txn \notin raced'
        PROVE  applied'[e.txn] = RowAmount(e.txn)'
    <3>1. e.txn \notin raced /\ (Stale(e) => e.account \notin DOMAIN balance)
      BY <2>2, <1>2 DEF Close
    <3>2. CASE Stale(e)
      <4>1. e.txn \notin DOMAIN ledger
        BY <3>1, <3>2 DEF CashIInv, EditOwner, ForeignKey
      <4>2. applied'[e.txn] = applied[e.txn] + 0
        BY <1>1, <1>2, <3>1, <3>2 DEF Moved, Edit, CashIInv, CashTypeOK
      <4> QED
        BY <1>1, <1>2, <3>1, <4>1, <4>2
           DEF CashIInv, CashTypeOK, RowEffectExact, RowAmount, Edit
    <3>3. CASE ~Stale(e)
      <4>1. e.txn \in DOMAIN ledger /\ ledger[e.txn].amount = e.read
        BY <3>3 DEF Stale
      <4>2. e.account \in DOMAIN balance
        BY <4>1 DEF CashIInv, EditOwner, ForeignKey
      <4>3. applied'[e.txn] = e.read + d
        BY <1>1, <1>2, <3>1, <4>1, <4>2
           DEF CashIInv, CashTypeOK, RowEffectExact, RowAmount, Moved, Edit
      <4> QED
        BY <1>1, <1>2, <4>1, <4>3 DEF RowAmount, Edit, d, CashIInv, CashTypeOK, Row
    <3> QED
      BY <3>2, <3>3
  <2> QED
    BY <2>1, <2>2 DEF RowEffectExact
<1>7. Solvent'
  BY <1>1, <1>2 DEF CashIInv, CashTypeOK, Solvent, Credit, Close, Edit
<1> QED
  BY <1>3, <1>4, <1>5, <1>6, <1>7 DEF CashIInv

LEMMA AbandonIInv ==
  ASSUME CashIInv, NEW e \in edits, AbandonEdit(e)
  PROVE  CashIInv'
  BY DEF CashIInv, AbandonEdit, CashTypeOK, ForeignKey, EditOwner,
         RowEffectExact, RowAmount, Solvent

LEMMA RemoveKidIInv ==
  ASSUME CashIInv, NEW a \in Account, RemoveKid(a)
  PROVE  CashIInv'
<1>1. ForeignKey' /\ EditOwner' /\ Solvent'
  BY DEF CashIInv, CashTypeOK, ForeignKey, EditOwner, Solvent, RemoveKid, Restrict
<1>2. CashTypeOK'
  BY <1>1 DEF CashIInv, CashTypeOK, RemoveKid, Restrict
<1>3. RowEffectExact'
  BY DEF CashIInv, CashTypeOK, RowEffectExact, RowAmount, RemoveKid, Restrict
<1> QED
  BY <1>1, <1>2, <1>3 DEF CashIInv

LEMMA CashStepIInv == CashIInv /\ [CashNext]_cashVars => CashIInv'
<1> SUFFICES ASSUME CashIInv, [CashNext]_cashVars PROVE CashIInv'
  OBVIOUS
<1> USE AmountAssumption
<1>1. CASE \E t \in Txn, a \in Account, type \in TxType, amt \in Amount :
             CreateTransaction(t, a, type, amt)
  BY <1>1, PostIInv DEF CreateTransaction
<1>2. CASE \E t \in Txn, a \in Account, amt \in Amount : QuickAward(t, a, amt)
  BY <1>2, PostIInv DEF QuickAward, TxType
<1>3. CASE EditStep
  <2>1. CASE \E c \in Client, t \in Txn : BeginDelete(c, t)
    BY <2>1, BeginIInv
  <2>2. CASE \E c \in Client, t \in Txn, amt \in Amount : BeginUpdate(c, t, amt)
    BY <2>2, BeginIInv
  <2>3. CASE \E e \in edits : CommitDelete(e) \/ CommitUpdate(e) \/ AbandonEdit(e)
    BY <2>3, CommitIInv, AbandonIInv
  <2> QED
    BY <1>3, <2>1, <2>2, <2>3 DEF EditStep
<1>4. CASE \E a \in Account : RemoveKid(a)
  BY <1>4, RemoveKidIInv
<1>5. CASE UNCHANGED cashVars
  BY <1>5 DEF cashVars, CashIInv, CashTypeOK, ForeignKey, EditOwner,
              RowEffectExact, RowAmount, Solvent
<1> QED
  BY <1>1, <1>2, <1>3, <1>4, <1>5 DEF CashNext

LEMMA CashInvariant == CashSpec => []CashIInv
  BY CashInitIInv, CashStepIInv, PTL DEF CashSpec

\* Every table keeps its shape.
THEOREM CashTypeCorrect == CashSpec => []CashTypeOK
  BY CashInvariant, PTL DEF CashIInv

\* However many delete and update requests overlap, a row on which no stale
\* edit has committed has moved its account's balance by exactly its amount.
THEOREM CashRowsExact == CashSpec => []RowEffectExact
  BY CashInvariant, PTL DEF CashIInv

\* An account moved by awards and spends alone is never overdrawn.
THEOREM CashSolvent == CashSpec => []Solvent
  BY CashInvariant, PTL DEF CashIInv

-----------------------------------------------------------------------------
(***************************************************************************)
(* The stored balance against the rows of the ledger.                      *)
(***************************************************************************)
\* What row t adds to the total of account a in the ledger r.
Part(r, a, t) == IF t \in Abstract!RowsOf(r, a) THEN r[t].amount ELSE 0

Numbers(r) == IsFiniteSet(DOMAIN r) /\ \A t \in DOMAIN r : r[t].amount \in Int

\* Two ledgers that show the same rows of an account except for t.
SameBut(r, q, a, t) ==
    \A u : u # t => /\ u \in Abstract!RowsOf(r, a) <=> u \in Abstract!RowsOf(q, a)
                    /\ u \in Abstract!RowsOf(r, a) => r[u].amount = q[u].amount

\* The total of an account is a sum over its rows.
LEMMA TotalIsSum ==
  ASSUME NEW r, NEW a
  PROVE  Abstract!Total(r, a)
           = SumFunctionOnSet([t \in Abstract!RowsOf(r, a) |-> r[t].amount],
                              Abstract!RowsOf(r, a))
  BY DEF Abstract!Total, Abstract!SumFunctionOnSet, Abstract!FoldFunctionOnSet,
         Abstract!MapThenFoldSet, SumFunctionOnSet, FoldFunctionOnSet, MapThenFoldSet

\* The ledger and its abstract version add up the same rows.
LEMMA LedgerSumIsTotal == \A a : LedgerSum(a) = Abstract!Total(ledger, a)
  BY TotalIsSum DEF LedgerSum, Rows, Abstract!RowsOf

\* The total of an account, with any one row taken out.
LEMMA TotalWithout ==
  ASSUME NEW r, NEW a, NEW t, Numbers(r)
  PROVE  LET S == Abstract!RowsOf(r, a)
             f == [u \in S |-> r[u].amount]
         IN  /\ SumFunctionOnSet(f, S \ {t}) \in Int
             /\ Abstract!Total(r, a) = Part(r, a, t) + SumFunctionOnSet(f, S \ {t})
<1> DEFINE S == Abstract!RowsOf(r, a)
           f == [u \in S |-> r[u].amount]
<1>1. /\ S \subseteq DOMAIN r /\ IsFiniteSet(S) /\ IsFiniteSet(S \ {t})
      /\ \A x \in S : f[x] \in Int
  BY FS_Subset DEF Numbers, Abstract!RowsOf
<1>2. Abstract!Total(r, a) = SumFunctionOnSet(f, S)
  BY TotalIsSum
<1>3. t \in S => Part(r, a, t) = f[t]
  BY DEF Part
<1>4. t \notin S => Part(r, a, t) = 0 /\ S \ {t} = S
  BY DEF Part
<1> HIDE DEF S, f
<1>5. SumFunctionOnSet(f, S) \in Int /\ SumFunctionOnSet(f, S \ {t}) \in Int
  BY <1>1, SumRemove
<1>6. t \in S => SumFunctionOnSet(f, S) = f[t] + SumFunctionOnSet(f, S \ {t})
  BY <1>1, SumRemove
<1>7. Abstract!Total(r, a) = Part(r, a, t) + SumFunctionOnSet(f, S \ {t})
  BY <1>2, <1>3, <1>4, <1>5, <1>6
<1> QED
  BY <1>5, <1>7 DEF S, f

\* One row changes: the total moves by what that row adds.
LEMMA TotalMoves ==
  ASSUME NEW r, NEW q, NEW a, NEW t, Numbers(r), Numbers(q), SameBut(r, q, a, t)
  PROVE  /\ Abstract!Total(r, a) \in Int
         /\ Abstract!Total(q, a) = Abstract!Total(r, a) + Part(q, a, t) - Part(r, a, t)
<1> DEFINE S == Abstract!RowsOf(r, a)
           Q == Abstract!RowsOf(q, a)
           f == [u \in S |-> r[u].amount]
           g == [u \in Q |-> q[u].amount]
<1>1. S \ {t} = Q \ {t} /\ \A u \in S \ {t} : f[u] = g[u]
  BY DEF SameBut
<1>2. IsFiniteSet(S \ {t})
  BY FS_Subset DEF Numbers, Abstract!RowsOf
<1>3. /\ SumFunctionOnSet(f, S \ {t}) \in Int
      /\ Abstract!Total(r, a) = Part(r, a, t) + SumFunctionOnSet(f, S \ {t})
  BY TotalWithout
<1>4. Abstract!Total(q, a) = Part(q, a, t) + SumFunctionOnSet(g, Q \ {t})
  BY TotalWithout
<1>5. Part(r, a, t) \in Int /\ Part(q, a, t) \in Int
  BY DEF Part, Numbers, Abstract!RowsOf
<1> HIDE DEF S, Q, f, g
<1>6. SumFunctionOnSet(f, S \ {t}) = SumFunctionOnSet(g, S \ {t})
  BY <1>1, <1>2, SumSame
<1>7. SumFunctionOnSet(g, Q \ {t}) = SumFunctionOnSet(f, S \ {t})
  BY <1>1, <1>6
<1> HIDE DEF Part
<1> QED
  BY <1>3, <1>4, <1>5, <1>7

\* The second layer of the inductive invariant.
BalanceIInv ==
    /\ IsFiniteSet(DOMAIN ledger)
    /\ BalanceMatchesLedger

\* The amounts of the ledger are integers.
LEMMA LedgerNumbers ==
  ASSUME CashIInv, BalanceIInv
  PROVE  Numbers(ledger)
  BY DEF CashIInv, CashTypeOK, BalanceIInv, Numbers, Row

\* Balances and rows that move together.
LEMMA BalanceMoves ==
  ASSUME CashIInv, CashIInv', BalanceIInv, IsFiniteSet(DOMAIN ledger'),
         DOMAIN balance' \subseteq DOMAIN balance, raced' = {} => raced = {},
         NEW t,
         raced' = {} => \A a \in DOMAIN balance' :
            /\ SameBut(ledger, ledger', a, t)
            /\ balance'[a] = balance[a] + Part(ledger', a, t) - Part(ledger, a, t)
  PROVE  BalanceIInv'
<1>1. Numbers(ledger) /\ Numbers(ledger')
  BY LedgerNumbers DEF CashIInv, CashTypeOK, Numbers, Row
<1>2. ASSUME raced' = {}, NEW a \in DOMAIN balance'
      PROVE  balance'[a] = Abstract!Total(ledger', a)
  <2>1. balance[a] = Abstract!Total(ledger, a)
    BY <1>2, LedgerSumIsTotal DEF BalanceIInv, BalanceMatchesLedger
  <2>2. Abstract!Total(ledger', a)
          = Abstract!Total(ledger, a) + Part(ledger', a, t) - Part(ledger, a, t)
    BY <1>1, <1>2, TotalMoves
  <2> QED
    BY <1>2, <2>1, <2>2
<1>3. \A a : LedgerSum(a)' = Abstract!Total(ledger', a)
  BY TotalIsSum DEF LedgerSum, Rows, Abstract!RowsOf
<1> QED
  BY <1>2, <1>3 DEF BalanceIInv, BalanceMatchesLedger

\* No rows, and every balance is 0.
LEMMA BalanceInit == CashInit => BalanceIInv
<1> SUFFICES ASSUME CashInit PROVE BalanceIInv
  OBVIOUS
<1>1. ledger = [t \in {} |-> 0] /\ DOMAIN ledger = {} /\ \A a \in Account : balance[a] = 0
  BY DEF CashInit
<1>2. \A a : Rows(a) = {}
  BY <1>1 DEF Rows
<1>3. \A a : LedgerSum(a) = 0
  BY <1>2, SumEmpty DEF LedgerSum
<1> QED
  BY <1>1, <1>3, FS_EmptySet DEF CashInit, BalanceIInv, BalanceMatchesLedger

\* An insertion moves the balance and the sum alike.
LEMMA PostBalance ==
  ASSUME CashIInv, CashIInv', BalanceIInv, NEW t \in Txn, NEW a \in Account,
         NEW type \in TxType, NEW amt \in Int, Post(t, a, type, amt)
  PROVE  BalanceIInv'
<1> DEFINE d == Signed(type, amt)
<1>1. /\ t \notin DOMAIN ledger
      /\ ledger' = [x \in DOMAIN ledger \cup {t} |->
                      IF x = t THEN [account |-> a, type |-> type, amount |-> d]
                               ELSE ledger[x]]
      /\ balance' = [x \in DOMAIN balance |-> balance[x] + IF x = a THEN d ELSE 0]
      /\ raced' = raced
  BY DEF Post, Credit, CashIInv, CashTypeOK
<1>2. d \in Int /\ \A x \in DOMAIN balance : balance[x] \in Int
  BY DEF Signed, CashIInv, CashTypeOK
<1>3. IsFiniteSet(DOMAIN ledger')
  BY <1>1, FS_AddElement DEF BalanceIInv
<1> HIDE DEF d
<1>4. \A x : SameBut(ledger, ledger', x, t)
  BY <1>1 DEF SameBut, Abstract!RowsOf
<1>5. \A x : Part(ledger, x, t) = 0 /\ Part(ledger', x, t) = IF x = a THEN d ELSE 0
  BY <1>1 DEF Part, Abstract!RowsOf
<1>6. \A x \in DOMAIN balance :
         balance'[x] = balance[x] + Part(ledger', x, t) - Part(ledger, x, t)
  BY <1>1, <1>2, <1>5
<1> QED
  BY <1>1, <1>3, <1>4, <1>6, BalanceMoves

\* What the two commits do to the table and to the balance.
LEMMA CommitEffect ==
  ASSUME CashIInv, NEW e \in edits, CommitDelete(e) \/ CommitUpdate(e)
  PROVE  /\ e \in Edit
         /\ ledger' = IF e.op = "delete" THEN Restrict(ledger, DOMAIN ledger \ {e.txn})
                      ELSE [x \in DOMAIN ledger |->
                              IF x = e.txn THEN [ledger[x] EXCEPT !.amount = e.new]
                                           ELSE ledger[x]]
         /\ balance' = [x \in DOMAIN balance |->
                          balance[x] + IF x = e.account
                                       THEN (IF e.op = "delete" THEN -e.read
                                             ELSE e.new - e.read)
                                       ELSE 0]
         /\ raced' = IF Stale(e) /\ e.account \in DOMAIN balance
                     THEN raced \cup {e.txn} ELSE raced
  BY DEF CommitDelete, CommitUpdate, Credit, Close, CashIInv, CashTypeOK, Edit

\* A stale edit that is not noted as such comes after the account is gone.
LEMMA CommitOnTime ==
  ASSUME CashIInv, NEW e \in edits, CommitDelete(e) \/ CommitUpdate(e), raced' = {}
  PROVE  \/ /\ e.txn \in DOMAIN ledger /\ ledger[e.txn].account = e.account
            /\ ledger[e.txn].amount = e.read
         \/ e.txn \notin DOMAIN ledger /\ e.account \notin DOMAIN balance
  BY CommitEffect DEF CashIInv, EditOwner, ForeignKey, Stale

\* A commit that is on time moves the balance and the sum alike.
LEMMA CommitBalance ==
  ASSUME CashIInv, CashIInv', BalanceIInv, NEW e \in edits,
         CommitDelete(e) \/ CommitUpdate(e)
  PROVE  BalanceIInv'
<1> DEFINE t == e.txn
           d == IF e.op = "delete" THEN -e.read ELSE e.new - e.read
<1>1. DOMAIN ledger' \subseteq DOMAIN ledger
  BY CommitEffect DEF Restrict
<1>2. IsFiniteSet(DOMAIN ledger')
  BY <1>1, FS_Subset DEF BalanceIInv
<1>3. DOMAIN balance' = DOMAIN balance /\ (raced' = {} => raced = {})
  BY CommitEffect
<1>4. ASSUME raced' = {}, NEW a \in DOMAIN balance
      PROVE  /\ SameBut(ledger, ledger', a, t)
             /\ balance'[a] = balance[a] + Part(ledger', a, t) - Part(ledger, a, t)
  <2>1. SameBut(ledger, ledger', a, t)
    <3>1. \A u \in DOMAIN ledger : u # t => u \in DOMAIN ledger' /\ ledger'[u] = ledger[u]
      <4>1. CASE e.op = "delete"
        <5>1. ledger' = [u \in DOMAIN ledger \ {t} |-> ledger[u]]
          BY <4>1, CommitEffect DEF Restrict
        <5> QED
          BY <5>1
      <4>2. CASE e.op # "delete"
        <5>1. ledger' = [u \in DOMAIN ledger |->
                           IF u = t THEN [ledger[u] EXCEPT !.amount = e.new] ELSE ledger[u]]
          BY <4>2, CommitEffect
        <5> QED
          BY <5>1
      <4> QED
        BY <4>1, <4>2
    <3> HIDE DEF t
    <3> QED
      BY <1>1, <3>1 DEF SameBut, Abstract!RowsOf
  <2>2. balance[a] \in Int /\ d \in Int /\ e.read \in Int /\ e.new \in Int
    BY CommitEffect DEF CashIInv, CashTypeOK, Edit
  <2>3. balance'[a] = balance[a] + IF a = e.account THEN d ELSE 0
    BY CommitEffect
  <2>4. CASE t \in DOMAIN ledger /\ ledger[t].account = e.account /\ ledger[t].amount = e.read
    <3>1. Part(ledger, a, t) = IF a = e.account THEN e.read ELSE 0
      BY <2>4 DEF Part, Abstract!RowsOf
    <3>2. Part(ledger', a, t) = IF a = e.account /\ e.op # "delete" THEN e.new ELSE 0
      <4>1. CASE e.op = "delete"
        BY <4>1, CommitEffect DEF Part, Abstract!RowsOf, Restrict
      <4>2. CASE e.op # "delete"
        <5>1. ledger[t] \in Row
          BY <2>4 DEF CashIInv, CashTypeOK
        <5>2. t \in DOMAIN ledger' /\ ledger'[t] = [ledger[t] EXCEPT !.amount = e.new]
          BY <2>4, <4>2, CommitEffect
        <5>3. ledger'[t].account = e.account /\ ledger'[t].amount = e.new
          BY <2>4, <5>1, <5>2 DEF Row
        <5> QED
          BY <4>2, <5>2, <5>3 DEF Part, Abstract!RowsOf
      <4> QED
        BY <4>1, <4>2
    <3> QED
      BY <2>1, <2>2, <2>3, <3>1, <3>2
  <2>5. CASE t \notin DOMAIN ledger /\ e.account \notin DOMAIN balance
    <3>1. Part(ledger, a, t) = 0 /\ Part(ledger', a, t) = 0
      BY <1>1, <2>5 DEF Part, Abstract!RowsOf
    <3> QED
      BY <2>1, <2>2, <2>3, <2>5, <3>1
  <2> QED
    BY <1>4, <2>4, <2>5, CommitOnTime
<1> HIDE DEF t, d
<1> QED
  BY <1>2, <1>3, <1>4, BalanceMoves

\* A removed account takes its rows with it.
LEMMA RemoveKidBalance ==
  ASSUME CashIInv, CashIInv', BalanceIInv, NEW a \in Account, RemoveKid(a)
  PROVE  BalanceIInv'
<1> DEFINE t == CHOOSE x : x \notin Txn
<1>1. /\ ledger' = Restrict(ledger, {x \in DOMAIN ledger : ledger[x].account # a})
      /\ balance' = [x \in DOMAIN balance \ {a} |-> balance[x]]
      /\ raced' = raced
  BY DEF RemoveKid, Restrict
<1>2. DOMAIN ledger' \subseteq DOMAIN ledger
  BY <1>1 DEF Restrict
<1>3. IsFiniteSet(DOMAIN ledger')
  BY <1>2, FS_Subset DEF BalanceIInv
<1>4. t \notin DOMAIN ledger
  BY NoSetContainsEverything DEF CashIInv, CashTypeOK
<1> HIDE DEF t
<1>5. \A x \in DOMAIN balance' : SameBut(ledger, ledger', x, t)
  BY <1>1 DEF SameBut, Abstract!RowsOf, Restrict
<1>6. \A x : Part(ledger, x, t) = 0 /\ Part(ledger', x, t) = 0
  BY <1>2, <1>4 DEF Part, Abstract!RowsOf
<1>7. \A x \in DOMAIN balance' : balance'[x] = balance[x] /\ balance[x] \in Int
  BY <1>1 DEF CashIInv, CashTypeOK
<1>8. \A x \in DOMAIN balance' :
         balance'[x] = balance[x] + Part(ledger', x, t) - Part(ledger, x, t)
  BY <1>6, <1>7
<1> QED
  BY <1>1, <1>3, <1>5, <1>8, BalanceMoves

\* A step that leaves the tables and the races alone.
LEMMA SameBalance ==
  ASSUME BalanceIInv, UNCHANGED <<balance, ledger, raced>>
  PROVE  BalanceIInv'
  BY DEF BalanceIInv, BalanceMatchesLedger, LedgerSum, Rows

\* Every step of the currency keeps balances and sums equal.
LEMMA BalanceStep ==
  CashIInv /\ CashIInv' /\ BalanceIInv /\ [CashNext]_cashVars => BalanceIInv'
<1> SUFFICES ASSUME CashIInv, CashIInv', BalanceIInv, [CashNext]_cashVars
             PROVE  BalanceIInv'
  OBVIOUS
<1> USE AmountAssumption
<1>1. CASE \E t \in Txn, a \in Account, type \in TxType, amt \in Amount :
             CreateTransaction(t, a, type, amt)
  BY <1>1, PostBalance DEF CreateTransaction
<1>2. CASE \E t \in Txn, a \in Account, amt \in Amount : QuickAward(t, a, amt)
  BY <1>2, PostBalance DEF QuickAward, TxType
<1>3. CASE EditStep
  <2>1. CASE \/ \E c \in Client, t \in Txn : BeginDelete(c, t)
             \/ \E c \in Client, t \in Txn, amt \in Amount : BeginUpdate(c, t, amt)
             \/ \E e \in edits : AbandonEdit(e)
    BY <2>1, SameBalance DEF BeginDelete, BeginUpdate, AbandonEdit
  <2>2. CASE \E e \in edits : CommitDelete(e) \/ CommitUpdate(e)
    BY <2>2, CommitBalance
  <2> QED
    BY <1>3, <2>1, <2>2 DEF EditStep
<1>4. CASE \E a \in Account : RemoveKid(a)
  BY <1>4, RemoveKidBalance
<1>5. CASE UNCHANGED cashVars
  BY <1>5, SameBalance DEF cashVars
<1> QED
  BY <1>1, <1>2, <1>3, <1>4, <1>5 DEF CashNext

\* Both invariants of the currency together.
LEMMA BalanceInvariant == CashSpec => []BalanceIInv
  BY CashInvariant, BalanceInit, BalanceStep, PTL DEF CashSpec

\* The balance stored with an account is the sum of the account's rows, after
\* any number of awards, spends, edits, deletions and removed kids, as long as
\* no stale edit has committed.
THEOREM CashBalanceIsSum == CashSpec => []BalanceMatchesLedger
  BY BalanceInvariant, PTL DEF BalanceIInv

-----------------------------------------------------------------------------
(***************************************************************************)
(* The stored balances implement the atomic ledger.                        *)
(***************************************************************************)
\* What readers are shown is what the rows add up to.
LEMMA BalanceShows ==
  ASSUME CashIInv, BalanceIInv, raced = {}
  PROVE  balance = Abstract!Shows(DOMAIN balance, ledger)
<1>1. \A a \in DOMAIN balance : balance[a] = Abstract!Total(ledger, a)
  BY LedgerSumIsTotal DEF BalanceIInv, BalanceMatchesLedger
<1>2. balance = [a \in DOMAIN balance |-> balance[a]]
  BY DEF CashIInv, CashTypeOK
<1> QED
  BY <1>1, <1>2 DEF Abstract!Shows

\* The empty tables are those of the atomic ledger.
LEMMA AbstractInit == CashInit => Abstract!Init
<1> SUFFICES ASSUME CashInit PROVE Abstract!Init
  OBVIOUS
<1>1. CashIInv /\ BalanceIInv /\ raced = {}
  BY CashInitIInv, BalanceInit DEF CashInit
<1> QED
  BY <1>1, BalanceShows DEF CashInit, Abstract!Init

\* An award or a spend inserts a row; the stored balance it was checked
\* against was the sum of the rows.
LEMMA PostInserts ==
  ASSUME CashIInv, BalanceIInv, raced = {}, NEW t \in Txn, NEW a \in Account,
         NEW type \in TxType, NEW amt \in Int, Post(t, a, type, amt)
  PROVE  Abstract!Insert(t)
<1> DEFINE d == Signed(type, amt)
<1>1. /\ t \in Txn \ DOMAIN ledger /\ a \in DOMAIN balance
      /\ ledger' = [x \in DOMAIN ledger \cup {t} |->
                      IF x = t THEN [account |-> a, type |-> type, amount |-> d]
                               ELSE ledger[x]]
      /\ DOMAIN balance' = DOMAIN balance
      /\ type = "spend" => balance[a] + d >= 0
  BY DEF Post, Credit, SpendAllowed, CashIInv, CashTypeOK
<1> HIDE DEF d
<1>2. balance[a] = Abstract!Total(ledger, a)
  BY <1>1, LedgerSumIsTotal DEF BalanceIInv, BalanceMatchesLedger
<1>3. ledger'[t].account = a /\ ledger'[t].type = type /\ ledger'[t].amount = d
  BY <1>1
<1>4. Abstract!Restrict(ledger', DOMAIN ledger) = ledger
  <2>1. ledger = [x \in DOMAIN ledger |-> ledger[x]]
    BY DEF CashIInv, CashTypeOK
  <2> QED
    BY <1>1, <2>1 DEF Abstract!Restrict
<1> QED
  BY <1>1, <1>2, <1>3, <1>4 DEF Abstract!Insert

\* A commit that nothing has overtaken deletes or amends its row; one whose
\* account has gone in the meantime changes nothing.
LEMMA CommitRefines ==
  ASSUME CashIInv, BalanceIInv, raced' = {}, NEW e \in edits,
         CommitDelete(e) \/ CommitUpdate(e)
  PROVE  \/ UNCHANGED <<DOMAIN balance, ledger, balance>>
         \/ e.txn \in Txn /\ (Abstract!Delete(e.txn) \/ Abstract!Amend(e.txn))
<1>1. e.txn \in Txn /\ DOMAIN balance' = DOMAIN balance
  BY CommitEffect DEF Edit
<1>2. /\ ledger = [x \in DOMAIN ledger |-> ledger[x]]
      /\ balance = [x \in DOMAIN balance |-> balance[x]]
      /\ \A x \in DOMAIN balance : balance[x] \in Int
      /\ \A x \in DOMAIN ledger : ledger[x] \in Row
  BY DEF CashIInv, CashTypeOK
<1>3. CASE e.txn \notin DOMAIN ledger /\ e.account \notin DOMAIN balance
  <2>1. balance' = [x \in DOMAIN balance |-> balance[x] + 0]
    BY <1>3, CommitEffect
  <2>2. balance' = balance
    BY <1>2, <2>1
  <2>3. ledger' = ledger
    <3>1. CASE e.op = "delete"
      <4>1. ledger' = [x \in DOMAIN ledger \ {e.txn} |-> ledger[x]]
        BY <3>1, CommitEffect DEF Restrict
      <4> QED
        BY <1>2, <1>3, <4>1
    <3>2. CASE e.op # "delete"
      <4>1. ledger' = [u \in DOMAIN ledger |->
                         IF u = e.txn THEN [ledger[u] EXCEPT !.amount = e.new] ELSE ledger[u]]
        BY <3>2, CommitEffect
      <4>2. ledger' = [u \in DOMAIN ledger |-> ledger[u]]
        BY <1>3, <4>1
      <4> QED
        BY <1>2, <4>2
    <3> QED
      BY <3>1, <3>2
  <2> QED
    BY <2>2, <2>3
<1>4. CASE e.txn \in DOMAIN ledger
  <2>1. CASE e.op = "delete"
    BY <1>1, <1>4, <2>1, CommitEffect DEF Abstract!Delete, Abstract!Restrict, Restrict
  <2>2. CASE e.op # "delete"
    <3>1. ledger' = [x \in DOMAIN ledger |->
                       IF x = e.txn THEN [ledger[x] EXCEPT !.amount = e.new] ELSE ledger[x]]
      BY <2>2, CommitEffect
    <3>2. ledger'[e.txn].amount = e.new
      BY <1>2, <1>4, <3>1 DEF Row
    <3>3. ledger' = [ledger EXCEPT ![e.txn].amount = e.new]
      BY <1>2, <1>4, <3>1
    <3> QED
      BY <1>1, <1>4, <3>1, <3>2, <3>3 DEF Abstract!Amend
  <2> QED
    BY <2>1, <2>2
<1> QED
  BY <1>3, <1>4, CommitOnTime

\* The cascade from a removed kid closes the account.
LEMMA RemoveKidCloses ==
  ASSUME CashIInv, NEW a \in Account, RemoveKid(a)
  PROVE  Abstract!CloseAccount(a)
<1>1. DOMAIN balance' = DOMAIN balance \ {a} /\ a \in DOMAIN balance
  BY DEF RemoveKid, Restrict
<1>2. {t \in DOMAIN ledger : ledger[t].account # a}
        = DOMAIN ledger \ Abstract!RowsOf(ledger, a)
  BY DEF Abstract!RowsOf
<1>3. ledger' = Abstract!Restrict(ledger, DOMAIN ledger \ Abstract!RowsOf(ledger, a))
  BY <1>2 DEF RemoveKid, Restrict, Abstract!Restrict
<1> QED
  BY <1>1, <1>3 DEF Abstract!CloseAccount

\* What readers are shown after a step is the sum of the rows again.
LEMMA NextBalanceShows ==
  ASSUME CashIInv', BalanceIInv', raced' = {}
  PROVE  balance' = Abstract!Shows(DOMAIN balance', ledger')
<1>1. \A a \in DOMAIN balance' : balance'[a] = Abstract!Total(ledger', a)
  BY TotalIsSum DEF BalanceIInv, BalanceMatchesLedger, LedgerSum, Rows, Abstract!RowsOf
<1>2. balance' = [a \in DOMAIN balance' |-> balance'[a]]
  BY DEF CashIInv, CashTypeOK
<1> QED
  BY <1>1, <1>2 DEF Abstract!Shows

\* A request that inserts is a step of the atomic ledger.
LEMMA PostRefines ==
  ASSUME CashIInv, CashIInv', BalanceIInv, BalanceIInv', raced' = {},
         NEW t \in Txn, NEW a \in Account, NEW type \in TxType, NEW amt \in Int,
         Post(t, a, type, amt)
  PROVE  Abstract!Next
<1>1. raced = {}
  BY DEF Post
<1> QED
  BY <1>1, PostInserts, NextBalanceShows DEF Abstract!Next

\* Every step of the currency is one of the atomic ledger, or a stutter.
LEMMA CashRefinesStep ==
  ASSUME CashIInv, CashIInv', BalanceIInv, BalanceIInv', [CashNext]_cashVars
  PROVE  [raced' = {} => Abstract!Next]_<<DOMAIN balance, ledger, balance>>
<1> SUFFICES ASSUME raced' = {}, ~UNCHANGED <<DOMAIN balance, ledger, balance>>
             PROVE  Abstract!Next
  OBVIOUS
<1>1. balance' = Abstract!Shows(DOMAIN balance', ledger')
  BY NextBalanceShows
<1>2. \/ \E t \in Txn : Abstract!Insert(t) \/ Abstract!Delete(t) \/ Abstract!Amend(t)
      \/ \E a \in Account : Abstract!CloseAccount(a)
  <2> USE AmountAssumption
  <2>1. CASE \/ \E t \in Txn, a \in Account, type \in TxType, amt \in Amount :
                  CreateTransaction(t, a, type, amt)
             \/ \E t \in Txn, a \in Account, amt \in Amount : QuickAward(t, a, amt)
    <3>1. PICK t \in Txn, a \in Account, type \in TxType, amt \in Int : Post(t, a, type, amt)
      BY <2>1 DEF CreateTransaction, QuickAward, TxType
    <3>2. raced = {}
      BY <3>1 DEF Post
    <3> QED
      BY <3>1, <3>2, PostInserts
  <2>2. CASE \/ \E c \in Client, t \in Txn : BeginDelete(c, t)
             \/ \E c \in Client, t \in Txn, amt \in Amount : BeginUpdate(c, t, amt)
             \/ \E e \in edits : AbandonEdit(e)
    BY <2>2 DEF BeginDelete, BeginUpdate, AbandonEdit
  <2>3. CASE \E e \in edits : CommitDelete(e) \/ CommitUpdate(e)
    BY <2>3, CommitRefines
  <2>4. CASE \E a \in Account : RemoveKid(a)
    BY <2>4, RemoveKidCloses
  <2>5. CASE UNCHANGED cashVars
    BY <2>5 DEF cashVars
  <2> QED
    BY <2>1, <2>2, <2>3, <2>4, <2>5 DEF CashNext, EditStep
<1> QED
  BY <1>1, <1>2 DEF Abstract!Next

\* As long as no stale edit has committed, every award, spend, edit, deletion
\* and removal of a kid is one step of the ledger whose balances are always the
\* sums of its rows, or changes nothing a reader can see.
THEOREM CashImplementsLedger == CashSpec => ImplementsAtomicLedger
<1>1. CashInit => Abstract!Init
  BY AbstractInit
<1>2. CashIInv /\ CashIInv' /\ BalanceIInv /\ BalanceIInv' /\ [CashNext]_cashVars
        => [raced' = {} => Abstract!Next]_<<DOMAIN balance, ledger, balance>>
  BY CashRefinesStep
<1> QED
  BY <1>1, <1>2, CashInvariant, BalanceInvariant, PTL DEF CashSpec, ImplementsAtomicLedger
=============================================================================
