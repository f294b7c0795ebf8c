------------------------- MODULE RedemptionsProofs -------------------------
(***************************************************************************)
(* Proofs about Redemptions, for any sets of rewards, redemptions, costs,  *)
(* requests in flight and resolvers, with or without crashes.              *)
(***************************************************************************)
EXTENDS Redemptions, SandersCashProofs

\* A review's redemption exists; only an existing redemption is charged.
StoreKeys ==
    /\ \A v \in reviews : v.redemption \in DOMAIN redemption
    /\ \A r \in Redemption \ DOMAIN redemption : charges[r] = 0

\* Only an approval reads a cost and charges; one past its charge has charged.
ChargedCounts ==
    \A v \in reviews : /\ v.step # "settle" => v.verdict = "approved"
                       /\ Charged(v) => charges[v.redemption] >= 1

\* On an undisturbed redemption there is one review at most, and it is of a
\* redemption that is still pending.
ReviewedAlone ==
    \A u, v \in reviews :
        u.redemption \notin disturbed =>
            /\ redemption[u.redemption].status = "pending"
            /\ u.redemption = v.redemption => u = v

StoreIInv ==
    /\ StoreTypeOK
    /\ StoreKeys
    /\ ChargedCounts
    /\ ReviewedAlone
    /\ ApprovedWasCharged
    /\ ChargedExactlyOnce

USE RedemptionAssumption

LEMMA StoreInit == Init => StoreIInv
  BY DEF Init, StoreIInv, StoreTypeOK, StoreKeys, ChargedCounts, ReviewedAlone,
         ApprovedWasCharged, ChargedExactlyOnce

\* Steps that touch neither redemptions, reviews nor charges.
LEMMA RewardStepIInv ==
  ASSUME StoreIInv, RewardStep
  PROVE  StoreIInv'
<1>1. /\ UNCHANGED <<redemption, asks, reviews, charges, disturbed>>
      /\ reward' \in [DOMAIN reward' -> [cost : Cost, active : BOOLEAN]]
      /\ DOMAIN reward' \subseteq Reward
      /\ \A r \in DOMAIN redemption : redemption[r].reward \in DOMAIN reward'
  <2>1. CASE \E w \in Reward, cost \in Cost : CreateReward(w, cost)
    BY <2>1 DEF CreateReward, StoreIInv, StoreTypeOK, StoreKeys
  <2>4. CASE \E w \in Reward, cost \in Cost : UpdateCost(w, cost)
    BY <2>4 DEF UpdateCost, StoreIInv, StoreTypeOK, StoreKeys
  <2>2. CASE \E w \in Reward, active \in BOOLEAN : UpdateActive(w, active)
    BY <2>2 DEF UpdateActive, StoreIInv, StoreTypeOK, StoreKeys
  <2>3. CASE \E w \in Reward : DeleteReward(w)
    BY <2>3 DEF DeleteReward, Restrict, StoreIInv, StoreTypeOK, StoreKeys
  <2> QED
    BY <2>1, <2>2, <2>3, <2>4 DEF RewardStep
<1> QED
  BY <1>1 DEF StoreIInv, StoreTypeOK, StoreKeys, ChargedCounts, ReviewedAlone,
              ApprovedWasCharged, ChargedExactlyOnce, ReviewsOf

LEMMA AskStepIInv ==
  ASSUME StoreIInv, AskStep
  PROVE  StoreIInv'
<1>1. CASE \E k \in Asker, w \in Reward, a \in Account : AskPrice(k, w, a)
  BY <1>1 DEF AskPrice, StoreIInv, StoreTypeOK, StoreKeys, ChargedCounts, Ask,
              ReviewedAlone, ApprovedWasCharged, ChargedExactlyOnce, ReviewsOf
<1>2. ASSUME NEW q \in asks, AskBalance(q) PROVE StoreIInv'
  BY <1>2 DEF AskBalance, StoreIInv, StoreTypeOK, StoreKeys, ChargedCounts, Ask,
              ReviewedAlone, ApprovedWasCharged, ChargedExactlyOnce, ReviewsOf
<1>3. ASSUME NEW q \in asks, NEW r \in Redemption, AskInsert(q, r) PROVE StoreIInv'
  <2>1. /\ q \in Ask /\ r \notin DOMAIN redemption
        /\ UNCHANGED <<reward, reviews, charges, disturbed>>
        /\ asks' = asks \ {q}
        /\ \/ redemption' = redemption
           \/ /\ q.reward \in DOMAIN reward
              /\ redemption' = [x \in DOMAIN redemption \cup {r} |->
                   IF x = r THEN [reward |-> q.reward, account |-> q.account,
                                  status |-> "pending"]
                            ELSE redemption[x]]
    BY <1>3 DEF AskInsert, StoreIInv, StoreTypeOK
  <2>2. StoreTypeOK'
    BY <2>1 DEF StoreIInv, StoreTypeOK, Ask, Status
  <2>3. StoreKeys' /\ ChargedCounts' /\ ReviewedAlone'
    BY <2>1 DEF StoreIInv, StoreTypeOK, StoreKeys, ChargedCounts, Charged, ReviewedAlone
  <2>4. ApprovedWasCharged' /\ ChargedExactlyOnce'
    BY <2>1 DEF StoreIInv, StoreTypeOK, StoreKeys, ReviewedAlone, Charged,
                ApprovedWasCharged, ChargedExactlyOnce, ReviewsOf
  <2> QED
    BY <2>2, <2>3, <2>4 DEF StoreIInv
<1> QED
  BY <1>1, <1>2, <1>3 DEF AskStep

LEMMA BeginReviewIInv ==
  ASSUME StoreIInv, NEW p \in Reviewer, NEW r \in Redemption,
         NEW verdict \in {"approved", "denied"}, NEW by \in Resolver,
         BeginReview(p, r, verdict, by)
  PROVE  StoreIInv'
<1> DEFINE v == [reviewer |-> p, redemption |-> r, verdict |-> verdict, by |-> by,
                 step |-> IF verdict = "approved" THEN "price" ELSE "settle",
                 price |-> 0]
<1>1. /\ v \in Review /\ ~Charged(v) /\ v.redemption = r
      /\ v.step # "settle" => v.verdict = "approved"
      /\ r \in DOMAIN redemption /\ redemption[r].status = "pending"
      /\ reviews' = reviews \cup {v}
      /\ disturbed' = IF OthersOn(v) = {} THEN disturbed ELSE disturbed \cup {r}
      /\ UNCHANGED <<reward, redemption, asks, charges>>
  BY DEF BeginReview, Review, Charged, MayReview
<1> HIDE DEF v
<1>2. StoreTypeOK' /\ StoreKeys' /\ ChargedCounts'
  BY <1>1 DEF StoreIInv, StoreTypeOK, StoreKeys, ChargedCounts
<1>3. ReviewedAlone'
  BY <1>1 DEF StoreIInv, ReviewedAlone, OthersOn
<1>4. ApprovedWasCharged' /\ ChargedExactlyOnce'
  BY <1>1 DEF StoreIInv, ApprovedWasCharged, ChargedExactlyOnce, ReviewsOf
<1> QED
  BY <1>2, <1>3, <1>4 DEF StoreIInv

\* A review that moves on or ends without charging or writing a status.
LEMMA QuietReviewIInv ==
  ASSUME StoreIInv, NEW v \in reviews, ReadCost(v) \/ ChargeFails(v)
  PROVE  StoreIInv'
<1>1. v \in Review /\ ~Charged(v) /\ v.verdict = "approved"
  BY DEF StoreIInv, StoreTypeOK, ReadCost, ChargeFails, Charged, ChargedCounts
<1>2. UNCHANGED <<reward, redemption, asks, charges, disturbed>>
  BY DEF ReadCost, ChargeFails
<1>3. PICK u : /\ u \in Review /\ ~Charged(u) /\ u.redemption = v.redemption
               /\ u.verdict = "approved"
               /\ \/ reviews' = (reviews \ {v}) \cup {u}
                  \/ reviews' = reviews \ {v}
  <2>1. CASE ReadCost(v)
    <3>1. reward[redemption[v.redemption].reward].cost \in Cost
      BY <1>1 DEF StoreIInv, StoreTypeOK, StoreKeys
    <3> DEFINE u == [v EXCEPT !.step = "charge",
                       !.price = reward[redemption[v.redemption].reward].cost]
    <3>2. /\ u \in Review /\ ~Charged(u) /\ u.redemption = v.redemption
          /\ u.verdict = "approved"
      BY <1>1, <2>1, <3>1 DEF Review, Charged, ReadCost
    <3> QED
      BY <2>1, <3>2 DEF ReadCost
  <2>2. CASE ChargeFails(v)
    BY <1>1, <2>2 DEF ChargeFails
  <2> QED
    BY <2>1, <2>2
<1>4. StoreTypeOK' /\ StoreKeys' /\ ChargedCounts'
  BY <1>1, <1>2, <1>3 DEF StoreIInv, StoreTypeOK, StoreKeys, ChargedCounts
<1>5. ReviewedAlone'
  BY <1>1, <1>2, <1>3 DEF StoreIInv, ReviewedAlone
<1>6. ApprovedWasCharged' /\ ChargedExactlyOnce'
  BY <1>1, <1>2, <1>3 DEF StoreIInv, ApprovedWasCharged, ChargedExactlyOnce, ReviewsOf
<1> QED
  BY <1>4, <1>5, <1>6 DEF StoreIInv

LEMMA ChargeKidIInv ==
  ASSUME StoreIInv, NEW v \in reviews, NEW t \in Txn, ChargeKid(v, t)
  PROVE  StoreIInv'
<1> DEFINE u == [v EXCEPT !.step = "settle"]
           r == v.redemption
<1>1. /\ v \in Review /\ ~Charged(v) /\ v.step = "charge" /\ v.verdict = "approved"
      /\ r \in DOMAIN redemption /\ r \in Redemption
  BY DEF StoreIInv, StoreTypeOK, StoreKeys, ChargeKid, Charged, Review, ChargedCounts
<1>2. /\ u \in Review /\ u.redemption = r /\ Charged(u)
      /\ u.verdict = "approved" /\ u.step = "settle"
  BY <1>1 DEF Review, Charged
<1>3. /\ reviews' = (reviews \ {v}) \cup {u}
      /\ charges' = [charges EXCEPT ![r] = @ + 1]
      /\ UNCHANGED <<reward, redemption, asks, disturbed>>
  BY DEF ChargeKid
<1>4. charges \in [Redemption -> Nat]
  BY DEF StoreIInv, StoreTypeOK
<1> HIDE DEF u
<1>5. StoreTypeOK' /\ StoreKeys'
  BY <1>1, <1>2, <1>3, <1>4 DEF StoreIInv, StoreTypeOK, StoreKeys
<1>9. ChargedCounts'
  <2>1. \A w \in reviews : w \in Review
    BY DEF StoreIInv, StoreTypeOK
  <2>2. \A w \in reviews : w.redemption \in Redemption
    BY <2>1 DEF Review
  <2> QED
    BY <1>1, <1>2, <1>3, <1>4, <2>2 DEF StoreIInv, ChargedCounts
<1>6. ReviewedAlone'
  BY <1>1, <1>2, <1>3 DEF StoreIInv, ReviewedAlone
<1>7. ApprovedWasCharged'
  BY <1>1, <1>3, <1>4 DEF StoreIInv, StoreTypeOK, ApprovedWasCharged
<1>8. ChargedExactlyOnce'
  <2> SUFFICES ASSUME NEW x \in DOMAIN redemption \ disturbed
               PROVE  charges'[x] = IF \/ redemption[x].status = "approved"
                                       \/ \E w \in ReviewsOf(x)' : Charged(w)
                                    THEN 1 ELSE 0
    BY <1>3 DEF ChargedExactlyOnce
  <2>1. CASE x # r
    BY <2>1, <1>1, <1>2, <1>3, <1>4 DEF StoreIInv, StoreTypeOK, ChargedExactlyOnce, ReviewsOf
  <2>2. CASE x = r
    <3>1. /\ redemption[r].status = "pending"
          /\ \A w \in ReviewsOf(r) : w = v
      BY <2>2 DEF StoreIInv, ReviewedAlone, ReviewsOf
    <3>2. charges[r] = 0
      BY <2>2, <3>1, <1>1 DEF StoreIInv, ChargedExactlyOnce
    <3>3. charges'[x] = 1
      BY <2>2, <1>1, <1>3, <1>4, <3>2
    <3>4. u \in ReviewsOf(x)'
      BY <2>2, <1>2, <1>3 DEF ReviewsOf
    <3> QED
      BY <1>2, <3>3, <3>4
  <2> QED
    BY <2>1, <2>2
<1> QED
  BY <1>5, <1>6, <1>7, <1>8, <1>9 DEF StoreIInv

LEMMA SettleIInv ==
  ASSUME StoreIInv, NEW v \in reviews, Settle(v)
  PROVE  StoreIInv'
<1> DEFINE r == v.redemption
<1>1. /\ v \in Review /\ v.step = "settle" /\ r \in Redemption
      /\ r \in DOMAIN redemption
      /\ v.verdict = "approved" => Charged(v)
      /\ v.verdict \in {"approved", "denied"}
  BY DEF StoreIInv, StoreTypeOK, StoreKeys, Settle, Review, Charged
<1>2. /\ reviews' = reviews \ {v}
      /\ redemption' = IF Settles(v)
                       THEN [redemption EXCEPT ![r].status = v.verdict]
                       ELSE redemption
      /\ disturbed' = IF Charged(v) /\ ~Settles(v) THEN disturbed \cup {r} ELSE disturbed
      /\ UNCHANGED <<reward, asks, charges>>
  BY DEF Settle
<1>3. StoreTypeOK' /\ StoreKeys' /\ ChargedCounts'
  BY <1>1, <1>2 DEF StoreIInv, StoreTypeOK, StoreKeys, ChargedCounts, Status
<1>4. ReviewedAlone'
  <2> SUFFICES ASSUME NEW u \in reviews', NEW w \in reviews',
                      u.redemption \notin disturbed'
               PROVE  /\ redemption'[u.redemption].status = "pending"
                      /\ u.redemption = w.redemption => u = w
    BY DEF ReviewedAlone
  <2>1. u \in reviews /\ w \in reviews /\ u.redemption \notin disturbed /\ u # v
    BY <1>2
  <2>2. u.redemption # r
    BY <2>1 DEF StoreIInv, ReviewedAlone
  <2>3. redemption'[u.redemption] = redemption[u.redemption]
    BY <1>1, <1>2, <2>1, <2>2 DEF StoreIInv, StoreTypeOK, StoreKeys
  <2> QED
    BY <2>1, <2>3 DEF StoreIInv, ReviewedAlone
<1>5. ApprovedWasCharged'
  BY <1>1, <1>2 DEF StoreIInv, StoreTypeOK, ApprovedWasCharged, ChargedCounts
<1>6. ChargedExactlyOnce'
  <2> SUFFICES ASSUME NEW x \in DOMAIN redemption \ disturbed'
               PROVE  charges[x] = IF \/ redemption'[x].status = "approved"
                                      \/ \E w \in ReviewsOf(x)' : Charged(w)
                                   THEN 1 ELSE 0
    BY <1>2, <1>1 DEF ChargedExactlyOnce, StoreIInv, StoreTypeOK
  <2>0. x \notin disturbed
    BY <1>2
  <2>1. CASE x # r
    BY <2>0, <2>1, <1>1, <1>2 DEF StoreIInv, StoreTypeOK, ChargedExactlyOnce, ReviewsOf
  <2>2. CASE x = r
    <3>1. redemption[r].status = "pending" /\ \A w \in ReviewsOf(r) : w = v
      BY <2>0, <2>2 DEF StoreIInv, ReviewedAlone, ReviewsOf
    <3>2. ReviewsOf(r)' = {}
      BY <1>2, <3>1 DEF ReviewsOf
    <3>3. charges[r] = IF v.verdict = "approved" THEN 1 ELSE 0
      BY <1>1, <2>0, <2>2, <3>1 DEF StoreIInv, ChargedExactlyOnce, ReviewsOf, Charged
    <3>4. redemption'[r].status = IF Settles(v) THEN v.verdict ELSE "pending"
      BY <1>1, <1>2, <3>1 DEF StoreIInv, StoreTypeOK
    <3>5. v.verdict = "approved" => Settles(v)
      BY <1>1, <1>2, <2>2
    <3> QED
      BY <1>1, <2>2, <3>2, <3>3, <3>4, <3>5
  <2> QED
    BY <2>1, <2>2
<1> QED
  BY <1>3, <1>4, <1>5, <1>6 DEF StoreIInv

LEMMA CrashIInv ==
  ASSUME StoreIInv, Crash
  PROVE  StoreIInv'
<1>1. /\ asks' = {} /\ reviews' = {}
      /\ disturbed' = disturbed \cup {v.redemption : v \in {u \in reviews : Charged(u)}}
      /\ UNCHANGED <<reward, redemption, charges>>
  BY DEF Crash
<1>2. StoreTypeOK'
  BY <1>1 DEF StoreIInv, StoreTypeOK, Review
<1>3. ChargedExactlyOnce'
  BY <1>1 DEF StoreIInv, ChargedExactlyOnce, ReviewsOf
<1> QED
  BY <1>1, <1>2, <1>3 DEF StoreIInv, StoreKeys, ChargedCounts, ReviewedAlone,
                          ApprovedWasCharged

LEMMA StoreUnchanged == StoreIInv /\ UNCHANGED storeVars => StoreIInv'
  BY DEF StoreIInv, storeVars, StoreTypeOK, StoreKeys, ChargedCounts, ReviewedAlone,
         ApprovedWasCharged, ChargedExactlyOnce, ReviewsOf

LEMMA StoreStepIInv == StoreIInv /\ [Next]_vars => StoreIInv'
<1> SUFFICES ASSUME StoreIInv, [Next]_vars PROVE StoreIInv'
  OBVIOUS
<1>1. CASE CashStep \/ \E a \in Account : RemoveKidWithoutRedemptions(a)
  BY <1>1, StoreUnchanged DEF CashStep, RemoveKidWithoutRedemptions
<1>2. CASE RewardStep
  BY <1>2, RewardStepIInv
<1>3. CASE AskStep
  BY <1>3, AskStepIInv
<1>4. CASE ReviewStep
  BY <1>4, BeginReviewIInv, QuietReviewIInv, ChargeKidIInv, SettleIInv DEF ReviewStep
<1>5. CASE Crash
  BY <1>5, CrashIInv
<1>6. CASE UNCHANGED vars
  BY <1>6, StoreUnchanged DEF vars
<1> QED
  BY <1>1, <1>2, <1>3, <1>4, <1>5, <1>6 DEF Next

LEMMA StoreInvariant == Spec => []StoreIInv
  BY StoreInit, StoreStepIInv, PTL DEF Spec

\* The tables of the store keep their shape.
THEOREM StoreTypeCorrect == Spec => []StoreTypeOK
  BY StoreInvariant, PTL DEF StoreIInv

\* An approved redemption has been charged, whatever overlapped or crashed.
THEOREM StoreApprovedWasCharged == Spec => []ApprovedWasCharged
  BY StoreInvariant, PTL DEF StoreIInv

\* Reviews that neither overlap nor are cut short charge exactly once.
THEOREM StoreChargedExactlyOnce == Spec => []ChargedExactlyOnce
  BY StoreInvariant, PTL DEF StoreIInv

\* The verdict on an undisturbed redemption does not change again.
THEOREM StoreVerdictIsFinal == Spec => VerdictIsFinal
<1>1. ASSUME StoreIInv, [Next]_vars,
             NEW r \in DOMAIN redemption \ disturbed, redemption[r].status # "pending"
      PROVE  redemption'[r] = redemption[r]
  <2>1. CASE UNCHANGED redemption
    BY <2>1
  <2>2. CASE \E q \in asks, x \in Redemption : AskInsert(q, x)
    BY <1>1, <2>2 DEF AskInsert
  <2>3. ASSUME NEW v \in reviews, Settle(v)
        PROVE  redemption'[r] = redemption[r]
    <3>1. v.redemption # r
      BY <1>1 DEF StoreIInv, ReviewedAlone
    <3> QED
      BY <1>1, <2>3, <3>1 DEF Settle, StoreIInv, StoreTypeOK
  <2> QED
    BY <1>1, <2>1, <2>2, <2>3
       DEF Next, vars, storeVars, CashStep, RewardStep, CreateReward, UpdateCost,
           UpdateActive, DeleteReward, AskStep, AskPrice, AskBalance, ReviewStep,
           BeginReview, ReadCost, ChargeKid, ChargeFails, Crash,
           RemoveKidWithoutRedemptions
<1>2. StoreIInv /\ [Next]_vars =>
        [\A r \in DOMAIN redemption \ disturbed :
           redemption[r].status # "pending" => redemption'[r] = redemption[r]]_vars
  BY <1>1
<1> QED
  BY <1>2, StoreInvariant, PTL DEF Spec, VerdictIsFinal

-----------------------------------------------------------------------------
(***************************************************************************)
(* The store does nothing to the currency that the currency does not do.   *)
(***************************************************************************)
\* A step of the store is a step of the currency, a spend, a restart that
\* loses the requests in flight, or none of its business.
LEMMA StoreMovesCash ==
  ASSUME StoreIInv, [Next]_vars
  PROVE  \/ [CashNext]_cashVars
         \/ \E t \in Txn, a \in Account, amt \in Int : Post(t, a, "spend", amt)
         \/ edits' = {} /\ UNCHANGED <<balance, ledger, used, applied, raced, corrected>>
<1>1. ASSUME NEW v \in reviews, NEW t \in Txn, ChargeKid(v, t)
      PROVE  \E a \in Account, amt \in Int : Post(t, a, "spend", amt)
  <2>1. v \in Review /\ v.price \in Int
    BY DEF StoreIInv, StoreTypeOK, Review
  <2>2. redemption[v.redemption].account \in Account
    BY DEF StoreIInv, StoreTypeOK, StoreKeys
  <2> QED
    BY <1>1, <2>1, <2>2 DEF ChargeKid
<1>2. CASE Crash
  BY <1>2 DEF Crash
<1>3. CASE RewardStep \/ AskStep
  BY <1>3 DEF RewardStep, AskStep, CreateReward, UpdateCost, UpdateActive,
              DeleteReward, AskPrice, AskBalance, AskInsert
<1>4. CASE ReviewStep
  BY <1>1, <1>4 DEF ReviewStep, BeginReview, ReadCost, ChargeFails, Settle
<1>5. CASE CashStep \/ \E a \in Account : RemoveKidWithoutRedemptions(a)
  BY <1>5 DEF CashStep, RemoveKidWithoutRedemptions, CashNext
<1> QED
  BY <1>2, <1>3, <1>4, <1>5 DEF Next, vars

\* The invariants of the currency, in composition with the store.
LEMMA StoreCashInvariant == Spec => [](CashIInv /\ BalanceIInv)
<1>1. Init => CashIInv /\ BalanceIInv
  BY CashInitIInv, BalanceInit DEF Init
<1>2. ASSUME CashIInv, StoreIInv, [Next]_vars PROVE CashIInv'
  <2>1. CASE edits' = {} /\ UNCHANGED <<balance, ledger, used, applied, raced, corrected>>
    BY <1>2, <2>1 DEF CashIInv, CashTypeOK, ForeignKey, EditOwner, RowEffectExact,
                      RowAmount, Solvent
  <2> QED
    BY <1>2, <2>1, StoreMovesCash, CashStepIInv, PostIInv DEF TxType
<1>3. ASSUME CashIInv, CashIInv', BalanceIInv, StoreIInv, [Next]_vars PROVE BalanceIInv'
  BY <1>3, StoreMovesCash, BalanceStep, PostBalance, SameBalance DEF TxType
<1> QED
  BY <1>1, <1>2, <1>3, StoreInvariant, PTL DEF Spec

\* The store keeps the currency's own invariant: a redemption cannot overdraw.
THEOREM StoreSolvent == Spec => []Solvent
  BY StoreCashInvariant, PTL DEF CashIInv

\* Redemptions, reviews and restarts leave every stored balance the sum of the
\* rows of its account.
THEOREM StoreBalanceIsSum == Spec => []BalanceMatchesLedger
  BY StoreCashInvariant, PTL DEF BalanceIInv

\* Seen from the accounts, the store too is the atomic ledger: approving a
\* redemption is one step of it, wherever the review is interrupted.
THEOREM StoreImplementsLedger == Spec => ImplementsAtomicLedger
<1>1. Init => Abstract!Init
  BY AbstractInit DEF Init
<1>2. ASSUME StoreIInv, CashIInv, CashIInv', BalanceIInv, BalanceIInv', [Next]_vars
      PROVE  [raced' = {} => Abstract!Next]_<<DOMAIN balance, ledger, balance>>
  <2>1. CASE [CashNext]_cashVars
    BY <1>2, <2>1, CashRefinesStep
  <2>2. CASE \E t \in Txn, a \in Account, amt \in Int : Post(t, a, "spend", amt)
    BY <1>2, <2>2, PostRefines DEF TxType
  <2>3. CASE UNCHANGED <<balance, ledger>>
    BY <2>3
  <2> QED
    BY <1>2, <2>1, <2>2, <2>3, StoreMovesCash
<1> QED
  BY <1>1, <1>2, StoreInvariant, StoreCashInvariant, PTL DEF Spec, ImplementsAtomicLedger
=============================================================================
