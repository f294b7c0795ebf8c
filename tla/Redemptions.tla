---------------------------- MODULE Redemptions ----------------------------
(***************************************************************************)
(* The reward store (server/internal/service/rewards.go) on top of the     *)
(* currency: a kid requests a reward, an adult approves it, which charges  *)
(* the kid's account, or denies it.                                        *)
(*                                                                         *)
(* Both requests are several SQL statements with no transaction around     *)
(* them.  `asks' and `reviews' hold the requests between two statements.   *)
(* Statements that read what no other request can change (the account id,  *)
(* the reward's name, the photo) are not steps of their own.               *)
(***************************************************************************)
EXTENDS SandersCash

CONSTANTS
    Reward,        \* reward ids
    Redemption,    \* redemption ids
    Cost,          \* costs a request may carry, in cents
    Asker,         \* redemption requests that may be in flight
    Reviewer,      \* resolve requests that may be in flight
    Resolver,      \* what resolvedBy may be: "member", "blank" or "unknown"
    MayCrash       \* TRUE: the server may die with requests in flight

ASSUME RedemptionAssumption ==
    /\ Cost \subseteq Int
    /\ Resolver \subseteq {"member", "blank", "unknown"}
    /\ MayCrash \in BOOLEAN

VARIABLES
    reward,      \* rewards: id -> [cost, active]
    redemption,  \* redemptions: id -> [reward, account, status]
    asks,        \* RequestRedemption calls in flight
    reviews,     \* ResolveRedemption calls in flight
    charges,     \* history: spends committed for each redemption
    disturbed    \* history: redemptions two reviews overlapped on, or whose
                 \* review ended after its charge and before its status update

storeVars == <<reward, redemption, asks, reviews, charges, disturbed>>
vars == <<cashVars, storeVars>>

Status == {"pending", "approved", "denied"}
Ask == [asker : Asker, reward : Reward, account : Account,
        step : {"priced", "afforded"}, price : Cost]
Review == [reviewer : Reviewer, redemption : Redemption,
           verdict : {"approved", "denied"}, by : Resolver,
           step : {"price", "charge", "settle"}, price : Cost \cup {0}]

\* A review that has charged the kid and not yet recorded the approval.
Charged(v) == v.step = "settle" /\ v.verdict = "approved"

-----------------------------------------------------------------------------
(***************************************************************************)
(* The rewards table.  UpdateReward writes each field it was given with a  *)
(* statement of its own, so a change of cost and a change of the active    *)
(* flag are separate steps.                                                *)
(***************************************************************************)
CreateReward(w, cost) ==
    /\ w \notin DOMAIN reward
    /\ cost > 0
    /\ reward' = [x \in DOMAIN reward \cup {w} |->
                    IF x = w THEN [cost |-> cost, active |-> TRUE] ELSE reward[x]]
    /\ UNCHANGED <<cashVars, redemption, asks, reviews, charges, disturbed>>

\* Only CreateReward asks for a positive cost.
UpdateCost(w, cost) ==
    /\ w \in DOMAIN reward
    /\ reward' = [reward EXCEPT ![w].cost = cost]
    /\ UNCHANGED <<cashVars, redemption, asks, reviews, charges, disturbed>>

UpdateActive(w, active) ==
    /\ w \in DOMAIN reward
    /\ reward' = [reward EXCEPT ![w].active = active]
    /\ UNCHANGED <<cashVars, redemption, asks, reviews, charges, disturbed>>

\* Mutant: the reward goes whatever refers to it.
DeleteRewardAlways(w) ==
    /\ w \in DOMAIN reward
    /\ reward' = Restrict(reward, DOMAIN reward \ {w})
    /\ UNCHANGED <<cashVars, redemption, asks, reviews, charges, disturbed>>

\* FOREIGN KEY (reward_id): a reward with redemptions cannot be deleted.
DeleteReward(w) ==
    /\ w \in DOMAIN reward
    /\ \A r \in DOMAIN redemption : redemption[r].reward # w
    /\ reward' = Restrict(reward, DOMAIN reward \ {w})
    /\ UNCHANGED <<cashVars, redemption, asks, reviews, charges, disturbed>>

-----------------------------------------------------------------------------
(***************************************************************************)
(* RequestRedemption: read the cost, read the balance, insert.             *)
(***************************************************************************)
AskPrice(k, w, a) ==
    /\ \A q \in asks : q.asker # k
    /\ w \in DOMAIN reward /\ reward[w].active
    /\ asks' = asks \cup {[asker |-> k, reward |-> w, account |-> a,
                           step |-> "priced", price |-> reward[w].cost]}
    /\ UNCHANGED <<cashVars, reward, redemption, reviews, charges, disturbed>>

Affordable(q) == q.account \in DOMAIN balance /\ balance[q.account] >= q.price

AskBalance(q) ==
    /\ q \in asks /\ q.step = "priced"
    /\ asks' = (asks \ {q}) \cup
               IF Affordable(q) THEN {[q EXCEPT !.step = "afforded"]} ELSE {}
    /\ UNCHANGED <<cashVars, reward, redemption, reviews, charges, disturbed>>

\* The insert fails (FOREIGN KEY) when the reward or the kid is gone.
AskInsert(q, r) ==
    /\ q \in asks /\ q.step = "afforded"
    /\ r \notin DOMAIN redemption
    /\ asks' = asks \ {q}
    /\ redemption' =
         IF q.reward \in DOMAIN reward /\ q.account \in DOMAIN balance
         THEN [x \in DOMAIN redemption \cup {r} |->
                 IF x = r THEN [reward |-> q.reward, account |-> q.account,
                                status |-> "pending"]
                          ELSE redemption[x]]
         ELSE redemption
    /\ UNCHANGED <<cashVars, reward, reviews, charges, disturbed>>

-----------------------------------------------------------------------------
(***************************************************************************)
(* ResolveRedemption: read the status, read the cost, charge (a database   *)
(* transaction of its own), write the status.                              *)
(***************************************************************************)
OthersOn(v) == {u \in reviews \ {v} : u.redemption = v.redemption}

\* Mutant: the status is not looked at.
MayReviewAny(r) == r \in DOMAIN redemption

MayReview(r) == r \in DOMAIN redemption /\ redemption[r].status = "pending"

BeginReview(p, r, verdict, by) ==
    /\ \A v \in reviews : v.reviewer # p
    /\ MayReview(r)
    /\ LET v == [reviewer |-> p, redemption |-> r, verdict |-> verdict, by |-> by,
                 step |-> IF verdict = "approved" THEN "price" ELSE "settle",
                 price |-> 0]
       IN /\ reviews' = reviews \cup {v}
          /\ disturbed' = IF OthersOn(v) = {} THEN disturbed ELSE disturbed \cup {r}
    /\ UNCHANGED <<cashVars, reward, redemption, asks, charges>>

ReadCost(v) ==
    /\ v \in reviews /\ v.step = "price"
    /\ reviews' = (reviews \ {v}) \cup
         {[v EXCEPT !.step = "charge",
                    !.price = reward[redemption[v.redemption].reward].cost]}
    /\ UNCHANGED <<cashVars, reward, redemption, asks, charges, disturbed>>

\* awarded_by is NULL for a blank resolver, and a broken FOREIGN KEY for an
\* id that is not a member's.
ChargeKid(v, t) ==
    /\ v \in reviews /\ v.step = "charge"
    /\ v.by # "unknown"
    /\ Post(t, redemption[v.redemption].account, "spend", v.price)
    /\ reviews' = (reviews \ {v}) \cup {[v EXCEPT !.step = "settle"]}
    /\ charges' = [charges EXCEPT ![v.redemption] = @ + 1]
    /\ UNCHANGED <<reward, redemption, asks, disturbed>>

\* CreateTransaction returns an error.
Refused(v) ==
    LET a == redemption[v.redemption].account IN
    v.by = "unknown" \/ ~SpendAllowed(a, "spend", Signed("spend", v.price))

\* Mutant: the error of CreateTransaction is ignored.
ChargeFailsSilently(v) ==
    /\ v \in reviews /\ v.step = "charge"
    /\ Refused(v)
    /\ reviews' = (reviews \ {v}) \cup {[v EXCEPT !.step = "settle"]}
    /\ UNCHANGED <<cashVars, reward, redemption, asks, charges, disturbed>>

ChargeFails(v) ==
    /\ v \in reviews /\ v.step = "charge"
    /\ Refused(v)
    /\ reviews' = reviews \ {v}
    /\ UNCHANGED <<cashVars, reward, redemption, asks, charges, disturbed>>

\* resolved_by REFERENCES family_members(id): a blank resolver is no member.
\* The update does not look at the status again.
Settles(v) == v.by = "member"

Settle(v) ==
    /\ v \in reviews /\ v.step = "settle"
    /\ reviews' = reviews \ {v}
    /\ redemption' = IF Settles(v)
                     THEN [redemption EXCEPT ![v.redemption].status = v.verdict]
                     ELSE redemption
    /\ disturbed' = IF Charged(v) /\ ~Settles(v)
                    THEN disturbed \cup {v.redemption} ELSE disturbed
    /\ UNCHANGED <<cashVars, reward, asks, charges>>

\* The process dies: the tables stay, every request in flight is gone.
Crash ==
    /\ MayCrash
    /\ edits \cup asks \cup reviews # {}
    /\ edits' = {} /\ asks' = {} /\ reviews' = {}
    /\ disturbed' = disturbed \cup {v.redemption : v \in {u \in reviews : Charged(u)}}
    /\ UNCHANGED <<balance, ledger, used, applied, raced, corrected,
                   reward, redemption, charges>>

\* redemptions.member_id has no ON DELETE CASCADE: it keeps the kid's row.
RemoveKidWithoutRedemptions(a) ==
    /\ \A r \in DOMAIN redemption : redemption[r].account # a
    /\ RemoveKid(a)
    /\ UNCHANGED storeVars

-----------------------------------------------------------------------------
Init ==
    /\ CashInit
    /\ reward = [w \in {} |-> 0]
    /\ redemption = [r \in {} |-> 0]
    /\ asks = {} /\ reviews = {}
    /\ charges = [r \in Redemption |-> 0]
    /\ disturbed = {}

CashStep ==
    /\ \/ \E t \in Txn, a \in Account, type \in TxType, amt \in Amount :
            CreateTransaction(t, a, type, amt)
       \/ EditStep
    /\ UNCHANGED storeVars

RewardStep ==
    \/ \E w \in Reward, cost \in Cost : CreateReward(w, cost) \/ UpdateCost(w, cost)
    \/ \E w \in Reward, active \in BOOLEAN : UpdateActive(w, active)
    \/ \E w \in Reward : DeleteReward(w)

AskStep ==
    \/ \E k \in Asker, w \in Reward, a \in Account : AskPrice(k, w, a)
    \/ \E q \in asks : AskBalance(q) \/ \E r \in Redemption : AskInsert(q, r)

ReviewStep ==
    \/ \E p \in Reviewer, r \in Redemption, verdict \in {"approved", "denied"},
          by \in Resolver : BeginReview(p, r, verdict, by)
    \/ \E v \in reviews :
          \/ ReadCost(v)
          \/ \E t \in Txn : ChargeKid(v, t)
          \/ ChargeFails(v)
          \/ Settle(v)

Next ==
    \/ CashStep \/ RewardStep \/ AskStep \/ ReviewStep \/ Crash
    \/ \E a \in Account : RemoveKidWithoutRedemptions(a)

Spec == Init /\ [][Next]_vars

-----------------------------------------------------------------------------
\* The variables of the store have the shape of their tables, and a redemption's
\* reward exists (FOREIGN KEY).
StoreTypeOK ==
    /\ DOMAIN reward \subseteq Reward
    /\ reward \in [DOMAIN reward -> [cost : Cost, active : BOOLEAN]]
    /\ DOMAIN redemption \subseteq Redemption
    /\ redemption \in [DOMAIN redemption ->
                         [reward : Reward, account : Account, status : Status]]
    /\ asks \subseteq Ask
    /\ reviews \subseteq Review
    /\ charges \in [Redemption -> Nat]
    /\ disturbed \subseteq Redemption
    /\ \A r \in DOMAIN redemption : redemption[r].reward \in DOMAIN reward

ReviewsOf(r) == {v \in reviews : v.redemption = r}

\* An approved redemption has been charged, whatever reviews overlapped and
\* wherever the server died.
ApprovedWasCharged ==
    \A r \in DOMAIN redemption :
        redemption[r].status = "approved" => charges[r] >= 1

\* A redemption whose reviews did not overlap and were not cut short is charged
\* once when it is approved, or about to be recorded as approved, and not at
\* all while it is pending or once it is denied.
ChargedExactlyOnce ==
    \A r \in DOMAIN redemption \ disturbed :
        charges[r] = IF \/ redemption[r].status = "approved"
                        \/ \E v \in ReviewsOf(r) : Charged(v)
                     THEN 1 ELSE 0

\* A redemption that was resolved keeps its verdict, unless reviews overlapped.
VerdictIsFinal ==
    [][\A r \in DOMAIN redemption \ disturbed :
         redemption[r].status # "pending" => redemption'[r] = redemption[r]]_vars

\* "redemption already resolved": one redemption is charged at most once.
ChargedAtMostOnce == \A r \in Redemption : charges[r] <= 1

\* Once no review of it is in flight, a redemption that was charged is recorded
\* as approved.
ChargedIsApproved ==
    \A r \in DOMAIN redemption :
        charges[r] > 0 /\ ReviewsOf(r) = {} => redemption[r].status = "approved"
=============================================================================
