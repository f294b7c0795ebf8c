\* Two adults resolve the same redemption at the same time.
CONSTANTS
  Account = {a1}
  Txn = {t1, t2, t3}
  Client = {}
  Amount <- MCAmount
  Reward = {w1}
  Redemption = {r1}
  Cost <- MCCost
  Asker = {k1}
  Reviewer = {p1, p2}
  Resolver = {"member"}
  MayCrash = FALSE
CHECK_DEADLOCK FALSE
SPECIFICATION Spec
INVARIANT
  ChargedAtMostOnce
