\* The resolve requests the web client sends (resolvedBy is blank), one at a time.
CONSTANTS
  Account = {a1}
  Txn = {t1, t2}
  Client = {}
  Amount <- MCAmount
  Reward = {w1}
  Redemption = {r1}
  Cost <- MCCost
  Asker = {k1}
  Reviewer = {p1}
  Resolver = {"blank"}
  MayCrash = FALSE
CHECK_DEADLOCK FALSE
SPECIFICATION Spec
INVARIANT
  ChargedIsApproved
