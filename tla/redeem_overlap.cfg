\* Two reviews at a time, every kind of resolver, crashes; no ledger edits.
CONSTANTS
  Account = {a1}
  Txn = {t1, t2, t3}
  Client = {}
  Amount <- MCAmount
  Reward = {w1}
  Redemption = {r1, r2}
  Cost <- MCCost
  Asker = {k1}
  Reviewer = {p1, p2}
  Resolver = {"member", "blank", "unknown"}
  MayCrash = TRUE
CHECK_DEADLOCK FALSE
SPECIFICATION Spec
SYMMETRY Symmetry
INVARIANTS
  StoreTypeOK
  ApprovedWasCharged
  ChargedExactlyOnce
  Solvent
PROPERTY
  VerdictIsFinal
