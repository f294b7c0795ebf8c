\* The server dies between paying a chore and logging it.
CONSTANTS
  Account = {a1}
  Txn = {x1, x2}
  Client = {}
  Amount <- MCAmount
  Template = {m1}
  Task = {t1}
  Reward <- AlwaysPaid
  None = None
  Faults = {"crash"}
CHECK_DEADLOCK FALSE
SPECIFICATION Spec
INVARIANT
  NeverPaidTwice
