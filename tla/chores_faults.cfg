\* A chore shared by two kids, kids deleted meanwhile, everything failing.
CONSTANTS
  Account = {a1, a2}
  Txn = {x1, x2}
  Client = {}
  Amount <- MCAmount
  Template = {m1}
  Task = {t1, t2}
  Reward <- AlwaysPaid
  None = None
  Faults = {"crash", "pay", "log", "vikunja"}
CHECK_DEADLOCK FALSE
SPECIFICATION Spec
SYMMETRY Symmetry
INVARIANTS
  ChoresTypeOK
  
  GoneKidsUnassigned
