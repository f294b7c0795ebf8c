\* Two kids, two rows, two requests in flight.
CONSTANTS
  Account = {a1, a2}
  Txn = {t1, t2}
  Client = {c1, c2}
  Amount <- MCAmount
CHECK_DEADLOCK FALSE
CONSTRAINT EffectBounded
SPECIFICATION CashSpec
SYMMETRY Symmetry
INVARIANTS
  CashTypeOK
  RowEffectExact
  
  Solvent
PROPERTY
  ImplementsAtomicLedger
