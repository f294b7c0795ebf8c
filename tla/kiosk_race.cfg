\* One link opened on two devices at the same time.
CONSTANTS
  Kiosk = {k1}
  Pairing = {g1}
  Session = {s1, s2}
  Caller = {p1, p2}
  None = None
  MayCrash = FALSE
CHECK_DEADLOCK FALSE
SPECIFICATION Spec
PROPERTY
  LastsUntilRevoked
