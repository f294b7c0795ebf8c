\* Two requests at a time, two kiosks, two pairings, two sessions, crashes.
CONSTANTS
  Kiosk = {k1, k2}
  Pairing = {g1, g2}
  Session = {s1, s2}
  Caller = {p1, p2}
  None = None
  MayCrash = TRUE
CHECK_DEADLOCK FALSE
SPECIFICATION Spec
SYMMETRY Symmetry
INVARIANTS
  PairingTypeOK
  OneDevicePerKiosk
  OneLiveLink
  UsedOnce
PROPERTY
  ClaimedIsFinal
