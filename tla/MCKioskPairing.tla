--------------------------- MODULE MCKioskPairing ---------------------------
(* Model-checking instance of KioskPairing. *)
EXTENDS KioskPairing, TLC

Symmetry == Permutations(Kiosk) \cup Permutations(Pairing)
                \cup Permutations(Session) \cup Permutations(Caller)
=============================================================================
