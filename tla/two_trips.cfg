SPECIFICATION Spec
CONSTANTS
  Trip = {t1, t2}
  Driver = {d1}
  None = None
  ScoreAtStart = 9
  MaxRounds = 1
  MaxCandidates = 1
  MaxFaults = 1
  MaxCrashes = 0
SYMMETRY SymmetricTrips
INVARIANT LedgerAgrees
INVARIANT ScoreAgrees
