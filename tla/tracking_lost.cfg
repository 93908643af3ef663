SPECIFICATION Spec
CONSTANTS
  Trip = {t1}
  Driver = {d1}
  None = None
  ScoreAtStart = 0
  MaxRounds = 1
  MaxCandidates = 1
  MaxFaults = 0
  MaxCrashes = 0
INVARIANT RideIsTracked
