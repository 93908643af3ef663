SPECIFICATION FairSpec
CONSTANTS
  Trip = {t1}
  Driver = {d1, d2}
  None = None
  ScoreAtStart = 0
  MaxRounds = 2
  MaxCandidates = 2
  MaxFaults = 0
  MaxCrashes = 0
PROPERTY SearchEnds
PROPERTY PassengerHears
