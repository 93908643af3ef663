SPECIFICATION Spec
CONSTANTS
  Trip = {t1}
  Driver = {d1, d2}
  None = None
  ScoreAtStart = 9
  MaxRounds = 2
  MaxCandidates = 2
  MaxFaults = 1
  MaxCrashes = 1
SYMMETRY SymmetricDrivers
INVARIANT TypeOK
INVARIANT IInv
INVARIANT SystemCancelOnlyUnassigned
INVARIANT ActiveTripExplained
INVARIANT ToldIsOver
INVARIANT PublishedHasHappened
PROPERTY ImplementsLifecycle
PROPERTY DispatcherWindsDown
