SPECIFICATION Spec
CONSTANTS
  Trip = {t1, t2, t3}
  Request = {r1, r2, r3}
  None = None
  MaxFaults = 1
SYMMETRY Symmetric
INVARIANT TypeOK
INVARIANT RatedOnce
INVARIANT AverageIsReal
INVARIANT MissedOnlyWhenRaced
