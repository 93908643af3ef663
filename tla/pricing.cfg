SPECIFICATION FairSpec
CONSTANTS
  Request = {r1, r2}
  Distance = {0, 2400}
  Duration = {480, 3900}
  Actual = {0, 470, 5000}
  Crowds = {4, 6}
  MaxMishaps = 1
INVARIANT TypeOK
INVARIANT FareIsRight
INVARIANT FaresAreOrdered
INVARIANT SurgeFollowsDemand
INVARIANT EtaIsReal
PROPERTY SurgeEnds
CHECK_DEADLOCK FALSE
