SPECIFICATION FairSpec
CONSTANTS
  Driver = {d1}
  Request = {r1}
  MaxInbox = 1
  MaxMishaps = 2
INVARIANT TypeOK
INVARIANT SilentCandidateExplained
INVARIANT OfflineIsRemoved
INVARIANT GoneIsAnnounced
PROPERTY GoneIsForgotten
PROPERTY WorkingIsFound
