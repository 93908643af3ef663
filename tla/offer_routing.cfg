SPECIFICATION FairSpec
CONSTANTS
  Key = {k1, k2}
  None = None
  MaxOffers = 2
  MaxAnswers = 2
CHECK_DEADLOCK FALSE
INVARIANT TypeOK
INVARIANT AcceptIsTheDrivers
INVARIANT NoChannelLeaked
INVARIANT BlockedOnlyOnSecond
PROPERTY NoAnswerDropped
PROPERTY OfferReturns
PROPERTY ImplementsExchange
