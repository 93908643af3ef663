SPECIFICATION FairSpec
CONSTANTS
  Key = {k1}
  None = None
  MaxOffers = 2
  MaxAnswers = 2
CHECK_DEADLOCK FALSE
PROPERTY RouterGoesOn
