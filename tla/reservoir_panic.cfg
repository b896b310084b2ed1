SPECIFICATION Spec
CONSTANTS
  Steps <- MCSteps
  Capacity = 3
  RoundingError <- MCRoundingError
  MaxOffers = 7
INVARIANTS
  OfferReturns
\* the stream ends: a bounded number of offers, or a panic
CHECK_DEADLOCK FALSE
