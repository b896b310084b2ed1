SPECIFICATION Spec
CONSTANTS
  Steps <- MCSteps
  Capacity = 3
  RoundingError <- MCRoundingError
  MaxOffers = 7
INVARIANTS
  TypeOK
  StepSorted
  LastIsMaxStep
  IInv
PROPERTIES
  ImplementsContractUntilRestart
\* the stream ends: a bounded number of offers, or a panic
CHECK_DEADLOCK FALSE
