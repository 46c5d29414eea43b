SPECIFICATION FairSpec
CONSTANTS
  Total = 4
  Sections = 3
  Last <- MCLast
  MaxRetries = 3
  Limits = {30, 60}
INVARIANTS
  TypeOK
  AttemptsBounded
  OwnLimit
  LimitPutBack
PROPERTIES
  ImplementsOrder
  StoppedForGood
  CallsEnd
CHECK_DEADLOCK FALSE
