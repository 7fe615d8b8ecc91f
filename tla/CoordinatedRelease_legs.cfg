SPECIFICATION Spec
CONSTANTS
  MaxAge = 1
  MaxClock = 2
  Quantity = 5
  Price = 2
  Exact = 4
  MaxRaw = 10
INVARIANTS TypeOK ReleasedIsCovered QuotesAgree RefusedForCause FundsWereThere
PROPERTIES Answers
CHECK_DEADLOCK FALSE
