SPECIFICATION Spec
CONSTANTS
  Profits = {0, 1, 2}
  MinProfit = 1
INVARIANTS
  TypeOK
  VerdictIsTrue
  TimeoutIsTraceable
PROPERTIES
  QuietUnlessThrown
  Answers
CHECK_DEADLOCK FALSE
