SPECIFICATION StartSpec
CONSTANTS
  Networks = {ethereum, base}
  MaxEdits = 1
  MaxCrashes = 1
PROPERTY MissingRpcIsAnswered
CHECK_DEADLOCK FALSE
