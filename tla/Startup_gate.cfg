SPECIFICATION StartLiveSpec
CONSTANTS
  Networks = {ethereum, base}
  MaxEdits = 1
  MaxCrashes = 1
INVARIANTS StartTypeOK FailsClosed LogIsTrue
PROPERTY ComesBack
CHECK_DEADLOCK FALSE
