SPECIFICATION LiveSpec
CONSTANT Qty = 2
INVARIANTS TypeOK NeverShort CompletedIsHedged AbandonedIsCancelled
PROPERTY Answers
CHECK_DEADLOCK FALSE
