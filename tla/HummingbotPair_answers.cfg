SPECIFICATION LiveSpec
CONSTANT Qty = 2
PROPERTIES QuietAfterVerdict Answers KeepsPromise
CHECK_DEADLOCK FALSE
