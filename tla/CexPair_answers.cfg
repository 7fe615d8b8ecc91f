SPECIFICATION Spec
CONSTANT Qty = 2
INVARIANT FailedIsAsked
PROPERTIES QuietAfterVerdict KeepsPromise
CHECK_DEADLOCK FALSE
