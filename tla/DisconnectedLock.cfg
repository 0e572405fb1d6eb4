CONSTANTS
    NCalls = 1
    ImsCalls = {}
    MaxAnswers = 1
    MaxQueue = 2
SPECIFICATION Spec
INVARIANT LockReleased
CHECK_DEADLOCK FALSE
