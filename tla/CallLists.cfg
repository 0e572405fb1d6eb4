CONSTANTS
    Slots = {0, 1}
    MaxIdx = 2
    MaxCalls = 3
    MaxDials = 1
    Detect = FALSE
    MaxQueue = 2
    MaxChanges = 2
    MaxCrashes = 1
    ClearReport = "list"
    Races = {}
    StopAnswers = {"silent"}
SPECIFICATION Spec
INVARIANT TypeOK
INVARIANT QuietTableMatches
INVARIANT DialIsOwedAnAnswer
PROPERTY FollowsTheLists
PROPERTY RestartEndsOldCalls
CHECK_DEADLOCK FALSE
