CONSTANTS
    Slots = {0}
    MaxIdx = 2
    MaxCalls = 3
    MaxDials = 0
    Detect = TRUE
    MaxQueue = 1
    MaxChanges = 3
    MaxCrashes = 0
    ClearReport = "list"
    Races = {"revive"}
    StopAnswers = {"answers", "fails"}
SPECIFICATION Spec
INVARIANT TableSurvivesDetection
 
 
 
CHECK_DEADLOCK FALSE
