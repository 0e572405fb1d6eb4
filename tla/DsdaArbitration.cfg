CONSTANTS
    Modes = {"V2", "V3", "V5"}
    Kinds = {"voice", "video", "crs"}
    MaxCalls = 3
    MaxOps = 5
    MaxQueue = 2
    Races = {}
SPECIFICATION Spec
INVARIANT TypeOK
INVARIANT TableShowsModems
INVARIANT AcceptedIsConnected
INVARIANT OneVoice
INVARIANT SwapCompletes
INVARIANT MarksAreSpent
CHECK_DEADLOCK FALSE
