CONSTANTS
    NCalls = 2
    ImsCalls = {2}
    MaxAnswers = 1
    MaxQueue = 2
SPECIFICATION Spec
VIEW Sounding
INVARIANT TypeOK
INVARIANT SetsMatchCalls
INVARIANT SceneFollowsCalls
INVARIANT SilentWhenIdle
INVARIANT RingHasCause
INVARIANT TonesHaveCause
INVARIANT AnsweredIsMuted
CHECK_DEADLOCK FALSE
