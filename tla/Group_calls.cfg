SPECIFICATION Spec
CONSTANTS
    Kinds = {"PARALLEL", "SEQUENTIAL"}
    Durations = {1, 2}
    Loopcounts = {2}
    MainCalls = {"AddToGroup", "AsyncRun", "Stop", "Pause", "Resume", "SetLoopcount", "StopKid"}
    CallbackCalls <- SafeCallbacks
    MaxKids = 2
    MaxCalls = 3
    MaxLag = 1
    MaxDrift = 1
    MaxRounds = 3
INVARIANTS InOrder KidsNotAhead
PROPERTIES EndsWithKids EveryRound GroupEnds
CHECK_DEADLOCK FALSE
