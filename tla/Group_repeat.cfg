SPECIFICATION Spec
CONSTANTS
    Kinds = {"PARALLEL"}
    Durations = {1, 3}
    Loopcounts = {2}
    MainCalls = {"AddToGroup", "AsyncRun", "SetLoopcount"}
    CallbackCalls <- NoCallbacks
    MaxKids = 2
    MaxCalls = 2
    MaxLag = 1
    MaxDrift = 0
    MaxRounds = 3
PROPERTIES KidsTakeTheirTime
CHECK_DEADLOCK FALSE
