SPECIFICATION Spec
CONSTANTS
    Durations = {2}
    Loopcounts = {1, 2}
    Turns = {"FORWARD", "BACKWARD"}
    Keepalive = {TRUE}
    MainCalls = {"AsyncRun", "Stop", "Pause", "Resume", "SetDirection", "SetLoopcount"}
    CallbackCalls = {"AsyncRun", "Stop", "Pause", "Resume", "SetDirection"}
    MaxLag = 2
    MaxTime = 4
INVARIANTS NoDrift NeverAhead LoopCallbacksMatch FinishedOnce
PROPERTIES EndsAtFarEnd LeftAloneEnds
CHECK_DEADLOCK FALSE
