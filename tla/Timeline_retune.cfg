SPECIFICATION Spec
CONSTANTS
    Durations = {1, 2}
    Loopcounts = {1, 2}
    Turns = {"FORWARD", "BACKWARD"}
    Keepalive = {TRUE, FALSE}
    MainCalls = {"AsyncRun", "SetDirection", "SetLoopcount", "SetDuration", "SetKeepalive"}
    CallbackCalls = {"SetDirection", "SetLoopcount", "SetDuration"}
    MaxLag = 2
    MaxTime = 4
PROPERTIES ShownInRange FreedAfterFinish
CHECK_DEADLOCK FALSE
