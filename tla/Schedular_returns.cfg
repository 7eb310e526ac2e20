SPECIFICATION FairSpec
CONSTANTS
    Animations = {a1, a2}
    ListHead = ListHead
    Keepalive = {TRUE, FALSE}
    CallsIn <- RunCalls
    OwnCallsIn <- None
    Careful = {}
    Length = 1
    MaxCalls = 4
    MaxDepth = 5
PROPERTIES BlockingCallsReturn Reported RemoveFreed
CHECK_DEADLOCK FALSE
