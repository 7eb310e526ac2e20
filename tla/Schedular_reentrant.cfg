SPECIFICATION Spec
CONSTANTS
    Animations = {a1, a2}
    ListHead = ListHead
    Keepalive = {TRUE, FALSE}
    CallsIn <- ReentrantCalls
    OwnCallsIn <- None
    Careful = {"stop_once", "one_change"}
    Length = 1
    MaxCalls = 5
    MaxDepth = 6
INVARIANTS TypeOK CursorSafe ActiveListed
PROPERTIES KeepsPromise
CHECK_DEADLOCK FALSE
