SPECIFICATION Spec
CONSTANTS
    Animations = {a1, a2, a3}
    ListHead = ListHead
    Keepalive = {TRUE}
    CallsIn <- DeleteCalls
    OwnCallsIn <- OwnDelete
    Careful = {}
    Length = 1
    MaxCalls = 6
    MaxDepth = 6
SYMMETRY Symmetry
INVARIANTS ListSafe NoUseAfterFree
CHECK_DEADLOCK FALSE
