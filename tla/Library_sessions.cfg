SPECIFICATION Spec
CONSTANTS
    Clients = {c1, c2}
    Anims = {a1, a2}
    Length = 2
    MaxSessions = 2
    MaxStrays = 1
INVARIANTS TimersOwned HoldersAreSafe
PROPERTIES LeaksReported KeepsUp
CHECK_DEADLOCK FALSE
