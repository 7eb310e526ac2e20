SPECIFICATION Spec
CONSTANTS
    Effectors = {e1, e2}
    Sinks = {k1, k2}
    Anims = {a1, a2}
    Classes = {"zoom", "scroll"}
    NoEff = NoEff
    NoSink = NoSink
    NoAnim = NoAnim
    Custom = {"scroll"}
    Length = 2
    Careful = {"complete", "one_anim", "one_run", "stop_once", "over_first",
               "auto_delete", "own_sink"}
INVARIANTS NoFault NothingLeftBehind BeginEndPaired
PROPERTY CompositionsClean
CHECK_DEADLOCK FALSE
