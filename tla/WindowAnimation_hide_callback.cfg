SPECIFICATION Spec
CONSTANTS
    Windows = {w1, w2}
    Contexts = {c1, c2}
    Moves = {m1}
    Places = {near, large}
    Own = {w1}
    Wide = {large}
    MaxDCs = 5
    MaxDepth = 2
    NoWin = NoWin
    NoCtx = NoCtx
    NoMove = NoMove
    NoDC = NoDC
    Invalid = Invalid
    Careful = {"fresh_info", "one_context", "one_window", "false_is_gone", "run_once"}
INVARIANT CallbackSeesWindow
