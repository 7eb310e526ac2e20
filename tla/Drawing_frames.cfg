SPECIFICATION Spec
CONSTANTS
    Classes = {"push", "clear", "zip", "zoom", "centersplit", "leafwindow"}
    Sizes <- MCSizes
    CurveSet <- AllCurves
    Rows = {0, 2, 3}
    Steps = 4
    Grid = 22
    Careful = {"set_first", "inside", "painted", "fits", "one_zoom", "to_end"}
INVARIANTS Settled Covered AsRedrawn CurvesKeepShape
PROPERTY NoFlicker
