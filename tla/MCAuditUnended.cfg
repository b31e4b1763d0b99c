SPECIFICATION LogSpec
CONSTANTS
    Writer = {w1, w2, w3, w4}
    Shapes = {"record"}
    Tears = {"nothing", "unended"}
    StderrFails = FALSE
    MaxStarts = 3
SYMMETRY MCSymmetry
INVARIANT RestartContinuesChain
CHECK_DEADLOCK FALSE
