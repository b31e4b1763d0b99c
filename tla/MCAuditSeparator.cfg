SPECIFICATION LogSpec
CONSTANTS
    Writer = {w1, w2, w3, w4}
    Shapes = {"record", "split"}
    Tears = {}
    StderrFails = FALSE
    MaxStarts = 3
SYMMETRY MCSymmetry
INVARIANT WrittenLinesVerify
CHECK_DEADLOCK FALSE
