SPECIFICATION EvidenceSpec
CONSTANTS
    Writer = {w1, w2, w3}
    Shapes = {"record", "split"}
    Tears = {"nothing", "piece", "nonutf8", "unended"}
    MaxStarts = 3
    Every = 2
    HasAnchor = TRUE
    EvidenceTears = {"nothing", "torn", "unended"}
    AnchorTears = {"nothing", "torn", "unended"}
    StderrFails = TRUE
    Transports = {"stdio", "http"}
SYMMETRY MCSymmetry
INVARIANTS 
    EvidenceTypeOK
    NothingForgotten
    VerifiesAtRest
    SoundLogVerifies
    RecordsKept
    HeadIsTail
    CheckpointsHold
    AnchorNotAhead
PROPERTY AppendOnly
CHECK_DEADLOCK FALSE
