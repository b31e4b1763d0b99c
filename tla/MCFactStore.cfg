SPECIFICATION StoreSpec
CONSTANTS
    Instance = {i1, i2}
    Key = {k1, k2}
    Content = {c1, c2}
    Backends = {"sqlite", "postgres"}
    MaxCalls = 4
SYMMETRY MCSymmetry
INVARIANTS
    StoreTypeOK
    CasNoLostUpdate
    AnswersAreTrue
    NoWaitCycle
PROPERTY ImplementsFactLog
CHECK_DEADLOCK FALSE
