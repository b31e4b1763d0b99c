SPECIFICATION Spec
CONSTANTS
    Action = {"touch", "stop", "rmroot"}
    Mode = "guarded"
    Session = {s1}
    ConsentCeiling <- MCNoCeiling
    Target <- MCHost
    MultiTarget = {"axiom,atlas"}
    Host <- MCHost
    Attr <- MCAttr
    TTL = 1
    MaxPending = 1
    MaxMints = 2
    MaxTime = 0
    MaxActions = 1
    MaxWall = 1
    WallCost = {0, 1}
    HasSentinel = TRUE
    Scope = {}
    Call = {c1, c2, c3}
    Redacts = {TRUE}
    MaxGrants = 0
    MaxRestarts = 1
SYMMETRY MCSymmetry
INVARIANTS
    BudgetExact
    OneRecordPerRun
    StopHolds
CHECK_DEADLOCK FALSE
