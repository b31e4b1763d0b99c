SPECIFICATION Spec
CONSTANTS
    Action = {"touch", "restart", "query", "ingest"}
    Mode = "guarded"
    Session = {s1, s2}
    ConsentCeiling <- MCNoCeiling
    Target <- MCHost
    MultiTarget = {"axiom,atlas"}
    Host <- MCHost
    Attr <- MCAttr
    TTL = 1
    MaxPending = 1
    MaxMints = 3
    MaxTime = 1
    MaxActions <- MCNoLimit
    MaxWall <- MCNoLimit
    WallCost = {0}
    HasSentinel = FALSE
    Scope = {}
    Call = {c1, c2, c3}
    Redacts = {TRUE}
    MaxGrants = 0
    MaxRestarts = 0
SYMMETRY MCSymmetry
INVARIANTS
    ApprovedOnce
    GatedWhereRequired
CHECK_DEADLOCK FALSE
