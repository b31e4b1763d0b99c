SPECIFICATION FairSpec
CONSTANTS
    Action = {"stop", "restart", "query"}
    Mode = "guarded"
    Session = {s1}
    ConsentCeiling <- MCNoCeiling
    Target <- MCHost
    MultiTarget = {"axiom,atlas"}
    Host <- MCHost
    Attr <- MCAttr
    TTL = 1
    MaxPending = 1
    MaxMints = 2
    MaxTime = 0
    MaxActions = 0
    MaxWall <- MCNoLimit
    WallCost = {0}
    HasSentinel = FALSE
    Scope <- MCScope
    Call = {c1, c2}
    Redacts = {TRUE}
    MaxGrants = 1
    MaxRestarts = 1
PROPERTIES
    EveryRunAudited
    EmergencyStopTakesHold
CHECK_DEADLOCK FALSE
