SPECIFICATION ActSpec
CONSTANTS
    Action = {"site.yml", "other.yml", "upgrade", "reset", "apply", "nothing",
              "ingest", "stop"}
    Mode = "open"
    Session = {s1}
    ConsentCeiling <- MCNoCeiling
    Target <- MCHost
    MultiTarget = {"talos1,talos2"}
    Host <- MCHost
    Attr <- MCAttr
    TTL = 1
    MaxPending = 1
    MaxMints = 2
    MaxTime = 0
    MaxActions <- MCNoLimit
    MaxWall <- MCNoLimit
    WallCost = {0}
    HasSentinel = FALSE
    Scope = {}
    Call = {c1, c2}
    Redacts = {TRUE}
    MaxGrants = 0
    MaxRestarts = 0
    Order = {"play", "tofu", "upgrade", "reset", "ssh", "runbook"}
    OrderAttr <- MCOrderAttr
    NoCommand = "nothing"
    Roots = {"ansible", "opentofu"}
    Kin = {"none", "holding", "escaped"}
INVARIANTS
    ActuationTypeOK
    ChangedAsApproved
    AnsweredMeansEnded
    AnnouncedWasMinted
PROPERTIES
    HungChildEnds
CHECK_DEADLOCK FALSE
