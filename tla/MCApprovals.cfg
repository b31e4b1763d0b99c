SPECIFICATION ApprovalsSpec
CONSTANTS
    a1 = a1
    a2 = a2
    Action = {a1, a2}
    Target = {"axiom", "atlas"}
    MultiTarget = {}
    Host = {"axiom", "atlas"}
    Attr <- MCAttr
    Mode = "guarded"
    Session = {s1, s2}
    ConsentCeiling <- MCCeiling
    TTL = 1
    MaxPending = 2
    MaxMints = 3
    MaxTime = 2
INVARIANTS
    SingleUse
    PendingBounded
    HonouredAsMinted
PROPERTY ImplementsNonce
