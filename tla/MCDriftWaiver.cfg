SPECIFICATION DriftSpec
CONSTANTS
    Node = {"cp", "worker"}
    ControlPlane = {"cp"}
    ClusterName = {}
    Control = {"anonymous", "ciphers"}
    ScopeOf <- MCScopeOf
    Desired <- MCDesired
    TALOS_SATISFIED = {}
    Waivers = {{}, {"ciphers"}}
    Predicate = {"users"}
    SecurityPredicates = {"users"}
    Evidence <- MCEvidence
    Writable = {}
    Blessed = {}
    Scan = {s1}
    ScanSubject = {}
    Backlog = 1
    MaxEvents = 3
INVARIANT WaivedNeverAlerts
CHECK_DEADLOCK FALSE
