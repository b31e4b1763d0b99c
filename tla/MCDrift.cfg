SPECIFICATION DriftSpec
CONSTANTS
    Node = {"cp", "worker"}
    ControlPlane = {"cp"}
    ClusterName = {}
    Control = {"anonymous", "ciphers"}
    ScopeOf <- MCScopeOf
    Desired <- MCDesired
    TALOS_SATISFIED = {}
    Waivers = {{}, {"ciphers"}}
    Predicate = {"users"}
    SecurityPredicates = {"users"}
    Evidence <- MCEvidence
    Writable <- MCWritable
    Blessed <- MCBlessed
    Scan = {s1}
    ScanSubject = {"cp"}
    Backlog = 1
    MaxEvents = 4
INVARIANTS
    DriftTypeOK
    EvidenceJudged
    SeedAgrees
PROPERTY ScanTrueAtARead
CHECK_DEADLOCK FALSE
