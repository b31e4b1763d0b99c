SPECIFICATION Spec
CONSTANTS
    Thread = {t1, t2}
    t1 = t1
    t2 = t2
    MaxSessions = 2
    SessionTTL = 1
    Tool = {"query", "ingest", "stop", "touch", "restart"}
    MaxActions = 1
    ConsentParam = {"absent", "malformed"}
    MaxIds = 3
    MaxPosts = 5
    MaxMints = 1
    MaxTime = 2
SYMMETRY MCSymmetry
INVARIANTS SessionsTypeOK Isolated
PROPERTIES StopIsGlobal NeverRevived LeavesIdleOrOldest NotificationsOnlyTouch
CHECK_DEADLOCK FALSE
