SPECIFICATION Spec
CONSTANTS
    Roles = {"standalone", "leader", "follower"}
    Workers = {w1, w2}
    Conns = {c1, c2, c3}
    MaxConnections = 2
    None = None
INVARIANTS
    LimitKept
    ShutdownDrains
PROPERTIES
    QueuedServed
    SignalEnds
CHECK_DEADLOCK FALSE
