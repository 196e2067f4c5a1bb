SPECIFICATION FairSpec
CONSTANTS
    Clients = {c1, c2}
    Peers <- OnePeer
    k = k
    Keys = {k}
    Torn <- MCTorn
    MaxWrites = 2
    MaxFaults = 1
INVARIANTS
    AgreeWhenCaughtUp
    ConfirmedReceived
PROPERTIES
    FollowerMonotone
    FollowerProgress
    CallsReturn
CHECK_DEADLOCK FALSE
