CONSTANTS
    c1 = c1
    c2 = c2
    Conns = {c1, c2}
    MaxConnections = 2
    MaxBroadcasts = 2
SPECIFICATION Spec
INVARIANTS
    TypeOK
    PermitsAccountedFor
    NothingLost
PROPERTIES
    ConnectionsEnd
CHECK_DEADLOCK FALSE
