\* Three attempts for one slot of the router, one attempt at a time from one
\* address, no duplicates: what the timers alone bring about.
CONSTANTS
    c1 = c1
    c2 = c2
    c3 = c3
    s1 = s1
    s2 = s2
    a1 = a1
    a2 = a2
    None = None
    Conn = {c1, c2, c3}
    ServerId = {s1, s2}
    Address = {a1, a2}
    AddressOf <- TwoAddresses
    MaxRound = 2
    Duplicates = FALSE
    MaxOutgoing = 1
    OpenTries = 2
    PingTries = 2
    MaxConnections = 1
SPECIFICATION FairSpec
INVARIANTS
    TablesAgree
PROPERTIES
    AttemptEnds
    DeadPeerNoticed
CHECK_DEADLOCK FALSE
