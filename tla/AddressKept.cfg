\* Two attempts from one address, a client and its restart.
CONSTANTS
    c1 = c1
    c2 = c2
    c3 = c3
    s1 = s1
    s2 = s2
    a1 = a1
    a2 = a2
    None = None
    Conn = {c1, c2}
    ServerId = {s1}
    Address = {a1}
    AddressOf <- SharedAddress
    MaxRound = 2
    Duplicates = FALSE
    MaxOutgoing = 2
    OpenTries = 2
    PingTries = 2
    MaxConnections = 1
SPECIFICATION FairSpec
PROPERTY
    AddressIsFreed
CHECK_DEADLOCK FALSE
