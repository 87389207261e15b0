\* Two attempts from two addresses, room for two connections of either kind,
\* one send of each segment and two ping rounds, duplicated datagrams, two
\* pending immediates.
CONSTANTS
    c1 = c1
    c2 = c2
    s1 = s1
    s2 = s2
    a1 = a1
    a2 = a2
    None = None
    Conn = {c1, c2}
    ServerId = {s1, s2}
    Address = {a1, a2}
    AddressOf <- OwnAddresses
    MaxRound = 2
    Duplicates = TRUE
    MaxOutgoing = 1
    OpenTries = 1
    PingTries = 1
    MaxConnections = 2
    MaxImmediates = 2
SPECIFICATION SystemFairSpec
INVARIANTS
    RouterTypeOK
    StateOwnsTimer
    ServesOnOpenSocket
    StopMeansClosed
    RouterInv
    AnswersOnOpenSocket
    SystemInv
PROPERTIES
    CloseIsAnswered
    StopAdvances
    StopEnds
    ImplementsService
    SilentOnceClosed
    SessionsEnd
