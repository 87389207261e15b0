\* Two attempts from one address and one from another, duplicated datagrams,
\* one resend of each segment, three ping rounds.
CONSTANTS
    c1 = c1
    c2 = c2
    c3 = c3
    s1 = s1
    s2 = s2
    a1 = a1
    a2 = a2
    None = None
    Conn = {c1, c2, c3}
    ServerId = {s1, s2}
    Address = {a1, a2}
    AddressOf <- TwoAddresses
    MaxRound = 3
    Duplicates = TRUE
    MaxOutgoing = 2
    OpenTries = 2
    PingTries = 2
    MaxConnections = 2
SPECIFICATION Spec
SYMMETRY Symmetry
INVARIANTS
    TypeOK
    ConnectedImpliesAccepted
    TablesAgree
    OnePerAddress
    AliveIsFresh
    KeysBeforePing
    IndInv
    TimersMatchState
PROPERTIES
    SessionIsStable
    AttemptRunsDown
    ImplementsSession
CHECK_DEADLOCK FALSE
