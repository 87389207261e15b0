\* A client and its router, which has room for one connection.
CONSTANTS
    MaxConnections = 1
    MaxImmediates = 2
SPECIFICATION ClientFairSpec
INVARIANTS
    ClientTypeOK
    CloseMeansStopped
    StreamsWhileOpen
    ClientInv
PROPERTIES
    OpenThenClose
    CloseIsSaid
\* A client that has closed may stop.
CHECK_DEADLOCK FALSE
