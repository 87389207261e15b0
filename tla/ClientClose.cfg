\* close() before 'listen'.
CONSTANTS
    MaxConnections = 1
    MaxImmediates = 2
SPECIFICATION ClientFairSpec
PROPERTY
    SocketIsClosed
CHECK_DEADLOCK FALSE
