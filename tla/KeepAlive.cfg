\* The durations of connection.js; a network within Rtt, or a slow one.
CONSTANTS
    Rtt = 500
    PingMax = 5000
    Transits = {100, 240, 3000}
SPECIFICATION KeepAliveSpec
INVARIANTS
    KeepAliveTypeOK
    DeathIsNoticed
    NoStrayPong
    KeepAliveInv
PROPERTIES
    ReadyOutlivesPing
\* Both sides may end, and then nothing happens.
CHECK_DEADLOCK FALSE
