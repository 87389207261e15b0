CONSTANTS
    MaxConnections = 1
    MaxImmediates = 2
SPECIFICATION RouterSpec
PROPERTY
    EndIsQuiet
