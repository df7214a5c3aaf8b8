\* A CONNACK of an earlier connection is taken for this one's.
CONSTANTS
    IdMod = 2
    Timer <- MCTimer
    Limit <- MCLimit
    Faults = {"close", "push"}
    MaxUart = 2
    MaxOwed = 1
    MaxTries = 0
    Requests <- OnlyMain
SPECIFICATION Spec
INVARIANT
    ConnectedMeansAccepted
