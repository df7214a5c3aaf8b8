\* A request that disconnects is not sent again.
CONSTANTS
    IdMod = 2
    Timer <- MCTimer
    Limit <- MCLimit
    Faults = {}
    MaxUart = 1
    MaxOwed = 1
    MaxTries = 0
    Requests <- OnlyMain
SPECIFICATION Spec
PROPERTY
    AtLeastOnce
