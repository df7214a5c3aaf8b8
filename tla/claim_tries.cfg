\* A request is sent once more than its tries.
CONSTANTS
    IdMod = 2
    Timer <- MCTimer
    Limit <- MCLimit
    Faults = {}
    MaxUart = 1
    MaxOwed = 1
    MaxTries = 1
    Requests <- OnlyQoS2
SPECIFICATION Spec
INVARIANT
    WithinMaxTries
