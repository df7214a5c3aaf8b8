\* The DISCONNECT after an acknowledged request is lost.
CONSTANTS
    IdMod = 2
    Timer <- MCTimer
    Limit <- MCLimit
    Faults = {"close"}
    MaxUart = 2
    MaxOwed = 1
    MaxTries = 0
    Requests <- OnlyMain
SPECIFICATION Spec
PROPERTY
    DisconnectIsSent
