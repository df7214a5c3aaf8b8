\* Nothing waits for ever, although modem, network and broker owe nothing.
CONSTANTS
    IdMod = 2
    Timer <- MCTimer
    Limit <- MCLongLimit
    Faults = {"refuse"}
    MaxUart = 1
    MaxOwed = 1
    MaxTries = 0
    Requests <- MixedRequests
SPECIFICATION Spec
PROPERTIES
    WaitsRunOut
    WaitsEnd
    ClientWaitsEnd
    RequestSettles
