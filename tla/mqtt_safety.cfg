\* The whole stack with every fault, publishing what main.cpp publishes.
CONSTANTS
    IdMod = 2
    Timer <- MCTimer
    Limit <- MCLimit
    Faults = {"create_send", "create", "connect_send", "connect", "refuse", "close", "tx",
              "ENOENT", "EMSGSIZE", "serialize", "reject", "push", "merge"}
    MaxUart = 2
    MaxOwed = 2
    MaxTries = 0
    Requests <- OnlyMain
SPECIFICATION Spec
INVARIANTS
    TypeOK
    Lockstep
    WireOrder
    ConnectedMeansConnected
    CloseIsNoticed
PROPERTIES
    ImplementsRadio
