\* The life of a request of each kind, over connections that may be lost.
CONSTANTS
    IdMod = 2
    Timer <- MCTimer
    Limit <- MCLimit
    Faults = {"close", "merge"}
    MaxUart = 1
    MaxOwed = 1
    MaxTries = 1
    Requests <- AnyRequest
SPECIFICATION Spec
INVARIANTS
    NoFalseAck
    DupHonest
    AtMostOnce
PROPERTY
    ImplementsSession
