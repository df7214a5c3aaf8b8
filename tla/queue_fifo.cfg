\* Any calls on a small queue; it stops where it writes behind its array.
CONSTANTS
    N_MEMB = 4
    Value = {a, b}
    Behind <- Either
    NULL = NULL
SPECIFICATION QueueSpec
INVARIANTS
    QueueTypeOK
    SlotIsFree
    WellLinked
PROPERTIES
    ImplementsFifo
    ResetFrees
CHECK_DEADLOCK FALSE
