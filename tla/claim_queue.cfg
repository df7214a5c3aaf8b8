\* insert() refuses only when the queue is full.
CONSTANTS
    N_MEMB = 3
    Value = {a}
    Behind <- InUse
    NULL = NULL
SPECIFICATION QueueSpec
PROPERTY
    TakesWhenNotFull
CHECK_DEADLOCK FALSE
