CONSTANTS
    IDLE = IDLE
    P1 = P1
    P2 = P2
    NIL = NIL
    Procs <- Two
    idle_process <- IDLE
    NULL <- NIL
    Priorities = {1}
    DEFAULT_QUANTUM = 1
    CallsMasked = TRUE
    RemoveFirst = TRUE
    StackOutcomes = {TRUE}
SPECIFICATION Spec
PROPERTY
    SchedulingKeepsQueued
