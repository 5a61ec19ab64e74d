CONSTANTS
    IDLE = IDLE
    P1 = P1
    P2 = P2
    NIL = NIL
    Procs <- Two
    idle_process <- IDLE
    NULL <- NIL
    Priorities = {0, 4}
    DEFAULT_QUANTUM = 2
    CallsMasked = TRUE
    RemoveFirst = TRUE
    StackOutcomes = {TRUE}
SPECIFICATION Spec
INVARIANTS
    RingsAreSound
    RunningIsCurrent
    ContextsAreOwn
PROPERTY
    StrictPriority
