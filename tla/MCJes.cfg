CONSTANTS
    MAX_JOBS = 3
    MAX_ASID = 2
    JobPriorities = {0, 1, 2}
    MAX_SUBMITS = 6
SPECIFICATION JesFairSpec
INVARIANTS
    JobsAreSound
PROPERTIES
    DispatchOrder
    EveryJobEnds
