CONSTANTS
    OuterLocks = {ROOT, FDS}
    HEAP = HEAP
    Irqs = {0, 1}
    MAX_CALLS = 3
SPECIFICATION MutexFairSpec
INVARIANTS
    CriticalSectionsExclude
    FlagIsRestored
PROPERTY TimerIsTaken
