CONSTANTS
    Sectors = {0, 1, 2}
    Writers = {w1}
    MAX_ENTRIES = 2
    MAX_WRITES = 2
    ReadOutcomes = {"ok"}
    WriteOutcomes = {"ok"}
SPECIFICATION CacheSpec
INVARIANTS
    CacheIsSound
    ReadsNeverGoBack
PROPERTY
    ReadsKeepTheBound
