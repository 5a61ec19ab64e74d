CONSTANTS
    HEADER_SIZE = 12
    SPLIT_SLACK = 16
    DEFAULT_ALIGN = 4
    WORD = 4
    PAGE_SIZE = 64
    HEAP_START = 256
    HEAP_INITIAL_SIZE = 128
    HEAP_MAX_SIZE = 256
    WIDTH = 10
    USIZE_MAX = 1023
    Sizes = {0, 21, 60, 600, 1014, 1022}
    Aligns = {1, 3, 32}
SPECIFICATION Spec
INVARIANTS
    ListIsSound
    AllocationsAreSound
PROPERTIES
    ImplementsAllocator
CHECK_DEADLOCK FALSE
