CONSTANTS
    HasMemInfo = TRUE
    MEM_UPPER = 57
    LOW_KIB = 8
    FALLBACK_KIB = 32
    WRAP_KIB = 256
    PAGE_KIB = 4
    BITMAP_ROOM = 20
    BITS_PER_WORD = 4
    RESERVED_FRAMES = 4
    PT_ENTRIES = 4
    IDENTITY_TABLES = 3
    HEAP_START_PAGE = 16
    HEAP_INITIAL_PAGES = 1
    HEAP_MAX_PAGES = 5
    GrowthSizes = {1, 2}
    UserPages = {25}
SPECIFICATION Spec
INVARIANTS
    TypeOK
    CounterMatchesBitmap
    AddressSpaceStands
    FramesHaveOneOwner
CHECK_DEADLOCK FALSE
