CONSTANTS
    Threads = {t1, t2}
    Paths <- MCPaths
    NewFiles <- MCNewFiles
    Lengths = {1, 3}
    ReadSizes = {2}
    MOTD_LENGTH = 2
    MAX_OPEN = 1
SPECIFICATION Spec
INVARIANTS
    TreeIsSound
    DescriptorsAreSound
    OffsetsAreExact
