CONSTANTS
    Packets <- MCPackets
    POS = 1
    CONFIG = 101
    MouseFaults = {}
    TICKS = 4
    Waits = {0, 2}
    WrapsTicks = FALSE
    Others = {8}
    Opened = {8, 12}
    OpensFirst = FALSE
SPECIFICATION FairSpec
INVARIANTS
    ServiceIsSound
    PacketsStayWhole
    ConfigIsKept
PROPERTIES
    WaitIsExact
    EveryLineIsServed
