CONSTANTS
    Packets <- MCPackets
    POS = 1
    CONFIG = 101
    MouseFaults = {}
    TICKS = 1
    Waits = {}
    WrapsTicks = FALSE
    Others = {7, 15}
    Opened = {7, 12, 15}
    OpensFirst = FALSE
SPECIFICATION FairSpec
INVARIANTS
    ServiceIsSound
    PacketsStayWhole
    ConfigIsKept
PROPERTIES
    WaitIsExact
    EveryLineIsServed
