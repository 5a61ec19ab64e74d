CONSTANTS
    Packets <- MCPackets
    POS = 1
    CONFIG = 101
    MouseFaults = {}
    TICKS = 1
    Waits = {}
    WrapsTicks = FALSE
    Others = {}
    Opened = {}
    OpensFirst = FALSE
SPECIFICATION FairSpec
PROPERTY
    PortIsRead
