CONSTANTS
    Packets <- MCPackets
    POS = 3
    CONFIG = 101
    MouseFaults = {}
    TICKS = 4
    Waits = {}
    WrapsTicks = FALSE
    Others = {}
    Opened = {8, 12}
    OpensFirst = FALSE
SPECIFICATION Spec
PROPERTY
    MovesAreExact
