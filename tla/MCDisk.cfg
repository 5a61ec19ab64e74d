CONSTANTS
    Callers = {c1}
    Lbas = {0, 2, 5, 9}
    Data = {d1, d2}
    Nothing = Nothing
    CAPACITY = 6
    REG = 2
    TOP = 2
    ATA_TIMEOUT = 2
    Attached = {"drive", "floating", "none"}
    Faults = {"error", "stuck"}
    Late = FALSE
SPECIFICATION FairSpec
INVARIANTS
    DriverIsSound
PROPERTIES
    ImplementsSectorDevice
    CallsEnd
