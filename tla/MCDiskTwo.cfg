CONSTANTS
    Callers = {c1, c2}
    Lbas = {0, 5}
    Data = {d1, d2}
    Nothing = Nothing
    CAPACITY = 6
    REG = 2
    TOP = 2
    ATA_TIMEOUT = 2
    Attached = {"drive"}
    Faults = {}
    Late = FALSE
SPECIFICATION Spec
PROPERTY
    ImplementsSectorDevice
