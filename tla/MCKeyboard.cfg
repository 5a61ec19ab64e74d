CONSTANTS
    KEYBOARD_BUFFER_SIZE = 3
    Letters = {"a"}
    Symbols = {"1"}
    Silent = {"f0"}
SPECIFICATION FairSpec
INVARIANTS
    RingIsSound
PROPERTIES
    ExtendedKeysAreSilent
    IsABoundedQueue
    EveryKeyIsRead
