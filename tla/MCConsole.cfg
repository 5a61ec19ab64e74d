CONSTANTS
    VGA_WIDTH = 2
    VGA_HEIGHT = 3
    Uarts = {"works", "loops"}
    LINE = 3
    Letters = {"a", "b"}
    ECHO = 1
SPECIFICATION FairSpec
CHECK_DEADLOCK FALSE
INVARIANTS
    TypeOK
    ScreenShowsLine
    SerialShowsLine
    BootIsOrdered
PROPERTY
    BackToThePrompt
