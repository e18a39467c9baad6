SPECIFICATION TerminalSpec
CONSTANTS
    KB_IN_BYTES = 2
    codes <- MCcodes
    MaxStrokes = 3
    NR_CONSOLES = 2
    SCREEN_WIDTH = 2
    SCREEN_SIZE = 4
    v_mem_limit = 5
    TTY_IN_BYTES = 2
    Printed <- MCPrinted
    MaxPrinted = 2
INVARIANTS
    TerminalTypeOK
    ModifiersTrue
    StuckCause
    ConsoleInside
    EchoAtomic
    ScreenShowsConsole
PROPERTIES
    RingIsFifo
CHECK_DEADLOCK FALSE
ACTION_CONSTRAINT OrderMatters
CONSTRAINT Bounded
