SPECIFICATION TasksSpec
CONSTANTS
    a = a
    b = b
    tty = tty
    sys = sys
    hd0 = hd0
    fs0 = fs0
    Users = {a, b}
    Procs <- MCProcs
    Tasks <- MCTasks
    TASK_TTY = tty
    TASK_SYS = sys
    TASK_HD = hd0
    TASK_FS = fs0
    IntTasks = {hd0}
    Bufs = {"msg", "driver_msg", "tick_msg", "int_msg"}
    Types <- MCTypes
    NULL = NULL
    NO_TASK = NO_TASK
    ANY = ANY
    INTERRUPT = INTERRUPT
    HARD_INT <- MCHardInt
    JUNK <- MCJunk
    MaxSectors = 2
    MaxRequests = 1
    Tables = 1
    OpensTty = TRUE
SYMMETRY UserSymmetry
INVARIANTS
    TasksTypeOK
    NoMessageStops
    InterruptsAwaited
    DriveProtocol
    OwnAnswer
CHECK_DEADLOCK FALSE
