SPECIFICATION TestsSpec
CONSTANTS
    TestA = TestA
    TestB = TestB
    Users = {TestA, TestB}
    Names = {"foo", "bar", "baz", "blah"}
    LongNames = {}
    EMPTY = ""
    DOT = "."
    Consoles <- MCConsoles
    NR_FILES = 10
    NR_FILE_DESC = 256
    NR_INODE = 16
    NrInodes = 16
    NrSectors = 16
    NR_DEFAULT_FILE_SECTS = 1
    EntriesPerSector = 32
    Paths = {}
    MaxCnt = 4
CHECK_DEADLOCK FALSE
INVARIANT TestsPass
