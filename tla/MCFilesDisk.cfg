SPECIFICATION FilesSpec
CONSTANTS
    Users = {u1}
    Names = {foo, bar, baz}
    LongNames = {long}
    EMPTY = EMPTY
    DOT = DOT
    Consoles <- MCConsoles
    NR_FILES = 1
    NR_FILE_DESC = 1
    NR_INODE = 6
    NrInodes = 7
    NrSectors = 11
    NR_DEFAULT_FILE_SECTS = 2
    EntriesPerSector = 5
    Paths <- MCNames
    MaxCnt = 2
SYMMETRY OfNames
CHECK_DEADLOCK FALSE
INVARIANTS
    FilesTypeOK
    CopiesAgree
    MapsAgree
    EntriesInUse
    NumbersSuffice
