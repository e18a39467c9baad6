SPECIFICATION FilesSpec
CONSTANTS
    Users = {u1, u2}
    Names = {foo, bar, baz}
    LongNames = {}
    EMPTY = EMPTY
    DOT = DOT
    Consoles <- MCConsoles
    NR_FILES = 2
    NR_FILE_DESC = 3
    NR_INODE = 3
    NrInodes = 5
    NrSectors = 10
    NR_DEFAULT_FILE_SECTS = 2
    EntriesPerSector = 4
    Paths <- MCPaths
    MaxCnt = 2
SYMMETRY OfBoth
CHECK_DEADLOCK FALSE
INVARIANTS
    DescriptorsOwned
    CountsCover
PROPERTIES
    ImplementsHandles
