SPECIFICATION ReadWriteSpec
CONSTANTS
    Descs = {d1, d2}
    SECTOR_SIZE = 4
    NR_DEFAULT_FILE_SECTS = 2
    FsbufSectors = 4
    FirstSector = 3
    Layouts <- MCLayouts
    Radix = 2
    NR_PART_PER_DRIVE = 2
    NR_SUB_PER_PART = 3
    NO_PART = NO_PART
    DOS_PART = DOS_PART
    EXT_PART = EXT_PART
    Word = 2
    Lens <- MCLens
    Reach = 12
CHECK_DEADLOCK FALSE
INVARIANTS
    ReadWriteTypeOK
    WriteExact
    ReadExact
    PositionsKept
    HangCause
    PartitionsFound
