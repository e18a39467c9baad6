SPECIFICATION Spec
CONSTANTS
    u1 = u1
    u2 = u2
    u3 = u3
    hd = hd
    Procs = {u1, u2, u3, hd}
    Tasks = {hd}
    IntTasks = {hd}
    Bufs = {b}
    Types = {req}
    NULL = NULL
    NO_TASK = NO_TASK
    ANY = ANY
    INTERRUPT = INTERRUPT
    HARD_INT = HARD_INT
    JUNK = JUNK
SYMMETRY UserSymmetry
INVARIANTS
    TypeOK
    QueueInv
    NoLostWakeup
    DeadlockExact
    WedgeCause
PROPERTIES
    ReleasedByPartner
    ImplementsRendezvous
CHECK_DEADLOCK FALSE
