SPECIFICATION FairSchedulerSpec
CONSTANTS
    NR_ALL = 5
    priority <- MCpriority
    TASK_HD = 4
    Polling = {2}
INVARIANTS
    SchedulerTypeOK
    CurrentCanRun
    SharesKept
PROPERTIES
    ScheduleEnds
    EveryoneRuns
