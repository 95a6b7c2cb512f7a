\* Three tasks in any order over four hours, and two lost workers.  A day of
\* readings at first and two days to keep: some cleans find nothing to delete.
SPECIFICATION Spec
CONSTANTS
    DayHours = 2
    Window = 2
    Days = 1
    Keep = 2
    Start = 4
    MaxNow = 7
    MaxJobs = 3
    MaxLosses = 2
INVARIANTS TypeOK OneSeries Aligned
PROPERTIES CalmRefresh KeepsRolling
CHECK_DEADLOCK FALSE
