\* kpis.refresh while the backfill commits; no worker is lost.
SPECIFICATION Spec
CONSTANTS
    DayHours = 2
    Window = 4
    Days = 1
    Keep = 1
    Start = 4
    MaxNow = 5
    MaxJobs = 1
    MaxLosses = 0
PROPERTIES RefreshAggregates
CHECK_DEADLOCK FALSE
