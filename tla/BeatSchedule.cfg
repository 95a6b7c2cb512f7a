\* A daily entry and a more frequent one over two midnights, two faults: which
\* days are summarised, and what a worker finds that was away.
SPECIFICATION Spec
CONSTANTS
    kpis = kpis
    metrics = metrics
    Entries <- MCEntries
    Kpis = kpis
    Period <- MCPeriod
    Expires <- MCExpires
    DayLength = 3
    MaxTime = 7
    MaxFaults = 2
INVARIANTS TypeOK QuietDays NoBurst
CHECK_DEADLOCK FALSE
