\* The README's bound on staleness, against one request and one change.
SPECIFICATION HistorySpec
CONSTANTS
    list = list
    meter = meter
    r1 = r1
    r2 = r2
    Keys <- MCKeys
    Requests <- MCTwoRequests
    DetailKeys <- MCDetailKeys
    Writes <- MCWrites
    Ttl <- MCTtl
    RedisUrl = TRUE
    MaxVersion = 1
    MaxTime = 3
INVARIANT StaleForOneTtl
CHECK_DEADLOCK FALSE
