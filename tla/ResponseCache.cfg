\* Two requests for two keys against a list that changes twice, a meter
\* created once, Redis crashes and cache cleans; fail open: every request that
\* reaches the cache is answered or fails.
SPECIFICATION FairSpec
CONSTANTS
    list = list
    meter = meter
    r1 = r1
    r2 = r2
    Keys <- MCKeys
    Requests <- MCTwoRequests
    DetailKeys <- MCDetailKeys
    Writes <- MCWrites
    Ttl <- MCTtl
    RedisUrl = TRUE
    MaxVersion = 2
    MaxTime = 2
INVARIANTS TypeOK StaleWindow FreshOnMiss
PROPERTIES CleanLeavesFresh Answered
CHECK_DEADLOCK FALSE
