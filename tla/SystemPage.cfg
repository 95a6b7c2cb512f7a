\* Two overlapping polls, readyz and cached requests on three connections: the
\* database or the API restarts, rows are committed out of order.
SPECIFICATION FairSpec
CONSTANTS
    p1 = p1
    p2 = p2
    probe = probe
    c1 = c1
    Requests <- MCRequests
    Cached <- MCCached
    Polls <- MCPolls
    Probe = probe
    Size = 3
    Keep = 2
    MaxFaults = 2
    MaxRows = 2
    MaxLoad = 1
INVARIANTS TypeOK
PROPERTIES OnlyCrossedStepsBack PageCatchesUp ReadyAgain
