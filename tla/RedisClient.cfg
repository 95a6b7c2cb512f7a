\* Three coroutines of one event loop, then two loops of one each.
SPECIFICATION Spec
CONSTANTS
    a1 = a1
    a2 = a2
    a3 = a3
    t1 = t1
    t2 = t2
    Calls <- MCCalls
    LoopOf <- MCLoopOf
INVARIANTS TypeOK OwnLoop VerifiedStays OnlyFailedStayOpen
CHECK_DEADLOCK FALSE
