\* Two overlapping runs, the seed and the worker's tasks: what they may write
\* and report, and that they end.
SPECIFICATION FairSpec
CONSTANTS
    b1 = b1
    b2 = b2
    Runs <- MCTwoRuns
    MaxWrites = 2
INVARIANTS TypeOK ExactlyOnce
PROPERTIES CalmVerdict RunsEnd
CHECK_DEADLOCK FALSE
