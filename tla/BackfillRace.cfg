\* The rule of the deployment guide against a concurrent seed.
SPECIFICATION Spec
CONSTANTS
    b1 = b1
    b2 = b2
    Runs <- MCTwoRuns
    MaxWrites = 1
PROPERTIES WritesOnlyWhenEmpty
CHECK_DEADLOCK FALSE
