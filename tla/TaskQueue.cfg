\* One task that may expire, two workers, a publisher that may send it twice,
\* two things that go wrong: safety, and the promise of the abstract queue
\* with its liveness.
SPECIFICATION FairSpec
CONSTANTS
    beat = beat
    w1 = w1
    w2 = w2
    Tasks <- MCBeatTask
    Expiring <- MCBeatTask
    Workers <- MCTwoWorkers
    MaxPush = 2
    MaxFaults = 2
INVARIANTS TypeOK NothingForgotten ResultHonest RepeatsNeedFaults
PROPERTIES KeepsPromise
CHECK_DEADLOCK FALSE
