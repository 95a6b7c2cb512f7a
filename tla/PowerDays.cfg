\* demo.generate after a dataset that ends in the middle of a day.
SPECIFICATION Spec
CONSTANTS
    DayHours = 2
    Window = 4
    Days = 1
    Keep = 1
    Start = 4
    MaxNow = 5
    MaxJobs = 1
    MaxLosses = 0
INVARIANTS OnePowerRowPerDay
CHECK_DEADLOCK FALSE
