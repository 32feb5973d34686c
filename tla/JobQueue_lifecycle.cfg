\* One report per claim: the abstract life of a job, and its end.
CONSTANTS
    Workers = {w1, w2}
    Keys = {k1}
    NoKey = NoKey
    MaxJobs = 2
    Budgets = {1, 2}
    Schedules <- CoarseSchedules
    Millisecond = 2
    MaxNow = 4
    MaxStepBacks = 1
    MaxReports = 1
    MaxAbandons = 1
SPECIFICATION FairSpec
PROPERTIES ImplementsLifecycle EveryJobSettles
CHECK_DEADLOCK FALSE
