\* Two workers that may vanish or report twice, every form of schedule, a
\* clock that may go back.
CONSTANTS
    Workers = {w1, w2}
    Keys = {k1}
    NoKey = NoKey
    MaxJobs = 2
    Budgets = {1, 2}
    Schedules <- EverySchedule
    Millisecond = 2
    MaxNow = 4
    MaxStepBacks = 1
    MaxReports = 2
    MaxAbandons = 1
SPECIFICATION Spec
SYMMETRY WorkerSymmetry
INVARIANTS RetryBudget ExclusiveClaim OneJobPerKey StartsInOrder
PROPERTIES NeverEarly SettledIsFinal
CHECK_DEADLOCK FALSE
