\* Both signals, each sent up to twice, at any point of the process's life.
CONSTANTS
    Signals = {SIGINT, SIGTERM}
    Requests = {r1, r2, r3}
    MaxSignals = 2
SPECIFICATION FairSpec
INVARIANTS CleanExit PoolOutlivesRequests CutIsExplained
PROPERTY ShutdownTerminates
CHECK_DEADLOCK FALSE
