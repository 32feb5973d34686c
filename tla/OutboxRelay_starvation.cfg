\* As many permanently refused entries as a batch holds.
CONSTANTS
    Drains = {d1}
    MaxRows = 2
    Stamps = {1, 2}
    Limit = 1
    MaxPoison = 1
    AttemptCap = 1
    MaxCrashes = 0
    MaxLostAcks = 0
SPECIFICATION FairSpec
PROPERTY EveryRowPublished
CHECK_DEADLOCK FALSE
