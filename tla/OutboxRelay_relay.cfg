\* Two overlapping drains, a crash, an acknowledgement lost for each entry, an
\* entry the bus never accepts.
CONSTANTS
    Drains = {d1, d2}
    MaxRows = 3
    Stamps = {1}
    Limit = 2
    MaxPoison = 1
    AttemptCap = 1
    MaxCrashes = 1
    MaxLostAcks = 1
SPECIFICATION FairSpec
INVARIANT DeliveredWithinBounds
PROPERTY EveryRowPublished
CHECK_DEADLOCK FALSE
