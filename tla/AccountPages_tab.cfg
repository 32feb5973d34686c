\* One tab, two accounts, and three things users and other tabs do.
CONSTANTS
    Users = {u1, u2}
    Known = {u1}
    NoUser = NoUser
    MaxMoves = 3
SPECIFICATION FairSpec
INVARIANTS LiveLoadWins FormErrorIsCurrent
PROPERTIES FormReleases ProfileOrError
CHECK_DEADLOCK FALSE
