\* Three runs of the scripts in any order, two of them interrupted.
CONSTANTS
    Surfaces <- FourSurfaces
    Modes <- OneOfEachMode
    ServiceModes = {"central-auth-service"}
    DefaultMode = "better-auth-embedded"
    Texts <- TwoTexts
    SkippedTexts <- OneSkipped
    Names = {Default, Acme, Globex}
    Default = Default
    MaxRuns = 3
    MaxInterrupts = 2
SPECIFICATION Spec
INVARIANTS CommitPointsLast OnlyTornDisagrees AuthAgrees
INVARIANT BootstrapWorks
CHECK_DEADLOCK FALSE
