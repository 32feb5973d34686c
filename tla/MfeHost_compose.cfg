\* Three runs of the effect, two deployments of the remote and a manifest that
\* does not fit its script.
CONSTANTS
    t1 = t1
    t2 = t2
    e1 = e1
    e2 = e2
    NoManifest = NoManifest
    MaxRuns = 3
    Manifests <- SomeManifests
    Entries <- TwoEntries
    Registers <- TwoTags
SPECIFICATION FairSpec
INVARIANTS ReadyMeansLoaded RootsFollowTheSlot RelayedOnce
PROPERTIES ReplacedRunsFailSilently StopsLoading
CHECK_DEADLOCK FALSE
