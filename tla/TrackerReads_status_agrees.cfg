SPECIFICATION Spec
CHECK_DEADLOCK FALSE
CONSTANTS
    Blocks = {"a", "b"}
    MaxHeight = 2
    OutputsOf <- MCOutputsOf
    Published = {"lag", "synced", "halted", "ready", "height", "reorgs", "epoch", "hash"}
    SyncedThreshold = 2
    MaxLag = 1
    Profiles = {"default"}
    PageLimit = 2
    Cap = 3
    MaxPages = 3
    NoLag = NoLag
    MaxMoves = 2
    MaxFaults = 0
PROPERTIES StatusAgreesWithBuild
