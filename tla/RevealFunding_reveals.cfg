SPECIFICATION RevealSpec
CHECK_DEADLOCK FALSE
CONSTANTS
    Dust = 10
    OutputFloor = 14
    BurnBackstop = 3
    SuggestedRelayMultiplier = 2
    Kilo = 10
    ChangeBytes = 4
    InputBytes = 7
    MaxInputs = 2
    StrippedInput = 6
    None = None
    Asks <- MCAllAsks
    Calls <- MCCalls
    Packages <- MCPackages
INVARIANTS NothingBurned FeeWithinBounds RefusedOnlyUnfunded PackagesAtTarget LegsPayTheReveal
