SPECIFICATION Spec
CONSTANTS
    Requests <- MCRequests
    Networks <- MCNetworks
    MaxHeight = 1
    MaxRatio = 150
    MaxInput = 16777216
    SafeMax = 7
    WireMax = 12
    FeeMax = 6
    IndexMax = 3
    MaxUtxos = 2
    MaxOutputs = 2
    PaymentFloor = 2
    None = None
CHECK_DEADLOCK FALSE
INVARIANTS
    CarriersReassemble
    NothingSilentlyLost
    RevealRebuildsChunks
    RevealRelays
    ValidatorAgrees
