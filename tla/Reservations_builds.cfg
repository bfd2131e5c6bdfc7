SPECIFICATION Spec
CONSTANTS
    o1 = o1
    o2 = o2
    o3 = o3
    NoCall = NoCall
    NoOutpoint = NoOutpoint
    Outpoints = {o1, o2, o3}
    Builds = {b1, b2}
    Cancels = {}
    Jobs <- MixedJobs
    TxOf <- TxOfOutpoint
    LegacyInputs = {o1}
    UnconfirmedInputs = {o2}
    TTL = 2
    MaxClock = 4
SYMMETRY Symmetry
INVARIANTS
    LiveClaimsExclusive
    NoConflictingResults
    NoStaleDuplicateRefusal
    KeyBoundToFirstInput
    BuildReceiptsComplete
    NoMutualStarvation
