SPECIFICATION Spec
CONSTANTS
    o1 = o1
    o2 = o2
    o3 = o3
    NoCall = NoCall
    NoOutpoint = NoOutpoint
    Outpoints = {o1}
    Builds = {b1}
    Cancels = {c1, c2, c3}
    Jobs <- CommitJobs
    TxOf <- TxOfOutpoint
    LegacyInputs = {o1}
    UnconfirmedInputs = {}
    TTL = 2
    MaxClock = 4
SYMMETRY Symmetry
INVARIANTS
    ReservedIffClaimed
PROPERTIES
    ImplementsLeases
