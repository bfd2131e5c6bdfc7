SPECIFICATION MCSpec
CHECK_DEADLOCK FALSE
CONSTANTS
    quote = quote
    build = build
    None = None
    Quotes = {quote}
    Builds = {build}
    Nodes <- MCNodes
    Estimates <- MCEstimates
    DefaultRelay = 1
    RelayMultiplier = 10
    SanityCeiling = 60
    PerVbyte = 10
    SuggestedCap = 4
    grandparent = grandparent
    parent = parent
    Txids <- MCTxids
    Spends <- MCSpends
    RootLists <- MCRootLists
    first = first
    second = second
    a = a
    b = b
    c = c
    Absent = Absent
    Drafts = {first, second}
    Outpoints = {a, b, c}
    Value <- MCValue
    Rank <- MCRank
    Listings <- MCListings
    Options <- MCOptions
INVARIANTS FeeHasItsSource DeadNodeIsWaitedForOnce QuoteIsOrdered ListingOrderIrrelevant SpendableAreCandidates
PROPERTIES BranchesCarried
