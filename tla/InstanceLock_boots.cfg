SPECIFICATION FairSpec
CHECK_DEADLOCK FALSE
CONSTANTS
    b1 = b1
    b2 = b2
    node = node
    nodeByHand = nodeByHand
    Boots = {b1, b2}
    Pids = {p1, p2, p3}
    CommandOf <- MCTwoCommands
    OldEncoder = OldEncoder
    Stranger = Stranger
    OldCommand = node
    StrangerCommand = StrangerCommand
    Unreadable = Unreadable
    Nobody = Nobody
    NoFile = NoFile
    Blank = Blank
    Readable = TRUE
    MutexWaitPasses = 2
    RecheckPasses = 1
    BreakPasses = 1
INVARIANTS OneNamedHolder NoAbandonedMutex
PROPERTIES BootsServeOrEnd
