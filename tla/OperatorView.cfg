SPECIFICATION MCSpec
CHECK_DEADLOCK FALSE
CONSTANTS
    BatchSize = 2
    MaxBuffer = 3
    MaxLines = 9
    MaxFailures = 4
    root = root
    status = status
    s1 = s1
    s2 = s2
    s3 = s3
    one = one
    two = two
    get = get
    Connections = {one, two}
    Root = root
    Routes = {root, status}
    Segments = {s1, s2, s3}
    Overflow = "/_unmatched"
    Methods = {get}
    Statuses = {"200", "503"}
    UnmatchedCap = 1
    MaxSeries = 4
    MaxRequests = 7
    fleet = fleet
    board = board
    Probes = {fleet, board}
    MaxWindow = 2
    MaxTime = 6
    None = None
    Unreadable = Unreadable
INVARIANTS StreamAccounted DroppedIsCounted RequestsTold UnmatchedLeaveRoom WindowsBounded
PROPERTIES Drains
