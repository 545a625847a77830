CONSTANTS
    p1 = p1  p2 = p2  p3 = p3
    i1 = i1  i2 = i2  i3 = i3
    NoIP = NoIP
    NoLoc = NoLoc
    NoResponse = NoResponse
    PeerOrder <- MCPeerOrder
    IPs <- MCIPs
    BATCH_SIZE = 2
    MaxRuns = 1
    MaxPrepRuns = 1
SPECIFICATION PSpec
SYMMETRY Symmetry
INVARIANTS
    WholeWhenIdle
CHECK_DEADLOCK FALSE
