CONSTANTS
    h1 = h1  h2 = h2
    a = a  b = b  c = c
    HashOrder <- MCHashOrder
    PeerOrder <- MCPeerOrder
    Times = {1, 2}
    MsgTypeVals = {1, 2, 4}
    N = 6
    MIN_PEERS = 2
    MIN_WAVE = 2
SPECIFICATION Spec
INVARIANTS
    TypeOK
    ScoresAccountForArrivals
    SelectedDistinct
    WavefrontsForSelected
CHECK_DEADLOCK FALSE
