CONSTANTS
    r1 = r1  r2 = r2  r3 = r3  r4 = r4
    n1 = n1  n2 = n2  n3 = n3
    Rows <- MCRows
    NodeIds <- MCNodeIds
    Timestamps = {1, 2}
    Bitmaps <- MCBitmaps
    ChanLimit = 1
SYMMETRY Symmetry
SPECIFICATION Spec
INVARIANTS
    NoBatchAbort
CHECK_DEADLOCK FALSE
