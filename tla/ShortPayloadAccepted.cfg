CONSTANTS
    NodeLens = {76, 77, 78, 79, 80}
    ChanLens = {174, 175}
    FlenVals = {0, 1, 2, 66, 67}
    AddrlenVals = {0, 1, 2, 3, 6}
SPECIFICATION Spec
INVARIANTS
    DecodedFieldsComplete
