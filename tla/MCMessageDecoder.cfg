CONSTANTS
    NodeLens = {0, 2, 75, 76, 77, 78, 79, 80, 81}
    ChanLens = {0, 173, 174, 175, 176}
    FlenVals = {0, 1, 2, 3, 100, 200}
    AddrlenVals = {0, 1, 2, 3, 6}
SPECIFICATION Spec
INVARIANTS
    TypeOK
    NodeFixedFieldsComplete
    RawRoundTrip
