CONSTANTS
    ByteVals = {0, 1, 2, 3, 8, 128, 255}
    MaxLen = 3
SPECIFICATION Spec
INVARIANTS
    TypeOK
    DecodeMatchesBits
