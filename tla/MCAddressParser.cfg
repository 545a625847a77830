CONSTANTS
    HostLens = {0, 2}
    Fillers = {0, 1}
    UnknownTags = {0, 6}
    MaxDescs = 2
SPECIFICATION Spec
INVARIANTS
    TypeOK
    ReadablePrefixParsed
PROPERTIES
    Terminates
CHECK_DEADLOCK FALSE
