SPECIFICATION Spec
CONSTANTS
    U32 = 4
    Versions = {0, 1, 2, 5}
    None = None
INVARIANTS
    FailsClosed
    SentIsRead
PROPERTIES
    ValidKeepsSession
