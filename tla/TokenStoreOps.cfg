SPECIFICATION Spec
CONSTANTS
    Procs = {p1, p2}
    Tokens = {k1, k2}
    MaxFaults = 1
    None = None
SYMMETRY Symmetric
INVARIANTS
    TypeOK
    LockIsHeld
    RedeemedOnce
    NoEntryAfterDelete
    MintsKept
PROPERTIES
    Lifecycle
    StoreIsAtomic
