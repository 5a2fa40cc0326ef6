SPECIFICATION FairSpec
CONSTANTS
    Socks = {s1, s2, s3}
    Addrs = {a1, a2}
    MaxUnauth = 2
    MaxFailures = 2
    Window = 2
    Duration = 1
    None = None
INVARIANTS
    TypeOK
    SlotsConserved
    LateVerdictsBounded
PROPERTIES
    FirstFrameDecided
