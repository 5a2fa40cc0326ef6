SPECIFICATION FairSpec
CONSTANTS
    Socks = {s1}
    Addrs = {a1}
    MaxUnauth = 1
    MaxFailures = 2
    Window = 2
    Duration = 1
    None = None
PROPERTIES
    PreAuthEnds
