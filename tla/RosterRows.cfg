SPECIFICATION FairSpec
CONSTANTS
    Tokens = {t1, t2}
    Sessions = {s1, s2}
    ReconnectAfter = 1
    GoneAfter = 2
    PruneAfter = 4
    None = None
INVARIANTS
    TypeOK
PROPERTIES
    NoLiveTakeover
    PruneOnlyGone
    OnlyPresenceRevives
    SilentRowsVanish
