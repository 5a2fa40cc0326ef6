SPECIFICATION Spec
CONSTANTS
    Tokens = {t1}
    Conns = {c1, c2}
    Calls = {r1, r2}
    Sessions = {s1}
    Kinds <- TalkKinds
    MaxAnswers = 2
    None = None
    Superseded = Superseded
SYMMETRY Symmetric
INVARIANTS
    TypeOK
    TrackedIsLive
    NoLeakedCall
    WholeReply
PROPERTIES
    AckWakesTurn
    KeepsContract
