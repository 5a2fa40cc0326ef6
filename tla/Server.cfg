SPECIFICATION FairSpec
CONSTANTS
    Tokens = {t1}
    Sessions = {s1}
    Conns = {c1, c2}
    Harnesses = {"claude"}
    ReconnectAfter = 1
    GoneAfter = 1
    PruneAfter = 2
    None = None
INVARIANTS
    TypeOK
    AnswersAgree
PROPERTIES
    LostCredentialIsFinal
    DeletedOnlyFades
    DeleteDisconnects
    DeleteUnroutes
