SPECIFICATION Spec
CONSTANTS
    Tokens = {t1}
    Conns = {c1, c2}
    Calls = {r1}
    Sessions = {s1}
    Kinds <- AllKinds
    MaxAnswers = 2
    None = None
    Superseded = Superseded
PROPERTIES
    SuccessorStaysTracked
