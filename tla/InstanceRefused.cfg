SPECIFICATION Spec
CONSTANTS
    Procs = {p1, p2}
    Addresses = {a1, a2}
    None = None
PROPERTIES
    RefusedIsClean
