SPECIFICATION Spec
CONSTANTS
    Procs = {p1, p2}
    Tasks = {k1, k2}
    s1 = s1
    s2 = s2
    s3 = s3
    f1 = f1
    f2 = f2
    Sessions = {s1, s2, s3}
    Files = {f1, f2}
    safe_filename <- SafeNames
    Ids = {i1, i2}
    MaxReplies = 1
    None = None
INVARIANTS
    TypeOK
    RecordedStays
    OwnPromptsOnly
