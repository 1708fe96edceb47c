SPECIFICATION FairSpec
CONSTANTS
    a = a
    b = b
    s1 = s1
    r1 = r1
    Names = {a, b}
    Sessions = {s1}
    MaxRenames = 2
    Requests = {r1}
INVARIANT
    TypeOK
PROPERTY
    JournalResolved
