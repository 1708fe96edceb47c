SPECIFICATION Spec
CONSTANTS
    a = a
    b = b
    s1 = s1
    r1 = r1
    Names = {a, b}
    Sessions = {s1}
    MaxRenames = 1
    Requests = {r1}
PROPERTY
    RenameKeepsQueue
