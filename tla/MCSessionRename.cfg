SPECIFICATION Spec
CONSTANTS
    a = a
    b = b
    c = c
    s1 = s1
    s2 = s2
    r1 = r1
    Names = {a, b, c}
    Sessions = {s1, s2}
    MaxRenames = 1
    Requests = {r1}
SYMMETRY Symmetry
INVARIANTS
    KeysFollowSession
PROPERTY
    LiveQueueKept
