SPECIFICATION GroupsSpec
CONSTANTS
    d1 = d1
    d2 = d2
    d3 = d3
    s1 = s1
    s2 = s2
    r1 = r1
    Devices = {d1, d2, d3}
    Sessions = {s1, s2}
    Requests = {r1}
SYMMETRY Symmetry
INVARIANTS
    GroupsExist
    MarksAreTrue
