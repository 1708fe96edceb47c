SPECIFICATION Spec
CONSTANTS
    s1 = s1
    s2 = s2
    h1 = h1
    h2 = h2
    t1 = t1
    t2 = t2
    p1 = p1
    p2 = p2
    Sessions = {s1}
    Paths = {h1, h2}
    SocketPathFor <- OwnPaths
    Tasks = {t1, t2}
    Procs = {p1, p2}
    MaxTtyds = 1
PROPERTY
    NeverBlackedOut
