SPECIFICATION FairSpec
CONSTANTS
    p = p
    q = q
    Peers = {p, q}
    v = v
    Views = {v}
    k = k
    g = g
    Keys = {k, g}
    Gone = {g}
    OtherViews = 1
    OtherPins = 1
    TTL = 100
    Fonts = {1, 2}
    MaxEdits = 2
    Skew <- NoSkew
INVARIANTS
    OwnEditsStand
    SameTimeSameSettings
PROPERTIES
    PeersConverge
