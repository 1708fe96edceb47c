\* Both are violated, each of them a disagreement of its own: TLC stops at
\* NeverOlder, and at DeletionsStand once that line is taken out.
SPECIFICATION Spec
CONSTANTS
    p = p
    q = q
    r = r
    Peers = {p, q, r}
    v = v
    Views = {v}
    k = k
    Keys = {k}
    Gone = {}
    OtherViews = 3
    OtherPins = 3
    TTL = 100
    Fonts = {1, 2}
    MaxEdits = 3
    Skew <- NoSkew
PROPERTY
    NeverOlder
INVARIANT
    DeletionsStand
