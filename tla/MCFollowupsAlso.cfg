SPECIFICATION Spec
CONSTANTS
    a = a
    Names = {a}
    MaxFollowups = 2
    c1 = c1
    Clients = {c1}
    b1 = b1
    b2 = b2
    Bells = {b1, b2}
    MaxStamp = 4
SYMMETRY Symmetry
INVARIANTS
    TypeOK
    IdsUnique
PROPERTY
    HaltLiftedAlone
