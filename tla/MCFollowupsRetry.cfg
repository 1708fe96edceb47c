SPECIFICATION Spec
CONSTANTS
    a = a
    c1 = c1
    b1 = b1
    Names = {a}
    MaxFollowups = 2
    Clients = {c1}
    Bells = {b1}
    MaxStamp = 3
INVARIANT
    NoSecondExecution
