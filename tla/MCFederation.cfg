SPECIFICATION Spec
CONSTANTS
    x = x
    c1 = c1
    c2 = c2
    Names = {x}
    Calls = {c1, c2}
    Threshold = 3
    Grace = 3
INVARIANTS OneProbe OpensWhenGraceEnds RejectedIsNotServed
PROPERTY Recovers
